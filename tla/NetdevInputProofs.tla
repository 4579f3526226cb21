-------------------------- MODULE NetdevInputProofs --------------------------
(***************************************************************************)
(* Proofs about NetdevInput, for every memory, cache, set of keys, program *)
(* and burst, and every sequence of steps of the threads.  The invariant   *)
(* has five parts: MemoryInv, of references and grace periods; CallInv, of *)
(* the stack of calls and the batches; PacketInv, of who has which packet; *)
(* NoOverlap; and FitInv, of the keys that cache entries, rules and        *)
(* batches match.                                                          *)
(***************************************************************************)
EXTENDS NetdevInput, FiniteSetTheorems, SequenceTheorems, TLAPS

-----------------------------------------------------------------------------
(* Types *)

ActionKind == {"output", "recirc", "tunnel", "userspace"}
MaybeFlow == FlowObj \cup {Null}
Flow == [st: {"free", "live"}, key: Key \cup {Null}, acts: Seq(ActionKind), dead: BOOLEAN]
Slot == 0 .. Slots - 1
Entry == [flow: MaybeFlow, key: Key \cup {Null}]
Reader == {"pmd", "dump"}
Waiting == [flow: FlowObj, wait: SUBSET Reader]
Missed == [p: Packet, key: Key, rule: MaybeFlow]
Batch == [flow: FlowObj, pkts: Seq(Packet)]
InputFrame ==
    [kind: {"input"}, pc: {"emc", "upcall", "install", "insert", "queue", "reset", "execute"},
     pkts: Seq(Packet), missed: Seq(Missed), i: Nat \ {0}, new: MaybeFlow, acts: Seq(ActionKind),
     batches: Seq(Batch), own: SUBSET Packet, old: SUBSET FlowObj]
ActionsFrame == [kind: {"actions"}, pkts: Seq(Packet), acts: Seq(ActionKind), steal: BOOLEAN]
UserFrame == [kind: {"userspace"}, pkts: Seq(Packet), steal: BOOLEAN]
CallerFrame == [kind: {"caller"}, pkts: Seq(Packet)]
Frame == InputFrame \cup ActionsFrame \cup UserFrame \cup CallerFrame

\* Where an input call is: what its fields mean there.  A call begins with a burst at
\* most, and so do the actions it carries out.
PlaceOk(fr) ==
    /\ fr.kind = "input" =>
         /\ fr.pc = "emc" => fr.i = 1 /\ \A j \in DOMAIN fr.missed: fr.missed[j].rule = Null
         /\ fr.pc # "emc" => fr.pkts = <<>>
         /\ fr.pc \in {"install", "insert"} => fr.i \in DOMAIN fr.missed /\ fr.missed[fr.i].rule = Null
         /\ fr.pc = "insert" => fr.new # Null
         /\ fr.pc = "execute" => \A n \in DOMAIN fr.batches: Len(fr.batches[n].pkts) <= Burst
         /\ IsFiniteSet(fr.own) /\ Cardinality(fr.own) <= Burst
    /\ fr.kind \in {"actions", "userspace"} => Len(fr.pkts) <= Burst

StackTypes == stack \in Seq(Frame) /\ \A l \in DOMAIN stack: PlaceOk(stack[l])

FlowTypes ==
    /\ flow \in [FlowObj -> Flow] /\ ref \in [FlowObj -> Nat]
    /\ cls \in SUBSET FlowObj /\ table \in SUBSET FlowObj /\ dump \in SUBSET FlowObj
    /\ emc \in [Slot -> Entry] /\ sweep \in Slot
    /\ cmd \in [pc: {"idle", "next", "unlinked"}, todo: SUBSET FlowObj, cur: MaybeFlow]
    /\ deferred \in SUBSET Waiting

-----------------------------------------------------------------------------
(* References *)

Refs(e, f) == {s \in Slot: e[s].flow = f}

\* The count of a flow is one for the table and one for each entry of the cache; a
\* flow without references is freed once, later.
Counted == \A f \in FlowObj: ref[f] = (IF f \in table THEN 1 ELSE 0) + Cardinality(Refs(emc, f))
DeferredOnce ==
    /\ \A f \in FlowObj: ref[f] > 0 => flow[f].st = "live" /\ flow[f].key \in Key
    /\ \A x \in deferred: ref[x.flow] = 0 /\ flow[x.flow].st = "live"
    /\ \A x, y \in deferred: x.flow = y.flow => x = y

\* A flow leaves the classifier and then the table, and is dead from then on.
TableInv ==
    /\ \A f \in table: ~ flow[f].dead
    /\ cmd.pc # "unlinked" => cls = table
    /\ cmd.pc = "unlinked" => cmd.cur \in table /\ cls = table \ {cmd.cur}
    /\ cmd.todo \subseteq cls

\* A flow that a reader holds is not freed before it has finished.
Waits(f, r) == flow[f].st = "live" /\ \A x \in deferred: x.flow = f => r \in x.wait

DumpInv == \A f \in dump: Waits(f, "dump")

HeldBy(fr) ==
    IF fr.kind # "input" THEN {}
    ELSE fr.old \cup (({fr.new} \cup {m.rule: m \in ToSet(fr.missed)}
                       \cup {b.flow: b \in ToSet(fr.batches)}) \ {Null})

HeldInv == \A l \in DOMAIN stack: \A f \in HeldBy(stack[l]): Waits(f, "pmd")

\* What does not depend on the calls, and what is about them.
MemoryInv == FlowTypes /\ Counted /\ DeferredOnce /\ TableInv /\ DumpInv

BatchType == batch \in [FlowObj -> (Nat \X Nat) \cup {Null}]

\* The batch a flow refers to is one of its own, and not yet executed.
BatchPlace ==
    \A f \in FlowObj: batch[f] # Null =>
        LET l == batch[f][1] IN
        /\ l \in Frames("input") /\ stack[l].pc # "execute"
        /\ batch[f][2] \in DOMAIN stack[l].batches
        /\ stack[l].batches[batch[f][2]].flow = f

\* An input call makes other calls in an upcall or as it executes a batch.
Nested == \A l \in DOMAIN stack: l # Len(stack) /\ stack[l].kind = "input" =>
              stack[l].pc \in {"upcall", "install", "execute"}

CallInv == StackTypes /\ HeldInv /\ BatchType /\ BatchPlace /\ Nested

-----------------------------------------------------------------------------
(* Counting references *)

LEMMA SlotFinite == IsFiniteSet(Slot) /\ Slots > 0 /\ Slots \in Nat
  BY NetdevInputAssumption, FS_Interval DEF Slot

LEMMA RefsFinite ==
  ASSUME NEW e, NEW f
  PROVE  IsFiniteSet(Refs(e, f)) /\ Cardinality(Refs(e, f)) \in Nat
  BY SlotFinite, FS_Subset, FS_CardinalityType DEF Refs

\* One entry of the cache changes.
LEMMA RefsChange ==
  ASSUME NEW e, NEW d, NEW s \in Slot, \A t \in Slot \ {s}: d[t].flow = e[t].flow, NEW f
  PROVE  Cardinality(Refs(d, f)) = Cardinality(Refs(e, f)) + (IF d[s].flow = f THEN 1 ELSE 0)
                                      - (IF e[s].flow = f THEN 1 ELSE 0)
<1>1. IsFiniteSet(Refs(d, f)) /\ IsFiniteSet(Refs(e, f)) /\ Cardinality(Refs(e, f)) \in Nat
      /\ Cardinality(Refs(d, f)) \in Nat
  BY RefsFinite
<1>2. CASE d[s].flow = f /\ e[s].flow # f
  <2>1. Refs(d, f) = Refs(e, f) \cup {s} /\ s \notin Refs(e, f)
    BY <1>2 DEF Refs
  <2> QED  BY <2>1, <1>1, <1>2, FS_AddElement
<1>3. CASE d[s].flow # f /\ e[s].flow = f
  <2>1. Refs(e, f) = Refs(d, f) \cup {s} /\ s \notin Refs(d, f)
    BY <1>3 DEF Refs
  <2>2. Cardinality(Refs(e, f)) = Cardinality(Refs(d, f)) + 1
    BY <2>1, <1>1, FS_AddElement
  <2> QED  BY <2>2, <1>1, <1>3
<1>4. CASE (d[s].flow = f) <=> (e[s].flow = f)
  <2>1. Refs(d, f) = Refs(e, f)
    BY <1>4 DEF Refs
  <2> QED  BY <2>1, <1>1, <1>4
<1> QED  BY <1>2, <1>3, <1>4

\* A flow the table or the cache refers to is counted, ...
LEMMA InUse ==
  ASSUME FlowTypes, Counted, NEW f \in FlowObj,
         f \in table \/ \E s \in Slot: emc[s].flow = f
  PROVE  ref[f] > 0
<1>1. Cardinality(Refs(emc, f)) \in Nat
  BY RefsFinite
<1>2. CASE f \in table
  BY <1>1, <1>2 DEF Counted
<1>3. CASE \E s \in Slot: emc[s].flow = f
  <2>1. Refs(emc, f) # {}
    BY <1>3 DEF Refs
  <2>2. Cardinality(Refs(emc, f)) # 0
    BY <2>1, RefsFinite, FS_EmptySet
  <2> QED  BY <2>2, <1>1 DEF Counted
<1> QED  BY <1>2, <1>3

\* ... and one that is counted waits for every reader that will find it.
LEMMA CountedWaits ==
  ASSUME FlowTypes, DeferredOnce, NEW f \in FlowObj, ref[f] > 0, NEW r
  PROVE  Waits(f, r)
  BY DEF FlowTypes, DeferredOnce, Waits

LEMMA ClsInTable ==
  ASSUME FlowTypes, TableInv
  PROVE  cls \subseteq table
  BY DEF FlowTypes, TableInv

\* What References does with a reference more and one less.
LEMMA ReferencesOne ==
  ASSUME FlowTypes, NEW new \in MaybeFlow, NEW old \in MaybeFlow, References(One(new), One(old))
  PROVE  /\ ref' = [f \in FlowObj |-> ref[f] + (IF f = new THEN 1 ELSE 0) - (IF f = old THEN 1 ELSE 0)]
         /\ deferred' = deferred \cup {[flow |-> f, wait |-> Readers]:
                                          f \in {g \in FlowObj: ref[g] > 0 /\ ref'[g] = 0}}
<1>1. Null \notin FlowObj
  BY NetdevInputAssumption
<1>2. \A f \in FlowObj: \A x \in MaybeFlow:
        (IF f \in DOMAIN One(x) THEN One(x)[f] ELSE 0) = (IF f = x THEN 1 ELSE 0)
  <2> TAKE f \in FlowObj
  <2> TAKE x \in MaybeFlow
  <2>1. CASE x = Null
    BY <2>1, <1>1 DEF One
  <2>2. CASE x # Null
    <3>1. One(x) = [y \in {x} |-> 1]
      BY <2>2 DEF One
    <3> QED  BY <3>1
  <2> QED  BY <2>1, <2>2
<1>3. ref' = [f \in FlowObj |-> ref[f] + (IF f \in DOMAIN One(new) THEN One(new)[f] ELSE 0)
                                  - (IF f \in DOMAIN One(old) THEN One(old)[f] ELSE 0)]
  BY DEF References
<1>4. ref' = [f \in FlowObj |-> ref[f] + (IF f = new THEN 1 ELSE 0) - (IF f = old THEN 1 ELSE 0)]
  BY <1>2, <1>3
<1>5. \A g \in FlowObj: ref'[g] = ref[g] + (IF g \in DOMAIN One(new) THEN One(new)[g] ELSE 0)
                                  - (IF g \in DOMAIN One(old) THEN One(old)[g] ELSE 0)
  BY <1>3
<1> QED  BY <1>4, <1>5 DEF References

Dropped == deferred' = deferred \cup {[flow |-> f, wait |-> Readers]:
                                         f \in {g \in FlowObj: ref[g] > 0 /\ ref'[g] = 0}}

LEMMA ReadersAre == Readers \subseteq Reader /\ (stack # <<>> => "pmd" \in Readers)
                    /\ (dump # {} => "dump" \in Readers)
  BY DEF Readers, Reader

\* Giving up references keeps what readers hold.
LEMMA DropKeeps ==
  ASSUME FlowTypes, DeferredOnce, Dropped, ref' \in [FlowObj -> Nat],
         \A f \in FlowObj: ref'[f] > 0 => ref[f] > 0,
         flow' \in [FlowObj -> Flow],
         \A f \in FlowObj: flow'[f].st = flow[f].st /\ flow'[f].key = flow[f].key
  PROVE  /\ deferred' \in SUBSET Waiting
         /\ DeferredOnce'
         /\ \A f \in FlowObj, r \in Readers: Waits(f, r) => Waits(f, r)'
<1> DEFINE D == {[flow |-> f, wait |-> Readers]: f \in {g \in FlowObj: ref[g] > 0 /\ ref'[g] = 0}}
<1>1. deferred' = deferred \cup D
  BY DEF Dropped
<1>2. D \subseteq Waiting
  BY ReadersAre DEF Waiting
<1>3. \A x \in D: x.flow \in FlowObj /\ ref[x.flow] > 0 /\ ref'[x.flow] = 0 /\ x.wait = Readers
  OBVIOUS
<1>4. \A x, y \in D: x.flow = y.flow => x = y
  OBVIOUS
<1>5. deferred \subseteq Waiting /\ ref \in [FlowObj -> Nat]
  BY DEF FlowTypes
<1>6. \A x \in deferred: x.flow \in FlowObj /\ ref[x.flow] = 0
  BY <1>5 DEF DeferredOnce, Waiting
<1> HIDE DEF D
<1>7. deferred' \in SUBSET Waiting
  BY <1>1, <1>2, <1>5
<1>8. (\A f \in FlowObj: ref[f] > 0 => flow[f].st = "live" /\ flow[f].key \in Key)'
  BY DEF DeferredOnce
<1>9. \A x \in deferred: ref'[x.flow] = 0
  <2> TAKE x \in deferred
  <2>1. x.flow \in FlowObj /\ ref[x.flow] = 0
    BY <1>6
  <2>2. ref'[x.flow] \in Nat /\ ~(ref'[x.flow] > 0)
    BY <2>1
  <2> QED  BY <2>2
<1>10. (\A x \in deferred: ref[x.flow] = 0 /\ flow[x.flow].st = "live")'
  BY <1>1, <1>3, <1>6, <1>9 DEF DeferredOnce
<1>11. \A x \in deferred, y \in D: x.flow # y.flow
  BY <1>3, <1>6
<1>12. (\A x, y \in deferred: x.flow = y.flow => x = y)'
  BY <1>1, <1>4, <1>11 DEF DeferredOnce
<1>13. ASSUME NEW f \in FlowObj, NEW r \in Readers, Waits(f, r)
       PROVE  Waits(f, r)'
  <2>1. flow'[f].st = "live"
    BY <1>13 DEF Waits
  <2>2. \A x \in deferred': x.flow = f => r \in x.wait
    BY <1>1, <1>3, <1>13 DEF Waits
  <2> QED  BY <2>1, <2>2 DEF Waits
<1>14. DeferredOnce'
  BY <1>8, <1>10, <1>12 DEF DeferredOnce
<1> QED  BY <1>7, <1>13, <1>14

-----------------------------------------------------------------------------
(* Steps on flows, the table and the cache *)

\* What the calls under way hold stays as it is.
PinKept == stack # <<>> /\ stack' # <<>> =>
    \A f \in FlowObj: Waits(f, "pmd") =>
        Waits(f, "pmd")' /\ flow'[f].key = flow[f].key /\ (flow[f].dead => flow'[f].dead)

memory == <<flow, ref, deferred, cls, table, cmd, dump, emc, sweep>>

LEMMA SameMemory ==
  ASSUME MemoryInv, UNCHANGED memory
  PROVE  MemoryInv' /\ PinKept
<1>1. \A f, r: Waits(f, r)' = Waits(f, r)
  BY DEF memory, Waits
<1>2. FlowTypes' /\ Counted' /\ DeferredOnce' /\ TableInv' /\ DumpInv'
  BY <1>1 DEF memory, MemoryInv, FlowTypes, Counted, DeferredOnce, TableInv, DumpInv, Refs
<1> QED  BY <1>1, <1>2 DEF MemoryInv, PinKept, memory

\* One entry of the cache gives up its reference and may take another.
LEMMA EntryStep ==
  ASSUME MemoryInv, NEW s \in Slot, NEW new \in MaybeFlow,
         new # Null => ref[new] > 0,
         emc' \in [Slot -> Entry], emc'[s].flow = new, new # emc[s].flow,
         \A t \in Slot \ {s}: emc'[t].flow = emc[t].flow,
         References(One(new), One(emc[s].flow)),
         UNCHANGED <<flow, cls, table, cmd, dump>>, sweep' \in Slot
  PROVE  MemoryInv' /\ PinKept
<1> DEFINE old == emc[s].flow
<1>1. FlowTypes /\ Counted /\ DeferredOnce /\ TableInv /\ DumpInv
  BY DEF MemoryInv
<1>2. old \in MaybeFlow
  BY <1>1 DEF FlowTypes, Entry
<1>3. /\ ref' = [f \in FlowObj |-> ref[f] + (IF f = new THEN 1 ELSE 0) - (IF f = old THEN 1 ELSE 0)]
      /\ Dropped
  BY <1>1, <1>2, ReferencesOne DEF Dropped
<1>4. \A f \in FlowObj: f = old => ref[f] > 0
  BY <1>1, InUse
<1>5. ref' \in [FlowObj -> Nat]
  <2>1. \A f \in FlowObj: ref[f] \in Nat
    BY <1>1 DEF FlowTypes
  <2>2. \A f \in FlowObj: ref[f] + (IF f = new THEN 1 ELSE 0) - (IF f = old THEN 1 ELSE 0) \in Nat
    BY <2>1, <1>4
  <2> QED  BY <2>2, <1>3
<1>6. \A f \in FlowObj: ref'[f] > 0 => ref[f] > 0
  <2>1. Null \notin FlowObj
    BY NetdevInputAssumption
  <2> TAKE f \in FlowObj
  <2>2. ref[f] \in Nat /\ ref'[f] = ref[f] + (IF f = new THEN 1 ELSE 0) - (IF f = old THEN 1 ELSE 0)
    BY <1>1, <1>3 DEF FlowTypes
  <2> QED  BY <2>1, <2>2
<1>7. flow' \in [FlowObj -> Flow]
  BY <1>1 DEF FlowTypes
<1>8. deferred' \in SUBSET Waiting /\ DeferredOnce'
      /\ \A f \in FlowObj, r \in Readers: Waits(f, r) => Waits(f, r)'
  BY <1>1, <1>3, <1>5, <1>6, <1>7, DropKeeps
<1>9. Counted'
  <2> SUFFICES ASSUME NEW f \in FlowObj
               PROVE  ref'[f] = (IF f \in table THEN 1 ELSE 0) + Cardinality(Refs(emc', f))
    BY DEF Counted, Refs
  <2>1. Cardinality(Refs(emc', f)) = Cardinality(Refs(emc, f)) + (IF new = f THEN 1 ELSE 0)
                                      - (IF old = f THEN 1 ELSE 0)
    BY RefsChange
  <2>2. ref[f] = (IF f \in table THEN 1 ELSE 0) + Cardinality(Refs(emc, f))
    BY <1>1 DEF Counted
  <2>3. Cardinality(Refs(emc, f)) \in Nat
    BY RefsFinite
  <2> QED  BY <2>1, <2>2, <2>3, <1>3
<1>10. FlowTypes'
  BY <1>1, <1>5, <1>8 DEF FlowTypes
<1>11. TableInv'
  BY <1>1 DEF TableInv
<1>12. DumpInv'
  BY <1>1, <1>8, ReadersAre DEF DumpInv, FlowTypes
<1>13. PinKept
  BY <1>8, ReadersAre DEF PinKept
<1> QED  BY <1>8, <1>9, <1>10, <1>11, <1>12, <1>13 DEF MemoryInv

LEMMA PlacesAre ==
  ASSUME NEW k \in Key
  PROVE  Places(k)[1] \in Slot /\ Places(k)[2] \in Slot
<1>1. Hash[k] \in Nat /\ Slots \in Nat /\ Slots > 0
  BY NetdevInputAssumption
<1>2. Hash[k] % Slots \in Slot
  BY <1>1 DEF Slot
<1>3. Hash[k] \div Slots \in Nat
  BY <1>1
<1>4. (Hash[k] \div Slots) % Slots \in Slot
  BY <1>1, <1>3 DEF Slot
<1> QED  BY <1>2, <1>4 DEF Places

LEMMA PlaceIs ==
  ASSUME NEW k \in Key
  PROVE  EmcPlace(k) \in Slot
<1> DEFINE s == Places(k)[1]
           t == Places(k)[2]
<1>1. s \in Slot /\ t \in Slot
  BY PlacesAre
<1> HIDE DEF s, t
<1>2. EmcPlace(k) = CASE emc[s].key = k -> s
      [] emc[s].key # k /\ emc[t].key = k -> t
      [] OTHER -> IF (Alive(s) /\ ~Alive(t)) \/ HashAt(t) < HashAt(s) THEN t ELSE s
  BY DEF EmcPlace, s, t
<1>3. EmcPlace(k) \in {s, t}
  BY <1>2
<1> QED  BY <1>1, <1>3

LEMMA EmcInsertStep ==
  ASSUME MemoryInv, NEW k \in Key, NEW f \in FlowObj, EmcInsert(k, f),
         UNCHANGED <<flow, cls, table, cmd, dump, sweep>>
  PROVE  MemoryInv' /\ PinKept
<1>1. FlowTypes /\ Counted /\ DeferredOnce /\ TableInv /\ DumpInv
  BY DEF MemoryInv
<1> DEFINE s == EmcPlace(k)
           old == emc[s].flow
           new == IF ref[f] > 0 THEN f ELSE Null
<1>2. s \in Slot
  BY PlaceIs
<1>3. emc \in [Slot -> Entry] /\ sweep \in Slot
  BY <1>1 DEF FlowTypes
<1>4. CASE old = f
  <2>1. emc' = [emc EXCEPT ![s].key = k] /\ UNCHANGED <<ref, deferred>>
    BY <1>4 DEF EmcInsert
  <2> HIDE DEF s
  <2>2. emc' \in [Slot -> Entry] /\ \A t \in Slot: emc'[t].flow = emc[t].flow
    BY <2>1, <1>2, <1>3 DEF Entry
  <2>3. \A g: Refs(emc', g) = Refs(emc, g)
    BY <2>2 DEF Refs
  <2>4. \A g, r: Waits(g, r)' = Waits(g, r)
    BY <2>1 DEF Waits
  <2>5. FlowTypes' /\ TableInv'
    BY <1>1, <2>1, <2>2 DEF FlowTypes, TableInv
  <2>6. DeferredOnce' /\ DumpInv'
    BY <1>1, <2>1, <2>4 DEF DeferredOnce, DumpInv
  <2>7. Counted'
    BY <1>1, <2>1, <2>3 DEF Counted, Refs
  <2> QED  BY <2>4, <2>5, <2>6, <2>7 DEF MemoryInv, PinKept
<1>5. CASE old # f
  <2>1. emc' = [emc EXCEPT ![s] = [flow |-> new, key |-> k]] /\ References(One(new), One(old))
    BY <1>5 DEF EmcInsert
  <2> HIDE DEF s
  <2>2. new \in MaybeFlow
    BY DEF MaybeFlow
  <2>3. emc' \in [Slot -> Entry] /\ emc'[s].flow = new
        /\ \A t \in Slot \ {s}: emc'[t].flow = emc[t].flow
    BY <2>1, <2>2, <1>2, <1>3 DEF Entry
  <2>4. new # Null => ref[new] > 0
    OBVIOUS
  <2>5. CASE new # old
    <3> HIDE DEF new
    <3> QED  BY <2>1, <2>2, <2>3, <2>4, <2>5, <1>2, <1>3, EntryStep
  <2>6. CASE new = old
    <3>1. new = Null /\ ~(ref[f] > 0)
      BY <2>6, <1>5
    <3>2. \A t \in Slot: emc'[t].flow = emc[t].flow
      BY <2>3, <2>6
    <3> HIDE DEF new
    <3>3. /\ ref' = [g \in FlowObj |-> ref[g] + (IF g = Null THEN 1 ELSE 0) - (IF g = Null THEN 1 ELSE 0)]
          /\ Dropped
      BY <1>1, <2>1, <2>2, <2>6, <3>1, ReferencesOne DEF Dropped
    <3>4. ref \in [FlowObj -> Nat] /\ Null \notin FlowObj
      BY <1>1, NetdevInputAssumption DEF FlowTypes
    <3>5. ref' = ref
      <4>1. \A g \in FlowObj: ref'[g] = ref[g]
        BY <3>3, <3>4
      <4>2. ref' = [g \in FlowObj |-> ref'[g]]
        BY <3>3
      <4> QED  BY <4>1, <4>2, <3>4
    <3>6. deferred' = deferred
      <4>1. \A g \in FlowObj: ~(ref[g] > 0 /\ ref'[g] = 0)
        BY <3>4, <3>5
      <4> QED  BY <3>3, <4>1 DEF Dropped
    <3>7. \A g: Refs(emc', g) = Refs(emc, g)
      BY <3>2 DEF Refs
    <3>8. \A g, r: Waits(g, r)' = Waits(g, r)
      BY <3>6 DEF Waits
    <3>9. FlowTypes' /\ TableInv'
      BY <1>1, <3>5, <3>6, <2>3 DEF FlowTypes, TableInv
    <3>10. DeferredOnce' /\ DumpInv'
      BY <1>1, <3>5, <3>6, <3>8 DEF DeferredOnce, DumpInv
    <3>11. Counted'
      BY <1>1, <3>5, <3>7 DEF Counted, Refs
    <3> QED  BY <3>8, <3>9, <3>10, <3>11 DEF MemoryInv, PinKept
  <2> QED  BY <2>5, <2>6
<1> QED  BY <1>4, <1>5

LEMMA SweepStep ==
  ASSUME MemoryInv, Sweep
  PROVE  MemoryInv' /\ PinKept
<1>1. FlowTypes /\ Counted /\ DeferredOnce /\ TableInv /\ DumpInv
  BY DEF MemoryInv
<1>2. emc \in [Slot -> Entry] /\ sweep \in Slot /\ UNCHANGED <<flow, cls, table, cmd, dump>>
  BY <1>1 DEF FlowTypes, Sweep, tableVars
<1>3. sweep' \in Slot
  BY <1>2, SlotFinite DEF Slot, Sweep
<1>4. CASE emc[sweep].flow # Null /\ ~Alive(sweep)
  <2>1. emc' = [emc EXCEPT ![sweep].flow = Null] /\ References(One(Null), One(emc[sweep].flow))
    BY <1>4 DEF Sweep, One
  <2>2. emc' \in [Slot -> Entry] /\ emc'[sweep].flow = Null
        /\ \A t \in Slot \ {sweep}: emc'[t].flow = emc[t].flow
    BY <2>1, <1>2 DEF Entry, MaybeFlow
  <2>3. Null \in MaybeFlow
    BY DEF MaybeFlow
  <2> QED  BY <2>1, <2>2, <2>3, <1>2, <1>3, <1>4, EntryStep
<1>5. CASE ~(emc[sweep].flow # Null /\ ~Alive(sweep))
  <2>1. UNCHANGED <<emc, ref, deferred>>
    BY <1>5 DEF Sweep
  <2>2. \A f, r: Waits(f, r)' = Waits(f, r)
    BY <2>1, <1>2 DEF Waits
  <2>3. FlowTypes' /\ Counted' /\ DeferredOnce' /\ TableInv' /\ DumpInv'
    BY <1>1, <1>2, <1>3, <2>1, <2>2 DEF FlowTypes, Counted, DeferredOnce, TableInv, DumpInv, Refs
  <2> QED  BY <2>2, <2>3, <1>2 DEF MemoryInv, PinKept
<1> QED  BY <1>4, <1>5

LEMMA ReloadStep ==
  ASSUME MemoryInv, Reload
  PROVE  MemoryInv'
<1>1. FlowTypes /\ Counted /\ DeferredOnce /\ TableInv /\ DumpInv
  BY DEF MemoryInv
<1> DEFINE held == {emc[s].flow: s \in DOMAIN emc} \ {Null}
           less == [f \in held |-> Cardinality({s \in DOMAIN emc: emc[s].flow = f})]
<1>2. References(<<>>, less) /\ emc' = [s \in DOMAIN emc |-> Empty] /\ sweep' = 0
      /\ UNCHANGED <<flow, cls, table, cmd, dump>>
  BY DEF Reload, tableVars
<1>3. emc \in [Slot -> Entry] /\ DOMAIN emc = Slot
  BY <1>1 DEF FlowTypes
<1>4. Null \notin FlowObj
  BY NetdevInputAssumption
<1>5. \A f \in FlowObj: (IF f \in held THEN less[f] ELSE 0) = Cardinality(Refs(emc, f))
  <2> TAKE f \in FlowObj
  <2>1. CASE f \in held
    BY <2>1, <1>3 DEF Refs
  <2>2. CASE f \notin held
    <3>1. Refs(emc, f) = {}
      BY <2>2, <1>3, <1>4 DEF Refs
    <3> QED  BY <3>1, <2>2, FS_EmptySet
  <2> QED  BY <2>1, <2>2
<1>6. DOMAIN less = held
  OBVIOUS
<1> HIDE DEF less, held
<1>7. \A f \in FlowObj: ref'[f] = ref[f] + 0 - (IF f \in held THEN less[f] ELSE 0)
  BY <1>2, <1>6 DEF References
<1>8. deferred' = deferred \cup {[flow |-> f, wait |-> Readers]:
           f \in {g \in FlowObj: ref[g] > 0 /\ ref[g] + 0 - (IF g \in held THEN less[g] ELSE 0) = 0}}
  BY <1>2, <1>6 DEF References
<1>9. Dropped
  BY <1>7, <1>8 DEF Dropped
<1>10. \A f \in FlowObj: ref'[f] = (IF f \in table THEN 1 ELSE 0)
  <2> TAKE f \in FlowObj
  <2>1. ref[f] = (IF f \in table THEN 1 ELSE 0) + Cardinality(Refs(emc, f))
    BY <1>1 DEF Counted
  <2>2. Cardinality(Refs(emc, f)) \in Nat
    BY RefsFinite
  <2>3. ref'[f] = ref[f] - Cardinality(Refs(emc, f))
    BY <1>5, <1>7, <2>1, <2>2
  <2> QED  BY <2>1, <2>2, <2>3
<1>11. ref' \in [FlowObj -> Nat]
  <2>1. ref' = [f \in FlowObj |-> ref'[f]]
    BY <1>2 DEF References
  <2>2. \A f \in FlowObj: ref'[f] \in Nat
    BY <1>10
  <2> QED  BY <2>1, <2>2
<1>12. \A f \in FlowObj: ref'[f] > 0 => ref[f] > 0
  BY <1>1, <1>10, InUse
<1>13. flow' \in [FlowObj -> Flow]
  BY <1>1, <1>2 DEF FlowTypes
<1>14. deferred' \in SUBSET Waiting /\ DeferredOnce'
       /\ \A f \in FlowObj, r \in Readers: Waits(f, r) => Waits(f, r)'
  BY <1>1, <1>2, <1>9, <1>11, <1>12, <1>13, DropKeeps
<1>15. emc' \in [Slot -> Entry] /\ \A s \in Slot: emc'[s].flow = Null
  BY <1>2, <1>3 DEF Entry, Empty, MaybeFlow
<1>16. sweep' \in Slot
  BY <1>2, SlotFinite DEF Slot
<1>17. FlowTypes' /\ TableInv'
  BY <1>1, <1>2, <1>11, <1>14, <1>15, <1>16 DEF FlowTypes, TableInv
<1>18. \A f \in FlowObj: Refs(emc', f) = {}
  BY <1>4, <1>15 DEF Refs
<1>19. Counted'
  <2> SUFFICES ASSUME NEW f \in FlowObj
               PROVE  ref'[f] = (IF f \in table' THEN 1 ELSE 0) + Cardinality(Refs(emc', f))
    BY DEF Counted, Refs
  <2>1. Cardinality(Refs(emc', f)) = 0
    BY <1>18, FS_EmptySet
  <2>2. ref'[f] = (IF f \in table' THEN 1 ELSE 0)
    BY <1>2, <1>10
  <2> QED  BY <2>1, <2>2
<1>20. DumpInv'
  BY <1>1, <1>2, <1>14, ReadersAre DEF DumpInv, FlowTypes
<1> QED  BY <1>14, <1>17, <1>19, <1>20 DEF MemoryInv

LEMMA FreshIs ==
  ASSUME NEW f \in FreshFlow
  PROVE  f \in FlowObj /\ flow[f].st = "free"
<1> DEFINE free == {g \in FlowObj: flow[g].st = "free"}
<1>1. FreshFlow = IF free = {} THEN {} ELSE {CHOOSE g \in free: TRUE}
  BY DEF FreshFlow
<1>2. free # {} /\ f = CHOOSE g \in free: TRUE
  BY <1>1
<1>3. f \in free
  BY <1>2
<1> QED  BY <1>3

\* Nothing refers to the memory a new flow gets.
LEMMA FreeIsUnused ==
  ASSUME MemoryInv, NEW f \in FlowObj, flow[f].st = "free"
  PROVE  /\ ref[f] = 0 /\ f \notin table \cup cls \cup cmd.todo \cup dump
         /\ \A s \in Slot: emc[s].flow # f
         /\ \A x \in deferred: x.flow # f
         /\ \A r: ~Waits(f, r)
<1>1. FlowTypes /\ Counted /\ DeferredOnce /\ TableInv /\ DumpInv
  BY DEF MemoryInv
<1>2. ref[f] \in Nat /\ ~(ref[f] > 0)
  BY <1>1 DEF FlowTypes, DeferredOnce
<1>3. f \notin table /\ \A s \in Slot: emc[s].flow # f
  BY <1>1, <1>2, InUse
<1>4. f \notin cls /\ f \notin cmd.todo
  BY <1>1, <1>3, ClsInTable DEF TableInv
<1>5. \A r: ~Waits(f, r)
  BY DEF Waits
<1>6. f \notin dump /\ \A x \in deferred: x.flow # f
  BY <1>1, <1>5 DEF DumpInv, DeferredOnce
<1> QED  BY <1>2, <1>3, <1>4, <1>5, <1>6

LEMMA FlowAddStep ==
  ASSUME MemoryInv, NEW f \in FreshFlow, NEW k \in Key, NEW acts \in Seq(ActionKind), ~Locked,
         FlowAdd(f, k, acts), UNCHANGED <<deferred, cmd, dump, emc, sweep>>
  PROVE  MemoryInv' /\ PinKept /\ Waits(f, "pmd")'
<1>1. FlowTypes /\ Counted /\ DeferredOnce /\ TableInv /\ DumpInv
  BY DEF MemoryInv
<1>2. f \in FlowObj /\ flow[f].st = "free"
  BY FreshIs
<1>3. /\ ref[f] = 0 /\ f \notin table \cup cls \cup cmd.todo \cup dump
      /\ \A s \in Slot: emc[s].flow # f
      /\ \A x \in deferred: x.flow # f
      /\ \A r: ~Waits(f, r)
  BY <1>2, FreeIsUnused
<1>4. /\ flow' = [flow EXCEPT ![f] = [NoFlow EXCEPT !.st = "live", !.key = k, !.acts = acts]]
      /\ ref' = [ref EXCEPT ![f] = 1] /\ cls' = cls \cup {f} /\ table' = table \cup {f}
  BY DEF FlowAdd
<1> DEFINE new == [NoFlow EXCEPT !.st = "live", !.key = k, !.acts = acts]
<1>5. new \in Flow /\ new.st = "live" /\ new.key = k /\ ~new.dead
  BY DEF NoFlow, Flow
<1> HIDE DEF new
<1>6. flow' = [flow EXCEPT ![f] = new]
  BY <1>4 DEF new
<1>7. flow'[f] = new /\ \A g \in FlowObj \ {f}: flow'[g] = flow[g]
  BY <1>1, <1>2, <1>6 DEF FlowTypes
<1>8. \A r: \A g \in FlowObj \ {f}: Waits(g, r)' = Waits(g, r)
  BY <1>7 DEF Waits
<1>9. FlowTypes'
  BY <1>1, <1>2, <1>4, <1>5, <1>6 DEF FlowTypes
<1>10. Counted'
  <2> SUFFICES ASSUME NEW g \in FlowObj
               PROVE  ref'[g] = (IF g \in table' THEN 1 ELSE 0) + Cardinality(Refs(emc, g))
    BY DEF Counted, Refs
  <2>1. CASE g = f
    <3>1. Refs(emc, g) = {}
      BY <1>3, <2>1 DEF Refs
    <3>2. Cardinality(Refs(emc, g)) = 0
      BY <3>1, FS_EmptySet
    <3> QED  BY <1>1, <1>4, <2>1, <3>2 DEF FlowTypes
  <2>2. CASE g # f
    BY <1>1, <1>4, <2>2 DEF FlowTypes, Counted
  <2> QED  BY <2>1, <2>2
<1>11. \A g \in FlowObj \ {f}: ref'[g] = ref[g]
  BY <1>1, <1>4 DEF FlowTypes
<1>12. (\A g \in FlowObj: ref[g] > 0 => flow[g].st = "live" /\ flow[g].key \in Key)'
  BY <1>1, <1>5, <1>7, <1>11 DEF DeferredOnce
<1>13. (\A x \in deferred: ref[x.flow] = 0 /\ flow[x.flow].st = "live")'
  BY <1>1, <1>3, <1>7, <1>11 DEF DeferredOnce, FlowTypes, Waiting
<1>14. DeferredOnce'
  BY <1>1, <1>12, <1>13 DEF DeferredOnce
<1>15. TableInv'
  BY <1>1, <1>2, <1>3, <1>4, <1>5, <1>7 DEF TableInv, Locked, FlowTypes
<1>16. DumpInv'
  BY <1>1, <1>3, <1>8 DEF DumpInv, FlowTypes
<1>17. Waits(f, "pmd")'
  BY <1>3, <1>5, <1>7 DEF Waits
<1>18. PinKept
  BY <1>3, <1>7, <1>8 DEF PinKept
<1> QED  BY <1>9, <1>10, <1>14, <1>15, <1>16, <1>17, <1>18 DEF MemoryInv

\* A reader finishes.
LEMMA LeavesStep ==
  ASSUME FlowTypes, DeferredOnce, NEW q \in Reader, deferred' = Leaves(q), UNCHANGED <<flow, ref>>
  PROVE  /\ deferred' \in SUBSET Waiting
         /\ DeferredOnce'
         /\ \A f, r: r # q /\ Waits(f, r) => Waits(f, r)'
<1>1. deferred \subseteq Waiting
  BY DEF FlowTypes
<1>2. deferred' = {[x EXCEPT !.wait = @ \ {q}]: x \in deferred}
  BY DEF Leaves
<1>3. \A x \in deferred: [x EXCEPT !.wait = @ \ {q}] = [flow |-> x.flow, wait |-> x.wait \ {q}]
  BY <1>1 DEF Waiting
<1>4. \A y \in deferred': \E x \in deferred: y = [flow |-> x.flow, wait |-> x.wait \ {q}]
  BY <1>2, <1>3
<1>5. deferred' \in SUBSET Waiting
  BY <1>1, <1>4 DEF Waiting
<1>6. (\A f \in FlowObj: ref[f] > 0 => flow[f].st = "live" /\ flow[f].key \in Key)'
  BY DEF DeferredOnce
<1>7. (\A x \in deferred: ref[x.flow] = 0 /\ flow[x.flow].st = "live")'
  BY <1>4 DEF DeferredOnce
<1>8. (\A x, y \in deferred: x.flow = y.flow => x = y)'
  <2> SUFFICES ASSUME NEW x \in deferred', NEW y \in deferred', x.flow = y.flow
               PROVE  x = y
    OBVIOUS
  <2>1. PICK u \in deferred: x = [flow |-> u.flow, wait |-> u.wait \ {q}]
    BY <1>4
  <2>2. PICK v \in deferred: y = [flow |-> v.flow, wait |-> v.wait \ {q}]
    BY <1>4
  <2>3. u.flow = v.flow
    BY <2>1, <2>2
  <2>4. u = v
    BY <2>3 DEF DeferredOnce
  <2> QED  BY <2>1, <2>2, <2>4
<1>9. \A f, r: r # q /\ Waits(f, r) => Waits(f, r)'
  BY <1>4 DEF Waits
<1> QED  BY <1>5, <1>6, <1>7, <1>8, <1>9 DEF DeferredOnce

LEMMA StackEnds ==
  ASSUME StackTypes, stack # <<>>
  PROVE  /\ Len(stack) \in Nat \ {0} /\ Front(stack) \in Seq(Frame)
         /\ Len(Front(stack)) = Len(stack) - 1
         /\ \A l \in 1 .. Len(stack) - 1: Front(stack)[l] = stack[l]
         /\ Top = stack[Len(stack)] /\ Top \in Frame /\ PlaceOk(Top)
         /\ (Len(stack) = 1 => Front(stack) = <<>>)
<1>1. stack \in Seq(Frame)
  BY DEF StackTypes
<1>2. Len(stack) \in Nat \ {0}
  BY <1>1
<1>3. Front(stack) = [l \in 1 .. Len(stack) - 1 |-> stack[l]]
  BY DEF Front
<1>4. Len(stack) - 1 \in Nat /\ \A l \in 1 .. Len(stack) - 1: stack[l] \in Frame
  BY <1>1, <1>2
<1>5. Front(stack) \in Seq(Frame) /\ Len(Front(stack)) = Len(stack) - 1
  BY <1>3, <1>4
<1>6. Top = stack[Len(stack)] /\ Top \in Frame /\ PlaceOk(Top)
  BY <1>1, <1>2 DEF Top, Last, StackTypes
<1>7. Len(stack) = 1 => Front(stack) = <<>>
  BY <1>3, <1>5
<1> QED  BY <1>2, <1>3, <1>5, <1>6, <1>7

LEMMA ReturnStep ==
  ASSUME MemoryInv, StackTypes, stack # <<>>, Return,
         UNCHANGED <<flow, ref, cls, table, cmd, dump, emc, sweep>>
  PROVE  MemoryInv' /\ PinKept
<1>1. FlowTypes /\ Counted /\ DeferredOnce /\ TableInv /\ DumpInv
  BY DEF MemoryInv
<1>2. CASE Len(stack) = 1
  <2>1. stack' = <<>> /\ deferred' = Leaves("pmd")
    BY <1>2, StackEnds DEF Return
  <2>2. /\ deferred' \in SUBSET Waiting /\ DeferredOnce'
        /\ \A f, r: r # "pmd" /\ Waits(f, r) => Waits(f, r)'
    BY <1>1, <2>1, LeavesStep DEF Reader
  <2>3. FlowTypes' /\ Counted' /\ TableInv'
    BY <1>1, <2>2 DEF FlowTypes, Counted, TableInv, Refs
  <2>4. DumpInv'
    BY <1>1, <2>2 DEF DumpInv
  <2> QED  BY <2>1, <2>2, <2>3, <2>4 DEF MemoryInv, PinKept
<1>3. CASE Len(stack) # 1
  BY <1>3, SameMemory DEF Return, memory
<1> QED  BY <1>2, <1>3

LEMMA ModifyStep ==
  ASSUME MemoryInv, NEW f \in FlowObj, NEW acts \in Seq(ActionKind), flow' = [flow EXCEPT ![f].acts = acts],
         UNCHANGED <<ref, deferred, cls, table, cmd, dump, emc, sweep>>
  PROVE  MemoryInv' /\ PinKept
<1>1. FlowTypes /\ Counted /\ DeferredOnce /\ TableInv /\ DumpInv
  BY DEF MemoryInv
<1>r. PICK fresh: fresh = [flow[f] EXCEPT !.acts = acts]
  OBVIOUS
<1>f. flow \in [FlowObj -> Flow] /\ flow[f] \in Flow
  BY <1>1 DEF FlowTypes
<1>s. fresh \in Flow /\ fresh.st = flow[f].st /\ fresh.key = flow[f].key /\ fresh.dead = flow[f].dead
  BY <1>f, <1>r DEF Flow
<1>t. flow' = [flow EXCEPT ![f] = fresh]
  BY <1>r
<1>u. flow'[f] = fresh /\ \A g \in FlowObj: g # f => flow'[g] = flow[g]
  BY <1>f, <1>t
<1>2. flow' \in [FlowObj -> Flow]
  BY <1>f, <1>s, <1>t
<1>3. \A g \in FlowObj: flow'[g].st = flow[g].st /\ flow'[g].key = flow[g].key
                        /\ flow'[g].dead = flow[g].dead
  BY <1>s, <1>u
<1>4. \A r: \A g \in FlowObj: Waits(g, r)' = Waits(g, r)
  BY <1>3 DEF Waits
<1>5. FlowTypes' /\ Counted' /\ DumpInv'
  BY <1>1, <1>2, <1>4 DEF FlowTypes, Counted, DumpInv, Refs
<1>6. DeferredOnce'
  BY <1>1, <1>3 DEF DeferredOnce, FlowTypes, Waiting
<1>7. TableInv'
  BY <1>1, <1>3 DEF TableInv, FlowTypes
<1> QED  BY <1>3, <1>4, <1>5, <1>6, <1>7 DEF MemoryInv, PinKept

LEMMA BeginRemovalStep ==
  ASSUME MemoryInv, BeginRemoval
  PROVE  MemoryInv' /\ PinKept
<1>1. FlowTypes /\ Counted /\ DeferredOnce /\ TableInv /\ DumpInv
  BY DEF MemoryInv
<1>2. /\ cmd.pc = "idle" /\ UNCHANGED <<flow, ref, deferred, cls, table, dump, emc, sweep>>
      /\ \E T \in SUBSET table: cmd' = [cmd EXCEPT !.pc = "next", !.todo = T]
  BY DEF BeginRemoval, Locked, flowVars, cacheVars
<1>3. PICK T \in SUBSET table: cmd' = [cmd EXCEPT !.pc = "next", !.todo = T]
  BY <1>2
<1>4. \A f, r: Waits(f, r)' = Waits(f, r)
  BY <1>2 DEF Waits
<1>5. cmd' \in [pc: {"idle", "next", "unlinked"}, todo: SUBSET FlowObj, cur: MaybeFlow]
      /\ cmd'.pc = "next" /\ cmd'.todo = T
  BY <1>1, <1>3 DEF FlowTypes
<1>6. FlowTypes' /\ Counted' /\ DeferredOnce' /\ DumpInv'
  BY <1>1, <1>2, <1>4, <1>5 DEF FlowTypes, Counted, DeferredOnce, DumpInv, Refs
<1>7. TableInv'
  BY <1>1, <1>2, <1>5 DEF TableInv
<1> QED  BY <1>2, <1>4, <1>6, <1>7 DEF MemoryInv, PinKept

LEMMA UnlinkStep ==
  ASSUME MemoryInv, Unlink
  PROVE  MemoryInv' /\ PinKept
<1>1. FlowTypes /\ Counted /\ DeferredOnce /\ TableInv /\ DumpInv
  BY DEF MemoryInv
<1>2. cmd.pc = "next" /\ UNCHANGED <<flow, ref, deferred, table, dump, emc, sweep>>
  BY DEF Unlink, flowVars, cacheVars
<1>3. \A f, r: Waits(f, r)' = Waits(f, r)
  BY <1>2 DEF Waits
<1>4. cls' \in SUBSET FlowObj
      /\ cmd' \in [pc: {"idle", "next", "unlinked"}, todo: SUBSET FlowObj, cur: MaybeFlow]
      /\ TableInv'
  <2>1. CASE cmd.todo = {}
    BY <1>1, <1>2, <2>1 DEF FlowTypes, TableInv, Unlink, NoCmd, MaybeFlow
  <2>2. CASE cmd.todo # {}
    <3>1. PICK f \in cmd.todo: /\ cls' = cls \ {f}
                               /\ cmd' = [pc |-> "unlinked", todo |-> cmd.todo \ {f}, cur |-> f]
      BY <2>2 DEF Unlink
    <3> QED  BY <1>1, <1>2, <3>1 DEF FlowTypes, TableInv, MaybeFlow
  <2> QED  BY <2>1, <2>2
<1>5. FlowTypes' /\ Counted' /\ DeferredOnce' /\ DumpInv'
  BY <1>1, <1>2, <1>3, <1>4 DEF FlowTypes, Counted, DeferredOnce, DumpInv, Refs
<1> QED  BY <1>2, <1>3, <1>4, <1>5 DEF MemoryInv, PinKept

LEMMA RetireStep ==
  ASSUME MemoryInv, Retire
  PROVE  MemoryInv' /\ PinKept
<1>1. FlowTypes /\ Counted /\ DeferredOnce /\ TableInv /\ DumpInv
  BY DEF MemoryInv
<1> DEFINE f == cmd.cur
<1>2. /\ cmd.pc = "unlinked" /\ table' = table \ {f} /\ flow' = [flow EXCEPT ![f].dead = TRUE]
      /\ References(One(Null), One(f)) /\ cmd' = [cmd EXCEPT !.pc = "next", !.cur = Null]
      /\ UNCHANGED <<cls, dump, emc, sweep>>
  BY DEF Retire, One, cacheVars
<1>3. f \in table /\ f \in FlowObj /\ cls = table \ {f}
  BY <1>1, <1>2 DEF TableInv, FlowTypes
<1> HIDE DEF f
<1>4. f \in MaybeFlow /\ Null \in MaybeFlow /\ Null \notin FlowObj
  BY <1>3, NetdevInputAssumption DEF MaybeFlow
<1>5. /\ ref' = [g \in FlowObj |-> ref[g] + (IF g = Null THEN 1 ELSE 0) - (IF g = f THEN 1 ELSE 0)]
      /\ Dropped
  BY <1>1, <1>2, <1>4, ReferencesOne DEF Dropped
<1>6. ref[f] > 0 /\ ref \in [FlowObj -> Nat]
  BY <1>1, <1>3, InUse DEF FlowTypes
<1>7. \A g \in FlowObj: ref'[g] = ref[g] - (IF g = f THEN 1 ELSE 0)
  BY <1>4, <1>5, <1>6
<1>8. ref' \in [FlowObj -> Nat] /\ \A g \in FlowObj: ref'[g] > 0 => ref[g] > 0
  <2>1. \A g \in FlowObj: ref'[g] \in Nat /\ (ref'[g] > 0 => ref[g] > 0)
    BY <1>6, <1>7
  <2>2. ref' = [g \in FlowObj |-> ref'[g]]
    BY <1>5
  <2> QED  BY <2>1, <2>2
<1>r. PICK fresh: fresh = [flow[f] EXCEPT !.dead = TRUE]
  OBVIOUS
<1>f. flow \in [FlowObj -> Flow] /\ flow[f] \in Flow
  BY <1>1, <1>3 DEF FlowTypes
<1>s. fresh \in Flow /\ fresh.st = flow[f].st /\ fresh.key = flow[f].key /\ fresh.dead = TRUE
  BY <1>f, <1>r DEF Flow
<1>t. flow' = [flow EXCEPT ![f] = fresh]
  BY <1>2, <1>r
<1>u. flow'[f] = fresh /\ \A g \in FlowObj: g # f => flow'[g] = flow[g]
  BY <1>3, <1>f, <1>t
<1>9. flow' \in [FlowObj -> Flow]
      /\ \A g \in FlowObj: flow'[g].st = flow[g].st /\ flow'[g].key = flow[g].key
  <2>1. flow' \in [FlowObj -> Flow]
    BY <1>f, <1>s, <1>t
  <2>2. \A g \in FlowObj: flow'[g].st = flow[g].st /\ flow'[g].key = flow[g].key
    BY <1>s, <1>u
  <2> QED  BY <2>1, <2>2
<1>10. \A g \in FlowObj: (flow[g].dead => flow'[g].dead) /\ (g # f => flow'[g] = flow[g])
  BY <1>s, <1>u
<1>11. deferred' \in SUBSET Waiting /\ DeferredOnce'
      /\ \A g \in FlowObj, r \in Readers: Waits(g, r) => Waits(g, r)'
  BY <1>1, <1>5, <1>8, <1>9, DropKeeps
<1>12. cmd' \in [pc: {"idle", "next", "unlinked"}, todo: SUBSET FlowObj, cur: MaybeFlow]
       /\ cmd'.pc = "next" /\ cmd'.todo = cmd.todo
  BY <1>1, <1>2, <1>4 DEF FlowTypes
<1>13. FlowTypes'
  BY <1>1, <1>2, <1>8, <1>9, <1>11, <1>12 DEF FlowTypes
<1>14. Counted'
  <2> SUFFICES ASSUME NEW g \in FlowObj
               PROVE  ref'[g] = (IF g \in table' THEN 1 ELSE 0) + Cardinality(Refs(emc, g))
    BY <1>2 DEF Counted, Refs
  <2>1. ref[g] = (IF g \in table THEN 1 ELSE 0) + Cardinality(Refs(emc, g))
    BY <1>1 DEF Counted
  <2>2. Cardinality(Refs(emc, g)) \in Nat
    BY RefsFinite
  <2> QED  BY <1>2, <1>3, <1>7, <2>1, <2>2
<1>15. TableInv'
  BY <1>1, <1>2, <1>3, <1>10, <1>12 DEF TableInv, FlowTypes
<1>16. DumpInv'
  BY <1>1, <1>2, <1>11, ReadersAre DEF DumpInv, FlowTypes
<1>17. PinKept
  BY <1>9, <1>10, <1>11, ReadersAre DEF PinKept
<1> QED  BY <1>11, <1>13, <1>14, <1>15, <1>16, <1>17 DEF MemoryInv

LEMMA DumpNextStep ==
  ASSUME MemoryInv, DumpNext
  PROVE  MemoryInv' /\ PinKept
<1>1. FlowTypes /\ Counted /\ DeferredOnce /\ TableInv /\ DumpInv
  BY DEF MemoryInv
<1>2. dump' \in SUBSET table /\ UNCHANGED <<flow, ref, deferred, cls, table, cmd, emc, sweep>>
  BY DEF DumpNext, flowVars, cacheVars
<1>3. \A f, r: Waits(f, r)' = Waits(f, r)
  BY <1>2 DEF Waits
<1>4. \A f \in table: f \in FlowObj /\ Waits(f, "dump")
  BY <1>1, InUse, CountedWaits DEF FlowTypes
<1>5. FlowTypes' /\ Counted' /\ DeferredOnce' /\ TableInv'
  BY <1>1, <1>2 DEF FlowTypes, Counted, DeferredOnce, TableInv, Refs
<1>6. DumpInv'
  BY <1>2, <1>3, <1>4 DEF DumpInv
<1> QED  BY <1>2, <1>3, <1>5, <1>6 DEF MemoryInv, PinKept

LEMMA DumpReportsStep ==
  ASSUME MemoryInv, DumpReports
  PROVE  MemoryInv' /\ PinKept
<1>1. FlowTypes /\ Counted /\ DeferredOnce /\ TableInv /\ DumpInv
  BY DEF MemoryInv
<1>2. dump' = {} /\ deferred' = Leaves("dump") /\ UNCHANGED <<flow, ref, cls, table, cmd, emc, sweep>>
  BY DEF DumpReports, cacheVars
<1>3. /\ deferred' \in SUBSET Waiting /\ DeferredOnce'
      /\ \A f, r: r # "dump" /\ Waits(f, r) => Waits(f, r)'
  BY <1>1, <1>2, LeavesStep DEF Reader
<1>4. FlowTypes' /\ Counted' /\ TableInv' /\ DumpInv'
  BY <1>1, <1>2, <1>3 DEF FlowTypes, Counted, TableInv, DumpInv, Refs
<1> QED  BY <1>2, <1>3, <1>4 DEF MemoryInv, PinKept

LEMMA ReclaimStep ==
  ASSUME MemoryInv, Reclaim
  PROVE  MemoryInv' /\ PinKept
<1>1. FlowTypes /\ Counted /\ DeferredOnce /\ TableInv /\ DumpInv
  BY DEF MemoryInv
<1>2. PICK x \in deferred: /\ x.wait = {} /\ deferred' = deferred \ {x}
                           /\ flow' = [flow EXCEPT ![x.flow] = NoFlow]
                           /\ UNCHANGED <<ref, cls, table, cmd, dump, emc, sweep>>
  BY DEF Reclaim, tableVars, cacheVars
<1> DEFINE f == x.flow
<1>3. f \in FlowObj /\ ref[f] = 0 /\ deferred \subseteq Waiting
  BY <1>1 DEF FlowTypes, DeferredOnce, Waiting
<1>4. \A r: ~Waits(f, r)
  BY <1>2 DEF Waits
<1>5. f \notin table /\ f \notin dump
  BY <1>1, <1>3, <1>4, InUse DEF DumpInv
<1> HIDE DEF f
<1>6. NoFlow \in Flow
  BY DEF NoFlow, Flow
<1>7. flow' \in [FlowObj -> Flow] /\ \A g \in FlowObj \ {f}: flow'[g] = flow[g]
  BY <1>1, <1>2, <1>6 DEF FlowTypes, f
<1>8. \A y \in deferred': y \in deferred /\ y.flow # f
  BY <1>1, <1>2 DEF DeferredOnce, f
<1>9. \A r: \A g \in FlowObj \ {f}: Waits(g, r) => Waits(g, r)'
  BY <1>7, <1>8 DEF Waits
<1>10. FlowTypes' /\ Counted'
  BY <1>1, <1>2, <1>7, <1>8 DEF FlowTypes, Counted, Refs
<1>11. DeferredOnce'
  <2>1. (\A g \in FlowObj: ref[g] > 0 => flow[g].st = "live" /\ flow[g].key \in Key)'
    BY <1>1, <1>2, <1>3, <1>7 DEF DeferredOnce
  <2>2. (\A y \in deferred: ref[y.flow] = 0 /\ flow[y.flow].st = "live")'
    BY <1>1, <1>2, <1>3, <1>7, <1>8 DEF DeferredOnce, Waiting
  <2> QED  BY <1>1, <1>8, <2>1, <2>2 DEF DeferredOnce
<1>12. TableInv'
  BY <1>1, <1>2, <1>5, <1>7 DEF TableInv, FlowTypes
<1>13. DumpInv'
  BY <1>1, <1>2, <1>5, <1>9 DEF DumpInv, FlowTypes
<1>14. PinKept
  BY <1>4, <1>7, <1>9 DEF PinKept
<1> QED  BY <1>10, <1>11, <1>12, <1>13, <1>14 DEF MemoryInv

-----------------------------------------------------------------------------
(* Steps on the calls *)

LEMMA KindIs ==
  ASSUME NEW fr \in Frame
  PROVE  /\ fr.kind = "input" => fr \in InputFrame
         /\ fr.kind = "actions" => fr \in ActionsFrame
         /\ fr.kind = "userspace" => fr \in UserFrame
         /\ fr.kind = "caller" => fr \in CallerFrame
         /\ fr.kind \in {"input", "actions", "userspace", "caller"}
         /\ fr.pkts \in Seq(Packet)
<1>1. CASE fr \in InputFrame
  BY <1>1 DEF InputFrame
<1>2. CASE fr \in ActionsFrame
  BY <1>2 DEF ActionsFrame
<1>3. CASE fr \in UserFrame
  BY <1>3 DEF UserFrame
<1>4. CASE fr \in CallerFrame
  BY <1>4 DEF CallerFrame
<1> QED  BY <1>1, <1>2, <1>3, <1>4 DEF Frame

LEMMA Members ==
  ASSUME NEW S, NEW s \in Seq(S)
  PROVE  /\ ToSet(s) \subseteq S /\ DOMAIN s = 1 .. Len(s) /\ Len(s) \in Nat
         /\ \A i \in DOMAIN s: s[i] \in S /\ s[i] \in ToSet(s)
         /\ \A x \in ToSet(s): \E i \in DOMAIN s: s[i] = x
  BY DEF ToSet

LEMMA HeldTypes ==
  ASSUME NEW fr \in Frame
  PROVE  HeldBy(fr) \subseteq FlowObj
<1>1. CASE fr.kind = "input"
  <2>1. fr \in InputFrame
    BY <1>1, KindIs
  <2>2. fr.old \subseteq FlowObj /\ fr.new \in MaybeFlow
    BY <2>1 DEF InputFrame
  <2>3. \A m \in ToSet(fr.missed): m.rule \in MaybeFlow
    <3>1. fr.missed \in Seq(Missed)
      BY <2>1 DEF InputFrame
    <3>2. ToSet(fr.missed) \subseteq Missed
      BY <3>1, Members
    <3> QED  BY <3>2 DEF Missed
  <2>4. \A b \in ToSet(fr.batches): b.flow \in FlowObj
    <3>1. fr.batches \in Seq(Batch)
      BY <2>1 DEF InputFrame
    <3>2. ToSet(fr.batches) \subseteq Batch
      BY <3>1, Members
    <3> QED  BY <3>2 DEF Batch
  <2> QED  BY <2>2, <2>3, <2>4 DEF HeldBy, MaybeFlow
<1>2. CASE fr.kind # "input"
  BY <1>2 DEF HeldBy
<1> QED  BY <1>1, <1>2

\* s is the stack with another last call, or with another one and one more.
TopIs(s, fr) ==
    /\ s \in Seq(Frame) /\ Len(s) = Len(stack)
    /\ s[Len(stack)] = fr
    /\ \A l \in 1 .. Len(stack) - 1: s[l] = stack[l]
PushedIs(s, fr, hr) ==
    /\ s \in Seq(Frame) /\ Len(s) = Len(stack) + 1
    /\ s[Len(stack)] = fr /\ s[Len(stack) + 1] = hr
    /\ \A l \in 1 .. Len(stack) - 1: s[l] = stack[l]

LEMMA SetTopIs ==
  ASSUME StackTypes, stack # <<>>, NEW fr \in Frame
  PROVE  TopIs(SetTop(fr), fr) /\ DOMAIN stack = 1 .. Len(stack)
         /\ DOMAIN SetTop(fr) = 1 .. Len(stack) /\ Len(stack) \in Nat \ {0}
<1>1. stack \in Seq(Frame) /\ Len(stack) \in Nat \ {0}
  BY StackEnds DEF StackTypes
<1>2. SetTop(fr) \in Seq(Frame) /\ Len(SetTop(fr)) = Len(stack)
  BY <1>1 DEF SetTop
<1>3. SetTop(fr)[Len(stack)] = fr /\ \A l \in 1 .. Len(stack) - 1: SetTop(fr)[l] = stack[l]
  BY <1>1 DEF SetTop
<1> QED  BY <1>1, <1>2, <1>3 DEF TopIs

LEMMA PushIs ==
  ASSUME StackTypes, stack # <<>>, NEW fr \in Frame, NEW hr \in Frame
  PROVE  PushedIs(Append(SetTop(fr), hr), fr, hr)
<1> DEFINE s == SetTop(fr)
<1>1. s \in Seq(Frame) /\ Len(s) = Len(stack) /\ s[Len(stack)] = fr
      /\ (\A l \in 1 .. Len(stack) - 1: s[l] = stack[l]) /\ Len(stack) \in Nat \ {0}
  BY SetTopIs DEF TopIs
<1> HIDE DEF s
<1> QED  BY <1>1 DEF PushedIs, s

\* The last call goes on: what it is and, before it executes them, its batches stay.
Continues(fr, gr) ==
    /\ gr \in Frame /\ PlaceOk(gr) /\ gr.kind = fr.kind
    /\ fr.kind = "input" /\ fr.pc # "execute" => gr.pc # "execute" /\ gr.batches = fr.batches

\* Batches are given up, or stay where they are.
BatchKept == BatchType' /\ \A f \in FlowObj: batch'[f] \in {batch[f], Null}

LEMMA BatchSame ==
  ASSUME BatchType, UNCHANGED batch
  PROVE  BatchKept
  BY DEF BatchType, BatchKept

LEMMA TopStep ==
  ASSUME CallInv, stack # <<>>, PinKept, BatchKept,
         NEW gr, Continues(Top, gr), stack' = SetTop(gr),
         \A f \in HeldBy(gr): f \in HeldBy(Top) \/ Waits(f, "pmd")'
  PROVE  CallInv'
<1>1. gr \in Frame /\ PlaceOk(gr)
  BY DEF Continues
<1>2. Top = stack[Len(stack)] /\ stack \in Seq(Frame) /\ Len(stack) \in Nat \ {0} /\ Top \in Frame
  BY StackEnds DEF CallInv, StackTypes
<1>3. TopIs(stack', gr)
  BY <1>1, SetTopIs DEF CallInv
<1>4. StackTypes'
  BY <1>1, <1>2, <1>3 DEF StackTypes, CallInv, TopIs
<1>5. stack' # <<>>
  BY <1>2, <1>3 DEF TopIs
<1>6. HeldInv'
  <2> SUFFICES ASSUME NEW l \in DOMAIN stack', NEW f \in HeldBy(stack'[l])
               PROVE  Waits(f, "pmd")'
    BY DEF HeldInv
  <2>1. CASE l = Len(stack)
    <3>1. f \in HeldBy(Top) \/ Waits(f, "pmd")'
      BY <1>3, <2>1 DEF TopIs
    <3>2. f \in HeldBy(Top) => f \in FlowObj /\ Waits(f, "pmd")
      BY <1>2, HeldTypes DEF CallInv, HeldInv
    <3> QED  BY <3>1, <3>2, <1>5 DEF PinKept
  <2>2. CASE l # Len(stack)
    <3>1. l \in 1 .. Len(stack) - 1 /\ l \in DOMAIN stack /\ stack'[l] = stack[l]
      BY <1>2, <1>3, <2>2 DEF TopIs
    <3>2. f \in FlowObj /\ Waits(f, "pmd")
      BY <3>1, <1>2, HeldTypes DEF CallInv, HeldInv
    <3> QED  BY <3>2, <1>5 DEF PinKept
  <2> QED  BY <2>1, <2>2
<1>7. BatchPlace'
  <2> SUFFICES ASSUME NEW f \in FlowObj, batch'[f] # Null
               PROVE  /\ batch'[f][1] \in DOMAIN stack' /\ stack'[batch'[f][1]].kind = "input"
                      /\ stack'[batch'[f][1]].pc # "execute"
                      /\ batch'[f][2] \in DOMAIN stack'[batch'[f][1]].batches
                      /\ stack'[batch'[f][1]].batches[batch'[f][2]].flow = f
    BY DEF BatchPlace, Frames
  <2>1. batch'[f] = batch[f]
    BY DEF BatchKept
  <2> DEFINE l == batch[f][1]
  <2>2. /\ l \in DOMAIN stack /\ stack[l].kind = "input" /\ stack[l].pc # "execute"
        /\ batch[f][2] \in DOMAIN stack[l].batches
        /\ stack[l].batches[batch[f][2]].flow = f
    BY <2>1 DEF CallInv, BatchPlace, Frames
  <2> HIDE DEF l
  <2>3. CASE l = Len(stack)
    <3>1. stack'[l] = gr /\ l \in DOMAIN stack'
      BY <1>2, <1>3, <2>3 DEF TopIs
    <3>2. gr.kind = "input" /\ gr.pc # "execute" /\ gr.batches = stack[l].batches
      BY <1>2, <2>2, <2>3 DEF Continues
    <3> QED  BY <3>1, <3>2, <2>1, <2>2 DEF l
  <2>4. CASE l # Len(stack)
    <3>1. stack'[l] = stack[l] /\ l \in DOMAIN stack'
      BY <1>2, <1>3, <2>2, <2>4 DEF TopIs
    <3> QED  BY <3>1, <2>1, <2>2 DEF l
  <2> QED  BY <2>3, <2>4
<1>8. Nested'
  <2>1. \A l \in DOMAIN stack': l # Len(stack') => l \in DOMAIN stack /\ l # Len(stack) /\ stack'[l] = stack[l]
    BY <1>2, <1>3 DEF TopIs
  <2> QED  BY <2>1 DEF Nested, CallInv
<1> QED  BY <1>4, <1>6, <1>7, <1>8 DEF CallInv, BatchKept

\* The last call makes another one.
LEMMA PushStep ==
  ASSUME CallInv, stack # <<>>, PinKept, BatchKept,
         NEW gr, Continues(Top, gr), NEW hr \in Frame, PlaceOk(hr), stack' = Append(SetTop(gr), hr),
         HeldBy(gr) \subseteq HeldBy(Top), \A f \in HeldBy(hr): Waits(f, "pmd")',
         gr.kind = "input" => gr.pc \in {"upcall", "install", "execute"}
  PROVE  CallInv'
<1>1. gr \in Frame /\ PlaceOk(gr)
  BY DEF Continues
<1>2. Top = stack[Len(stack)] /\ stack \in Seq(Frame) /\ Len(stack) \in Nat \ {0} /\ Top \in Frame
  BY StackEnds DEF CallInv, StackTypes
<1>3. PushedIs(stack', gr, hr)
  BY <1>1, PushIs DEF CallInv
<1>4. StackTypes'
  <2>1. \A l \in DOMAIN stack': l = Len(stack) \/ l = Len(stack) + 1
                                \/ (l \in 1 .. Len(stack) - 1 /\ l \in DOMAIN stack)
    BY <1>2, <1>3 DEF PushedIs
  <2> QED  BY <1>1, <1>2, <1>3, <2>1 DEF StackTypes, CallInv, PushedIs
<1>5. stack' # <<>>
  BY <1>2, <1>3 DEF PushedIs
<1>6. HeldInv'
  <2> SUFFICES ASSUME NEW l \in DOMAIN stack', NEW f \in HeldBy(stack'[l])
               PROVE  Waits(f, "pmd")'
    BY DEF HeldInv
  <2>1. CASE l = Len(stack)
    <3>1. f \in HeldBy(Top)
      BY <1>3, <2>1 DEF PushedIs
    <3>2. f \in FlowObj /\ Waits(f, "pmd")
      BY <3>1, <1>2, HeldTypes DEF CallInv, HeldInv
    <3> QED  BY <3>2, <1>5 DEF PinKept
  <2>2. CASE l = Len(stack) + 1
    BY <1>3, <2>2 DEF PushedIs
  <2>3. CASE l # Len(stack) /\ l # Len(stack) + 1
    <3>1. l \in 1 .. Len(stack) - 1 /\ l \in DOMAIN stack /\ stack'[l] = stack[l]
      BY <1>2, <1>3, <2>3 DEF PushedIs
    <3>2. f \in FlowObj /\ Waits(f, "pmd")
      BY <3>1, <1>2, HeldTypes DEF CallInv, HeldInv
    <3> QED  BY <3>2, <1>5 DEF PinKept
  <2> QED  BY <2>1, <2>2, <2>3
<1>7. BatchPlace'
  <2> SUFFICES ASSUME NEW f \in FlowObj, batch'[f] # Null
               PROVE  /\ batch'[f][1] \in DOMAIN stack' /\ stack'[batch'[f][1]].kind = "input"
                      /\ stack'[batch'[f][1]].pc # "execute"
                      /\ batch'[f][2] \in DOMAIN stack'[batch'[f][1]].batches
                      /\ stack'[batch'[f][1]].batches[batch'[f][2]].flow = f
    BY DEF BatchPlace, Frames
  <2>1. batch'[f] = batch[f]
    BY DEF BatchKept
  <2> DEFINE l == batch[f][1]
  <2>2. /\ l \in DOMAIN stack /\ stack[l].kind = "input" /\ stack[l].pc # "execute"
        /\ batch[f][2] \in DOMAIN stack[l].batches
        /\ stack[l].batches[batch[f][2]].flow = f
    BY <2>1 DEF CallInv, BatchPlace, Frames
  <2> HIDE DEF l
  <2>3. CASE l = Len(stack)
    <3>1. stack'[l] = gr /\ l \in DOMAIN stack'
      BY <1>2, <1>3, <2>3 DEF PushedIs
    <3>2. gr.kind = "input" /\ gr.pc # "execute" /\ gr.batches = stack[l].batches
      BY <1>2, <2>2, <2>3 DEF Continues
    <3> QED  BY <3>1, <3>2, <2>1, <2>2 DEF l
  <2>4. CASE l # Len(stack)
    <3>1. stack'[l] = stack[l] /\ l \in DOMAIN stack'
      BY <1>2, <1>3, <2>2, <2>4 DEF PushedIs
    <3> QED  BY <3>1, <2>1, <2>2 DEF l
  <2> QED  BY <2>3, <2>4
<1>8. Nested'
  <2>1. \A l \in DOMAIN stack': l # Len(stack') =>
           \/ l = Len(stack) /\ stack'[l] = gr
           \/ l \in DOMAIN stack /\ l # Len(stack) /\ stack'[l] = stack[l]
    BY <1>2, <1>3 DEF PushedIs
  <2> QED  BY <2>1 DEF Nested, CallInv
<1> QED  BY <1>4, <1>6, <1>7, <1>8 DEF CallInv, BatchKept

\* The last call returns, when no batch is one of its own.
LEMMA PopStep ==
  ASSUME CallInv, stack # <<>>, PinKept, UNCHANGED batch,
         ~(Top.kind = "input" /\ Top.pc # "execute"), stack' = Front(stack)
  PROVE  CallInv'
<1>1. /\ Len(stack) \in Nat \ {0} /\ stack' \in Seq(Frame)
      /\ Len(stack') = Len(stack) - 1
      /\ \A l \in 1 .. Len(stack) - 1: stack'[l] = stack[l]
      /\ Top = stack[Len(stack)] /\ stack \in Seq(Frame)
  BY StackEnds DEF CallInv, StackTypes
<1>2. \A l \in DOMAIN stack': l \in DOMAIN stack /\ stack'[l] = stack[l]
  BY <1>1
<1>3. StackTypes'
  BY <1>1, <1>2 DEF StackTypes, CallInv
<1>4. HeldInv'
  <2> SUFFICES ASSUME NEW l \in DOMAIN stack', NEW f \in HeldBy(stack'[l])
               PROVE  Waits(f, "pmd")'
    BY DEF HeldInv
  <2>1. f \in FlowObj /\ Waits(f, "pmd")
    BY <1>1, <1>2, HeldTypes DEF CallInv, HeldInv
  <2>2. stack' # <<>>
    BY <1>1
  <2> QED  BY <2>1, <2>2 DEF PinKept
<1>5. BatchPlace'
  <2> SUFFICES ASSUME NEW f \in FlowObj, batch[f] # Null
               PROVE  /\ batch[f][1] \in DOMAIN stack' /\ stack'[batch[f][1]].kind = "input"
                      /\ stack'[batch[f][1]].pc # "execute"
                      /\ batch[f][2] \in DOMAIN stack'[batch[f][1]].batches
                      /\ stack'[batch[f][1]].batches[batch[f][2]].flow = f
    BY DEF BatchPlace, Frames
  <2> DEFINE l == batch[f][1]
  <2>2. /\ l \in DOMAIN stack /\ stack[l].kind = "input" /\ stack[l].pc # "execute"
        /\ batch[f][2] \in DOMAIN stack[l].batches
        /\ stack[l].batches[batch[f][2]].flow = f
    BY DEF CallInv, BatchPlace, Frames
  <2> HIDE DEF l
  <2>3. l # Len(stack)
    BY <1>1, <2>2
  <2>4. l \in DOMAIN stack' /\ stack'[l] = stack[l]
    BY <1>1, <2>2, <2>3
  <2> QED  BY <2>2, <2>4 DEF l
<1>6. Nested'
  <2>1. \A l \in DOMAIN stack': l # Len(stack)
    BY <1>1
  <2> QED  BY <1>2, <2>1 DEF Nested, CallInv
<1> QED  BY <1>3, <1>4, <1>5, <1>6 DEF CallInv, BatchType

\* Nothing happens to the calls.
LEMMA SameCalls ==
  ASSUME CallInv, PinKept, UNCHANGED stack, BatchKept
  PROVE  CallInv'
<1>1. StackTypes'
  BY DEF CallInv, StackTypes
<1>2. HeldInv'
  <2> SUFFICES ASSUME NEW l \in DOMAIN stack, NEW f \in HeldBy(stack[l])
               PROVE  Waits(f, "pmd")'
    BY DEF HeldInv, HeldBy
  <2>1. f \in FlowObj /\ Waits(f, "pmd") /\ stack # <<>>
    BY HeldTypes DEF CallInv, HeldInv, StackTypes
  <2> QED  BY <2>1 DEF PinKept
<1>3. BatchPlace'
  BY DEF CallInv, BatchPlace, BatchKept, Frames
<1>4. Nested'
  BY DEF CallInv, Nested
<1> QED  BY <1>1, <1>2, <1>3, <1>4 DEF CallInv, BatchKept

LEMMA ExceptIs ==
  ASSUME NEW S, NEW s \in Seq(S), NEW l \in DOMAIN s, NEW x \in S
  PROVE  /\ [s EXCEPT ![l] = x] \in Seq(S) /\ Len([s EXCEPT ![l] = x]) = Len(s)
         /\ [s EXCEPT ![l] = x][l] = x
         /\ \A m \in DOMAIN s \ {l}: [s EXCEPT ![l] = x][m] = s[m]
  OBVIOUS

\* A packet joins a batch of a call, or starts one.
AddTo(fr, n, p) == [fr EXCEPT !.batches[n].pkts = Append(@, p)]
NewBatch(fr, f, p) == [fr EXCEPT !.batches = Append(@, [flow |-> f, pkts |-> <<p>>])]

\* All but the batches stays.
BatchesOnly(fr, gr) ==
    /\ gr \in InputFrame /\ gr.kind = "input" /\ gr.pc = fr.pc /\ gr.pkts = fr.pkts /\ gr.missed = fr.missed
    /\ gr.i = fr.i /\ gr.new = fr.new /\ gr.acts = fr.acts /\ gr.old = fr.old /\ gr.own = fr.own

LEMMA AddToIs ==
  ASSUME NEW fr \in InputFrame, NEW n \in DOMAIN fr.batches, NEW p \in Packet
  PROVE  /\ BatchesOnly(fr, AddTo(fr, n, p))
         /\ DOMAIN AddTo(fr, n, p).batches = DOMAIN fr.batches
         /\ AddTo(fr, n, p).batches[n] = [flow |-> fr.batches[n].flow,
                                          pkts |-> Append(fr.batches[n].pkts, p)]
         /\ \A m \in DOMAIN fr.batches \ {n}: AddTo(fr, n, p).batches[m] = fr.batches[m]
<1> DEFINE b == fr.batches[n]
           c == [flow |-> b.flow, pkts |-> Append(b.pkts, p)]
           bs == [fr.batches EXCEPT ![n] = c]
<1>1. fr.batches \in Seq(Batch) /\ b \in Batch
  BY DEF InputFrame
<1>2. b.pkts \in Seq(Packet) /\ b = [flow |-> b.flow, pkts |-> b.pkts] /\ b.flow \in FlowObj
  BY <1>1 DEF Batch
<1>3. [b EXCEPT !.pkts = Append(@, p)] = c
  <2>1. \A r \in Batch: [r EXCEPT !.pkts = Append(@, p)] = [flow |-> r.flow, pkts |-> Append(r.pkts, p)]
    BY DEF Batch
  <2> QED  BY <1>1, <2>1
<1>4. c \in Batch
  BY <1>2 DEF Batch
<1>5. AddTo(fr, n, p) = [fr EXCEPT !.batches = bs]
  BY <1>3 DEF AddTo, InputFrame
<1> HIDE DEF c
<1>6. /\ bs \in Seq(Batch) /\ DOMAIN bs = DOMAIN fr.batches /\ bs[n] = c
      /\ \A m \in DOMAIN fr.batches \ {n}: bs[m] = fr.batches[m]
  BY <1>1, <1>4
<1> HIDE DEF bs, b
<1>7. BatchesOnly(fr, [fr EXCEPT !.batches = bs]) /\ [fr EXCEPT !.batches = bs].batches = bs
  BY <1>6 DEF BatchesOnly, InputFrame
<1>8. /\ DOMAIN AddTo(fr, n, p).batches = DOMAIN fr.batches
      /\ AddTo(fr, n, p).batches[n] = c
      /\ \A m \in DOMAIN fr.batches \ {n}: AddTo(fr, n, p).batches[m] = fr.batches[m]
  BY <1>5, <1>6, <1>7
<1> QED  BY <1>5, <1>7, <1>8 DEF b, c

LEMMA NewBatchIs ==
  ASSUME NEW fr \in InputFrame, NEW f \in FlowObj, NEW p \in Packet
  PROVE  /\ BatchesOnly(fr, NewBatch(fr, f, p))
         /\ Len(fr.batches) \in Nat
         /\ DOMAIN fr.batches = 1 .. Len(fr.batches)
         /\ DOMAIN NewBatch(fr, f, p).batches = 1 .. Len(fr.batches) + 1
         /\ NewBatch(fr, f, p).batches[Len(fr.batches) + 1] = [flow |-> f, pkts |-> <<p>>]
         /\ \A m \in DOMAIN fr.batches: NewBatch(fr, f, p).batches[m] = fr.batches[m]
<1> DEFINE c == [flow |-> f, pkts |-> <<p>>]
           bs == Append(fr.batches, c)
<1>1. fr.batches \in Seq(Batch)
  BY DEF InputFrame
<1>2. c \in Batch
  BY DEF Batch
<1>3. NewBatch(fr, f, p) = [fr EXCEPT !.batches = bs]
  BY DEF NewBatch, InputFrame
<1> HIDE DEF c
<1>4. /\ bs \in Seq(Batch) /\ DOMAIN bs = 1 .. Len(fr.batches) + 1 /\ bs[Len(fr.batches) + 1] = c
      /\ Len(fr.batches) \in Nat /\ DOMAIN fr.batches = 1 .. Len(fr.batches)
      /\ \A m \in DOMAIN fr.batches: bs[m] = fr.batches[m]
  BY <1>1, <1>2
<1> HIDE DEF bs
<1>5. BatchesOnly(fr, [fr EXCEPT !.batches = bs]) /\ [fr EXCEPT !.batches = bs].batches = bs
  BY <1>4 DEF BatchesOnly, InputFrame
<1> QED  BY <1>3, <1>4, <1>5 DEF c

\* What dp_netdev_queue_batches does to the calls, the last of which has become gr.
Joined(gr, p, f, l, n) ==
    /\ batch[f] # Null /\ l = batch[f][1] /\ n = batch[f][2] /\ UNCHANGED batch
    /\ stack' \in Seq(Frame) /\ Len(stack') = Len(stack) /\ l \in DOMAIN stack
    /\ \A m \in DOMAIN stack \ {l}: stack'[m] = (IF m = Len(stack) THEN gr ELSE stack[m])
    /\ LET fr == IF l = Len(stack) THEN gr ELSE stack[l] IN
       /\ fr \in InputFrame /\ fr.pc # "execute" /\ PlaceOk(fr)
       /\ n \in DOMAIN fr.batches /\ fr.batches[n].flow = f
       /\ stack'[l] = AddTo(fr, n, p)

Started(gr, p, f) ==
    /\ batch[f] = Null /\ batch' = [batch EXCEPT ![f] = <<Len(stack), Len(gr.batches) + 1>>]
    /\ TopIs(stack', NewBatch(gr, f, p))

LEMMA QueueIs ==
  ASSUME CallInv, stack # <<>>, NEW gr, Continues(Top, gr), Top.kind = "input", Top.pc # "execute",
         NEW p \in Packet, NEW f \in FlowObj, QueueBatches(SetTop(gr), p, f)
  PROVE  gr \in InputFrame /\ (Started(gr, p, f) \/ Joined(gr, p, f, batch[f][1], batch[f][2]))
<1> DEFINE s == SetTop(gr)
<1>1. gr \in Frame /\ gr \in InputFrame /\ gr.pc # "execute" /\ PlaceOk(gr) /\ gr.batches = Top.batches
  BY KindIs DEF Continues
<1>2. /\ s \in Seq(Frame) /\ Len(s) = Len(stack) /\ s[Len(stack)] = gr
      /\ \A l \in 1 .. Len(stack) - 1: s[l] = stack[l]
      /\ DOMAIN stack = 1 .. Len(stack) /\ DOMAIN s = 1 .. Len(stack) /\ Len(stack) \in Nat \ {0}
  BY <1>1, SetTopIs DEF CallInv, TopIs
<1>3. Top = stack[Len(stack)] /\ stack \in Seq(Frame)
  BY StackEnds DEF CallInv, StackTypes
<1>4. CASE batch[f] = Null
  <2> HIDE DEF s
  <2>1. Last(s) = gr
    BY <1>2 DEF Last
  <2>2. batch' = [batch EXCEPT ![f] = <<Len(stack), Len(gr.batches) + 1>>]
        /\ stack' = [s EXCEPT ![Len(s)].batches = Append(@, [flow |-> f, pkts |-> <<p>>])]
    BY <1>2, <1>4, <2>1 DEF QueueBatches, s
  <2>3. stack' = [s EXCEPT ![Len(stack)] = NewBatch(gr, f, p)]
    BY <1>2, <2>2 DEF NewBatch
  <2>4. NewBatch(gr, f, p) \in Frame
    BY <1>1, NewBatchIs DEF BatchesOnly, Frame
  <2> DEFINE b == NewBatch(gr, f, p)
  <2> HIDE DEF b
  <2>5. /\ stack' \in Seq(Frame) /\ Len(stack') = Len(stack) /\ stack'[Len(stack)] = b
        /\ \A l \in 1 .. Len(stack) - 1: stack'[l] = s[l]
    <3>1. stack' = [s EXCEPT ![Len(stack)] = b] /\ b \in Frame
      BY <2>3, <2>4 DEF b
    <3>2. PICK N \in Nat \ {0}: N = Len(stack)
      BY <1>2
    <3>3. DOMAIN s = 1 .. N
      BY <1>2, <3>2
    <3>4. N \in DOMAIN s /\ \A l \in 1 .. N - 1: l \in DOMAIN s \ {N}
      BY <3>3
    <3>5. /\ stack' \in Seq(Frame) /\ Len(stack') = Len(s) /\ stack'[N] = b
          /\ \A m \in DOMAIN s \ {N}: stack'[m] = s[m]
      BY <1>2, <3>1, <3>2, <3>4, ExceptIs
    <3> QED  BY <1>2, <3>2, <3>4, <3>5
  <2>6. TopIs(stack', NewBatch(gr, f, p))
    BY <1>2, <2>5 DEF TopIs, b
  <2> QED  BY <1>1, <1>4, <2>2, <2>6 DEF Started
<1>5. CASE batch[f] # Null
  <2> DEFINE l == batch[f][1]
             n == batch[f][2]
             fr == IF l = Len(stack) THEN gr ELSE stack[l]
  <2>1. stack' = [s EXCEPT ![l].batches[n].pkts = Append(@, p)] /\ UNCHANGED batch
    BY <1>5 DEF QueueBatches
  <2>2. /\ l \in DOMAIN stack /\ stack[l].kind = "input" /\ stack[l].pc # "execute"
        /\ n \in DOMAIN stack[l].batches
        /\ stack[l].batches[n].flow = f
    BY <1>5 DEF CallInv, BatchPlace, Frames
  <2> HIDE DEF s, l, n
  <2>3. l \in DOMAIN s /\ s[l] = fr
    BY <1>2, <2>2
  <2>4. fr \in InputFrame /\ fr.pc # "execute" /\ PlaceOk(fr)
        /\ n \in DOMAIN fr.batches /\ fr.batches[n].flow = f
    <3>1. CASE l = Len(stack)
      BY <1>1, <1>3, <2>2, <3>1
    <3>2. CASE l # Len(stack)
      <4>1. stack[l] \in Frame /\ PlaceOk(stack[l])
        BY <1>3, <2>2 DEF CallInv, StackTypes
      <4>2. stack[l] \in InputFrame
        BY <2>2, <4>1, KindIs
      <4> QED  BY <2>2, <3>2, <4>1, <4>2
    <3> QED  BY <3>1, <3>2
  <2> HIDE DEF fr
  <2>5. stack' = [s EXCEPT ![l] = AddTo(fr, n, p)]
    BY <2>1, <2>3 DEF AddTo
  <2>6. AddTo(fr, n, p) \in Frame
    BY <2>4, AddToIs DEF BatchesOnly, Frame
  <2>7. stack' \in Seq(Frame) /\ Len(stack') = Len(stack) /\ stack'[l] = AddTo(fr, n, p)
        /\ \A m \in DOMAIN stack \ {l}: stack'[m] = s[m]
    BY <1>2, <2>2, <2>5, <2>6
  <2>8. \A m \in DOMAIN stack \ {l}: stack'[m] = (IF m = Len(stack) THEN gr ELSE stack[m])
    BY <1>2, <2>7
  <2>9. Joined(gr, p, f, l, n)
    BY <1>5, <2>1, <2>2, <2>4, <2>7, <2>8 DEF Joined, fr, l, n
  <2> QED  BY <1>1, <2>9 DEF l, n
<1> QED  BY <1>4, <1>5

LEMMA LastOrBefore ==
  ASSUME NEW n \in Nat \ {0}
  PROVE  \A l \in 1 .. n: l = n \/ l \in 1 .. n - 1
  OBVIOUS

LEMMA HeldOfBatches ==
  ASSUME NEW fr \in InputFrame, NEW gr, BatchesOnly(fr, gr), NEW f \in FlowObj,
         \A m \in DOMAIN gr.batches: gr.batches[m].flow = f
                                     \/ \E n \in DOMAIN fr.batches: gr.batches[m].flow = fr.batches[n].flow
  PROVE  HeldBy(gr) \subseteq HeldBy(fr) \cup {f}
<1>1. {b.flow: b \in ToSet(gr.batches)} \subseteq {b.flow: b \in ToSet(fr.batches)} \cup {f}
  BY DEF ToSet
<1>2. fr.kind = "input"
  BY DEF InputFrame
<1> QED  BY <1>1, <1>2 DEF HeldBy, BatchesOnly

LEMMA PlaceOfBatches ==
  ASSUME NEW fr, PlaceOk(fr), fr.kind = "input", fr.pc # "execute", NEW gr, BatchesOnly(fr, gr)
  PROVE  PlaceOk(gr)
  BY DEF PlaceOk, BatchesOnly

LEMMA QueueStep ==
  ASSUME CallInv, stack # <<>>, PinKept, NEW gr, Continues(Top, gr), Top.kind = "input", Top.pc # "execute",
         NEW p \in Packet, NEW f \in FlowObj, Waits(f, "pmd")', QueueBatches(SetTop(gr), p, f),
         \A g \in HeldBy(gr): g \in HeldBy(Top) \/ Waits(g, "pmd")'
  PROVE  CallInv'
<1>1. gr \in InputFrame /\ (Started(gr, p, f) \/ Joined(gr, p, f, batch[f][1], batch[f][2]))
  BY QueueIs
<1>2. Top = stack[Len(stack)] /\ stack \in Seq(Frame) /\ Top \in Frame
      /\ Len(stack) \in Nat \ {0} /\ DOMAIN stack = 1 .. Len(stack)
  BY StackEnds DEF CallInv, StackTypes
<1>3. gr \in Frame /\ PlaceOk(gr) /\ gr.kind = "input" /\ gr.pc # "execute"
  BY DEF Continues
<1>4. stack' # <<>> => \A m \in DOMAIN stack: \A g \in HeldBy(stack[m]): Waits(g, "pmd")'
  BY <1>2, HeldTypes DEF CallInv, HeldInv, PinKept
<1>5. stack' # <<>> => \A g \in HeldBy(gr): Waits(g, "pmd")'
  BY <1>2, <1>4
<1>6. CASE Started(gr, p, f)
  <2> DEFINE N == Len(stack)
             b == NewBatch(gr, f, p)
             k == Len(gr.batches) + 1
  <2>1. /\ TopIs(stack', b) /\ batch[f] = Null /\ batch' = [batch EXCEPT ![f] = <<N, k>>]
    BY <1>6 DEF Started
  <2>2. /\ BatchesOnly(gr, b) /\ b.batches[k] = [flow |-> f, pkts |-> <<p>>]
        /\ k \in Nat \ {0} /\ DOMAIN b.batches = 1 .. k /\ DOMAIN gr.batches = 1 .. k - 1
        /\ \A m \in DOMAIN gr.batches: b.batches[m] = gr.batches[m]
    BY <1>1, NewBatchIs
  <2>3. stack' \in Seq(Frame) /\ Len(stack') = N /\ stack'[N] = b /\ DOMAIN stack' = 1 .. N
        /\ \A l \in 1 .. N - 1: stack'[l] = stack[l]
    BY <2>1 DEF TopIs
  <2> HIDE DEF b, k
  <2>4. k \in DOMAIN b.batches /\ b.batches[k].flow = f
        /\ \A m \in DOMAIN gr.batches: m \in DOMAIN b.batches /\ b.batches[m] = gr.batches[m]
    BY <2>2
  <2>5. HeldBy(b) \subseteq HeldBy(gr) \cup {f}
    <3>1. \A m \in DOMAIN b.batches: m = k \/ m \in DOMAIN gr.batches
      BY <2>2
    <3> QED  BY <1>1, <2>2, <2>4, <3>1, HeldOfBatches
  <2>6. PlaceOk(b)
    BY <1>3, <2>2, PlaceOfBatches
  <2>7. \A l \in 1 .. N: l = N \/ l \in 1 .. N - 1
    BY <1>2, LastOrBefore
  <2>8. StackTypes'
    BY <1>2, <2>3, <2>6, <2>7 DEF StackTypes, CallInv
  <2>9. stack' # <<>>
    BY <1>2, <2>3
  <2>10. HeldInv'
    <3> SUFFICES ASSUME NEW l \in DOMAIN stack', NEW g \in HeldBy(stack'[l])
                 PROVE  Waits(g, "pmd")'
      BY DEF HeldInv
    <3>1. CASE l = N
      <4>1. g \in HeldBy(gr) \/ g = f
        BY <2>3, <2>5, <3>1
      <4> QED  BY <4>1, <1>5, <2>9
    <3>2. CASE l # N
      BY <3>2, <1>2, <1>4, <2>3, <2>7, <2>9
    <3> QED  BY <3>1, <3>2
  <2>11. BatchType'
    <3>1. <<N, k>> \in Nat \X Nat
      BY <1>2, <2>2
    <3>2. batch \in [FlowObj -> (Nat \X Nat) \cup {Null}]
      BY DEF CallInv, BatchType
    <3>3. batch' \in [FlowObj -> (Nat \X Nat) \cup {Null}]
      BY <2>1, <3>1, <3>2
    <3> QED  BY <3>3 DEF BatchType
  <2>12. BatchPlace'
    <3> SUFFICES ASSUME NEW g \in FlowObj, batch'[g] # Null
                 PROVE  /\ batch'[g][1] \in DOMAIN stack' /\ stack'[batch'[g][1]].kind = "input"
                        /\ stack'[batch'[g][1]].pc # "execute"
                        /\ batch'[g][2] \in DOMAIN stack'[batch'[g][1]].batches
                        /\ stack'[batch'[g][1]].batches[batch'[g][2]].flow = g
      BY DEF BatchPlace, Frames
    <3>1. CASE g = f
      <4>1. batch'[g] = <<N, k>>
        BY <2>1, <3>1 DEF CallInv, BatchType
      <4>2. batch'[g][1] = N /\ batch'[g][2] = k
        BY <4>1
      <4>3. N \in DOMAIN stack'
        BY <1>2, <2>3
      <4> QED  BY <4>2, <4>3, <2>2, <2>3, <2>4, <1>3, <3>1 DEF BatchesOnly
    <3>2. CASE g # f
      <4> DEFINE l == batch[g][1]
                 n == batch[g][2]
      <4>1. batch'[g] = batch[g]
        BY <2>1, <3>2 DEF CallInv, BatchType
      <4>2. /\ l \in DOMAIN stack /\ stack[l].kind = "input" /\ stack[l].pc # "execute"
            /\ n \in DOMAIN stack[l].batches /\ stack[l].batches[n].flow = g
        BY <4>1 DEF CallInv, BatchPlace, Frames
      <4> HIDE DEF l, n
      <4>3. CASE l = N
        <5>1. gr.batches = stack[l].batches
          BY <4>2, <4>3, <1>2 DEF Continues
        <5>2. n \in DOMAIN b.batches /\ b.batches[n].flow = g
          BY <5>1, <4>2, <2>4
        <5>3. l \in DOMAIN stack' /\ stack'[l] = b
          BY <4>3, <1>2, <2>3
        <5> QED  BY <5>2, <5>3, <4>1, <2>2, <1>3 DEF BatchesOnly, l, n
      <4>4. CASE l # N
        <5>1. l \in DOMAIN stack' /\ stack'[l] = stack[l]
          BY <4>2, <4>4, <1>2, <2>3, <2>7
        <5> QED  BY <5>1, <4>1, <4>2 DEF l, n
      <4> QED  BY <4>3, <4>4
    <3> QED  BY <3>1, <3>2
  <2>13. Nested'
    BY <1>2, <2>3, <2>7 DEF Nested, CallInv
  <2> QED  BY <2>8, <2>10, <2>11, <2>12, <2>13 DEF CallInv
<1>7. CASE Joined(gr, p, f, batch[f][1], batch[f][2])
  <2> DEFINE l == batch[f][1]
             n == batch[f][2]
             fr == IF l = Len(stack) THEN gr ELSE stack[l]
             b == AddTo(fr, n, p)
  <2>1. /\ UNCHANGED batch /\ stack' \in Seq(Frame) /\ Len(stack') = Len(stack) /\ l \in DOMAIN stack
        /\ \A m \in DOMAIN stack \ {l}: stack'[m] = (IF m = Len(stack) THEN gr ELSE stack[m])
        /\ fr \in InputFrame /\ fr.pc # "execute" /\ PlaceOk(fr)
        /\ n \in DOMAIN fr.batches /\ fr.batches[n].flow = f
        /\ stack'[l] = b
    BY <1>7 DEF Joined
  <2>2. fr.kind = "input"
    BY <2>1 DEF InputFrame
  <2> HIDE DEF l, n, fr
  <2>20. /\ BatchesOnly(fr, b) /\ DOMAIN b.batches = DOMAIN fr.batches
         /\ b.batches[n] = [flow |-> fr.batches[n].flow, pkts |-> Append(fr.batches[n].pkts, p)]
         /\ \A m \in DOMAIN fr.batches \ {n}: b.batches[m] = fr.batches[m]
    BY <2>1, AddToIs
  <2> HIDE DEF b
  <2>3. /\ BatchesOnly(fr, b) /\ DOMAIN b.batches = DOMAIN fr.batches
        /\ b.batches[n].flow = fr.batches[n].flow
        /\ \A m \in DOMAIN fr.batches \ {n}: b.batches[m] = fr.batches[m]
    BY <2>20
  <2>4. \A m \in DOMAIN b.batches: b.batches[m].flow = fr.batches[m].flow
    BY <2>3
  <2>5. HeldBy(b) \subseteq HeldBy(fr) \cup {f}
    BY <2>1, <2>3, <2>4, HeldOfBatches
  <2>6. PlaceOk(b)
    BY <2>1, <2>2, <2>3, PlaceOfBatches
  <2>7. DOMAIN stack' = DOMAIN stack /\ stack' # <<>>
    BY <1>2, <2>1
  <2>8. StackTypes'
    <3> SUFFICES ASSUME NEW m \in DOMAIN stack'
                 PROVE  PlaceOk(stack'[m])
      BY <2>1 DEF StackTypes
    <3>1. CASE m = l
      BY <3>1, <2>1, <2>6
    <3>2. CASE m # l
      BY <3>2, <2>1, <2>7, <1>3 DEF CallInv, StackTypes
    <3> QED  BY <3>1, <3>2
  <2>9. \A g \in HeldBy(fr): Waits(g, "pmd")'
    BY <1>4, <1>5, <2>1, <2>7 DEF fr
  <2>10. HeldInv'
    <3> SUFFICES ASSUME NEW m \in DOMAIN stack', NEW g \in HeldBy(stack'[m])
                 PROVE  Waits(g, "pmd")'
      BY DEF HeldInv
    <3>1. CASE m = l
      BY <3>1, <2>1, <2>5, <2>9
    <3>2. CASE m # l
      BY <3>2, <2>1, <2>7, <1>4, <1>5
    <3> QED  BY <3>1, <3>2
  <2>11. BatchPlace'
    <3> SUFFICES ASSUME NEW g \in FlowObj, batch[g] # Null
                 PROVE  /\ batch[g][1] \in DOMAIN stack' /\ stack'[batch[g][1]].kind = "input"
                        /\ stack'[batch[g][1]].pc # "execute"
                        /\ batch[g][2] \in DOMAIN stack'[batch[g][1]].batches
                        /\ stack'[batch[g][1]].batches[batch[g][2]].flow = g
      BY <2>1 DEF BatchPlace, Frames
    <3> DEFINE x == batch[g][1]
               y == batch[g][2]
    <3>1. /\ x \in DOMAIN stack /\ stack[x].kind = "input" /\ stack[x].pc # "execute"
          /\ y \in DOMAIN stack[x].batches /\ stack[x].batches[y].flow = g
      BY DEF CallInv, BatchPlace, Frames
    <3> HIDE DEF x, y
    <3>2. x = Len(stack) => gr.batches = stack[x].batches
      BY <3>1, <1>2 DEF Continues
    <3>3. CASE x = l
      <4>1. fr.batches = stack[x].batches
        BY <3>2, <3>3 DEF fr
      <4>2. y \in DOMAIN b.batches /\ b.batches[y].flow = g
        BY <4>1, <3>1, <2>3, <2>4
      <4> QED  BY <4>2, <3>1, <3>3, <2>1, <2>3, <2>7 DEF BatchesOnly, x, y
    <3>4. CASE x # l
      <4>1. stack'[x] = IF x = Len(stack) THEN gr ELSE stack[x]
        BY <3>1, <3>4, <2>1
      <4> QED  BY <4>1, <3>1, <3>2, <2>7, <1>3 DEF x, y
    <3> QED  BY <3>3, <3>4
  <2>12. BatchType'
    BY <2>1 DEF CallInv, BatchType
  <2>13. Nested'
    <3> SUFFICES ASSUME NEW m \in DOMAIN stack', m # Len(stack), stack'[m].kind = "input"
                 PROVE  stack'[m].pc \in {"upcall", "install", "execute"}
      BY <2>1 DEF Nested
    <3>1. m \in DOMAIN stack /\ (m = l => fr = stack[m]) /\ (m # l => stack'[m] = stack[m])
      BY <2>1, <2>7 DEF fr
    <3>2. CASE m = l
      BY <3>1, <3>2, <2>1, <2>2, <2>3 DEF Nested, CallInv, BatchesOnly
    <3>3. CASE m # l
      BY <3>1, <3>3 DEF Nested, CallInv
    <3> QED  BY <3>2, <3>3
  <2> QED  BY <2>8, <2>10, <2>11, <2>12, <2>13 DEF CallInv
<1> QED  BY <1>1, <1>6, <1>7

\* The first calls: no flow is in a batch then.
LEMMA NoBatchAtRest ==
  ASSUME CallInv, stack = <<>>
  PROVE  \A f \in FlowObj: batch[f] = Null
  BY DEF CallInv, BatchPlace, Frames

LEMMA StartStep ==
  ASSUME CallInv, stack = <<>>, UNCHANGED batch, stack' \in Seq(Frame),
         \A l \in DOMAIN stack': PlaceOk(stack'[l]) /\ \A f \in HeldBy(stack'[l]): Waits(f, "pmd")',
         \A l \in DOMAIN stack': l # Len(stack') => stack'[l].kind # "input"
  PROVE  CallInv'
<1>1. StackTypes' /\ HeldInv' /\ BatchType'
  BY DEF StackTypes, HeldInv, BatchType, CallInv
<1>2. BatchPlace'
  BY NoBatchAtRest DEF BatchPlace
<1>3. Nested'
  BY DEF Nested
<1> QED  BY <1>1, <1>2, <1>3 DEF CallInv

LEMMA ResetStep ==
  ASSUME CallInv, PinKept, ResetBatches
  PROVE  CallInv'
<1> DEFINE gr == [Top EXCEPT !.pc = "execute", !.i = 1]
<1>1. /\ stack # <<>> /\ Top.kind = "input" /\ Top.pc = "reset" /\ stack' = SetTop(gr)
      /\ batch' = [f \in FlowObj |-> IF \E b \in ToSet(Top.batches): b.flow = f THEN Null ELSE batch[f]]
  BY DEF ResetBatches, At
<1>0. Intact
  BY DEF ResetBatches, At
<1>2. Top = stack[Len(stack)] /\ stack \in Seq(Frame) /\ Len(stack) \in Nat \ {0} /\ Top \in Frame
      /\ PlaceOk(Top) /\ DOMAIN stack = 1 .. Len(stack)
  BY <1>1, StackEnds DEF CallInv, StackTypes
<1>3. Top \in InputFrame
  BY <1>1, <1>2, KindIs
<1>4. gr \in InputFrame /\ gr.kind = "input" /\ gr.pc = "execute" /\ gr.batches = Top.batches
      /\ gr.missed = Top.missed /\ gr.pkts = Top.pkts /\ gr.new = Top.new /\ gr.old = Top.old
      /\ gr.own = Top.own
  <2>1. \A fr \in InputFrame, x \in Nat \ {0}: LET hr == [fr EXCEPT !.pc = "execute", !.i = x] IN
            /\ hr \in InputFrame /\ hr.kind = "input" /\ hr.pc = "execute" /\ hr.batches = fr.batches
            /\ hr.missed = fr.missed /\ hr.pkts = fr.pkts /\ hr.new = fr.new /\ hr.old = fr.old
            /\ hr.own = fr.own
    BY DEF InputFrame
  <2>2. PICK x \in Nat \ {0}: x = 1
    OBVIOUS
  <2>3. gr = [Top EXCEPT !.pc = "execute", !.i = x]
    BY <2>2
  <2> HIDE DEF gr
  <2> QED  BY <1>3, <2>1, <2>3
<1> HIDE DEF gr
<1>a. \A n \in DOMAIN gr.batches: Len(gr.batches[n].pkts) <= Burst
  BY <1>0, <1>1, <1>2, <1>4 DEF Intact, Frames, ToSet
<1>5. gr \in Frame /\ PlaceOk(gr) /\ HeldBy(gr) = HeldBy(Top)
  BY <1>1, <1>2, <1>4, <1>a DEF PlaceOk, Frame, HeldBy
<1>6. TopIs(stack', gr)
  BY <1>1, <1>5, SetTopIs DEF CallInv
<1>7. stack' \in Seq(Frame) /\ Len(stack') = Len(stack) /\ stack'[Len(stack)] = gr
      /\ \A l \in DOMAIN stack: l \in DOMAIN stack' /\ (l # Len(stack) => stack'[l] = stack[l])
  BY <1>2, <1>6 DEF TopIs
<1>8. stack' # <<>> /\ DOMAIN stack' = DOMAIN stack
  BY <1>2, <1>7
<1>9. StackTypes'
  BY <1>5, <1>7, <1>8 DEF StackTypes, CallInv
<1>10. HeldInv'
  <2> SUFFICES ASSUME NEW l \in DOMAIN stack', NEW f \in HeldBy(stack'[l])
               PROVE  Waits(f, "pmd")'
    BY DEF HeldInv
  <2>1. f \in HeldBy(stack[l]) /\ l \in DOMAIN stack
    BY <1>2, <1>5, <1>7, <1>8
  <2>2. f \in FlowObj /\ Waits(f, "pmd")
    BY <2>1, <1>2, HeldTypes DEF CallInv, HeldInv
  <2> QED  BY <2>2, <1>1, <1>8 DEF PinKept
<1>11. BatchType'
  BY <1>1 DEF BatchType, CallInv
<1>12. BatchPlace'
  <2> SUFFICES ASSUME NEW f \in FlowObj, batch'[f] # Null
               PROVE  /\ batch'[f][1] \in DOMAIN stack' /\ stack'[batch'[f][1]].kind = "input"
                      /\ stack'[batch'[f][1]].pc # "execute"
                      /\ batch'[f][2] \in DOMAIN stack'[batch'[f][1]].batches
                      /\ stack'[batch'[f][1]].batches[batch'[f][2]].flow = f
    BY DEF BatchPlace, Frames
  <2>1. batch'[f] = batch[f] /\ ~ \E b \in ToSet(Top.batches): b.flow = f
    BY <1>1
  <2> DEFINE l == batch[f][1]
             n == batch[f][2]
  <2>2. /\ l \in DOMAIN stack /\ stack[l].kind = "input" /\ stack[l].pc # "execute"
        /\ n \in DOMAIN stack[l].batches /\ stack[l].batches[n].flow = f
    BY <2>1 DEF CallInv, BatchPlace, Frames
  <2> HIDE DEF l, n
  <2>3. l # Len(stack)
    BY <2>1, <2>2, <1>2 DEF ToSet
  <2>4. l \in DOMAIN stack' /\ stack'[l] = stack[l]
    BY <2>2, <2>3, <1>7
  <2> QED  BY <2>1, <2>2, <2>4 DEF l, n
<1>13. Nested'
  BY <1>7, <1>8 DEF Nested, CallInv
<1> QED  BY <1>9, <1>10, <1>11, <1>12, <1>13 DEF CallInv

-----------------------------------------------------------------------------
(* What an input call becomes *)

Place == {"emc", "upcall", "install", "insert", "queue", "reset", "execute"}

InputIs(fr, pc, pkts, missed, i, new, acts, batches, old, own) ==
    /\ fr \in InputFrame /\ fr.kind = "input" /\ fr.pc = pc /\ fr.pkts = pkts /\ fr.missed = missed
    /\ fr.i = i /\ fr.new = new /\ fr.acts = acts /\ fr.batches = batches /\ fr.old = old
    /\ fr.own = own

LEMMA InputTypes ==
  ASSUME NEW fr \in InputFrame
  PROVE  /\ fr.kind = "input" /\ fr.pc \in Place /\ fr.pkts \in Seq(Packet) /\ fr.missed \in Seq(Missed)
         /\ fr.i \in Nat \ {0} /\ fr.new \in MaybeFlow /\ fr.acts \in Seq(ActionKind)
         /\ fr.batches \in Seq(Batch) /\ fr.old \in SUBSET FlowObj /\ fr.own \in SUBSET Packet
         /\ fr \in Frame
  BY DEF InputFrame, Place, Frame

LEMMA WithPkts ==
  ASSUME NEW fr \in InputFrame, NEW ps \in Seq(Packet)
  PROVE  InputIs([fr EXCEPT !.pkts = ps], fr.pc, ps, fr.missed, fr.i, fr.new, fr.acts, fr.batches, fr.old, fr.own)
  BY DEF InputFrame, InputIs

LEMMA WithMissed ==
  ASSUME NEW fr \in InputFrame, NEW ms \in Seq(Missed)
  PROVE  InputIs([fr EXCEPT !.missed = ms], fr.pc, fr.pkts, ms, fr.i, fr.new, fr.acts, fr.batches, fr.old, fr.own)
  BY DEF InputFrame, InputIs

LEMMA WithMissedPc ==
  ASSUME NEW fr \in InputFrame, NEW ms \in Seq(Missed), NEW pc \in Place
  PROVE  InputIs([fr EXCEPT !.missed = ms, !.pc = pc], pc, fr.pkts, ms, fr.i, fr.new, fr.acts, fr.batches, fr.old, fr.own)
  BY DEF InputFrame, InputIs, Place

LEMMA WithPc ==
  ASSUME NEW fr \in InputFrame, NEW pc \in Place
  PROVE  InputIs([fr EXCEPT !.pc = pc], pc, fr.pkts, fr.missed, fr.i, fr.new, fr.acts, fr.batches, fr.old, fr.own)
  BY DEF InputFrame, InputIs, Place

LEMMA WithI ==
  ASSUME NEW fr \in InputFrame, NEW x \in Nat \ {0}
  PROVE  InputIs([fr EXCEPT !.i = x], fr.pc, fr.pkts, fr.missed, x, fr.new, fr.acts, fr.batches, fr.old, fr.own)
  BY DEF InputFrame, InputIs

LEMMA WithPcI ==
  ASSUME NEW fr \in InputFrame, NEW pc \in Place, NEW x \in Nat \ {0}
  PROVE  InputIs([fr EXCEPT !.pc = pc, !.i = x], pc, fr.pkts, fr.missed, x, fr.new, fr.acts, fr.batches, fr.old, fr.own)
  BY DEF InputFrame, InputIs, Place

LEMMA WithPcActs ==
  ASSUME NEW fr \in InputFrame, NEW pc \in Place, NEW acts \in Seq(ActionKind)
  PROVE  InputIs([fr EXCEPT !.pc = pc, !.acts = acts], pc, fr.pkts, fr.missed, fr.i, fr.new, acts, fr.batches, fr.old, fr.own)
  BY DEF InputFrame, InputIs, Place

LEMMA WithPcNew ==
  ASSUME NEW fr \in InputFrame, NEW pc \in Place, NEW new \in MaybeFlow
  PROVE  InputIs([fr EXCEPT !.pc = pc, !.new = new], pc, fr.pkts, fr.missed, fr.i, new, fr.acts, fr.batches, fr.old, fr.own)
  BY DEF InputFrame, InputIs, Place

LEMMA WithNext ==
  ASSUME NEW fr \in InputFrame, NEW x \in Nat \ {0}, NEW acts \in Seq(ActionKind), NEW new \in MaybeFlow
  PROVE  InputIs([fr EXCEPT !.i = x, !.pc = "upcall", !.new = new, !.acts = acts],
                 "upcall", fr.pkts, fr.missed, x, new, acts, fr.batches, fr.old, fr.own)
  BY DEF InputFrame, InputIs

LEMMA EmptyIs ==
  /\ \A S: <<>> \in Seq(S)
  /\ DOMAIN <<>> = {} /\ ToSet(<<>>) = {} /\ Null \in MaybeFlow
  BY DEF ToSet, MaybeFlow

LEMMA NextUpcallIs ==
  ASSUME StackTypes, stack # <<>>, Top.kind = "input"
  PROVE  InputIs(NextUpcall, "upcall", Top.pkts, Top.missed, Top.i + 1, Null, <<>>, Top.batches, Top.old, Top.own)
<1>1. Top \in InputFrame
  BY StackEnds, KindIs
<1>2. PICK fr \in InputFrame: fr = Top
  BY <1>1
<1>3. fr.i \in Nat \ {0}
  BY InputTypes
<1>4. PICK x \in Nat \ {0}: x = fr.i + 1
  BY <1>3
<1>5. PICK acts \in Seq(ActionKind): acts = <<>>
  BY EmptyIs
<1>6. NextUpcall = [fr EXCEPT !.i = x, !.pc = "upcall", !.new = Null, !.acts = acts]
  BY <1>2, <1>4, <1>5 DEF NextUpcall
<1>7. InputIs(NextUpcall, "upcall", fr.pkts, fr.missed, x, Null, acts, fr.batches, fr.old, fr.own)
  BY <1>6, WithNext, EmptyIs
<1> QED  BY <1>2, <1>4, <1>5, <1>7

\* How many different things a list has.
LEMMA MembersCount ==
  ASSUME NEW S, NEW s \in Seq(S)
  PROVE  /\ IsFiniteSet(ToSet(s)) /\ Cardinality(ToSet(s)) \in Nat /\ Len(s) \in Nat
         /\ Cardinality(ToSet(s)) <= Len(s)
         /\ (\A i, j \in DOMAIN s: s[i] = s[j] => i = j) => Cardinality(ToSet(s)) = Len(s)
<1>1. PICK n \in Nat: n = Len(s) /\ DOMAIN s = 1 .. n
  OBVIOUS
<1>2. IsFiniteSet(1 .. n) /\ Cardinality(1 .. n) = n
  BY FS_Interval
<1>3. s \in [1 .. n -> ToSet(s)] /\ \A x \in ToSet(s): \E i \in 1 .. n: s[i] = x
  BY <1>1 DEF ToSet
<1>4. s \in Surjection(1 .. n, ToSet(s))
  BY <1>3 DEF Surjection
<1>5. /\ IsFiniteSet(ToSet(s)) /\ Cardinality(ToSet(s)) <= n
      /\ Cardinality(ToSet(s)) = n <=> s \in Injection(1 .. n, ToSet(s))
  BY <1>2, <1>4, FS_Surjection
<1>6. Cardinality(ToSet(s)) \in Nat
  BY <1>5, FS_CardinalityType
<1>7. (\A i, j \in DOMAIN s: s[i] = s[j] => i = j) => s \in Injection(1 .. n, ToSet(s))
  BY <1>1, <1>3 DEF Injection, IsInjective
<1> QED  BY <1>1, <1>5, <1>6, <1>7

LEMMA InputCallIs ==
  ASSUME NEW ps \in Seq(Packet)
  PROVE  /\ InputIs(InputCall(ps), "emc", ps, <<>>, 1, Null, <<>>, <<>>,
                    {f \in FlowObj: flow[f].dead /\ ref[f] > 0}, ToSet(ps))
         /\ Len(ps) <= Burst => PlaceOk(InputCall(ps))
         /\ InputCall(ps) \in Frame
         /\ HeldBy(InputCall(ps)) = {f \in FlowObj: flow[f].dead /\ ref[f] > 0}
<1>1. InputCall(ps) \in InputFrame
  <2>1. \A S: <<>> \in Seq(S)
    BY EmptyIs
  <2>2. 1 \in Nat \ {0} /\ Null \in MaybeFlow
    BY EmptyIs
  <2>3. ToSet(ps) \in SUBSET Packet
    BY Members
  <2> QED  BY <2>1, <2>2, <2>3 DEF InputCall, InputFrame
<1>2. InputIs(InputCall(ps), "emc", ps, <<>>, 1, Null, <<>>, <<>>,
              {f \in FlowObj: flow[f].dead /\ ref[f] > 0}, ToSet(ps))
  BY <1>1 DEF InputIs, InputCall
<1>3. (Len(ps) <= Burst => PlaceOk(InputCall(ps))) /\ InputCall(ps) \in Frame
  <2>1. IsFiniteSet(ToSet(ps)) /\ Cardinality(ToSet(ps)) \in Nat /\ Cardinality(ToSet(ps)) <= Len(ps)
        /\ Len(ps) \in Nat /\ Burst \in Nat
    BY MembersCount, NetdevInputAssumption
  <2>2. Len(ps) <= Burst => Cardinality(ToSet(ps)) <= Burst
    BY <2>1
  <2> QED  BY <1>1, <1>2, <2>1, <2>2, EmptyIs DEF PlaceOk, InputIs, Frame
<1>4. ToSet(<<>>) = {}
  BY EmptyIs
<1>5. HeldBy(InputCall(ps)) = {f \in FlowObj: flow[f].dead /\ ref[f] > 0}
  <2>1. HeldBy(InputCall(ps)) = {f \in FlowObj: flow[f].dead /\ ref[f] > 0} \cup
              (({Null} \cup {m.rule: m \in {}} \cup {b.flow: b \in {}}) \ {Null})
    BY <1>2, <1>4 DEF HeldBy, InputIs
  <2> QED  BY <2>1
<1> QED  BY <1>2, <1>3, <1>5

LEMMA ActionsIs ==
  ASSUME NEW ps \in Seq(Packet), NEW acts \in Seq(ActionKind), NEW steal \in BOOLEAN
  PROVE  /\ Actions(ps, acts, steal) \in Frame
         /\ Len(ps) <= Burst => PlaceOk(Actions(ps, acts, steal))
         /\ HeldBy(Actions(ps, acts, steal)) = {} /\ Actions(ps, acts, steal).kind = "actions"
         /\ Actions(ps, acts, steal).pkts = ps /\ Actions(ps, acts, steal).acts = acts
         /\ Actions(ps, acts, steal).steal = steal
  BY DEF Actions, Frame, ActionsFrame, PlaceOk, HeldBy

\* The actions of a batch own its packets.
LEMMA BatchActionsIs ==
  ASSUME NEW ps \in Seq(Packet), NEW acts \in Seq(ActionKind)
  PROVE  /\ Actions(ps, acts, TRUE) \in Frame /\ Actions(ps, acts, TRUE).kind = "actions"
         /\ Actions(ps, acts, TRUE).pkts = ps /\ Actions(ps, acts, TRUE).steal = TRUE
<1>1. PICK steal \in BOOLEAN: steal = TRUE
  OBVIOUS
<1>2. /\ Actions(ps, acts, steal) \in Frame /\ Actions(ps, acts, steal).kind = "actions"
      /\ Actions(ps, acts, steal).pkts = ps /\ Actions(ps, acts, steal).steal = steal
  BY ActionsIs
<1> QED  BY <1>1, <1>2

LEMMA UserspaceIs ==
  ASSUME NEW ps \in Seq(Packet), NEW steal \in BOOLEAN
  PROVE  /\ Userspace(ps, steal) \in Frame
         /\ Len(ps) <= Burst => PlaceOk(Userspace(ps, steal))
         /\ HeldBy(Userspace(ps, steal)) = {} /\ Userspace(ps, steal).kind = "userspace"
         /\ Userspace(ps, steal).pkts = ps /\ Userspace(ps, steal).steal = steal
  BY DEF Userspace, Frame, UserFrame, PlaceOk, HeldBy

LEMMA CallerIs ==
  ASSUME NEW p \in Packet
  PROVE  /\ Caller(p) \in Frame /\ PlaceOk(Caller(p)) /\ HeldBy(Caller(p)) = {}
         /\ Caller(p).kind = "caller" /\ Caller(p).pkts = <<p>>
  BY DEF Caller, Frame, CallerFrame, PlaceOk, HeldBy

\* The flows an input call holds.
LEMMA HeldIs ==
  ASSUME NEW fr \in InputFrame, NEW f
  PROVE  f \in HeldBy(fr) <=> \/ f \in fr.old
                              \/ f # Null /\ f = fr.new
                              \/ f # Null /\ \E j \in DOMAIN fr.missed: f = fr.missed[j].rule
                              \/ f # Null /\ \E n \in DOMAIN fr.batches: f = fr.batches[n].flow
<1>1. fr.kind = "input"
  BY InputTypes
<1>2. HeldBy(fr) = fr.old \cup (({fr.new} \cup {m.rule: m \in ToSet(fr.missed)}
                       \cup {b.flow: b \in ToSet(fr.batches)}) \ {Null})
  BY <1>1 DEF HeldBy
<1>3. f \in {m.rule: m \in ToSet(fr.missed)} <=> \E j \in DOMAIN fr.missed: f = fr.missed[j].rule
  BY DEF ToSet
<1>4. f \in {b.flow: b \in ToSet(fr.batches)} <=> \E n \in DOMAIN fr.batches: f = fr.batches[n].flow
  BY DEF ToSet
<1> QED  BY <1>2, <1>3, <1>4

LEMMA TailIs ==
  ASSUME NEW S, NEW s \in Seq(S), s # <<>>
  PROVE  /\ Tail(s) \in Seq(S) /\ Head(s) \in S /\ Head(s) \in ToSet(s) /\ Head(s) = s[1]
         /\ ToSet(s) = {Head(s)} \cup ToSet(Tail(s))
         /\ DOMAIN s = 1 .. Len(s) /\ Len(s) \in Nat \ {0} /\ Len(Tail(s)) = Len(s) - 1
         /\ DOMAIN Tail(s) = 1 .. Len(s) - 1
         /\ \A i \in 1 .. Len(s) - 1: Tail(s)[i] = s[i + 1]
<1>1. /\ Tail(s) \in Seq(S) /\ Head(s) \in S /\ Head(s) = s[1]
      /\ DOMAIN s = 1 .. Len(s) /\ Len(s) \in Nat \ {0} /\ Len(Tail(s)) = Len(s) - 1
      /\ \A i \in 1 .. Len(s) - 1: Tail(s)[i] = s[i + 1]
  OBVIOUS
<1>2. DOMAIN Tail(s) = 1 .. Len(s) - 1
  BY <1>1
<1>3. Head(s) \in ToSet(s)
  BY <1>1 DEF ToSet
<1>4. \A x \in ToSet(Tail(s)): x \in ToSet(s)
  <2> TAKE x \in ToSet(Tail(s))
  <2>1. PICK i \in DOMAIN Tail(s): x = Tail(s)[i]
    BY DEF ToSet
  <2>2. i + 1 \in DOMAIN s /\ x = s[i + 1]
    BY <2>1, <1>1, <1>2
  <2> QED  BY <2>2 DEF ToSet
<1>5. \A x \in ToSet(s): x = Head(s) \/ x \in ToSet(Tail(s))
  <2> TAKE x \in ToSet(s)
  <2>1. PICK i \in DOMAIN s: x = s[i]
    BY DEF ToSet
  <2>2. CASE i = 1
    BY <2>1, <2>2, <1>1
  <2>3. CASE i # 1
    <3>1. i - 1 \in DOMAIN Tail(s) /\ Tail(s)[i - 1] = s[i]
      BY <2>1, <2>3, <1>1, <1>2
    <3> QED  BY <3>1, <2>1 DEF ToSet
  <2> QED  BY <2>2, <2>3
<1> QED  BY <1>1, <1>2, <1>3, <1>4, <1>5

-----------------------------------------------------------------------------
(* Finding flows *)

LEMMA RuleIs ==
  ASSUME FlowTypes, NEW port, NEW k
  PROVE  /\ AnyRule(port, k) \in MaybeFlow
         /\ AnyRule(port, k) = Null <=> Lookup(port, k) = {}
         /\ AnyRule(port, k) # Null =>
              /\ AnyRule(port, k) \in cls /\ AnyRule(port, k) \in FlowObj
              /\ Port[flow[AnyRule(port, k)].key] = port
              /\ Class[flow[AnyRule(port, k)].key] = Class[k]
<1>1. Lookup(port, k) \subseteq cls /\ cls \subseteq FlowObj /\ Null \notin FlowObj
  BY NetdevInputAssumption DEF Lookup, FlowTypes
<1>2. CASE Lookup(port, k) = {}
  BY <1>2 DEF AnyRule, MaybeFlow
<1>3. CASE Lookup(port, k) # {}
  <2>1. AnyRule(port, k) \in Lookup(port, k)
    BY <1>3 DEF AnyRule
  <2> QED  BY <1>1, <1>3, <2>1 DEF Lookup, MaybeFlow
<1> QED  BY <1>2, <1>3

LEMMA ClsWaits ==
  ASSUME MemoryInv, NEW f \in cls, NEW r
  PROVE  f \in FlowObj /\ ref[f] > 0 /\ ~flow[f].dead /\ Waits(f, r)
<1>1. FlowTypes /\ Counted /\ DeferredOnce /\ TableInv
  BY DEF MemoryInv
<1>2. f \in table /\ f \in FlowObj
  BY <1>1, ClsInTable DEF FlowTypes
<1>3. ref[f] > 0 /\ ~flow[f].dead
  BY <1>1, <1>2, InUse DEF TableInv
<1> QED  BY <1>1, <1>2, <1>3, CountedWaits

LEMMA MinOfTwo ==
  ASSUME NEW S \in SUBSET (1 .. 2), S # {}
  PROVE  Min(S) \in S
<1>1. CASE 1 \in S
  <2>1. 1 \in S /\ \A y \in S: 1 =< y
    BY <1>1
  <2> QED  BY <2>1 DEF Min
<1>2. CASE 1 \notin S
  <2>0. \A y \in S: y = 2
    <3>1. \A y \in 1 .. 2: y = 1 \/ y = 2
      OBVIOUS
    <3> QED  BY <3>1, <1>2
  <2>1. PICK y \in S: TRUE
    OBVIOUS
  <2>2. 2 \in S /\ \A z \in S: 2 =< z
    BY <2>0, <2>1
  <2> QED  BY <2>2 DEF Min
<1> QED  BY <1>1, <1>2

LEMMA EmcLookupIs ==
  ASSUME FlowTypes, NEW k \in Key, EmcLookup(k) # Null
  PROVE  \E s \in Slot: /\ emc[s].flow = EmcLookup(k) /\ emc[s].key = k
                        /\ EmcLookup(k) \in FlowObj /\ ~flow[EmcLookup(k)].dead
<1> DEFINE hits == {i \in 1 .. 2: emc[Places(k)[i]].key = k /\ Alive(Places(k)[i])}
<1>1. hits # {} /\ EmcLookup(k) = emc[Places(k)[Min(hits)]].flow
  BY DEF EmcLookup
<1>2. Min(hits) \in hits
  BY <1>1, MinOfTwo
<1> DEFINE s == Places(k)[Min(hits)]
<1>3. emc[s].key = k /\ Alive(s) /\ Min(hits) \in 1 .. 2
  BY <1>2
<1>4. s \in Slot
  BY <1>3, PlacesAre
<1> HIDE DEF s
<1>5. emc[s].flow \in MaybeFlow /\ emc[s].flow # Null /\ ~flow[emc[s].flow].dead
  BY <1>3, <1>4 DEF FlowTypes, Entry, Alive
<1>6. EmcLookup(k) = emc[s].flow
  BY <1>1 DEF s
<1> QED  BY <1>3, <1>4, <1>5, <1>6 DEF MaybeFlow

LEMMA EmcLookupWaits ==
  ASSUME MemoryInv, NEW k \in Key, EmcLookup(k) # Null
  PROVE  EmcLookup(k) \in FlowObj /\ Waits(EmcLookup(k), "pmd")
<1>1. FlowTypes /\ Counted /\ DeferredOnce
  BY DEF MemoryInv
<1>2. EmcLookup(k) \in FlowObj /\ \E s \in Slot: emc[s].flow = EmcLookup(k)
  BY <1>1, EmcLookupIs
<1>3. ref[EmcLookup(k)] > 0
  BY <1>1, <1>2, InUse
<1> QED  BY <1>1, <1>2, <1>3, CountedWaits

-----------------------------------------------------------------------------
(* The steps of an input call keep flows and calls in order *)

LEMMA TopIsInput ==
  ASSUME StackTypes, stack # <<>>, Top.kind = "input"
  PROVE  /\ Top \in InputFrame /\ PlaceOk(Top) /\ Top = stack[Len(stack)]
         /\ Top.pkts \in Seq(Packet) /\ Top.missed \in Seq(Missed) /\ Top.i \in Nat \ {0}
         /\ Top.batches \in Seq(Batch) /\ Top.acts \in Seq(ActionKind)
  BY StackEnds, KindIs, InputTypes

LEMMA SameWaits ==
  ASSUME UNCHANGED <<flow, deferred>>, NEW f, NEW r
  PROVE  Waits(f, r)' <=> Waits(f, r)
  BY DEF Waits

\* An input call goes on, with no more flows than it had or than wait for it.
LEMMA InputGoes ==
  ASSUME CallInv, stack # <<>>, Top.kind = "input",
         NEW gr, NEW pc, NEW pkts, NEW missed, NEW i, NEW new, NEW acts,
         InputIs(gr, pc, pkts, missed, i, new, acts, Top.batches, Top.old, Top.own),
         Top.pc # "execute" => pc # "execute", PlaceOk(gr)
  PROVE  /\ Continues(Top, gr)
         /\ \A f \in HeldBy(gr): \/ f \in HeldBy(Top)
                                 \/ f # Null /\ f = new
                                 \/ f # Null /\ \E j \in DOMAIN missed: f = missed[j].rule
<1>1. Top \in InputFrame
  BY TopIsInput DEF CallInv
<1>2. gr \in InputFrame /\ gr \in Frame
  BY InputTypes DEF InputIs
<1>3. Continues(Top, gr)
  BY <1>2 DEF Continues, InputIs
<1>4. \A f \in HeldBy(gr): \/ f \in HeldBy(Top)
                           \/ f # Null /\ f = new
                           \/ f # Null /\ \E j \in DOMAIN missed: f = missed[j].rule
  BY <1>1, <1>2, HeldIs DEF InputIs
<1> QED  BY <1>3, <1>4

\* Of the flows Top holds, those of its missed packets and new.
LEMMA HeldOfTop ==
  ASSUME CallInv, stack # <<>>, Top.kind = "input"
  PROVE  /\ \A j \in DOMAIN Top.missed: Top.missed[j].rule # Null => Top.missed[j].rule \in HeldBy(Top)
         /\ Top.new # Null => Top.new \in HeldBy(Top)
         /\ \A n \in DOMAIN Top.batches: Top.batches[n].flow # Null => Top.batches[n].flow \in HeldBy(Top)
         /\ \A f \in HeldBy(Top): f \in FlowObj /\ Waits(f, "pmd")
<1>1. Top \in InputFrame
  BY TopIsInput DEF CallInv
<1>2. \A f \in HeldBy(Top): f \in FlowObj /\ Waits(f, "pmd")
  BY <1>1, StackEnds, HeldTypes DEF CallInv, HeldInv, StackTypes
<1> QED  BY <1>1, <1>2, HeldIs

FlowStep == MemoryInv' /\ CallInv' /\ PinKept

LEMMA EmcProcessingFlows ==
  ASSUME MemoryInv, CallInv, EmcProcessing, pkt[Head(Top.pkts)] \in Key
  PROVE  FlowStep
<1> DEFINE p == Head(Top.pkts)
           fr == [Top EXCEPT !.pkts = Tail(@)]
           f == EmcLookup(pkt[p])
           hr == [fr EXCEPT !.missed = Append(@, [p |-> p, key |-> pkt[p], rule |-> Null])]
<1>1. /\ stack # <<>> /\ Top.kind = "input" /\ Top.pc = "emc" /\ Top.pkts # <<>> /\ StackTypes
      /\ UNCHANGED <<flow, ref, deferred, cls, table, cmd, dump, emc, sweep>>
  BY DEF EmcProcessing, At, flowVars, tableVars, cacheVars, CallInv
<1>2. MemoryInv' /\ PinKept
  BY <1>1, SameMemory DEF memory
<1>3. /\ Top \in InputFrame /\ PlaceOk(Top) /\ Top.pkts \in Seq(Packet) /\ Top.missed \in Seq(Missed)
  BY <1>1, TopIsInput
<1>4. Tail(Top.pkts) \in Seq(Packet) /\ p \in Packet
  BY <1>1, <1>3
<1>5. InputIs(fr, "emc", Tail(Top.pkts), Top.missed, Top.i, Top.new, Top.acts, Top.batches, Top.old, Top.own)
  BY <1>1, <1>3, <1>4, WithPkts
<1> HIDE DEF fr
<1>6. PlaceOk(fr)
  BY <1>1, <1>3, <1>5 DEF PlaceOk, InputIs
<1>7. Continues(Top, fr) /\ \A g \in HeldBy(fr): g \in HeldBy(Top)
  BY <1>1, <1>5, <1>6, InputGoes, HeldOfTop
<1>8. CASE UNCHANGED batch /\ stack' = SetTop(fr)
  BY <1>1, <1>2, <1>7, <1>8, TopStep, BatchSame DEF FlowStep, CallInv
<1>9. CASE f # Null /\ QueueBatches(SetTop(fr), p, f)
  <2>1. f \in FlowObj /\ Waits(f, "pmd")
    BY <1>9, EmcLookupWaits
  <2>2. PICK g \in FlowObj: g = f
    BY <2>1
  <2>3. PICK y \in Packet: y = p
    BY <1>4
  <2>4. Waits(g, "pmd")'
    BY <2>1, <2>2, <1>1, SameWaits
  <2>5. QueueBatches(SetTop(fr), y, g)
    BY <1>9, <2>2, <2>3
  <2> HIDE DEF f, p
  <2> QED  BY <1>1, <1>2, <1>7, <2>4, <2>5, QueueStep DEF FlowStep
<1>10. CASE UNCHANGED batch /\ stack' = SetTop(hr)
  <2> DEFINE m == [p |-> p, key |-> pkt[p], rule |-> Null]
             ms == Append(Top.missed, m)
  <2>1. m \in Missed
    BY <1>4, EmptyIs DEF Missed
  <2> HIDE DEF p
  <2>2. m.rule = Null
    OBVIOUS
  <2> HIDE DEF m
  <2>3. ms \in Seq(Missed) /\ \A j \in DOMAIN ms: ms[j] = m \/ (j \in DOMAIN Top.missed /\ ms[j] = Top.missed[j])
    BY <1>3, <2>1
  <2>4. hr = [fr EXCEPT !.missed = ms]
    BY <1>5 DEF hr, ms, m, InputIs, InputFrame
  <2> HIDE DEF ms, hr
  <2>5. InputIs(hr, "emc", Tail(Top.pkts), ms, Top.i, Top.new, Top.acts, Top.batches, Top.old, Top.own)
    BY <1>5, <2>3, <2>4, WithMissed DEF InputIs
  <2>6. \A j \in DOMAIN ms: ms[j].rule = Null
    BY <1>1, <1>3, <2>2, <2>3 DEF PlaceOk
  <2>7. PlaceOk(hr)
    BY <1>1, <1>3, <2>5, <2>6 DEF PlaceOk, InputIs
  <2>8. Continues(Top, hr) /\ \A g \in HeldBy(hr): g \in HeldBy(Top)
    BY <1>1, <2>5, <2>6, <2>7, InputGoes, HeldOfTop
  <2> QED  BY <1>1, <1>2, <1>10, <2>8, TopStep, BatchSame DEF FlowStep, CallInv
<1> QED  BY <1>8, <1>9, <1>10 DEF EmcProcessing, fr

\* Missed packets with the rules of the classifier, as Classify finds them.
Ruled(ms) == [i \in DOMAIN ms |-> [ms[i] EXCEPT !.rule = AnyRule(Port[ms[1].key], ms[i].key)]]

LEMMA RuledIs ==
  ASSUME FlowTypes, NEW ms \in Seq(Missed)
  PROVE  /\ Ruled(ms) \in Seq(Missed) /\ DOMAIN Ruled(ms) = DOMAIN ms
         /\ \A j \in DOMAIN ms: /\ Ruled(ms)[j].rule = AnyRule(Port[ms[1].key], ms[j].key)
                               /\ Ruled(ms)[j].p = ms[j].p /\ Ruled(ms)[j].key = ms[j].key
<1> DEFINE rs == Ruled(ms)
<1>1. DOMAIN rs = DOMAIN ms
  BY DEF Ruled
<1>2. \A j \in DOMAIN ms: /\ rs[j] \in Missed /\ rs[j].p = ms[j].p /\ rs[j].key = ms[j].key
                          /\ rs[j].rule = AnyRule(Port[ms[1].key], ms[j].key)
  <2> TAKE j \in DOMAIN ms
  <2>1. ms[j] \in Missed
    OBVIOUS
  <2>2. AnyRule(Port[ms[1].key], ms[j].key) \in MaybeFlow
    BY RuleIs
  <2>3. PICK r \in MaybeFlow: r = AnyRule(Port[ms[1].key], ms[j].key)
    BY <2>2
  <2>4. rs[j] = [ms[j] EXCEPT !.rule = r]
    BY <2>3 DEF Ruled
  <2> HIDE DEF rs
  <2>5. rs[j] \in Missed /\ rs[j].rule = r /\ rs[j].p = ms[j].p /\ rs[j].key = ms[j].key
    BY <2>1, <2>4 DEF Missed
  <2> QED  BY <2>3, <2>5
<1> HIDE DEF rs
<1>3. rs \in Seq(Missed)
  <2>1. PICK n \in Nat: DOMAIN ms = 1 .. n
    OBVIOUS
  <2>2. rs = [j \in 1 .. n |-> rs[j]]
    BY <1>1, <2>1 DEF rs, Ruled
  <2>3. rs \in [1 .. n -> Missed]
    BY <1>2, <2>1, <2>2
  <2> QED  BY <2>3, SeqDef
<1> QED  BY <1>1, <1>2, <1>3 DEF rs

LEMMA ClassifyFlows ==
  ASSUME MemoryInv, CallInv, Classify
  PROVE  FlowStep
<1> DEFINE ms == Top.missed
           rs == [i \in DOMAIN ms |-> [ms[i] EXCEPT !.rule = AnyRule(Port[ms[1].key], ms[i].key)]]
           lost == {i \in DOMAIN rs: rs[i].rule = Null}
           next == CASE ms = <<>> -> "reset"
                     [] ms # <<>> /\ lost # {} /\ enabled -> "upcall"
                     [] OTHER -> "queue"
           gr == [Top EXCEPT !.missed = rs, !.pc = next]
<1>0. stack # <<>> /\ Top.kind = "input" /\ Top.pc = "emc" /\ Top.pkts = <<>> /\ StackTypes
  BY DEF Classify, At, CallInv
<1>1. /\ UNCHANGED <<flow, ref, deferred, cls, table, cmd, dump, emc, sweep, batch>>
      /\ stack' = SetTop(gr)
  BY DEF Classify, At, flowVars, tableVars, cacheVars, CallInv
<1> HIDE DEF gr
<1>2. MemoryInv' /\ PinKept /\ FlowTypes
  BY <1>1, SameMemory DEF memory, MemoryInv
<1>3. next \in {"reset", "upcall", "queue"}
  OBVIOUS
<1>4. /\ Top \in InputFrame /\ PlaceOk(Top) /\ ms \in Seq(Missed)
  BY <1>0, TopIsInput
<1>5. rs = Ruled(ms)
  BY DEF Ruled
<1>6. /\ rs \in Seq(Missed) /\ DOMAIN rs = DOMAIN ms
      /\ \A j \in DOMAIN ms: rs[j].rule = AnyRule(Port[ms[1].key], ms[j].key)
  BY <1>2, <1>4, <1>5, RuledIs
<1> HIDE DEF rs, next
<1>7. InputIs(gr, next, <<>>, rs, Top.i, Top.new, Top.acts, Top.batches, Top.old, Top.own)
  BY <1>0, <1>3, <1>4, <1>6, WithMissedPc DEF Place, gr
<1>8. PlaceOk(gr)
  BY <1>0, <1>3, <1>4, <1>7 DEF PlaceOk, InputIs
<1>9. next # "execute"
  BY <1>3
<1>10. Continues(Top, gr)
      /\ \A f \in HeldBy(gr): f \in HeldBy(Top) \/ (f # Null /\ f = Top.new)
                              \/ (f # Null /\ \E j \in DOMAIN rs: f = rs[j].rule)
  BY <1>0, <1>7, <1>8, <1>9, InputGoes
<1>11. \A j \in DOMAIN rs: rs[j].rule # Null => Waits(rs[j].rule, "pmd")
  <2> TAKE j \in DOMAIN rs
  <2> HAVE rs[j].rule # Null
  <2>1. rs[j].rule = AnyRule(Port[ms[1].key], ms[j].key)
    BY <1>6
  <2>2. rs[j].rule \in cls
    BY <2>1, <1>2, RuleIs
  <2> QED  BY <2>2, ClsWaits
<1>12. \A f \in HeldBy(gr): f \in HeldBy(Top) \/ Waits(f, "pmd")'
  BY <1>0, <1>1, <1>10, <1>11, HeldOfTop, SameWaits
<1> QED  BY <1>0, <1>1, <1>2, <1>10, <1>12, TopStep, BatchSame DEF FlowStep, CallInv

LEMMA MissUpcallFlows ==
  ASSUME MemoryInv, CallInv, MissUpcall
  PROVE  FlowStep
<1> DEFINE i == Top.i
           m == Top.missed[i]
           f == AnyRule(Port[m.key], m.key)
<1>1. /\ stack # <<>> /\ Top.kind = "input" /\ Top.pc = "upcall" /\ StackTypes
      /\ UNCHANGED <<flow, ref, deferred, cls, table, cmd, dump, emc, sweep, batch>>
  BY DEF MissUpcall, At, flowVars, tableVars, cacheVars, CallInv
<1>2. MemoryInv' /\ PinKept /\ FlowTypes /\ BatchKept
  BY <1>1, SameMemory, BatchSame DEF memory, MemoryInv, CallInv
<1>3. /\ Top \in InputFrame /\ PlaceOk(Top) /\ Top.missed \in Seq(Missed) /\ i \in Nat \ {0}
      /\ Top.pkts = <<>>
  BY <1>1, TopIsInput DEF PlaceOk
<1>4. InputIs(NextUpcall, "upcall", Top.pkts, Top.missed, i + 1, Null, <<>>, Top.batches, Top.old, Top.own)
  BY <1>1, NextUpcallIs
<1>5. PlaceOk(NextUpcall)
  BY <1>1, <1>3, <1>4 DEF PlaceOk, InputIs
<1>6. Continues(Top, NextUpcall) /\ HeldBy(NextUpcall) \subseteq HeldBy(Top)
  BY <1>1, <1>4, <1>5, InputGoes, HeldOfTop
<1>7. CASE stack' = SetTop([Top EXCEPT !.pc = "queue", !.i = 1])
  <2> DEFINE gr == [Top EXCEPT !.pc = "queue", !.i = 1]
  <2>0. PICK x \in Nat \ {0}: x = 1
    OBVIOUS
  <2>1. InputIs(gr, "queue", Top.pkts, Top.missed, x, Top.new, Top.acts, Top.batches, Top.old, Top.own)
    BY <1>3, <2>0, WithPcI DEF Place
  <2> HIDE DEF gr
  <2>2. PlaceOk(gr)
    BY <1>1, <1>3, <2>1 DEF PlaceOk, InputIs
  <2>3. Continues(Top, gr) /\ \A g \in HeldBy(gr): g \in HeldBy(Top)
    BY <1>1, <2>1, <2>2, InputGoes, HeldOfTop
  <2> QED  BY <1>1, <1>2, <1>7, <2>3, TopStep DEF FlowStep, gr
<1>8. CASE /\ i <= Len(Top.missed) /\ (m.rule # Null \/ f # Null)
           /\ stack' = SetTop([NextUpcall EXCEPT !.missed[i].rule = IF m.rule # Null THEN @ ELSE f])
  <2> DEFINE r == IF m.rule # Null THEN m.rule ELSE f
             mr == [m EXCEPT !.rule = r]
             ms == [Top.missed EXCEPT ![i] = mr]
             gr == [NextUpcall EXCEPT !.missed = ms]
  <2>1. i \in DOMAIN Top.missed /\ m \in Missed
    BY <1>3, <1>8
  <2>2. r \in MaybeFlow /\ (r # Null => r \in HeldBy(Top) \/ Waits(r, "pmd"))
    <3>1. m.rule # Null => m.rule \in HeldBy(Top)
      BY <1>1, <2>1, HeldOfTop
    <3>2. f # Null => f \in FlowObj /\ Waits(f, "pmd")
      BY <1>2, RuleIs, ClsWaits
    <3>3. f \in MaybeFlow /\ m.rule \in MaybeFlow
      BY <1>2, <2>1, RuleIs DEF Missed
    <3> QED  BY <3>1, <3>2, <3>3
  <2> HIDE DEF f
  <2>3. NextUpcall.missed = Top.missed /\ NextUpcall \in InputFrame
    BY <1>4 DEF InputIs
  <2>4. [NextUpcall EXCEPT !.missed[i].rule = IF m.rule # Null THEN @ ELSE f] = gr
    BY <2>3
  <2> HIDE DEF r
  <2>5. mr \in Missed /\ mr.rule = r
    BY <2>1, <2>2 DEF Missed
  <2> HIDE DEF mr, m
  <2>6. ms \in Seq(Missed) /\ \A j \in DOMAIN ms: ms[j] = mr \/ (j \in DOMAIN Top.missed /\ ms[j] = Top.missed[j])
    BY <1>3, <2>1, <2>5
  <2> HIDE DEF ms
  <2>7. InputIs(gr, "upcall", Top.pkts, ms, i + 1, Null, <<>>, Top.batches, Top.old, Top.own)
    BY <1>4, <2>3, <2>6, WithMissed DEF InputIs
  <2> HIDE DEF gr
  <2>8. PlaceOk(gr)
    BY <1>1, <1>3, <2>7 DEF PlaceOk, InputIs
  <2>9. Continues(Top, gr)
        /\ \A g \in HeldBy(gr): g \in HeldBy(Top) \/ (g # Null /\ \E j \in DOMAIN ms: g = ms[j].rule)
    BY <1>1, <2>7, <2>8, InputGoes
  <2>10. \A g \in HeldBy(gr): g \in HeldBy(Top) \/ Waits(g, "pmd")'
    BY <1>1, <2>2, <2>5, <2>6, <2>9, HeldOfTop, SameWaits
  <2>11. stack' = SetTop(gr)
    BY <1>8, <2>4 DEF m
  <2> QED  BY <1>1, <1>2, <2>9, <2>10, <2>11, TopStep DEF FlowStep
<1>9. CASE stack' = SetTop(NextUpcall)
  BY <1>1, <1>2, <1>6, <1>9, TopStep DEF FlowStep
<1>10. ASSUME NEW acts \in Program, NEW nospace \in BOOLEAN,
              i <= Len(Top.missed), m.rule = Null,
              stack' = Append(SetTop(IF nospace THEN NextUpcall
                                     ELSE [Top EXCEPT !.pc = "install", !.acts = acts]),
                              Actions(<<m.p>>, acts, TRUE))
       PROVE  FlowStep
  <2> DEFINE gr == [Top EXCEPT !.pc = "install", !.acts = acts]
             xr == IF nospace THEN NextUpcall ELSE gr
             hr == Actions(<<m.p>>, acts, TRUE)
  <2>1. acts \in Seq(ActionKind)
    BY NetdevInputAssumption DEF ActionKind
  <2>2. i \in DOMAIN Top.missed /\ m \in Missed
    BY <1>3, <1>10
  <2>3. <<m.p>> \in Seq(Packet)
    BY <2>2 DEF Missed
  <2>a. Len(<<m.p>>) <= Burst
    BY NetdevInputAssumption
  <2>4. hr \in Frame /\ PlaceOk(hr) /\ HeldBy(hr) = {}
    BY <2>1, <2>3, <2>a, ActionsIs
  <2> HIDE DEF hr
  <2>5. InputIs(gr, "install", Top.pkts, Top.missed, i, Top.new, acts, Top.batches, Top.old, Top.own)
    BY <1>3, <2>1, WithPcActs DEF Place
  <2> HIDE DEF gr
  <2>6. PlaceOk(gr)
    BY <1>1, <1>3, <1>10, <2>2, <2>5 DEF PlaceOk, InputIs
  <2>7. Continues(Top, gr) /\ HeldBy(gr) \subseteq HeldBy(Top)
    BY <1>1, <2>5, <2>6, InputGoes, HeldOfTop
  <2>8. Continues(Top, xr) /\ HeldBy(xr) \subseteq HeldBy(Top)
    BY <1>6, <2>7
  <2>b. xr.pc \in {"upcall", "install", "execute"}
    BY <1>4, <2>5 DEF InputIs
  <2>9. stack' = Append(SetTop(xr), hr)
    BY <1>10 DEF hr, gr
  <2> HIDE DEF xr
  <2> QED  BY <1>1, <1>2, <2>4, <2>8, <2>9, <2>b, PushStep DEF FlowStep
<1> QED  BY <1>7, <1>8, <1>9, <1>10 DEF MissUpcall

-----------------------------------------------------------------------------
(* The packets that are kept, in their order *)

Before(i, keep) == {x \in keep: x < i}
Nth(j, keep) == CHOOSE i \in keep: Cardinality({x \in keep: x < i}) = j - 1
KeptOf(ps, keep) == [j \in 1 .. Cardinality(keep) |->
                       ps[CHOOSE i \in keep: Cardinality({x \in keep: x < i}) = j - 1]]

\* The members of a set of numbers are counted from 0 by how many are before them.
LEMMA BeforeIs ==
  ASSUME NEW n \in Nat, NEW keep \in SUBSET (1 .. n)
  PROVE  /\ Cardinality(keep) \in Nat
         /\ \A i \in keep: Cardinality(Before(i, keep)) \in 0 .. Cardinality(keep) - 1
         /\ \A i, k \in keep: Cardinality(Before(i, keep)) = Cardinality(Before(k, keep)) => i = k
<1>1. IsFiniteSet(1 .. n)
  BY FS_Interval
<1>2. IsFiniteSet(keep) /\ Cardinality(keep) \in Nat
  BY <1>1, FS_Subset, FS_CardinalityType
<1>3. \A i: Before(i, keep) \in SUBSET keep
  BY DEF Before
<1>4. \A i: IsFiniteSet(Before(i, keep)) /\ Cardinality(Before(i, keep)) \in Nat
            /\ Cardinality(Before(i, keep)) <= Cardinality(keep)
  BY <1>2, <1>3, FS_Subset, FS_CardinalityType
<1>5. \A i, k \in keep: i < k => Cardinality(Before(i, keep)) < Cardinality(Before(k, keep))
  <2> SUFFICES ASSUME NEW i \in keep, NEW k \in keep, i < k
               PROVE  Cardinality(Before(i, keep)) < Cardinality(Before(k, keep))
    OBVIOUS
  <2>1. i \in Nat /\ k \in Nat /\ (\A x \in keep: x \in Nat) /\ ~(i < i)
    OBVIOUS
  <2>0. Before(i, keep) \in SUBSET Before(k, keep) /\ i \in Before(k, keep) /\ i \notin Before(i, keep)
    <3>1. \A x \in keep: x < i => x < k
      BY <2>1
    <3> QED  BY <2>1, <3>1 DEF Before
  <2>2. Cardinality(Before(i, keep)) <= Cardinality(Before(k, keep))
        /\ Cardinality(Before(i, keep)) # Cardinality(Before(k, keep))
    BY <2>0, <1>4, FS_Subset
  <2> QED  BY <2>2, <1>4
<1>6. \A i \in keep: Cardinality(Before(i, keep)) # Cardinality(keep)
  <2> SUFFICES ASSUME NEW i \in keep, Cardinality(Before(i, keep)) = Cardinality(keep)
               PROVE  FALSE
    OBVIOUS
  <2>1. Before(i, keep) = keep
    BY <1>2, <1>3, FS_Subset
  <2>2. i \in Nat /\ ~(i < i)
    OBVIOUS
  <2>3. i \notin Before(i, keep)
    BY <2>2 DEF Before
  <2> QED  BY <2>1, <2>3
<1>7. \A i \in keep: Cardinality(Before(i, keep)) \in 0 .. Cardinality(keep) - 1
  BY <1>2, <1>4, <1>6
<1>8. \A i, k \in keep: Cardinality(Before(i, keep)) = Cardinality(Before(k, keep)) => i = k
  <2> SUFFICES ASSUME NEW i \in keep, NEW k \in keep,
                      Cardinality(Before(i, keep)) = Cardinality(Before(k, keep)), i # k
               PROVE  FALSE
    OBVIOUS
  <2>1. i < k \/ k < i
    OBVIOUS
  <2> QED  BY <2>1, <1>4, <1>5
<1> QED  BY <1>2, <1>7, <1>8

LEMMA NthIs ==
  ASSUME NEW n \in Nat, NEW keep \in SUBSET (1 .. n), NEW j \in 1 .. Cardinality(keep)
  PROVE  Nth(j, keep) \in keep /\ Cardinality(Before(Nth(j, keep), keep)) = j - 1
<1> DEFINE c == Cardinality(keep)
           f == [i \in keep |-> Cardinality(Before(i, keep)) + 1]
<1>1. c \in Nat /\ \A i \in keep: Cardinality(Before(i, keep)) \in 0 .. c - 1
  BY BeforeIs
<1>2. \A i, k \in keep: Cardinality(Before(i, keep)) = Cardinality(Before(k, keep)) => i = k
  BY BeforeIs
<1> HIDE DEF c
<1>3. \A i \in keep: f[i] \in 1 .. c /\ f[i] = Cardinality(Before(i, keep)) + 1
  BY <1>1
<1>4. \A i, k \in keep: f[i] = f[k] => i = k
  <2> SUFFICES ASSUME NEW i \in keep, NEW k \in keep, f[i] = f[k]
               PROVE  i = k
    OBVIOUS
  <2>1. Cardinality(Before(i, keep)) = Cardinality(Before(k, keep))
    BY <1>1, <1>3
  <2> QED  BY <2>1, <1>2
<1>5. f \in [keep -> 1 .. c] /\ DOMAIN f = keep
  BY <1>3
<1> HIDE DEF f
<1>6. f \in Injection(keep, 1 .. c)
  BY <1>4, <1>5 DEF Injection, IsInjective
<1>7. IsFiniteSet(1 .. c) /\ Cardinality(1 .. c) = c
  BY <1>1, FS_Interval
<1>8. f \in Surjection(keep, 1 .. c)
  BY <1>6, <1>7, FS_Injection DEF c
<1>9. PICK i \in keep: f[i] = j
  BY <1>8 DEF Surjection, c
<1>10. Cardinality(Before(i, keep)) = j - 1
  BY <1>1, <1>3, <1>9
<1>11. \E k \in keep: Cardinality({x \in keep: x < k}) = j - 1
  BY <1>10 DEF Before
<1> QED  BY <1>11 DEF Nth, Before

LEMMA KeptIs ==
  ASSUME NEW n \in Nat, NEW keep \in SUBSET (1 .. n), NEW S, NEW ps, \A i \in 1 .. n: ps[i] \in S
  PROVE  /\ KeptOf(ps, keep) \in Seq(S) /\ DOMAIN KeptOf(ps, keep) = 1 .. Cardinality(keep)
         /\ \A j \in 1 .. Cardinality(keep): KeptOf(ps, keep)[j] = ps[Nth(j, keep)] /\ Nth(j, keep) \in keep
         /\ \A j, k \in 1 .. Cardinality(keep): Nth(j, keep) = Nth(k, keep) => j = k
         /\ \A i \in keep: \E j \in 1 .. Cardinality(keep): i = Nth(j, keep)
<1> DEFINE c == Cardinality(keep)
<1>1. c \in Nat
  BY BeforeIs
<1>2. \A j \in 1 .. c: Nth(j, keep) \in keep /\ Cardinality(Before(Nth(j, keep), keep)) = j - 1
  BY NthIs
<1>3. KeptOf(ps, keep) = [j \in 1 .. c |-> ps[Nth(j, keep)]]
  BY DEF KeptOf, Nth
<1> HIDE DEF c
<1>4. \A j \in 1 .. c: ps[Nth(j, keep)] \in S
  BY <1>2
<1>5. KeptOf(ps, keep) \in Seq(S) /\ DOMAIN KeptOf(ps, keep) = 1 .. c
      /\ \A j \in 1 .. c: KeptOf(ps, keep)[j] = ps[Nth(j, keep)] /\ Nth(j, keep) \in keep
  <2>1. KeptOf(ps, keep) \in [1 .. c -> S]
    BY <1>3, <1>4
  <2>2. KeptOf(ps, keep) \in Seq(S)
    BY <2>1, <1>1, SeqDef
  <2> QED  BY <2>2, <1>2, <1>3
<1>6. \A j, k \in 1 .. c: Nth(j, keep) = Nth(k, keep) => j = k
  <2> SUFFICES ASSUME NEW j \in 1 .. c, NEW k \in 1 .. c, Nth(j, keep) = Nth(k, keep)
               PROVE  j = k
    OBVIOUS
  <2>1. j - 1 = k - 1
    BY <1>2
  <2> QED  BY <2>1, <1>1
<1>7. \A i \in keep: \E j \in 1 .. c: i = Nth(j, keep)
  <2> TAKE i \in keep
  <2> DEFINE j == Cardinality(Before(i, keep)) + 1
  <2>1. Cardinality(Before(i, keep)) \in 0 .. c - 1
    BY BeforeIs DEF c
  <2>2. j \in 1 .. c /\ j - 1 = Cardinality(Before(i, keep))
    BY <2>1, <1>1
  <2>3. Cardinality(Before(Nth(j, keep), keep)) = Cardinality(Before(i, keep)) /\ Nth(j, keep) \in keep
    BY <2>2, <1>2
  <2>4. Nth(j, keep) = i
    BY <2>3, BeforeIs
  <2> QED  BY <2>2, <2>4
<1> QED  BY <1>5, <1>6, <1>7 DEF c

-----------------------------------------------------------------------------
(* The other steps keep flows and calls in order *)

LEMMA InstallFlows ==
  ASSUME MemoryInv, CallInv, Install
  PROVE  FlowStep
<1>1. /\ stack # <<>> /\ Top.kind = "input" /\ Top.pc = "install" /\ StackTypes /\ ~Locked
  BY DEF Install, At, CallInv
<1>2. UNCHANGED <<deferred, cmd, dump, emc, sweep>>
  BY DEF Install, cacheVars
<1>3. /\ Top \in InputFrame /\ PlaceOk(Top) /\ Top.missed \in Seq(Missed) /\ Top.i \in Nat \ {0}
      /\ Top.acts \in Seq(ActionKind) /\ Top.pkts = <<>>
      /\ Top.i \in DOMAIN Top.missed /\ Top.missed[Top.i].rule = Null
  BY <1>1, TopIsInput DEF PlaceOk
<1>4. PICK k \in Key: k = Top.missed[Top.i].key
  <2>1. PICK m \in Missed: m = Top.missed[Top.i]
    BY <1>3
  <2>2. m.key \in Key
    BY DEF Missed
  <2> QED  BY <2>1, <2>2
<1>5. FlowTypes
  BY DEF MemoryInv
<1>6. PICK old \in MaybeFlow: old = AnyRule(Port[k], k)
  BY <1>5, RuleIs
<1>7. ASSUME NEW f \in FlowObj, MemoryInv', PinKept, BatchKept, Waits(f, "pmd")',
             stack' = SetTop([Top EXCEPT !.pc = "insert", !.new = f])
      PROVE  FlowStep
  <2> DEFINE gr == [Top EXCEPT !.pc = "insert", !.new = f]
  <2>1. f \in MaybeFlow /\ f # Null
    BY NetdevInputAssumption DEF MaybeFlow
  <2>2. InputIs(gr, "insert", Top.pkts, Top.missed, Top.i, f, Top.acts, Top.batches, Top.old, Top.own)
    BY <1>3, <2>1, WithPcNew DEF Place
  <2> HIDE DEF gr
  <2>3. PlaceOk(gr)
    BY <1>1, <1>3, <2>1, <2>2 DEF PlaceOk, InputIs
  <2>4. Continues(Top, gr)
        /\ \A g \in HeldBy(gr): g \in HeldBy(Top) \/ g = f
                              \/ (g # Null /\ \E j \in DOMAIN Top.missed: g = Top.missed[j].rule)
    BY <1>1, <2>2, <2>3, InputGoes
  <2>5. \A g \in HeldBy(gr): g \in HeldBy(Top) \/ Waits(g, "pmd")'
    BY <1>1, <1>7, <2>4, HeldOfTop
  <2> QED  BY <1>1, <1>7, <2>4, <2>5, TopStep DEF FlowStep, gr
<1>8. CASE /\ old # Null /\ stack' = SetTop([Top EXCEPT !.pc = "insert", !.new = old])
           /\ UNCHANGED <<flow, ref, batch, cls, table>>
  <2>1. MemoryInv' /\ PinKept /\ BatchKept
    BY <1>2, <1>8, SameMemory, BatchSame DEF memory, CallInv
  <2>2. old \in FlowObj /\ Waits(old, "pmd")
    BY <1>5, <1>6, <1>8, RuleIs, ClsWaits
  <2>3. Waits(old, "pmd")'
    BY <1>2, <1>8, <2>2, SameWaits
  <2> QED  BY <1>7, <1>8, <2>1, <2>2, <2>3
<1>9. ASSUME NEW f \in FreshFlow, FlowAdd(f, k, Top.acts),
             stack' = SetTop([Top EXCEPT !.pc = "insert", !.new = f])
      PROVE  FlowStep
  <2>1. PICK acts \in Seq(ActionKind): acts = Top.acts
    BY <1>3
  <2>2. MemoryInv' /\ PinKept /\ Waits(f, "pmd")'
    BY <1>1, <1>2, <1>9, <2>1, FlowAddStep
  <2>3. f \in FlowObj
    BY <1>9, FreshIs
  <2>4. BatchKept
    <3>1. batch' = [batch EXCEPT ![f] = Null]
      BY <1>9 DEF FlowAdd
    <3>2. batch \in [FlowObj -> (Nat \X Nat) \cup {Null}]
      BY DEF CallInv, BatchType
    <3>3. batch' \in [FlowObj -> (Nat \X Nat) \cup {Null}]
          /\ \A g \in FlowObj: batch'[g] \in {batch[g], Null}
      BY <3>1, <3>2
    <3> QED  BY <3>3 DEF BatchKept, BatchType
  <2> QED  BY <1>7, <1>9, <2>2, <2>3, <2>4
<1> QED  BY <1>4, <1>6, <1>8, <1>9 DEF Install

LEMMA InsertFlows ==
  ASSUME MemoryInv, CallInv, Insert
  PROVE  FlowStep
<1>1. /\ stack # <<>> /\ Top.kind = "input" /\ Top.pc = "insert" /\ StackTypes
      /\ EmcInsert(Top.missed[Top.i].key, Top.new) /\ stack' = SetTop(NextUpcall)
      /\ UNCHANGED <<flow, cls, table, cmd, dump, sweep, batch>>
  BY DEF Insert, At, tableVars, CallInv
<1>2. /\ Top \in InputFrame /\ PlaceOk(Top) /\ Top.missed \in Seq(Missed) /\ Top.i \in Nat \ {0}
      /\ Top.pkts = <<>> /\ Top.i \in DOMAIN Top.missed /\ Top.new # Null /\ Top.new \in MaybeFlow
  BY <1>1, TopIsInput, InputTypes DEF PlaceOk
<1>3. PICK k \in Key: k = Top.missed[Top.i].key
  <2>1. PICK m \in Missed: m = Top.missed[Top.i]
    BY <1>2
  <2>2. m.key \in Key
    BY DEF Missed
  <2> QED  BY <2>1, <2>2
<1>4. PICK f \in FlowObj: f = Top.new
  BY <1>2 DEF MaybeFlow
<1>5. MemoryInv' /\ PinKept
  BY <1>1, <1>3, <1>4, EmcInsertStep
<1>6. InputIs(NextUpcall, "upcall", Top.pkts, Top.missed, Top.i + 1, Null, <<>>, Top.batches, Top.old, Top.own)
  BY <1>1, NextUpcallIs
<1>7. PlaceOk(NextUpcall)
  BY <1>1, <1>2, <1>6 DEF PlaceOk, InputIs
<1>8. Continues(Top, NextUpcall) /\ \A g \in HeldBy(NextUpcall): g \in HeldBy(Top)
  BY <1>1, <1>6, <1>7, InputGoes, HeldOfTop
<1> QED  BY <1>1, <1>5, <1>8, TopStep, BatchSame DEF FlowStep, CallInv

LEMMA QueueRuleFlows ==
  ASSUME MemoryInv, CallInv, QueueRule
  PROVE  FlowStep
<1>1. /\ stack # <<>> /\ Top.kind = "input" /\ Top.pc = "queue" /\ StackTypes
      /\ UNCHANGED <<flow, cls, table, cmd, dump, sweep>>
  BY DEF QueueRule, At, tableVars, CallInv
<1>2. /\ Top \in InputFrame /\ PlaceOk(Top) /\ Top.missed \in Seq(Missed) /\ Top.i \in Nat \ {0}
      /\ Top.pkts = <<>>
  BY <1>1, TopIsInput DEF PlaceOk
<1>3. CASE Top.i > Len(Top.missed)
  <2> DEFINE gr == [Top EXCEPT !.pc = "reset"]
  <2>1. stack' = SetTop(gr) /\ UNCHANGED <<ref, deferred, emc, batch>>
    BY <1>3 DEF QueueRule
  <2>2. MemoryInv' /\ PinKept /\ BatchKept
    BY <1>1, <2>1, SameMemory, BatchSame DEF memory, CallInv
  <2>3. InputIs(gr, "reset", Top.pkts, Top.missed, Top.i, Top.new, Top.acts, Top.batches, Top.old, Top.own)
    BY <1>2, WithPc DEF Place
  <2> HIDE DEF gr
  <2>4. PlaceOk(gr)
    BY <1>1, <1>2, <2>3 DEF PlaceOk, InputIs
  <2>5. Continues(Top, gr) /\ \A g \in HeldBy(gr): g \in HeldBy(Top)
    BY <1>1, <2>3, <2>4, InputGoes, HeldOfTop
  <2> QED  BY <1>1, <2>1, <2>2, <2>5, TopStep DEF FlowStep
<1>4. CASE ~(Top.i > Len(Top.missed))
  <2>1. Top.i \in DOMAIN Top.missed
    BY <1>2, <1>4
  <2>2. PICK m \in Missed: m = Top.missed[Top.i]
    BY <1>2, <2>1
  <2>3. PICK x \in Nat \ {0}: x = Top.i + 1
    BY <1>2
  <2> DEFINE gr == [Top EXCEPT !.i = x]
  <2>4. [Top EXCEPT !.i = @ + 1] = gr
    BY <2>3
  <2>5. InputIs(gr, "queue", Top.pkts, Top.missed, x, Top.new, Top.acts, Top.batches, Top.old, Top.own)
    BY <1>1, <1>2, WithI
  <2> HIDE DEF gr
  <2>6. PlaceOk(gr)
    BY <1>1, <1>2, <2>5 DEF PlaceOk, InputIs
  <2>7. Continues(Top, gr) /\ \A g \in HeldBy(gr): g \in HeldBy(Top)
    BY <1>1, <2>5, <2>6, InputGoes, HeldOfTop
  <2>8. CASE m.rule = Null
    <3>1. stack' = SetTop(gr) /\ UNCHANGED <<ref, deferred, emc, batch>>
      BY <1>4, <2>2, <2>4, <2>8 DEF QueueRule
    <3>2. MemoryInv' /\ PinKept /\ BatchKept
      BY <1>1, <3>1, SameMemory, BatchSame DEF memory, CallInv
    <3> QED  BY <1>1, <2>7, <3>1, <3>2, TopStep DEF FlowStep
  <2>9. CASE m.rule # Null
    <3>1. EmcInsert(m.key, m.rule) /\ QueueBatches(SetTop(gr), m.p, m.rule)
      BY <1>4, <2>2, <2>4, <2>9 DEF QueueRule
    <3>2. m.key \in Key /\ m.p \in Packet /\ m.rule \in FlowObj
      BY <2>9 DEF Missed, MaybeFlow
    <3>3. MemoryInv' /\ PinKept
      BY <1>1, <3>1, <3>2, EmcInsertStep
    <3>4. Waits(m.rule, "pmd")
      BY <1>1, <2>1, <2>2, <2>9, HeldOfTop
    <3>5. stack' # <<>>
      <4>1. gr \in InputFrame /\ (Started(gr, m.p, m.rule) \/ Joined(gr, m.p, m.rule, batch[m.rule][1], batch[m.rule][2]))
        BY <1>1, <2>7, <3>1, <3>2, QueueIs
      <4>2. Len(stack') = Len(stack) /\ Len(stack) \in Nat \ {0} /\ stack' \in Seq(Frame)
        BY <1>1, <4>1, StackEnds DEF Started, Joined, TopIs
      <4> QED  BY <4>2
    <3>6. Waits(m.rule, "pmd")'
      BY <1>1, <3>2, <3>3, <3>4, <3>5 DEF PinKept
    <3> QED  BY <1>1, <2>7, <3>1, <3>2, <3>3, <3>6, QueueStep DEF FlowStep
  <2> QED  BY <2>8, <2>9
<1> QED  BY <1>3, <1>4

LEMMA ResetBatchesFlows ==
  ASSUME MemoryInv, CallInv, ResetBatches
  PROVE  FlowStep
<1>1. MemoryInv' /\ PinKept
  BY SameMemory DEF memory, ResetBatches, flowVars, tableVars, cacheVars
<1> QED  BY <1>1, ResetStep DEF FlowStep

LEMMA ExecuteBatchFlows ==
  ASSUME MemoryInv, CallInv, ExecuteBatch
  PROVE  FlowStep
<1>1. /\ stack # <<>> /\ Top.kind = "input" /\ Top.pc = "execute" /\ StackTypes /\ Top.i <= Len(Top.batches)
      /\ UNCHANGED <<flow, ref, deferred, cls, table, cmd, dump, emc, sweep, batch>>
  BY DEF ExecuteBatch, At, flowVars, tableVars, cacheVars, CallInv
<1>2. MemoryInv' /\ PinKept /\ BatchKept /\ FlowTypes
  BY <1>1, SameMemory, BatchSame DEF memory, CallInv, MemoryInv
<1>3. /\ Top \in InputFrame /\ PlaceOk(Top) /\ Top.batches \in Seq(Batch) /\ Top.i \in Nat \ {0}
      /\ Top.pkts = <<>>
  BY <1>1, TopIsInput DEF PlaceOk
<1>4. PICK b \in Batch: b = Top.batches[Top.i]
  BY <1>1, <1>3
<1>5. PICK x \in Nat \ {0}: x = Top.i + 1
  BY <1>3
<1> DEFINE gr == [Top EXCEPT !.i = x]
           hr == Actions(b.pkts, flow[b.flow].acts, TRUE)
<1>6. stack' = Append(SetTop(gr), hr)
  BY <1>4, <1>5 DEF ExecuteBatch
<1>7. InputIs(gr, "execute", Top.pkts, Top.missed, x, Top.new, Top.acts, Top.batches, Top.old, Top.own)
  BY <1>1, <1>3, WithI
<1> HIDE DEF gr
<1>8. PlaceOk(gr)
  BY <1>1, <1>3, <1>7 DEF PlaceOk, InputIs
<1>9. Continues(Top, gr) /\ \A g \in HeldBy(gr): g \in HeldBy(Top)
  BY <1>1, <1>7, <1>8, InputGoes, HeldOfTop
<1>10. b.pkts \in Seq(Packet) /\ flow[b.flow].acts \in Seq(ActionKind)
  BY <1>2 DEF Batch, FlowTypes, Flow
<1>a. Len(b.pkts) <= Burst
  BY <1>1, <1>3, <1>4, Members DEF PlaceOk
<1>11. hr \in Frame /\ PlaceOk(hr) /\ HeldBy(hr) = {}
  BY <1>10, <1>a, ActionsIs
<1>b. gr.pc \in {"upcall", "install", "execute"}
  BY <1>7 DEF InputIs
<1> HIDE DEF hr
<1> QED  BY <1>1, <1>2, <1>6, <1>9, <1>11, <1>b, PushStep DEF FlowStep

LEMMA ReturnFlows ==
  ASSUME MemoryInv, CallInv, InputReturns \/ CallerFrees \/ ActionsReturn
  PROVE  FlowStep
<1>1. /\ stack # <<>> /\ Return /\ StackTypes /\ ~(Top.kind = "input" /\ Top.pc # "execute")
      /\ UNCHANGED <<flow, ref, cls, table, cmd, dump, emc, sweep, batch>>
  BY DEF InputReturns, CallerFrees, ActionsReturn, At, tableVars, cacheVars, CallInv
<1>2. MemoryInv' /\ PinKept
  BY <1>1, ReturnStep
<1> QED  BY <1>1, <1>2, PopStep DEF FlowStep, Return

LEMMA FreshPackets ==
  ASSUME NEW n \in Nat, NEW ps \in Fresh(n)
  PROVE  /\ ps \in [1 .. n -> FreePackets] /\ ps \in Seq(Packet) /\ DOMAIN ps = 1 .. n /\ Len(ps) = n
         /\ \A i, j \in 1 .. n: ps[i] = ps[j] => i = j
         /\ \A i \in 1 .. n: ps[i] \in Packet /\ pkt[ps[i]] = Null
<1> DEFINE fits == {s \in [1 .. n -> FreePackets]: \A i, j \in 1 .. n: i # j => s[i] # s[j]}
<1>1. fits # {} /\ ps = CHOOSE s \in fits: TRUE
  BY DEF Fresh
<1>2. ps \in fits
  BY <1>1
<1>3. ps \in [1 .. n -> FreePackets] /\ \A i, j \in 1 .. n: ps[i] = ps[j] => i = j
  BY <1>2
<1>4. FreePackets \subseteq Packet
  BY DEF FreePackets
<1>5. ps \in [1 .. n -> Packet]
  BY <1>3, <1>4
<1>6. ps \in Seq(Packet)
  BY <1>5, SeqDef
<1>7. \A i \in 1 .. n: ps[i] \in Packet /\ pkt[ps[i]] = Null
  BY <1>3 DEF FreePackets
<1>8. DOMAIN ps = 1 .. n /\ Len(ps) = n
  BY <1>5, <1>6
<1> QED  BY <1>3, <1>6, <1>7, <1>8

\* A list of actions after its first action.
LEMMA AfterActionIs ==
  ASSUME StackTypes, stack # <<>>, Top.kind = "actions", Top.acts # <<>>
  PROVE  /\ Top \in ActionsFrame /\ Top.pkts \in Seq(Packet) /\ Top.acts \in Seq(ActionKind)
         /\ Top.steal \in BOOLEAN
         /\ AfterAction \in Frame /\ AfterAction.kind = "actions" /\ AfterAction.steal = Top.steal
         /\ AfterAction.acts = Tail(Top.acts)
         /\ AfterAction.pkts = (IF MaySteal THEN <<>> ELSE Top.pkts)
         /\ MaySteal \in BOOLEAN /\ (MaySteal => Top.steal)
         /\ Continues(Top, AfterAction) /\ HeldBy(AfterAction) = {}
         /\ Len(Top.pkts) <= Burst
<1>1. Top \in ActionsFrame
  BY StackEnds, KindIs
<1>2. Top.pkts \in Seq(Packet) /\ Top.acts \in Seq(ActionKind) /\ Top.steal \in BOOLEAN
  BY <1>1 DEF ActionsFrame
<1>3. MaySteal \in BOOLEAN /\ (MaySteal => Top.steal)
  BY <1>2 DEF MaySteal
<1>4. PICK as \in Seq(ActionKind): as = Tail(Top.acts)
  BY <1>2, TailIs
<1>5. PICK ps \in Seq(Packet): ps = IF MaySteal THEN <<>> ELSE Top.pkts
  BY <1>2, EmptyIs
<1>6. AfterAction = [Top EXCEPT !.acts = as, !.pkts = ps]
  BY <1>4, <1>5 DEF AfterAction
<1>7. /\ AfterAction \in ActionsFrame /\ AfterAction.kind = "actions" /\ AfterAction.steal = Top.steal
      /\ AfterAction.acts = as /\ AfterAction.pkts = ps
  BY <1>1, <1>6 DEF ActionsFrame
<1>9. Len(Top.pkts) <= Burst
  BY StackEnds DEF PlaceOk
<1>10. Len(ps) <= Burst
  BY <1>5, <1>9, NetdevInputAssumption
<1>8. AfterAction \in Frame /\ Continues(Top, AfterAction) /\ HeldBy(AfterAction) = {}
  BY <1>7, <1>10 DEF Frame, Continues, PlaceOk, HeldBy
<1> QED  BY <1>1, <1>2, <1>3, <1>4, <1>5, <1>7, <1>8, <1>9

LEMMA DoingIs ==
  ASSUME StackTypes, NEW S, Doing(S)
  PROVE  stack # <<>> /\ Top.kind = "actions" /\ Top.acts # <<>>
  BY DEF Doing

LEMMA DropFlows ==
  ASSUME MemoryInv, CallInv, Drop
  PROVE  FlowStep
<1>1. /\ stack # <<>> /\ Top.kind = "actions" /\ Top.acts # <<>> /\ StackTypes
      /\ stack' = SetTop(AfterAction)
      /\ UNCHANGED <<flow, ref, deferred, cls, table, cmd, dump, emc, sweep, batch>>
  BY DEF Drop, Doing, flowVars, tableVars, cacheVars, CallInv
<1>2. MemoryInv' /\ PinKept /\ BatchKept
  BY <1>1, SameMemory, BatchSame DEF memory, CallInv
<1>3. Continues(Top, AfterAction) /\ HeldBy(AfterAction) = {}
  BY <1>1, AfterActionIs
<1> QED  BY <1>1, <1>2, <1>3, TopStep DEF FlowStep

\* The flows an input call must leave alone were counted when it began.
LEMMA OldWaits ==
  ASSUME MemoryInv, UNCHANGED <<flow, deferred>>, NEW ps \in Seq(Packet)
  PROVE  \A f \in HeldBy(InputCall(ps)): Waits(f, "pmd")'
<1>1. \A f \in HeldBy(InputCall(ps)): f \in FlowObj /\ ref[f] > 0
  BY InputCallIs
<1>2. \A f \in HeldBy(InputCall(ps)): Waits(f, "pmd")
  BY <1>1, CountedWaits DEF MemoryInv
<1> QED  BY <1>2, SameWaits

\* What Recirculate does, with the packets it keeps by their operator.
Recirculates(n, ps, keep) ==
    /\ n = Len(Top.pkts)
    /\ ps \in IF MaySteal THEN {Top.pkts} ELSE Fresh(n)
    /\ keep \in SUBSET (1 .. n)
    /\ pkt' = [p \in Packet |-> CASE p \notin ToSet(ps) -> pkt[p]
                 [] p \in ToSet(KeptOf(ps, keep)) -> Recirc[pkt[Top.pkts[CHOOSE i \in 1 .. n: ps[i] = p]]]
                 [] OTHER -> Null]
    /\ freed' = freed \cup {p \in ToSet(Top.pkts): pkt[p] = Null}
    /\ stack' = IF KeptOf(ps, keep) = <<>> THEN SetTop(AfterAction)
                ELSE Append(SetTop(AfterAction), InputCall(KeptOf(ps, keep)))

LEMMA RecirculateIs ==
  ASSUME StackTypes, Recirculate
  PROVE  /\ stack # <<>> /\ Top.kind = "actions" /\ Top.acts # <<>> /\ Top.pkts \in Seq(Packet)
         /\ UNCHANGED <<flow, ref, deferred, cls, table, cmd, dump, emc, sweep, batch>>
         /\ \E n \in Nat: \E ps \in Seq(Packet): \E keep:
              Recirculates(n, ps, keep) /\ DOMAIN ps = 1 .. n /\ Len(ps) = n /\ DOMAIN Top.pkts = 1 .. n
<1>1. /\ stack # <<>> /\ Top.kind = "actions" /\ Top.acts # <<>>
      /\ UNCHANGED <<flow, ref, deferred, cls, table, cmd, dump, emc, sweep, batch>>
  BY DEF Recirculate, Doing, flowVars, tableVars, cacheVars
<1>2. Top.pkts \in Seq(Packet)
  BY <1>1, AfterActionIs
<1>3. PICK n \in Nat: n = Len(Top.pkts) /\ DOMAIN Top.pkts = 1 .. n
  BY <1>2
<1> DEFINE len == Len(Top.pkts)
<1>a. PICK rs \in IF MaySteal THEN {Top.pkts} ELSE Fresh(len): \E keep \in SUBSET (1 .. len):
        /\ pkt' = [p \in Packet |-> CASE p \notin ToSet(rs) -> pkt[p]
                     [] p \in ToSet(KeptOf(rs, keep)) -> Recirc[pkt[Top.pkts[CHOOSE i \in 1 .. len: rs[i] = p]]]
                     [] OTHER -> Null]
        /\ freed' = freed \cup {p \in ToSet(Top.pkts): pkt[p] = Null}
        /\ stack' = IF KeptOf(rs, keep) = <<>> THEN SetTop(AfterAction)
                    ELSE Append(SetTop(AfterAction), InputCall(KeptOf(rs, keep)))
  BY ZenonT(60) DEF Recirculate, KeptOf
<1>4. \E ps1 \in IF MaySteal THEN {Top.pkts} ELSE Fresh(n): \E keep \in SUBSET (1 .. n):
        Recirculates(n, ps1, keep)
  BY <1>3, <1>a DEF Recirculates
<1>5. PICK ps \in IF MaySteal THEN {Top.pkts} ELSE Fresh(n): \E keep \in SUBSET (1 .. n):
        Recirculates(n, ps, keep)
  BY <1>4
<1>6. PICK keep \in SUBSET (1 .. n): Recirculates(n, ps, keep)
  BY <1>5
<1>7. ps \in Seq(Packet) /\ DOMAIN ps = 1 .. n /\ Len(ps) = n
  <2>1. CASE MaySteal
    BY <1>2, <1>3, <1>5, <2>1
  <2>2. CASE ~MaySteal
    BY <1>5, <2>2, FreshPackets
  <2> QED  BY <2>1, <2>2
<1> QED  BY <1>1, <1>2, <1>3, <1>6, <1>7

LEMMA RecirculateFlows ==
  ASSUME MemoryInv, CallInv, Recirculate
  PROVE  FlowStep
<1>0. StackTypes
  BY DEF CallInv
<1>1. /\ stack # <<>> /\ Top.kind = "actions" /\ Top.acts # <<>>
      /\ UNCHANGED <<flow, ref, deferred, cls, table, cmd, dump, emc, sweep, batch>>
  BY <1>0, RecirculateIs
<1>2. MemoryInv' /\ PinKept /\ BatchKept
  BY <1>1, SameMemory, BatchSame DEF memory, CallInv
<1>3. Continues(Top, AfterAction) /\ HeldBy(AfterAction) = {} /\ Len(Top.pkts) <= Burst
      /\ Top.pkts \in Seq(Packet) /\ AfterAction.kind = "actions"
  BY <1>0, <1>1, AfterActionIs
<1>4. PICK n \in Nat: \E ps \in Seq(Packet): \E keep: Recirculates(n, ps, keep) /\ DOMAIN ps = 1 .. n
  BY <1>0, RecirculateIs
<1>5. PICK ps \in Seq(Packet): \E keep: Recirculates(n, ps, keep) /\ DOMAIN ps = 1 .. n
  BY <1>4
<1>6. PICK keep: Recirculates(n, ps, keep) /\ DOMAIN ps = 1 .. n
  BY <1>5
<1>7. keep \in SUBSET (1 .. n) /\ \A i \in 1 .. n: ps[i] \in Packet
  BY <1>6 DEF Recirculates
<1>8. KeptOf(ps, keep) \in Seq(Packet)
  BY <1>7, KeptIs
<1>a. Len(KeptOf(ps, keep)) <= Burst
  <2>1. IsFiniteSet(1 .. n) /\ Cardinality(1 .. n) = n
    BY FS_Interval
  <2>2. Cardinality(keep) <= n /\ Cardinality(keep) \in Nat
    BY <1>7, <2>1, FS_Subset, FS_CardinalityType
  <2>3. Len(KeptOf(ps, keep)) = Cardinality(keep)
    <3>1. DOMAIN KeptOf(ps, keep) = 1 .. Cardinality(keep)
      BY <1>7, KeptIs
    <3> QED  BY <1>8, <2>2, <3>1
  <2>4. n <= Burst /\ Burst \in Nat
    BY <1>3, <1>6, NetdevInputAssumption DEF Recirculates
  <2> QED  BY <2>2, <2>3, <2>4
<1>9. PICK kept \in Seq(Packet): kept = KeptOf(ps, keep)
  BY <1>8
<1>10. CASE stack' = SetTop(AfterAction)
  BY <1>1, <1>2, <1>3, <1>10, TopStep DEF FlowStep
<1>11. CASE stack' = Append(SetTop(AfterAction), InputCall(kept))
  <2>1. InputCall(kept) \in Frame /\ PlaceOk(InputCall(kept))
    BY <1>9, <1>a, InputCallIs
  <2>2. \A f \in HeldBy(InputCall(kept)): Waits(f, "pmd")'
    BY <1>1, OldWaits
  <2>3. PICK hr \in Frame: hr = InputCall(kept)
    BY <2>1
  <2> QED  BY <1>1, <1>2, <1>3, <1>11, <2>1, <2>2, <2>3, PushStep DEF FlowStep
<1> QED  BY <1>6, <1>9, <1>10, <1>11 DEF Recirculates

LEMMA ToUserspaceFlows ==
  ASSUME MemoryInv, CallInv, ToUserspace
  PROVE  FlowStep
<1>1. /\ stack # <<>> /\ Top.kind = "actions" /\ Top.acts # <<>> /\ StackTypes
      /\ stack' = Append(SetTop(AfterAction), Userspace(Top.pkts, MaySteal))
      /\ UNCHANGED <<flow, ref, deferred, cls, table, cmd, dump, emc, sweep, batch>>
  BY DEF ToUserspace, Doing, flowVars, tableVars, cacheVars, CallInv
<1>2. MemoryInv' /\ PinKept /\ BatchKept
  BY <1>1, SameMemory, BatchSame DEF memory, CallInv
<1>3. Continues(Top, AfterAction) /\ HeldBy(AfterAction) = {} /\ Top.pkts \in Seq(Packet) /\ MaySteal \in BOOLEAN
      /\ Len(Top.pkts) <= Burst /\ AfterAction.kind = "actions"
  BY <1>1, AfterActionIs
<1>4. /\ Userspace(Top.pkts, MaySteal) \in Frame /\ PlaceOk(Userspace(Top.pkts, MaySteal))
      /\ HeldBy(Userspace(Top.pkts, MaySteal)) = {}
  BY <1>3, UserspaceIs
<1>5. PICK hr \in Frame: hr = Userspace(Top.pkts, MaySteal)
  BY <1>4
<1> QED  BY <1>1, <1>2, <1>3, <1>4, <1>5, PushStep DEF FlowStep

LEMMA UserspaceTop ==
  ASSUME StackTypes, stack # <<>>, Top.kind = "userspace"
  PROVE  Top \in UserFrame /\ Top.pkts \in Seq(Packet) /\ Top.steal \in BOOLEAN
<1>1. Top \in UserFrame
  BY StackEnds, KindIs
<1> QED  BY <1>1 DEF UserFrame

LEMMA UserTail ==
  ASSUME StackTypes, stack # <<>>, Top.kind = "userspace", NEW ps \in Seq(Packet)
  PROVE  /\ [Top EXCEPT !.pkts = ps] \in Frame /\ [Top EXCEPT !.pkts = ps].kind = "userspace"
         /\ [Top EXCEPT !.pkts = ps].pkts = ps /\ [Top EXCEPT !.pkts = ps].steal = Top.steal
         /\ Len(ps) <= Len(Top.pkts) => Continues(Top, [Top EXCEPT !.pkts = ps])
         /\ HeldBy([Top EXCEPT !.pkts = ps]) = {}
<1>1. Top \in UserFrame
  BY UserspaceTop
<1> DEFINE gr == [Top EXCEPT !.pkts = ps]
<1>2. gr \in UserFrame /\ gr.kind = "userspace" /\ gr.pkts = ps /\ gr.steal = Top.steal
  BY <1>1 DEF UserFrame
<1> HIDE DEF gr
<1>4. Len(Top.pkts) <= Burst /\ Top.pkts \in Seq(Packet) /\ Burst \in Nat
  BY StackEnds, UserspaceTop, NetdevInputAssumption DEF PlaceOk
<1>5. Len(ps) <= Len(Top.pkts) => Len(ps) <= Burst
  BY <1>4
<1>3. gr \in Frame /\ (Len(ps) <= Len(Top.pkts) => Continues(Top, gr)) /\ HeldBy(gr) = {}
  BY <1>2, <1>5 DEF Frame, Continues, PlaceOk, HeldBy
<1> QED  BY <1>2, <1>3 DEF gr

LEMMA UserspaceUpcallFlows ==
  ASSUME MemoryInv, CallInv, UserspaceUpcall
  PROVE  FlowStep
<1>1. /\ stack # <<>> /\ Top.kind = "userspace" /\ StackTypes
      /\ UNCHANGED <<flow, ref, deferred, cls, table, cmd, dump, emc, sweep, batch>>
  BY DEF UserspaceUpcall, flowVars, tableVars, cacheVars, CallInv
<1>2. MemoryInv' /\ PinKept /\ BatchKept
  BY <1>1, SameMemory, BatchSame DEF memory, CallInv
<1>3. Top.pkts \in Seq(Packet) /\ Top.steal \in BOOLEAN
  BY <1>1, UserspaceTop
<1>4. CASE Top.pkts = <<>>
  <2>1. stack' = Front(stack)
    BY <1>4 DEF UserspaceUpcall
  <2> QED  BY <1>1, <1>2, <2>1, PopStep DEF FlowStep
<1>5. CASE Top.pkts # <<>>
  <2>1. Tail(Top.pkts) \in Seq(Packet) /\ Head(Top.pkts) \in Packet /\ Len(Tail(Top.pkts)) <= Len(Top.pkts)
    BY <1>3, <1>5
  <2> DEFINE gr == [Top EXCEPT !.pkts = Tail(Top.pkts)]
  <2>2. Continues(Top, gr) /\ HeldBy(gr) = {} /\ gr.kind = "userspace"
    BY <1>1, <2>1, UserTail
  <2>3. [Top EXCEPT !.pkts = Tail(@)] = gr
    OBVIOUS
  <2> HIDE DEF gr
  <2>4. CASE stack' = SetTop(gr)
    BY <1>1, <1>2, <2>2, <2>4, TopStep DEF FlowStep
  <2>5. ASSUME NEW acts \in Program,
               stack' = Append(SetTop(gr), Actions(<<Head(Top.pkts)>>, acts, Top.steal))
        PROVE  FlowStep
    <3>1. acts \in Seq(ActionKind)
      BY NetdevInputAssumption DEF ActionKind
    <3>2. <<Head(Top.pkts)>> \in Seq(Packet)
      BY <2>1
    <3> DEFINE xr == Actions(<<Head(Top.pkts)>>, acts, Top.steal)
    <3>a. Len(<<Head(Top.pkts)>>) <= Burst
      BY NetdevInputAssumption
    <3>3. xr \in Frame /\ PlaceOk(xr) /\ HeldBy(xr) = {}
      BY <1>3, <3>1, <3>2, <3>a, ActionsIs
    <3> HIDE DEF xr
    <3>4. PICK hr \in Frame: hr = xr
      BY <3>3
    <3>5. stack' = Append(SetTop(gr), hr)
      BY <2>5, <3>4 DEF xr
    <3> QED  BY <1>1, <1>2, <2>2, <3>3, <3>4, <3>5, PushStep DEF FlowStep
  <2> QED  BY <1>5, <2>3, <2>4, <2>5 DEF UserspaceUpcall
<1> QED  BY <1>4, <1>5

\* The first calls.
LEMMA InputFlows ==
  ASSUME MemoryInv, CallInv, Input
  PROVE  FlowStep
<1>1. stack = <<>> /\ UNCHANGED <<flow, ref, deferred, cls, table, cmd, dump, emc, sweep, batch>>
  BY DEF Input, flowVars, tableVars, cacheVars
<1>2. MemoryInv' /\ PinKept
  BY <1>1, SameMemory DEF memory
<1>3. PICK n \in 1 .. Burst: \E ps \in Fresh(n): stack' = <<InputCall(ps)>>
  BY DEF Input
<1>4. n \in Nat
  BY NetdevInputAssumption
<1>5. PICK ps \in Fresh(n): stack' = <<InputCall(ps)>>
  BY <1>3
<1>6. ps \in Seq(Packet)
  BY <1>4, FreshPackets
<1>a. Len(ps) <= Burst
  BY <1>4, FreshPackets, NetdevInputAssumption
<1>7. InputCall(ps) \in Frame /\ PlaceOk(InputCall(ps))
  BY <1>6, <1>a, InputCallIs
<1>8. \A f \in HeldBy(InputCall(ps)): Waits(f, "pmd")'
  BY <1>1, <1>6, OldWaits
<1>9. PICK fr \in Frame: fr = InputCall(ps)
  BY <1>7
<1>10. stack' \in Seq(Frame) /\ \A l \in DOMAIN stack': stack'[l] = fr /\ l = Len(stack')
  BY <1>5, <1>9
<1> QED  BY <1>1, <1>2, <1>7, <1>8, <1>9, <1>10, StartStep DEF FlowStep

LEMMA ExecuteCallFlows ==
  ASSUME MemoryInv, CallInv, ExecuteCall
  PROVE  FlowStep
<1>1. stack = <<>> /\ UNCHANGED <<flow, ref, deferred, cls, table, cmd, dump, emc, sweep, batch>>
  BY DEF ExecuteCall, flowVars, tableVars, cacheVars
<1>2. MemoryInv' /\ PinKept
  BY <1>1, SameMemory DEF memory
<1>3. PICK acts \in Program, ps \in Fresh(1): stack' = <<Caller(ps[1]), Actions(ps, acts, FALSE)>>
  BY DEF ExecuteCall
<1>4. ps \in Seq(Packet) /\ ps[1] \in Packet /\ acts \in Seq(ActionKind)
  BY FreshPackets, NetdevInputAssumption DEF ActionKind
<1>5. PICK fr \in Frame: fr = Caller(ps[1]) /\ PlaceOk(fr) /\ HeldBy(fr) = {}
  BY <1>4, CallerIs
<1>b. Len(ps) <= Burst
  BY FreshPackets, NetdevInputAssumption
<1>6. PICK hr \in Frame: hr = Actions(ps, acts, FALSE) /\ PlaceOk(hr) /\ HeldBy(hr) = {}
  BY <1>4, <1>b, ActionsIs
<1>a. stack' = <<fr, hr>>
  BY <1>3, <1>5, <1>6
<1>7. stack' \in Seq(Frame) /\ \A l \in DOMAIN stack': (stack'[l] = fr /\ l = 1) \/ (stack'[l] = hr /\ l = Len(stack'))
  BY <1>a
<1>c. \A l \in DOMAIN stack': l # Len(stack') => stack'[l].kind # "input"
  BY <1>4, <1>5, <1>7, CallerIs
<1> QED  BY <1>1, <1>2, <1>5, <1>6, <1>7, <1>c, StartStep DEF FlowStep

-----------------------------------------------------------------------------
(* Other threads *)

\* What does not touch the calls.
LEMMA OtherFlows ==
  ASSUME MemoryInv, CallInv,
         Sweep \/ Reload \/ BeginRemoval \/ Unlink \/ Retire \/ DumpNext \/ DumpReports
           \/ EnableUpcalls \/ DisableUpcalls \/ Reclaim
  PROVE  FlowStep
<1>1. UNCHANGED <<stack, batch>>
  BY DEF Sweep, Reload, BeginRemoval, Unlink, Retire, DumpNext, DumpReports, EnableUpcalls,
         DisableUpcalls, Reclaim, tableVars, flowVars, cacheVars, pktVars
<1>2. MemoryInv' /\ PinKept
  <2>1. CASE Sweep
    BY <2>1, SweepStep
  <2>2. CASE Reload
    <3>1. stack = <<>>
      BY <2>2 DEF Reload
    <3> QED  BY <2>2, <3>1, ReloadStep DEF PinKept
  <2>3. CASE BeginRemoval
    BY <2>3, BeginRemovalStep
  <2>4. CASE Unlink
    BY <2>4, UnlinkStep
  <2>5. CASE Retire
    BY <2>5, RetireStep
  <2>6. CASE DumpNext
    BY <2>6, DumpNextStep
  <2>7. CASE DumpReports
    BY <2>7, DumpReportsStep
  <2>8. CASE Reclaim
    BY <2>8, ReclaimStep
  <2>9. CASE EnableUpcalls \/ DisableUpcalls
    <3>1. UNCHANGED memory
      BY <2>9 DEF EnableUpcalls, DisableUpcalls, memory, flowVars, tableVars, cacheVars
    <3> QED  BY <3>1, SameMemory
  <2> QED  BY <2>1, <2>2, <2>3, <2>4, <2>5, <2>6, <2>7, <2>8, <2>9
<1>3. BatchKept
  BY <1>1, BatchSame DEF CallInv
<1> QED  BY <1>1, <1>2, <1>3, SameCalls DEF FlowStep

LEMMA FlowPutFlows ==
  ASSUME MemoryInv, CallInv, FlowPut
  PROVE  FlowStep
<1>1. PICK k \in Key, acts \in Program:
        \/ \E new \in FreshFlow: FlowAdd(new, k, acts)
        \/ /\ AnyRule(Port[k], k) # Null
           /\ flow' = [flow EXCEPT ![AnyRule(Port[k], k)].acts = acts]
           /\ UNCHANGED <<ref, batch, cls, table>>
  BY DEF FlowPut
<1>2. /\ ~Locked /\ UNCHANGED <<deferred, cmd, dump, emc, sweep, stack>>
      /\ acts \in Seq(ActionKind)
  BY NetdevInputAssumption DEF FlowPut, cacheVars, ActionKind
<1>3. CASE \E new \in FreshFlow: FlowAdd(new, k, acts)
  <2>1. PICK f \in FreshFlow: FlowAdd(f, k, acts)
    BY <1>3
  <2>2. MemoryInv' /\ PinKept
    BY <1>2, <2>1, FlowAddStep
  <2>3. BatchKept
    BY <2>1 DEF FlowAdd, BatchKept, BatchType, CallInv
  <2> QED  BY <1>2, <2>2, <2>3, SameCalls DEF FlowStep
<1>4. CASE /\ AnyRule(Port[k], k) # Null
           /\ flow' = [flow EXCEPT ![AnyRule(Port[k], k)].acts = acts]
           /\ UNCHANGED <<ref, batch, cls, table>>
  <2>1. PICK f \in FlowObj: f = AnyRule(Port[k], k)
    BY <1>4, RuleIs DEF MemoryInv
  <2>2. MemoryInv' /\ PinKept
    BY <1>2, <1>4, <2>1, ModifyStep
  <2>3. BatchKept
    BY <1>4, BatchSame DEF CallInv
  <2> QED  BY <1>2, <2>2, <2>3, SameCalls DEF FlowStep
<1> QED  BY <1>1, <1>3, <1>4

\* The start.
LEMMA InitFlows ==
  ASSUME Init
  PROVE  MemoryInv /\ CallInv
<1>1. /\ flow = [f \in FlowObj |-> NoFlow] /\ ref = [f \in FlowObj |-> 0]
      /\ batch = [f \in FlowObj |-> Null] /\ cls = {} /\ table = {}
      /\ emc = [s \in Slot |-> Empty] /\ sweep = 0 /\ stack = <<>> /\ cmd = NoCmd /\ dump = {} /\ deferred = {}
  BY DEF Init, Slot
<1>2. Null \notin FlowObj /\ Slots \in Nat \ {0}
  BY NetdevInputAssumption
<1>3. NoFlow \in Flow /\ Empty \in Entry /\ NoFlow.dead = FALSE
  BY EmptyIs DEF NoFlow, Flow, Empty, Entry, MaybeFlow
<1>4. FlowTypes
  <2>1. flow \in [FlowObj -> Flow] /\ emc \in [Slot -> Entry] /\ ref \in [FlowObj -> Nat]
    BY <1>1, <1>3
  <2>2. sweep \in Slot
    BY <1>1, <1>2 DEF Slot
  <2>3. cmd \in [pc: {"idle", "next", "unlinked"}, todo: SUBSET FlowObj, cur: MaybeFlow]
    BY <1>1 DEF NoCmd, MaybeFlow
  <2> QED  BY <1>1, <2>1, <2>2, <2>3 DEF FlowTypes
<1>5. Counted
  <2>1. \A f \in FlowObj: Refs(emc, f) = {}
    BY <1>1, <1>2 DEF Refs, Empty
  <2>2. \A f \in FlowObj: Cardinality(Refs(emc, f)) = 0
    BY <2>1, FS_EmptySet
  <2> QED  BY <1>1, <2>2 DEF Counted
<1>6. DeferredOnce /\ TableInv /\ DumpInv
  BY <1>1 DEF DeferredOnce, TableInv, DumpInv, NoCmd
<1>7. StackTypes /\ HeldInv
  BY <1>1 DEF StackTypes, HeldInv
<1>8. BatchType /\ BatchPlace /\ Nested
  BY <1>1 DEF BatchType, BatchPlace, Nested
<1> QED  BY <1>4, <1>5, <1>6, <1>7, <1>8 DEF MemoryInv, CallInv

LEMMA StutterFlows ==
  ASSUME MemoryInv, CallInv, UNCHANGED vars
  PROVE  FlowStep
<1>1. UNCHANGED memory /\ UNCHANGED <<stack, batch>>
  BY DEF vars, memory, flowVars, tableVars, cacheVars
<1>2. MemoryInv' /\ PinKept /\ BatchKept
  BY <1>1, SameMemory, BatchSame DEF CallInv
<1> QED  BY <1>1, <1>2, SameCalls DEF FlowStep

\* Every step, if a packet that is looked up has a key.
HeadHasKey == At("emc") /\ Top.pkts # <<>> => pkt[Head(Top.pkts)] \in Key

LEMMA NextFlows ==
  ASSUME MemoryInv, CallInv, HeadHasKey, [Next]_vars
  PROVE  FlowStep
<1>1. CASE EmcProcessing
  <2>1. pkt[Head(Top.pkts)] \in Key
    BY <1>1 DEF HeadHasKey, EmcProcessing
  <2> QED  BY <1>1, <2>1, EmcProcessingFlows
<1>2. CASE Classify
  BY <1>2, ClassifyFlows
<1>3. CASE MissUpcall
  BY <1>3, MissUpcallFlows
<1>4. CASE Install
  BY <1>4, InstallFlows
<1>5. CASE Insert
  BY <1>5, InsertFlows
<1>6. CASE QueueRule
  BY <1>6, QueueRuleFlows
<1>7. CASE ResetBatches
  BY <1>7, ResetBatchesFlows
<1>8. CASE ExecuteBatch
  BY <1>8, ExecuteBatchFlows
<1>9. CASE InputReturns \/ CallerFrees \/ ActionsReturn
  BY <1>9, ReturnFlows
<1>10. CASE Drop
  BY <1>10, DropFlows
<1>11. CASE Recirculate
  BY <1>11, RecirculateFlows
<1>12. CASE ToUserspace
  BY <1>12, ToUserspaceFlows
<1>13. CASE UserspaceUpcall
  BY <1>13, UserspaceUpcallFlows
<1>14. CASE Input
  BY <1>14, InputFlows
<1>15. CASE ExecuteCall
  BY <1>15, ExecuteCallFlows
<1>16. CASE FlowPut
  BY <1>16, FlowPutFlows
<1>17. CASE Sweep \/ Reload \/ BeginRemoval \/ Unlink \/ Retire \/ DumpNext \/ DumpReports
              \/ EnableUpcalls \/ DisableUpcalls \/ Reclaim
  BY <1>17, OtherFlows
<1>18. CASE UNCHANGED vars
  BY <1>18, StutterFlows
<1> QED  BY <1>1, <1>2, <1>3, <1>4, <1>5, <1>6, <1>7, <1>8, <1>9, <1>10, <1>11, <1>12, <1>13, <1>14,
            <1>15, <1>16, <1>17, <1>18 DEF Next, Call

\* What HeldIsLive says, from it.
LEMMA LiveIfHeld ==
  ASSUME MemoryInv, CallInv
  PROVE  HeldIsLive
<1>1. SUFFICES ASSUME NEW f \in Held, f # Null
               PROVE  flow[f].st = "live"
  BY DEF HeldIsLive
<1>2. CASE f \in table
  BY <1>2, InUse DEF MemoryInv, FlowTypes, DeferredOnce
<1>3. CASE f \in cls
  BY <1>2, <1>3, ClsInTable DEF MemoryInv
<1>4. CASE \E s \in DOMAIN emc: f = emc[s].flow
  <2>1. PICK s \in Slot: f = emc[s].flow /\ f \in FlowObj
    BY <1>1, <1>4 DEF MemoryInv, FlowTypes, Entry, MaybeFlow
  <2>2. ref[f] > 0
    BY <2>1, InUse DEF MemoryInv
  <2> QED  BY <2>1, <2>2 DEF MemoryInv, DeferredOnce
<1>5. CASE f \in dump
  BY <1>5 DEF MemoryInv, DumpInv, Waits
<1>6. ASSUME NEW l \in Frames("input"),
             \/ f = stack[l].new \/ f \in {m.rule: m \in ToSet(stack[l].missed)}
             \/ f \in {b.flow: b \in ToSet(stack[l].batches)}
      PROVE  flow[f].st = "live"
  <2>1. f \in HeldBy(stack[l]) /\ l \in DOMAIN stack
    BY <1>1, <1>6 DEF HeldBy, Frames
  <2> QED  BY <2>1 DEF CallInv, HeldInv, Waits
<1>7. \/ f \in table \/ f \in cls \/ f \in dump \/ \E s \in DOMAIN emc: f = emc[s].flow
      \/ \E l \in Frames("input"):
           \/ f = stack[l].new \/ f \in {m.rule: m \in ToSet(stack[l].missed)}
           \/ f \in {b.flow: b \in ToSet(stack[l].batches)}
  BY DEF Held
<1> QED  BY <1>2, <1>3, <1>4, <1>5, <1>6, <1>7

-----------------------------------------------------------------------------
(* Rules *)

LEMMA FewerRules ==
  ASSUME NoOverlap, cls' \subseteq cls, \A f \in cls: flow'[f].key = flow[f].key
  PROVE  NoOverlap'
  BY DEF NoOverlap

LEMMA AddedRule ==
  ASSUME MemoryInv, NoOverlap, NEW f \in FreshFlow, NEW k \in Key, NEW acts \in Seq(ActionKind),
         AnyRule(Port[k], k) = Null, FlowAdd(f, k, acts)
  PROVE  NoOverlap'
<1>1. f \in FlowObj /\ f \notin cls /\ cls \subseteq FlowObj
  BY FreshIs, FreeIsUnused DEF MemoryInv, FlowTypes
<1>2. NoFlow \in Flow /\ flow \in [FlowObj -> Flow]
  BY EmptyIs DEF NoFlow, Flow, MemoryInv, FlowTypes
<1> DEFINE new == [NoFlow EXCEPT !.st = "live", !.key = k, !.acts = acts]
<1>3. new \in Flow /\ new.key = k
  BY DEF NoFlow, Flow
<1>4. flow' = [flow EXCEPT ![f] = new] /\ cls' = cls \cup {f}
  BY DEF FlowAdd
<1> HIDE DEF new
<1>5. flow'[f].key = k /\ \A g \in cls: flow'[g].key = flow[g].key
  BY <1>1, <1>2, <1>3, <1>4
<1>6. \A g \in cls: ~(Port[flow[g].key] = Port[k] /\ Class[flow[g].key] = Class[k])
  BY RuleIs DEF Lookup, MemoryInv
<1>7. ASSUME NEW g \in cls', NEW h \in cls', g # h
      PROVE  ~(Class[flow'[g].key] = Class[flow'[h].key] /\ Port[flow'[g].key] = Port[flow'[h].key])
  <2>1. CASE g = f
    BY <1>4, <1>5, <1>6, <1>7, <2>1
  <2>2. CASE h = f
    BY <1>4, <1>5, <1>6, <1>7, <2>2
  <2>3. CASE g # f /\ h # f
    BY <1>4, <1>5, <1>7, <2>3 DEF NoOverlap
  <2> QED  BY <2>1, <2>2, <2>3
<1> QED  BY <1>7 DEF NoOverlap

LEMMA NextRules ==
  ASSUME MemoryInv, CallInv, NoOverlap, [Next]_vars
  PROVE  NoOverlap'
<1>1. CASE UNCHANGED <<flow, cls>>
  BY <1>1, FewerRules
<1>2. CASE Install
  <2>1. stack # <<>> /\ Top.kind = "input" /\ Top.pc = "install"
    BY <1>2 DEF Install, At
  <2>2. Top.missed \in Seq(Missed) /\ Top.i \in DOMAIN Top.missed /\ Top.acts \in Seq(ActionKind)
    BY <2>1, TopIsInput DEF CallInv, PlaceOk
  <2>3. PICK m \in Missed: m = Top.missed[Top.i]
    BY <2>2, Members
  <2>4. PICK k \in Key: k = Top.missed[Top.i].key
    BY <2>3 DEF Missed
  <2>5. CASE UNCHANGED <<flow, cls>>
    BY <2>5, FewerRules
  <2>6. CASE \E f \in FreshFlow: AnyRule(Port[k], k) = Null /\ FlowAdd(f, k, Top.acts)
    BY <2>2, <2>6, AddedRule
  <2> QED  BY <1>2, <2>4, <2>5, <2>6 DEF Install
<1>3. CASE FlowPut
  <2>1. PICK k \in Key, acts \in Program:
          \/ /\ AnyRule(Port[k], k) = Null
             /\ \E new \in FreshFlow: FlowAdd(new, k, acts)
          \/ /\ AnyRule(Port[k], k) # Null
             /\ flow' = [flow EXCEPT ![AnyRule(Port[k], k)].acts = acts]
             /\ UNCHANGED cls
    BY <1>3 DEF FlowPut
  <2>2. acts \in Seq(ActionKind)
    BY NetdevInputAssumption DEF ActionKind
  <2>3. CASE AnyRule(Port[k], k) = Null /\ \E new \in FreshFlow: FlowAdd(new, k, acts)
    BY <2>2, <2>3, AddedRule
  <2>4. CASE /\ AnyRule(Port[k], k) # Null
             /\ flow' = [flow EXCEPT ![AnyRule(Port[k], k)].acts = acts]
             /\ UNCHANGED cls
    <3>1. PICK f \in FlowObj: f = AnyRule(Port[k], k)
      BY <2>4, RuleIs DEF MemoryInv
    <3>2. flow \in [FlowObj -> Flow] /\ cls \subseteq FlowObj
      BY DEF MemoryInv, FlowTypes
    <3>3. flow' = [flow EXCEPT ![f].acts = acts]
      BY <2>4, <3>1
    <3>4. \A g \in FlowObj: flow'[g].key = flow[g].key
      BY <3>2, <3>3 DEF Flow
    <3> QED  BY <2>4, <3>2, <3>4, FewerRules
  <2> QED  BY <2>1, <2>3, <2>4
<1>4. CASE Unlink
  BY <1>4, FewerRules DEF Unlink, flowVars
<1>5. CASE Retire
  <2>1. flow \in [FlowObj -> Flow] /\ cls \subseteq FlowObj
    BY DEF MemoryInv, FlowTypes
  <2>2. flow' = [flow EXCEPT ![cmd.cur].dead = TRUE] /\ UNCHANGED cls
    BY <1>5 DEF Retire
  <2>3. \A g \in FlowObj: flow'[g].key = flow[g].key
    BY <2>1, <2>2 DEF Flow
  <2> QED  BY <2>1, <2>2, <2>3, FewerRules
<1>6. CASE Reclaim
  <2>1. flow \in [FlowObj -> Flow] /\ cls \subseteq FlowObj
    BY DEF MemoryInv, FlowTypes
  <2>2. PICK x \in deferred: flow' = [flow EXCEPT ![x.flow] = NoFlow] /\ UNCHANGED cls
    BY <1>6 DEF Reclaim, tableVars
  <2>3. ref[x.flow] = 0
    BY DEF MemoryInv, DeferredOnce
  <2>4. \A g \in cls: g # x.flow
    BY <2>3, ClsWaits
  <2>5. \A g \in cls: flow'[g].key = flow[g].key
    BY <2>1, <2>2, <2>4
  <2> QED  BY <2>2, <2>5, FewerRules
<1>7. UNCHANGED <<flow, cls>> \/ Install \/ FlowPut \/ Unlink \/ Retire \/ Reclaim
  BY DEF Next, Call, vars, flowVars, tableVars, EmcProcessing, Classify, MissUpcall, Insert, QueueRule,
         ResetBatches, ExecuteBatch, InputReturns, CallerFrees, Drop, Recirculate, ToUserspace,
         UserspaceUpcall, ActionsReturn, Input, ExecuteCall, Sweep, Reload, BeginRemoval, DumpNext,
         DumpReports, EnableUpcalls, DisableUpcalls
<1> QED  BY <1>1, <1>2, <1>3, <1>4, <1>5, <1>6, <1>7

-----------------------------------------------------------------------------
(* Packets *)

\* The missed packets an input call still has to look at or to queue.
Pending(fr) == {j \in DOMAIN fr.missed:
    \/ fr.pc = "emc"
    \/ fr.pc \in {"upcall", "install", "insert"}
         /\ (j > fr.i \/ (fr.pc = "upcall" /\ j = fr.i) \/ fr.missed[j].rule # Null)
    \/ fr.pc = "queue" /\ j >= fr.i /\ fr.missed[j].rule # Null}

\* The batches that have not been executed.
Open(fr) == {n \in DOMAIN fr.batches: fr.pc = "execute" => n >= fr.i}

MissedPkts(fr) == {fr.missed[j].p: j \in Pending(fr)}
BatchPkts(fr) == UNION {ToSet(fr.batches[n].pkts): n \in Open(fr)}

\* The packets a call has to free or to give away.
Own(fr) ==
    CASE fr.kind = "input" -> ToSet(fr.pkts) \cup MissedPkts(fr) \cup BatchPkts(fr)
      [] fr.kind = "caller" -> ToSet(fr.pkts)
      [] OTHER -> IF fr.steal THEN ToSet(fr.pkts) ELSE {}

\* It has none of them twice.
Distinct(s) == \A i, j \in DOMAIN s: s[i] = s[j] => i = j

MissedOnce(fr) == \A j, k \in Pending(fr): fr.missed[j].p = fr.missed[k].p => j = k

BatchesOnce(fr) ==
    /\ \A n \in Open(fr): Distinct(fr.batches[n].pkts)
    /\ \A n, m \in Open(fr): n # m => ToSet(fr.batches[n].pkts) \cap ToSet(fr.batches[m].pkts) = {}

Neat(fr) ==
    /\ Distinct(fr.pkts)
    /\ fr.kind = "input" =>
        /\ MissedOnce(fr) /\ BatchesOnce(fr)
        /\ ToSet(fr.pkts) \cap MissedPkts(fr) = {} /\ ToSet(fr.pkts) \cap BatchPkts(fr) = {}
        /\ MissedPkts(fr) \cap BatchPkts(fr) = {}

\* A call whose packets are another's.
Lent(fr) == fr.kind \in {"actions", "userspace"} /\ ~ fr.steal

\* Every packet in use is had by one call.
NeatInv == \A l \in DOMAIN stack: Neat(stack[l])
ApartInv == \A l, m \in DOMAIN stack: \A p: p \in Own(stack[l]) /\ p \in Own(stack[m]) => l = m
OwnedInv == \A p \in Packet: pkt[p] # Null <=> \E l \in DOMAIN stack: p \in Own(stack[l])
LentInv == \A l \in DOMAIN stack: Lent(stack[l]) =>
               \A p \in ToSet(stack[l].pkts): \E m \in 1 .. l - 1: p \in Own(stack[m])

PktType == pkt \in [Packet -> Key \cup {Null}]
PacketInv == PktType /\ freed = {} /\ NeatInv /\ ApartInv /\ OwnedInv /\ LentInv

LEMMA OwnTypes ==
  ASSUME NEW fr \in Frame
  PROVE  Own(fr) \subseteq Packet /\ ToSet(fr.pkts) \subseteq Packet
<1>1. fr.pkts \in Seq(Packet)
  BY KindIs
<1>2. ToSet(fr.pkts) \subseteq Packet
  BY <1>1, Members
<1>3. CASE fr.kind = "input"
  <2>1. fr \in InputFrame
    BY <1>3, KindIs
  <2>2. fr.missed \in Seq(Missed) /\ fr.batches \in Seq(Batch)
    BY <2>1, InputTypes
  <2>3. \A j \in DOMAIN fr.missed: fr.missed[j] \in Missed
    BY <2>2, Members
  <2>4. MissedPkts(fr) \subseteq Packet
    BY <2>3 DEF MissedPkts, Pending, Missed
  <2>5. \A n \in DOMAIN fr.batches: fr.batches[n] \in Batch
    BY <2>2, Members
  <2>6. \A n \in DOMAIN fr.batches: fr.batches[n].pkts \in Seq(Packet)
    BY <2>5 DEF Batch
  <2>7. \A n \in DOMAIN fr.batches: ToSet(fr.batches[n].pkts) \subseteq Packet
    BY <2>6, Members
  <2>8. BatchPkts(fr) \subseteq Packet
    BY <2>7 DEF BatchPkts, Open
  <2> QED  BY <1>2, <1>3, <2>4, <2>8 DEF Own
<1>4. CASE fr.kind # "input"
  BY <1>2, <1>4 DEF Own
<1> QED  BY <1>2, <1>3, <1>4

\* Who has which packets when the calls above the n-th have changed: G is what they had.
LEMMA PacketStep ==
  ASSUME StackTypes, PacketInv, NEW n \in Nat, n <= Len(stack),
         stack' \in Seq(Frame), n <= Len(stack'), \A l \in 1 .. n: stack'[l] = stack[l],
         NEW G, \A p: p \in G <=> \E l \in DOMAIN stack: l > n /\ p \in Own(stack[l]),
         PktType', freed' = {},
         \A l \in DOMAIN stack': l > n => Neat(stack'[l]),
         \A l, m \in DOMAIN stack': \A p: l > n /\ m > n /\ p \in Own(stack'[l]) /\ p \in Own(stack'[m]) => l = m,
         \A l \in DOMAIN stack': l > n => \A p \in Own(stack'[l]): p \in G \/ pkt[p] = Null,
         \A p \in Packet: pkt'[p] # Null <=> \/ pkt[p] # Null /\ p \notin G
                                             \/ \E l \in DOMAIN stack': l > n /\ p \in Own(stack'[l]),
         \A l \in DOMAIN stack': l > n /\ Lent(stack'[l]) =>
            \A p \in ToSet(stack'[l].pkts): \/ \E m \in 1 .. n: p \in Own(stack[m])
                                            \/ \E m \in DOMAIN stack': n < m /\ m < l /\ p \in Own(stack'[m])
  PROVE  PacketInv'
<1>1. /\ DOMAIN stack = 1 .. Len(stack) /\ Len(stack) \in Nat
      /\ DOMAIN stack' = 1 .. Len(stack') /\ Len(stack') \in Nat
  BY DEF StackTypes
<1>2. \A l \in DOMAIN stack: Own(stack[l]) \subseteq Packet
  BY <1>1, OwnTypes DEF StackTypes
<1>3. \A l \in DOMAIN stack': l \in 1 .. n \/ l > n
  BY <1>1
<1>4. \A l \in 1 .. n: l \in DOMAIN stack /\ l \in DOMAIN stack' /\ stack'[l] = stack[l]
  BY <1>1
<1>5. \A l \in 1 .. n: \A p \in Own(stack[l]): p \notin G /\ pkt[p] # Null /\ p \in Packet
  <2> TAKE l \in 1 .. n
  <2> TAKE p \in Own(stack[l])
  <2>1. p \in Packet /\ pkt[p] # Null
    BY <1>2, <1>4 DEF PacketInv, OwnedInv
  <2>2. ASSUME NEW m \in DOMAIN stack, m > n, p \in Own(stack[m])
        PROVE  FALSE
    BY <1>4, <2>2 DEF PacketInv, ApartInv
  <2> QED  BY <2>1, <2>2
<1>6. NeatInv'
  BY <1>3, <1>4 DEF PacketInv, NeatInv
<1>7. ApartInv'
  <2>1. ASSUME NEW l \in DOMAIN stack', NEW m \in DOMAIN stack', NEW p, p \in Own(stack'[l]), p \in Own(stack'[m])
        PROVE  l = m
    <3>1. CASE l \in 1 .. n /\ m \in 1 .. n
      BY <1>4, <2>1, <3>1 DEF PacketInv, ApartInv
    <3>2. CASE l \in 1 .. n /\ m > n
      BY <1>4, <1>5, <2>1, <3>2
    <3>3. CASE l > n /\ m \in 1 .. n
      BY <1>4, <1>5, <2>1, <3>3
    <3>4. CASE l > n /\ m > n
      BY <2>1, <3>4
    <3> QED  BY <1>3, <3>1, <3>2, <3>3, <3>4
  <2> QED  BY <2>1 DEF ApartInv
<1>8. OwnedInv'
  <2>1. ASSUME NEW p \in Packet
        PROVE  pkt[p] # Null /\ p \notin G <=> \E l \in 1 .. n: p \in Own(stack[l])
    <3>1. ASSUME pkt[p] # Null, p \notin G
          PROVE  \E l \in 1 .. n: p \in Own(stack[l])
      <4>1. PICK l \in DOMAIN stack: p \in Own(stack[l])
        BY <3>1 DEF PacketInv, OwnedInv
      <4>2. l \in 1 .. n
        BY <1>1, <3>1, <4>1
      <4> QED  BY <4>1, <4>2
    <3> QED  BY <1>5, <3>1
  <2>2. \A p \in Packet: pkt'[p] # Null <=> \/ \E l \in 1 .. n: p \in Own(stack[l])
                                           \/ \E l \in DOMAIN stack': l > n /\ p \in Own(stack'[l])
    BY <2>1
  <2>3. \A p \in Packet: pkt'[p] # Null <=> \E l \in DOMAIN stack': p \in Own(stack'[l])
    BY <1>3, <1>4, <2>2
  <2> QED  BY <2>3 DEF OwnedInv
<1>9. LentInv'
  <2>1. ASSUME NEW l \in DOMAIN stack', Lent(stack'[l]), NEW p \in ToSet(stack'[l].pkts)
        PROVE  \E m \in 1 .. l - 1: p \in Own(stack'[m])
    <3>1. CASE l \in 1 .. n
      <4>1. PICK m \in 1 .. l - 1: p \in Own(stack[m])
        BY <1>4, <2>1, <3>1 DEF PacketInv, LentInv
      <4>2. m \in 1 .. n
        BY <3>1
      <4> QED  BY <1>4, <4>1, <4>2
    <3>2. CASE l > n /\ \E m \in 1 .. n: p \in Own(stack[m])
      <4>1. PICK m \in 1 .. n: p \in Own(stack[m])
        BY <3>2
      <4>2. m \in 1 .. l - 1
        BY <1>1, <3>2
      <4> QED  BY <1>4, <4>1, <4>2
    <3>3. CASE l > n /\ \E m \in DOMAIN stack': n < m /\ m < l /\ p \in Own(stack'[m])
      <4>1. PICK m \in DOMAIN stack': n < m /\ m < l /\ p \in Own(stack'[m])
        BY <3>3
      <4>2. m \in 1 .. l - 1
        BY <1>1, <4>1
      <4> QED  BY <4>1, <4>2
    <3> QED  BY <1>3, <2>1, <3>1, <3>2, <3>3
  <2> QED  BY <2>1 DEF LentInv
<1> QED  BY <1>6, <1>7, <1>8, <1>9 DEF PacketInv

\* Nothing happens to the calls and the packets.
LEMMA SamePackets ==
  ASSUME PacketInv, UNCHANGED <<stack, pkt, freed>>
  PROVE  PacketInv'
  BY DEF PacketInv, PktType, NeatInv, ApartInv, OwnedInv, LentInv

\* What a set of packets that are in use is, once they are freed.
LEMMA DeleteIs ==
  ASSUME PacketInv, NEW ps, Delete(ps), \A p \in ps: pkt[p] # Null
  PROVE  /\ PktType' /\ freed' = {}
         /\ \A p \in Packet: pkt'[p] # Null <=> pkt[p] # Null /\ p \notin ps
  BY DEF PacketInv, PktType, Delete

LEMMA OwnedInUse ==
  ASSUME StackTypes, PacketInv, NEW l \in DOMAIN stack
  PROVE  \A p \in Own(stack[l]): p \in Packet /\ pkt[p] # Null
<1>1. Own(stack[l]) \subseteq Packet
  BY OwnTypes DEF StackTypes
<1> QED  BY <1>1 DEF PacketInv, OwnedInv

LEMMA TopOwns ==
  ASSUME StackTypes, PacketInv, stack # <<>>
  PROVE  /\ Len(stack) \in Nat \ {0} /\ DOMAIN stack = 1 .. Len(stack) /\ Top = stack[Len(stack)]
         /\ Len(stack) - 1 \in Nat
         /\ \A p: p \in Own(Top) <=> \E l \in DOMAIN stack: l > Len(stack) - 1 /\ p \in Own(stack[l])
         /\ \A p \in Own(Top): p \in Packet /\ pkt[p] # Null
         /\ Neat(Top)
<1>1. Len(stack) \in Nat \ {0} /\ DOMAIN stack = 1 .. Len(stack) /\ Top = stack[Len(stack)]
  BY StackEnds DEF StackTypes
<1>2. \A l \in DOMAIN stack: l > Len(stack) - 1 <=> l = Len(stack)
  BY <1>1
<1>3. Len(stack) \in DOMAIN stack
  BY <1>1
<1>4. \A p: p \in Own(Top) <=> \E l \in DOMAIN stack: l > Len(stack) - 1 /\ p \in Own(stack[l])
  BY <1>1, <1>2, <1>3
<1>5. \A p \in Own(Top): p \in Packet /\ pkt[p] # Null
  BY <1>1, <1>3, OwnedInUse
<1>6. Neat(Top)
  BY <1>1, <1>3 DEF PacketInv, NeatInv
<1> QED  BY <1>1, <1>4, <1>5, <1>6

\* The packets of a call are in use, its own or not.
LEMMA TopUses ==
  ASSUME StackTypes, PacketInv, stack # <<>>, Top.kind # "input"
  PROVE  /\ \A p \in ToSet(Top.pkts): p \in Packet /\ pkt[p] # Null
         /\ Lent(Top) => \A p \in ToSet(Top.pkts): \E m \in 1 .. Len(stack) - 1: p \in Own(stack[m])
         /\ Lent(Top) => Own(Top) = {}
         /\ ~Lent(Top) => Own(Top) = ToSet(Top.pkts)
<1>1. /\ Len(stack) \in Nat \ {0} /\ DOMAIN stack = 1 .. Len(stack) /\ Top = stack[Len(stack)]
      /\ Len(stack) \in DOMAIN stack
  BY TopOwns
<1>2. Lent(Top) => \A p \in ToSet(Top.pkts): \E m \in 1 .. Len(stack) - 1: p \in Own(stack[m])
  BY <1>1 DEF PacketInv, LentInv
<1>3. Top.kind \in {"actions", "userspace", "caller"}
  BY <1>1, KindIs DEF StackTypes
<1>4. (Lent(Top) => Own(Top) = {}) /\ (~Lent(Top) => Own(Top) = ToSet(Top.pkts))
  BY <1>3 DEF Own, Lent
<1>5. ASSUME NEW p \in ToSet(Top.pkts)
      PROVE  p \in Packet /\ pkt[p] # Null
  <2>1. CASE Lent(Top)
    <3>1. PICK m \in 1 .. Len(stack) - 1: p \in Own(stack[m])
      BY <1>2, <2>1
    <3>2. m \in DOMAIN stack
      BY <1>1
    <3> QED  BY <3>1, <3>2, OwnedInUse
  <2>2. CASE ~Lent(Top)
    BY <1>4, <2>2, TopOwns
  <2> QED  BY <2>1, <2>2
<1> QED  BY <1>2, <1>4, <1>5

\* The last call goes on, with fewer packets: the others have been freed.
LEMMA TopIsPackets ==
  ASSUME StackTypes, PacketInv, stack # <<>>, NEW gr \in Frame, TopIs(stack', gr),
         Neat(gr), Own(gr) \subseteq Own(Top),
         Lent(gr) => Lent(Top) /\ ToSet(gr.pkts) \subseteq ToSet(Top.pkts),
         PktType', freed' = {},
         \A p \in Packet: pkt'[p] # Null <=> pkt[p] # Null /\ ~(p \in Own(Top) /\ p \notin Own(gr))
  PROVE  PacketInv'
<1>a. Len(stack) \in Nat \ {0}
  BY TopOwns
<1>1. PICK N \in Nat \ {0}: N = Len(stack) /\ N - 1 \in Nat /\ N - 1 < N
  BY <1>a
<1>2. /\ DOMAIN stack = 1 .. N /\ Top = stack[N]
      /\ \A p: p \in Own(Top) <=> \E l \in DOMAIN stack: l > N - 1 /\ p \in Own(stack[l])
      /\ \A p \in Own(Top): p \in Packet /\ pkt[p] # Null
  BY <1>1, TopOwns
<1>3. DOMAIN stack' = 1 .. N /\ Len(stack') = N
  BY <1>1 DEF TopIs
<1>4. stack' \in Seq(Frame) /\ stack'[N] = gr /\ \A l \in 1 .. N - 1: stack'[l] = stack[l]
  BY <1>1, <1>3 DEF TopIs
<1>5. \A l \in DOMAIN stack': l > N - 1 <=> l = N
  BY <1>3
<1>6. N \in DOMAIN stack'
  BY <1>3
<1>7. \A p \in Packet: pkt'[p] # Null <=> \/ pkt[p] # Null /\ p \notin Own(Top)
                                         \/ \E l \in DOMAIN stack': l > N - 1 /\ p \in Own(stack'[l])
  BY <1>2, <1>4, <1>5, <1>6
<1>8. \A l \in DOMAIN stack': l > N - 1 => Neat(stack'[l])
  BY <1>4, <1>5
<1>9. \A l \in DOMAIN stack': l > N - 1 => \A p \in Own(stack'[l]): p \in Own(Top) \/ pkt[p] = Null
  BY <1>4, <1>5
<1>10. \A l \in DOMAIN stack': l > N - 1 /\ Lent(stack'[l]) =>
            \A p \in ToSet(stack'[l].pkts): \/ \E m \in 1 .. N - 1: p \in Own(stack[m])
                                            \/ \E m \in DOMAIN stack': N - 1 < m /\ m < l /\ p \in Own(stack'[m])
  <2>1. Lent(gr) => \A p \in ToSet(gr.pkts): \E m \in 1 .. N - 1: p \in Own(stack[m])
    <3>1. N \in DOMAIN stack
      BY <1>2
    <3> QED  BY <1>2, <3>1 DEF PacketInv, LentInv
  <2> QED  BY <1>4, <1>5, <2>1
<1>11. \A l, m \in DOMAIN stack': \A p:
         l > N - 1 /\ m > N - 1 /\ p \in Own(stack'[l]) /\ p \in Own(stack'[m]) => l = m
  BY <1>5
<1>12. N - 1 <= Len(stack) /\ N - 1 <= Len(stack')
  BY <1>1, <1>3
<1> HIDE DEF Top
<1> QED  BY <1>1, <1>2, <1>4, <1>7, <1>8, <1>9, <1>10, <1>11, <1>12, PacketStep

LEMMA TopPackets ==
  ASSUME StackTypes, PacketInv, stack # <<>>, NEW gr \in Frame, stack' = SetTop(gr),
         Neat(gr), Own(gr) \subseteq Own(Top),
         Lent(gr) => Lent(Top) /\ ToSet(gr.pkts) \subseteq ToSet(Top.pkts),
         PktType', freed' = {},
         \A p \in Packet: pkt'[p] # Null <=> pkt[p] # Null /\ ~(p \in Own(Top) /\ p \notin Own(gr))
  PROVE  PacketInv'
<1>1. TopIs(stack', gr)
  BY SetTopIs
<1> QED  BY <1>1, TopIsPackets

\* It makes another one, and gives it packets of its own, new ones, or lends it some.
LEMMA PushPackets ==
  ASSUME StackTypes, PacketInv, stack # <<>>, NEW gr \in Frame, NEW hr \in Frame,
         stack' = Append(SetTop(gr), hr),
         Neat(gr), Neat(hr), Own(gr) \subseteq Own(Top),
         \A p \in Own(hr): (p \in Own(Top) /\ p \notin Own(gr)) \/ pkt[p] = Null,
         Lent(gr) => Lent(Top) /\ ToSet(gr.pkts) \subseteq ToSet(Top.pkts),
         Lent(hr) => \A p \in ToSet(hr.pkts): p \in Own(gr) \/ (Lent(Top) /\ p \in ToSet(Top.pkts)),
         PktType', freed' = {},
         \A p \in Packet: pkt'[p] # Null <=> \/ pkt[p] # Null /\ ~(p \in Own(Top) /\ p \notin Own(gr))
                                             \/ p \in Own(hr)
  PROVE  PacketInv'
<1>a. Len(stack) \in Nat \ {0}
  BY TopOwns
<1>1. PICK N \in Nat \ {0}: N = Len(stack) /\ N - 1 \in Nat /\ N - 1 < N
  BY <1>a
<1>2. /\ DOMAIN stack = 1 .. N /\ Top = stack[N]
      /\ \A p: p \in Own(Top) <=> \E l \in DOMAIN stack: l > N - 1 /\ p \in Own(stack[l])
      /\ \A p \in Own(Top): p \in Packet /\ pkt[p] # Null
  BY <1>1, TopOwns
<1>3. PushedIs(stack', gr, hr)
  BY PushIs
<1>4. /\ stack' \in Seq(Frame) /\ stack'[N] = gr /\ stack'[N + 1] = hr
      /\ \A l \in 1 .. N - 1: stack'[l] = stack[l]
      /\ Len(stack') = N + 1 /\ DOMAIN stack' = 1 .. N + 1
  BY <1>1, <1>3 DEF PushedIs
<1>5. \A l \in DOMAIN stack': l > N - 1 <=> l \in {N, N + 1}
  BY <1>4
<1>6. N \in DOMAIN stack' /\ N + 1 \in DOMAIN stack' /\ N # N + 1 /\ N < N + 1
  BY <1>4
<1>7. \A p \in Packet: pkt'[p] # Null <=> \/ pkt[p] # Null /\ p \notin Own(Top)
                                         \/ \E l \in DOMAIN stack': l > N - 1 /\ p \in Own(stack'[l])
  <2> TAKE p \in Packet
  <2>1. (\E l \in DOMAIN stack': l > N - 1 /\ p \in Own(stack'[l])) <=> p \in Own(gr) \/ p \in Own(hr)
    BY <1>4, <1>5, <1>6
  <2> QED  BY <1>2, <2>1
<1>8. \A l \in DOMAIN stack': l > N - 1 => Neat(stack'[l])
  BY <1>4, <1>5
<1>9. \A l \in DOMAIN stack': l > N - 1 => \A p \in Own(stack'[l]): p \in Own(Top) \/ pkt[p] = Null
  BY <1>4, <1>5
<1>10. \A l \in DOMAIN stack': l > N - 1 /\ Lent(stack'[l]) =>
            \A p \in ToSet(stack'[l].pkts): \/ \E m \in 1 .. N - 1: p \in Own(stack[m])
                                            \/ \E m \in DOMAIN stack': N - 1 < m /\ m < l /\ p \in Own(stack'[m])
  <2>1. Lent(Top) => \A p \in ToSet(Top.pkts): \E m \in 1 .. N - 1: p \in Own(stack[m])
    <3>1. N \in DOMAIN stack
      BY <1>2
    <3> QED  BY <1>2, <3>1 DEF PacketInv, LentInv
  <2>2. Lent(gr) => \A p \in ToSet(gr.pkts): \E m \in 1 .. N - 1: p \in Own(stack[m])
    BY <2>1
  <2>3. Lent(hr) => \A p \in ToSet(hr.pkts):
          (\E m \in 1 .. N - 1: p \in Own(stack[m])) \/ p \in Own(stack'[N])
    BY <1>4, <2>1
  <2>4. N - 1 < N
    BY <1>1
  <2> QED  BY <1>4, <1>5, <1>6, <2>2, <2>3, <2>4
<1>11. \A l, m \in DOMAIN stack': \A p:
         l > N - 1 /\ m > N - 1 /\ p \in Own(stack'[l]) /\ p \in Own(stack'[m]) => l = m
  <2>1. \A p: ~(p \in Own(gr) /\ p \in Own(hr))
    BY <1>2
  <2> QED  BY <1>4, <1>5, <2>1
<1>12. N - 1 <= Len(stack) /\ N - 1 <= Len(stack')
  BY <1>1, <1>4
<1> HIDE DEF Top
<1> QED  BY <1>1, <1>2, <1>4, <1>7, <1>8, <1>9, <1>10, <1>11, <1>12, PacketStep

\* It returns, and its packets are freed.
LEMMA PopPackets ==
  ASSUME StackTypes, PacketInv, stack # <<>>, stack' = Front(stack), PktType', freed' = {},
         \A p \in Packet: pkt'[p] # Null <=> pkt[p] # Null /\ p \notin Own(Top)
  PROVE  PacketInv'
<1>1. PICK N \in Nat \ {0}: N = Len(stack) /\ N - 1 \in Nat
  BY TopOwns
<1>2. /\ DOMAIN stack = 1 .. N
      /\ \A p: p \in Own(Top) <=> \E l \in DOMAIN stack: l > N - 1 /\ p \in Own(stack[l])
  BY <1>1, TopOwns
<1>3. /\ stack' \in Seq(Frame) /\ Len(stack') = N - 1 /\ DOMAIN stack' = 1 .. N - 1
      /\ \A l \in 1 .. N - 1: stack'[l] = stack[l]
  BY <1>1, StackEnds DEF StackTypes
<1>4. \A l \in DOMAIN stack': ~(l > N - 1)
  BY <1>3
<1>5. N - 1 <= Len(stack) /\ N - 1 <= Len(stack')
  BY <1>1, <1>3
<1> HIDE DEF Top
<1> QED  BY <1>1, <1>2, <1>3, <1>4, <1>5, PacketStep

\* The first calls have new packets.
LEMMA StartPackets ==
  ASSUME StackTypes, PacketInv, stack = <<>>, stack' \in Seq(Frame), PktType', freed' = {},
         \A l \in DOMAIN stack': Neat(stack'[l]),
         \A l, m \in DOMAIN stack': \A p: p \in Own(stack'[l]) /\ p \in Own(stack'[m]) => l = m,
         \A p \in Packet: pkt'[p] # Null <=> \E l \in DOMAIN stack': p \in Own(stack'[l]),
         \A l \in DOMAIN stack': Lent(stack'[l]) =>
            \A p \in ToSet(stack'[l].pkts): \E m \in 1 .. l - 1: p \in Own(stack'[m])
  PROVE  PacketInv'
  BY DEF PacketInv, PktType, NeatInv, ApartInv, OwnedInv, LentInv

LEMMA InputOwns ==
  ASSUME NEW fr \in InputFrame
  PROVE  /\ Own(fr) = ToSet(fr.pkts) \cup MissedPkts(fr) \cup BatchPkts(fr)
         /\ ~Lent(fr)
         /\ Neat(fr) <=> /\ Distinct(fr.pkts) /\ MissedOnce(fr) /\ BatchesOnce(fr)
                         /\ ToSet(fr.pkts) \cap MissedPkts(fr) = {}
                         /\ ToSet(fr.pkts) \cap BatchPkts(fr) = {}
                         /\ MissedPkts(fr) \cap BatchPkts(fr) = {}
<1>1. fr.kind = "input"
  BY InputTypes
<1> QED  BY <1>1 DEF Own, Lent, Neat

LEMMA BatchesAlike ==
  ASSUME NEW fr, NEW gr, gr.batches = fr.batches, Open(gr) = Open(fr)
  PROVE  BatchPkts(gr) = BatchPkts(fr) /\ (BatchesOnce(fr) => BatchesOnce(gr))
  BY DEF BatchPkts, BatchesOnce

LEMMA OpenBefore ==
  ASSUME NEW fr, fr.pc # "execute"
  PROVE  Open(fr) = DOMAIN fr.batches
  BY DEF Open

LEMMA MissedLess ==
  ASSUME NEW fr, NEW gr, Pending(gr) \subseteq Pending(fr), MissedOnce(fr),
         \A j \in Pending(gr): gr.missed[j].p = fr.missed[j].p
  PROVE  /\ MissedOnce(gr)
         /\ MissedPkts(gr) = MissedPkts(fr) \ {fr.missed[j].p: j \in Pending(fr) \ Pending(gr)}
<1>1. MissedOnce(gr)
  BY DEF MissedOnce
<1>2. \A j \in Pending(gr): fr.missed[j].p \notin {fr.missed[k].p: k \in Pending(fr) \ Pending(gr)}
  BY DEF MissedOnce
<1>3. MissedPkts(gr) = {fr.missed[j].p: j \in Pending(gr)}
  BY DEF MissedPkts
<1> QED  BY <1>1, <1>2, <1>3 DEF MissedPkts

LEMMA TailDistinct ==
  ASSUME NEW S, NEW s \in Seq(S), s # <<>>, Distinct(s)
  PROVE  /\ Distinct(Tail(s)) /\ Head(s) \notin ToSet(Tail(s))
         /\ ToSet(Tail(s)) = ToSet(s) \ {Head(s)}
<1>1. PICK n \in Nat: n = Len(s) - 1
  BY TailIs
<1>2. /\ DOMAIN Tail(s) = 1 .. n /\ DOMAIN s = 1 .. n + 1 /\ Head(s) = s[1]
      /\ \A i \in 1 .. n: Tail(s)[i] = s[i + 1]
      /\ ToSet(s) = {Head(s)} \cup ToSet(Tail(s))
  BY <1>1, TailIs
<1>3. Distinct(Tail(s))
  BY <1>2 DEF Distinct
<1>4. Head(s) \notin ToSet(Tail(s))
  <2>1. ASSUME NEW i \in 1 .. n, Tail(s)[i] = Head(s)
        PROVE  FALSE
    BY <1>2, <2>1 DEF Distinct
  <2> QED  BY <1>2, <2>1 DEF ToSet
<1> QED  BY <1>2, <1>3, <1>4

LEMMA AppendDistinct ==
  ASSUME NEW S, NEW s \in Seq(S), NEW x \in S
  PROVE  /\ ToSet(Append(s, x)) = ToSet(s) \cup {x}
         /\ Distinct(s) /\ x \notin ToSet(s) => Distinct(Append(s, x))
         /\ Append(s, x) \in Seq(S)
<1>1. PICK n \in Nat: n = Len(s) /\ DOMAIN s = 1 .. n
  OBVIOUS
<1>2. /\ DOMAIN Append(s, x) = 1 .. n + 1 /\ Append(s, x)[n + 1] = x
      /\ \A i \in 1 .. n: Append(s, x)[i] = s[i]
  BY <1>1
<1>3. ToSet(Append(s, x)) = ToSet(s) \cup {x}
  BY <1>1, <1>2 DEF ToSet
<1>4. ASSUME Distinct(s), x \notin ToSet(s), NEW i \in 1 .. n + 1, NEW j \in 1 .. n + 1,
             Append(s, x)[i] = Append(s, x)[j]
      PROVE  i = j
  <2>1. \A k \in 1 .. n: s[k] # x
    BY <1>1, <1>4 DEF ToSet
  <2>2. CASE i = n + 1
    BY <1>2, <1>4, <2>1, <2>2
  <2>3. CASE j = n + 1
    BY <1>2, <1>4, <2>1, <2>3
  <2>4. CASE i \in 1 .. n /\ j \in 1 .. n
    BY <1>1, <1>2, <1>4, <2>4 DEF Distinct
  <2> QED  BY <2>2, <2>3, <2>4
<1> QED  BY <1>2, <1>3, <1>4 DEF Distinct

\* A packet joins a batch.
LEMMA AddToOwns ==
  ASSUME NEW fr \in InputFrame, fr.pc # "execute", NEW n \in DOMAIN fr.batches, NEW p \in Packet
  PROVE  /\ Own(AddTo(fr, n, p)) = Own(fr) \cup {p}
         /\ Neat(fr) /\ p \notin Own(fr) => Neat(AddTo(fr, n, p))
<1> DEFINE gr == AddTo(fr, n, p)
<1>1. /\ BatchesOnly(fr, gr) /\ DOMAIN gr.batches = DOMAIN fr.batches
      /\ gr.batches[n] = [flow |-> fr.batches[n].flow, pkts |-> Append(fr.batches[n].pkts, p)]
      /\ \A m \in DOMAIN fr.batches \ {n}: gr.batches[m] = fr.batches[m]
  BY AddToIs
<1> HIDE DEF gr
<1>2. gr \in InputFrame /\ gr.pc = fr.pc /\ gr.pkts = fr.pkts /\ gr.missed = fr.missed /\ gr.i = fr.i
  BY <1>1 DEF BatchesOnly
<1>3. Open(gr) = DOMAIN fr.batches /\ Open(fr) = DOMAIN fr.batches
  BY <1>1, <1>2, OpenBefore
<1>4. fr.batches \in Seq(Batch)
  BY InputTypes
<1>5. fr.batches[n] \in Batch
  BY <1>4, Members
<1>6. PICK ps \in Seq(Packet): ps = fr.batches[n].pkts
  BY <1>5 DEF Batch
<1>7. /\ ToSet(Append(ps, p)) = ToSet(ps) \cup {p} /\ Append(ps, p) \in Seq(Packet)
      /\ Distinct(ps) /\ p \notin ToSet(ps) => Distinct(Append(ps, p))
  BY AppendDistinct
<1>8. PICK qs \in Seq(Packet): qs = Append(ps, p)
  BY <1>7
<1>9. gr.batches[n].pkts = qs /\ ToSet(qs) = ToSet(ps) \cup {p}
      /\ (Distinct(ps) /\ p \notin ToSet(ps) => Distinct(qs))
  BY <1>1, <1>6, <1>7, <1>8
<1>10. \A m \in DOMAIN fr.batches: ToSet(gr.batches[m].pkts)
                                    = IF m = n THEN ToSet(fr.batches[m].pkts) \cup {p} ELSE ToSet(fr.batches[m].pkts)
  BY <1>1, <1>6, <1>9
<1>11. BatchPkts(gr) = BatchPkts(fr) \cup {p}
  BY <1>3, <1>10 DEF BatchPkts
<1>12. Pending(gr) = Pending(fr) /\ MissedPkts(gr) = MissedPkts(fr) /\ (MissedOnce(fr) => MissedOnce(gr))
  BY <1>2 DEF Pending, MissedPkts, MissedOnce
<1>13. Own(gr) = Own(fr) \cup {p}
  BY <1>2, <1>11, <1>12, InputOwns
<1>14. ASSUME Neat(fr), p \notin Own(fr)
       PROVE  Neat(gr)
  <2>1. /\ Distinct(fr.pkts) /\ MissedOnce(fr) /\ BatchesOnce(fr)
        /\ ToSet(fr.pkts) \cap MissedPkts(fr) = {}
        /\ ToSet(fr.pkts) \cap BatchPkts(fr) = {}
        /\ MissedPkts(fr) \cap BatchPkts(fr) = {}
        /\ p \notin ToSet(fr.pkts) /\ p \notin MissedPkts(fr) /\ p \notin BatchPkts(fr)
    BY <1>14, InputOwns
  <2>2. \A m \in DOMAIN fr.batches: p \notin ToSet(fr.batches[m].pkts)
    BY <1>3, <2>1 DEF BatchPkts
  <2>3. \A m \in DOMAIN fr.batches: Distinct(gr.batches[m].pkts)
    BY <1>1, <1>3, <1>6, <1>9, <2>1, <2>2 DEF BatchesOnce
  <2>4. ASSUME NEW k \in DOMAIN fr.batches, NEW m \in DOMAIN fr.batches, k # m
        PROVE  ToSet(gr.batches[k].pkts) \cap ToSet(gr.batches[m].pkts) = {}
    <3>1. ToSet(fr.batches[k].pkts) \cap ToSet(fr.batches[m].pkts) = {}
      BY <1>3, <2>1, <2>4 DEF BatchesOnce
    <3> QED  BY <1>10, <2>2, <2>4, <3>1
  <2>5. BatchesOnce(gr)
    BY <1>3, <2>3, <2>4 DEF BatchesOnce
  <2> QED  BY <1>2, <1>11, <1>12, <2>1, <2>5, InputOwns
<1> QED  BY <1>13, <1>14 DEF gr

\* It starts one.
LEMMA NewBatchOwns ==
  ASSUME NEW fr \in InputFrame, fr.pc # "execute", NEW f \in FlowObj, NEW p \in Packet
  PROVE  /\ Own(NewBatch(fr, f, p)) = Own(fr) \cup {p}
         /\ Neat(fr) /\ p \notin Own(fr) => Neat(NewBatch(fr, f, p))
<1> DEFINE gr == NewBatch(fr, f, p)
<1>1. PICK n \in Nat: n = Len(fr.batches)
  BY NewBatchIs
<1>2. /\ BatchesOnly(fr, gr) /\ DOMAIN fr.batches = 1 .. n /\ DOMAIN gr.batches = 1 .. n + 1
      /\ gr.batches[n + 1] = [flow |-> f, pkts |-> <<p>>]
      /\ \A m \in 1 .. n: gr.batches[m] = fr.batches[m]
  BY <1>1, NewBatchIs
<1> HIDE DEF gr
<1>3. gr \in InputFrame /\ gr.pc = fr.pc /\ gr.pkts = fr.pkts /\ gr.missed = fr.missed /\ gr.i = fr.i
  BY <1>2 DEF BatchesOnly
<1>4. Open(gr) = 1 .. n + 1 /\ Open(fr) = 1 .. n
  BY <1>2, <1>3, OpenBefore
<1>5. gr.batches[n + 1].pkts = <<p>> /\ ToSet(<<p>>) = {p} /\ Distinct(<<p>>)
  BY <1>2 DEF ToSet, Distinct
<1>6. \A m \in 1 .. n + 1: m \in 1 .. n \/ m = n + 1
  OBVIOUS
<1>7. n + 1 \in 1 .. n + 1 /\ \A m \in 1 .. n: m \in 1 .. n + 1 /\ m # n + 1
  OBVIOUS
<1>8. BatchPkts(gr) = BatchPkts(fr) \cup {p}
  BY <1>2, <1>4, <1>5, <1>6, <1>7 DEF BatchPkts
<1>9. Pending(gr) = Pending(fr) /\ MissedPkts(gr) = MissedPkts(fr) /\ (MissedOnce(fr) => MissedOnce(gr))
  BY <1>3 DEF Pending, MissedPkts, MissedOnce
<1>10. Own(gr) = Own(fr) \cup {p}
  BY <1>3, <1>8, <1>9, InputOwns
<1>11. ASSUME Neat(fr), p \notin Own(fr)
       PROVE  Neat(gr)
  <2>1. /\ Distinct(fr.pkts) /\ MissedOnce(fr) /\ BatchesOnce(fr)
        /\ ToSet(fr.pkts) \cap MissedPkts(fr) = {}
        /\ ToSet(fr.pkts) \cap BatchPkts(fr) = {}
        /\ MissedPkts(fr) \cap BatchPkts(fr) = {}
        /\ p \notin ToSet(fr.pkts) /\ p \notin MissedPkts(fr) /\ p \notin BatchPkts(fr)
    BY <1>11, InputOwns
  <2>2. \A m \in 1 .. n: p \notin ToSet(gr.batches[m].pkts) /\ Distinct(gr.batches[m].pkts)
    BY <1>2, <1>4, <2>1 DEF BatchPkts, BatchesOnce
  <2>3. ASSUME NEW k \in 1 .. n + 1, NEW m \in 1 .. n + 1, k # m
        PROVE  ToSet(gr.batches[k].pkts) \cap ToSet(gr.batches[m].pkts) = {}
    <3>1. CASE k \in 1 .. n /\ m \in 1 .. n
      BY <1>2, <1>4, <2>1, <2>3, <3>1 DEF BatchesOnce
    <3>2. CASE k = n + 1 \/ m = n + 1
      BY <1>5, <1>6, <2>2, <2>3, <3>2
    <3> QED  BY <1>6, <3>1, <3>2
  <2>4. BatchesOnce(gr)
    BY <1>4, <1>5, <1>6, <2>2, <2>3 DEF BatchesOnce
  <2> QED  BY <1>3, <1>8, <1>9, <2>1, <2>4, InputOwns
<1> QED  BY <1>10, <1>11 DEF gr

\* The last call gives a packet to another, in which it joins a batch.
LEMMA GivenPackets ==
  ASSUME StackTypes, PacketInv, stack # <<>>, stack' \in Seq(Frame), Len(stack') = Len(stack),
         NEW p, p \in Own(Top), NEW l \in DOMAIN stack, l # Len(stack),
         Own(stack'[Len(stack)]) = Own(Top) \ {p}, Own(stack'[l]) = Own(stack[l]) \cup {p},
         Neat(stack'[l]), Neat(stack'[Len(stack)]), ~Lent(stack'[l]), ~Lent(stack'[Len(stack)]),
         \A m \in DOMAIN stack: m # l /\ m # Len(stack) => stack'[m] = stack[m],
         UNCHANGED <<pkt, freed>>
  PROVE  PacketInv'
<1>1. PICK N \in Nat \ {0}: N = Len(stack)
  BY TopOwns
<1>2. DOMAIN stack = 1 .. N /\ DOMAIN stack' = 1 .. N /\ Top = stack[N] /\ N \in 1 .. N
  BY <1>1, TopOwns
<1>3. l \in 1 .. N /\ l # N /\ Own(stack'[N]) = Own(stack[N]) \ {p} /\ p \in Own(stack[N])
      /\ Neat(stack'[N]) /\ ~Lent(stack'[N]) /\ \A m \in 1 .. N: m # l /\ m # N => stack'[m] = stack[m]
  BY <1>1, <1>2
<1>4. \A m \in 1 .. N: m # N => p \notin Own(stack[m])
  BY <1>2, <1>3 DEF PacketInv, ApartInv
<1>5. \A m \in 1 .. N: \A q: q \in Own(stack'[m]) <=> IF q = p THEN m = l ELSE q \in Own(stack[m])
  <2> TAKE m \in 1 .. N
  <2>1. CASE m = l
    BY <1>3, <2>1
  <2>2. CASE m = N
    BY <1>3, <2>2
  <2>3. CASE m # l /\ m # N
    <3>1. stack'[m] = stack[m] /\ p \notin Own(stack[m])
      BY <1>3, <1>4, <2>3
    <3> QED  BY <2>3, <3>1
  <2> QED  BY <2>1, <2>2, <2>3
<1>6. ApartInv'
  <2>1. ASSUME NEW k \in 1 .. N, NEW m \in 1 .. N, NEW q, q \in Own(stack'[k]), q \in Own(stack'[m])
        PROVE  k = m
    <3>1. CASE q = p
      BY <1>5, <2>1, <3>1
    <3>2. CASE q # p
      <4>1. q \in Own(stack[k]) /\ q \in Own(stack[m])
        BY <1>5, <2>1, <3>2
      <4> QED  BY <1>2, <4>1 DEF PacketInv, ApartInv
    <3> QED  BY <3>1, <3>2
  <2> QED  BY <1>2, <2>1 DEF ApartInv
<1>7. OwnedInv'
  <2>1. \A q \in Packet: (\E m \in 1 .. N: q \in Own(stack'[m])) <=> \E m \in 1 .. N: q \in Own(stack[m])
    <3> TAKE q \in Packet
    <3>1. CASE q = p
      BY <1>2, <1>3, <1>5, <3>1
    <3>2. CASE q # p
      BY <1>5, <3>2
    <3> QED  BY <3>1, <3>2
  <2>2. \A q \in Packet: pkt'[q] # Null <=> \E m \in 1 .. N: q \in Own(stack[m])
    BY <1>2 DEF PacketInv, OwnedInv
  <2>3. \A q \in Packet: pkt'[q] # Null <=> \E m \in 1 .. N: q \in Own(stack'[m])
    BY <2>1, <2>2
  <2> QED  BY <1>2, <2>3 DEF OwnedInv
<1>8. NeatInv'
  BY <1>2, <1>3 DEF PacketInv, NeatInv
<1>9. LentInv'
  <2>1. ASSUME NEW m \in 1 .. N, Lent(stack'[m]), NEW q \in ToSet(stack'[m].pkts)
        PROVE  \E k \in 1 .. m - 1: q \in Own(stack'[k])
    <3>1. m # l /\ m # N /\ stack'[m] = stack[m]
      BY <1>3, <2>1
    <3>2. PICK k \in 1 .. m - 1: q \in Own(stack[k])
      BY <1>2, <2>1, <3>1 DEF PacketInv, LentInv
    <3>3. k \in 1 .. N /\ k # N
      BY <3>1
    <3>4. q # p
      BY <1>4, <3>2, <3>3
    <3> QED  BY <1>5, <3>2, <3>3, <3>4
  <2> QED  BY <1>2, <2>1 DEF LentInv
<1>10. PktType' /\ freed' = {}
  BY DEF PacketInv, PktType
<1> QED  BY <1>6, <1>7, <1>8, <1>9, <1>10 DEF PacketInv

LEMMA QueuePackets ==
  ASSUME CallInv, PacketInv, stack # <<>>, NEW gr, Continues(Top, gr), Top.kind = "input", Top.pc # "execute",
         NEW p \in Packet, p \in Own(Top), NEW f \in FlowObj, QueueBatches(SetTop(gr), p, f),
         Neat(gr), Own(gr) = Own(Top) \ {p}, UNCHANGED <<pkt, freed>>
  PROVE  PacketInv'
<1>1. gr \in InputFrame /\ (Started(gr, p, f) \/ Joined(gr, p, f, batch[f][1], batch[f][2]))
  BY QueueIs
<1>2. gr.pc # "execute" /\ p \notin Own(gr) /\ StackTypes
  BY DEF Continues, CallInv
<1>3. PktType' /\ freed' = {}
  BY DEF PacketInv, PktType
<1>4. ASSUME NEW hr \in InputFrame, TopIs(stack', hr), Own(hr) = Own(gr) \cup {p}, Neat(hr)
      PROVE  PacketInv'
  <2>1. Own(hr) = Own(Top) /\ ~Lent(hr) /\ hr \in Frame
    BY <1>4, InputOwns DEF Frame
  <2> QED  BY <1>2, <1>3, <1>4, <2>1, TopIsPackets
<1>5. CASE Started(gr, p, f)
  <2>1. PICK hr \in InputFrame: hr = NewBatch(gr, f, p)
    BY <1>1, NewBatchIs DEF BatchesOnly
  <2>2. Own(hr) = Own(gr) \cup {p} /\ Neat(hr)
    BY <1>1, <1>2, <2>1, NewBatchOwns
  <2> QED  BY <1>4, <1>5, <2>1, <2>2 DEF Started
<1>6. ASSUME NEW l, NEW n, Joined(gr, p, f, l, n)
      PROVE  PacketInv'
  <2>1. /\ stack' \in Seq(Frame) /\ Len(stack') = Len(stack) /\ l \in DOMAIN stack
        /\ \A m \in DOMAIN stack \ {l}: stack'[m] = (IF m = Len(stack) THEN gr ELSE stack[m])
    BY <1>6 DEF Joined
  <2>2. Len(stack) \in Nat \ {0} /\ DOMAIN stack = 1 .. Len(stack) /\ Top = stack[Len(stack)] /\ Neat(Top)
    BY <1>2, TopOwns
  <2>3. CASE l = Len(stack)
    <3>1. n \in DOMAIN gr.batches /\ stack'[l] = AddTo(gr, n, p)
      BY <1>6, <2>3 DEF Joined
    <3>2. PICK hr \in InputFrame: hr = AddTo(gr, n, p)
      BY <1>1, <3>1, AddToIs DEF BatchesOnly
    <3>3. Own(hr) = Own(gr) \cup {p} /\ Neat(hr)
      BY <1>1, <1>2, <3>1, <3>2, AddToOwns
    <3>4. TopIs(stack', hr)
      BY <2>1, <2>2, <2>3, <3>1, <3>2 DEF TopIs
    <3> QED  BY <1>4, <3>3, <3>4
  <2>4. CASE l # Len(stack)
    <3>1. PICK fr \in InputFrame: fr = stack[l] /\ fr.pc # "execute" /\ n \in DOMAIN fr.batches
                                  /\ stack'[l] = AddTo(fr, n, p)
      BY <1>6, <2>4 DEF Joined
    <3>2. p \notin Own(fr) /\ Neat(fr)
      BY <2>1, <2>2, <2>4, <3>1 DEF PacketInv, ApartInv, NeatInv
    <3>3. AddTo(fr, n, p) \in InputFrame
      BY <3>1, AddToIs DEF BatchesOnly
    <3>4. Own(stack'[l]) = Own(stack[l]) \cup {p} /\ Neat(stack'[l]) /\ ~Lent(stack'[l])
      BY <3>1, <3>2, <3>3, AddToOwns, InputOwns
    <3>5. stack'[Len(stack)] = gr
      BY <2>1, <2>2, <2>4
    <3>6. ~Lent(gr)
      BY <1>1, InputOwns
    <3>7. \A m \in DOMAIN stack: m # l /\ m # Len(stack) => stack'[m] = stack[m]
      BY <2>1
    <3> QED  BY <1>2, <2>1, <2>4, <3>4, <3>5, <3>6, <3>7, GivenPackets
  <2> QED  BY <2>3, <2>4
<1> QED  BY <1>1, <1>5, <1>6

\* An input call that has looked its packets up in the cache goes on, with fewer missed ones.
LEMMA MissedGoes ==
  ASSUME NEW fr \in InputFrame, Neat(fr), fr.pkts = <<>>, fr.pc # "execute",
         NEW gr \in InputFrame, gr.pkts = <<>>, gr.pc # "execute", gr.batches = fr.batches,
         Pending(gr) \subseteq Pending(fr), \A j \in Pending(gr): gr.missed[j].p = fr.missed[j].p
  PROVE  /\ Neat(gr) /\ ~Lent(gr) /\ gr \in Frame
         /\ Own(gr) = Own(fr) \ {fr.missed[j].p: j \in Pending(fr) \ Pending(gr)}
<1>1. /\ MissedOnce(fr) /\ BatchesOnce(fr) /\ MissedPkts(fr) \cap BatchPkts(fr) = {}
      /\ Distinct(fr.pkts) /\ Own(fr) = ToSet(fr.pkts) \cup MissedPkts(fr) \cup BatchPkts(fr)
  BY InputOwns
<1>2. ToSet(fr.pkts) = {} /\ ToSet(gr.pkts) = {} /\ Distinct(gr.pkts)
  BY EmptyIs DEF Distinct
<1>3. Open(gr) = Open(fr)
  BY OpenBefore
<1>4. BatchPkts(gr) = BatchPkts(fr) /\ BatchesOnce(gr)
  BY <1>1, <1>3, BatchesAlike
<1> DEFINE gone == {fr.missed[j].p: j \in Pending(fr) \ Pending(gr)}
<1>5. MissedOnce(gr) /\ MissedPkts(gr) = MissedPkts(fr) \ gone
  BY <1>1, MissedLess
<1>6. gone \subseteq MissedPkts(fr)
  BY DEF MissedPkts
<1> HIDE DEF gone
<1>7. Own(gr) = Own(fr) \ gone
  BY <1>1, <1>2, <1>4, <1>5, <1>6, InputOwns
<1>8. Neat(gr)
  BY <1>1, <1>2, <1>4, <1>5, InputOwns
<1> QED  BY <1>7, <1>8, InputOwns DEF gone, Frame

LEMMA HeadInUse ==
  ASSUME StackTypes, PacketInv
  PROVE  HeadHasKey
<1>1. SUFFICES ASSUME At("emc"), Top.pkts # <<>>
               PROVE  pkt[Head(Top.pkts)] \in Key
  BY DEF HeadHasKey
<1>2. stack # <<>> /\ Top.kind = "input"
  BY <1>1 DEF At
<1>3. Top \in InputFrame /\ Top.pkts \in Seq(Packet)
  BY <1>2, TopIsInput
<1>4. Head(Top.pkts) \in ToSet(Top.pkts)
  BY <1>1, <1>3, TailIs
<1>5. Head(Top.pkts) \in Own(Top)
  BY <1>3, <1>4, InputOwns
<1>6. Head(Top.pkts) \in Packet /\ pkt[Head(Top.pkts)] # Null
  BY <1>2, <1>5, TopOwns
<1> QED  BY <1>6 DEF PacketInv, PktType

\* The first packet of an input call goes.
LEMMA FirstGoes ==
  ASSUME StackTypes, PacketInv, stack # <<>>, Top.kind = "input", Top.pc = "emc", Top.pkts # <<>>,
         NEW fr, InputIs(fr, "emc", Tail(Top.pkts), Top.missed, Top.i, Top.new, Top.acts, Top.batches, Top.old, Top.own)
  PROVE  /\ Head(Top.pkts) \in Packet /\ Head(Top.pkts) \in Own(Top)
         /\ Neat(fr) /\ ~Lent(fr) /\ fr \in Frame
         /\ Own(fr) = Own(Top) \ {Head(Top.pkts)}
<1>1. Top \in InputFrame /\ Top.pkts \in Seq(Packet) /\ fr \in InputFrame
  BY TopIsInput DEF InputIs
<1> DEFINE p == Head(Top.pkts)
<1>2. p \in Packet /\ p \in ToSet(Top.pkts)
  BY <1>1, TailIs
<1>3. Neat(Top)
  BY TopOwns
<1>4. /\ Distinct(Top.pkts) /\ MissedOnce(Top) /\ BatchesOnce(Top)
      /\ ToSet(Top.pkts) \cap MissedPkts(Top) = {}
      /\ ToSet(Top.pkts) \cap BatchPkts(Top) = {}
      /\ MissedPkts(Top) \cap BatchPkts(Top) = {}
      /\ Own(Top) = ToSet(Top.pkts) \cup MissedPkts(Top) \cup BatchPkts(Top)
  BY <1>1, <1>3, InputOwns
<1>5. Distinct(Tail(Top.pkts)) /\ ToSet(Tail(Top.pkts)) = ToSet(Top.pkts) \ {p}
  BY <1>1, <1>4, TailDistinct
<1>6. Open(fr) = Open(Top) /\ fr.batches = Top.batches
  BY DEF InputIs, Open
<1>7. BatchPkts(fr) = BatchPkts(Top) /\ BatchesOnce(fr)
  BY <1>4, <1>6, BatchesAlike
<1>8. Pending(fr) = Pending(Top) /\ MissedPkts(fr) = MissedPkts(Top) /\ MissedOnce(fr)
  BY <1>4 DEF InputIs, Pending, MissedPkts, MissedOnce
<1>9. fr.pkts = Tail(Top.pkts)
  BY DEF InputIs
<1> HIDE DEF p
<1>10. Neat(fr) /\ ~Lent(fr) /\ Own(fr) = Own(Top) \ {p}
  BY <1>1, <1>2, <1>4, <1>5, <1>7, <1>8, <1>9, InputOwns
<1> QED  BY <1>1, <1>2, <1>4, <1>10 DEF p, Frame

\* It becomes a missed one.
LEMMA FirstMisses ==
  ASSUME NEW fr \in InputFrame, fr.pc = "emc", Neat(fr),
         NEW m \in Missed, m.p \notin Own(fr), m.rule = Null,
         NEW hr, InputIs(hr, "emc", fr.pkts, Append(fr.missed, m), fr.i, fr.new, fr.acts, fr.batches, fr.old, fr.own)
  PROVE  Neat(hr) /\ ~Lent(hr) /\ hr \in Frame /\ Own(hr) = Own(fr) \cup {m.p}
<1>1. /\ Distinct(fr.pkts) /\ MissedOnce(fr) /\ BatchesOnce(fr)
      /\ ToSet(fr.pkts) \cap MissedPkts(fr) = {}
      /\ ToSet(fr.pkts) \cap BatchPkts(fr) = {}
      /\ MissedPkts(fr) \cap BatchPkts(fr) = {}
      /\ Own(fr) = ToSet(fr.pkts) \cup MissedPkts(fr) \cup BatchPkts(fr)
  BY InputOwns
<1>2. fr.missed \in Seq(Missed)
  BY InputTypes
<1>3. PICK n \in Nat: n = Len(fr.missed) /\ DOMAIN fr.missed = 1 .. n
  BY <1>2, Members
<1>4. PICK ms \in Seq(Missed): ms = Append(fr.missed, m)
  BY <1>2, AppendDistinct
<1>5. DOMAIN ms = 1 .. n + 1 /\ ms[n + 1] = m /\ \A j \in 1 .. n: ms[j] = fr.missed[j]
  BY <1>2, <1>3, <1>4
<1>6. hr \in InputFrame /\ hr.pkts = fr.pkts /\ hr.missed = ms /\ hr.pc = "emc" /\ hr.batches = fr.batches
  BY <1>4 DEF InputIs
<1>7. Pending(fr) = 1 .. n /\ Pending(hr) = 1 .. n + 1
  BY <1>3, <1>5, <1>6 DEF Pending
<1>8. \A j \in 1 .. n + 1: j \in 1 .. n \/ j = n + 1
  OBVIOUS
<1>9. n + 1 \in 1 .. n + 1 /\ \A j \in 1 .. n: j \in 1 .. n + 1
  OBVIOUS
<1>10. MissedPkts(hr) = MissedPkts(fr) \cup {m.p}
  BY <1>5, <1>6, <1>7, <1>8, <1>9 DEF MissedPkts
<1>11. MissedOnce(hr)
  <2>1. \A j \in 1 .. n: fr.missed[j].p # m.p
    BY <1>1, <1>7 DEF MissedPkts
  <2>2. ASSUME NEW j \in 1 .. n + 1, NEW k \in 1 .. n + 1, ms[j].p = ms[k].p
        PROVE  j = k
    <3>1. CASE j \in 1 .. n /\ k \in 1 .. n
      BY <1>1, <1>5, <1>7, <2>2, <3>1 DEF MissedOnce
    <3>2. CASE j = n + 1
      BY <1>5, <1>8, <2>1, <2>2, <3>2
    <3>3. CASE k = n + 1
      BY <1>5, <1>8, <2>1, <2>2, <3>3
    <3> QED  BY <1>8, <3>1, <3>2, <3>3
  <2> QED  BY <1>6, <1>7, <2>2 DEF MissedOnce
<1>12. Open(hr) = Open(fr)
  BY <1>6 DEF Open
<1>13. BatchPkts(hr) = BatchPkts(fr) /\ BatchesOnce(hr)
  BY <1>1, <1>6, <1>12, BatchesAlike
<1>14. Own(hr) = Own(fr) \cup {m.p}
  BY <1>1, <1>6, <1>10, <1>13, InputOwns
<1>15. Neat(hr) /\ ~Lent(hr)
  BY <1>1, <1>6, <1>10, <1>11, <1>13, InputOwns
<1> QED  BY <1>6, <1>14, <1>15 DEF Frame

LEMMA EmcProcessingPackets ==
  ASSUME MemoryInv, CallInv, PacketInv, EmcProcessing
  PROVE  PacketInv'
<1> DEFINE p == Head(Top.pkts)
           fr == [Top EXCEPT !.pkts = Tail(@)]
           f == EmcLookup(pkt[p])
           hr == [fr EXCEPT !.missed = Append(@, [p |-> p, key |-> pkt[p], rule |-> Null])]
<1>1. /\ stack # <<>> /\ Top.kind = "input" /\ Top.pc = "emc" /\ Top.pkts # <<>> /\ StackTypes
  BY DEF EmcProcessing, At, CallInv
<1>2. pkt[p] \in Key
  <2>1. At("emc")
    BY DEF EmcProcessing
  <2> QED  BY <1>1, <2>1, HeadInUse DEF HeadHasKey
<1>3. /\ Top \in InputFrame /\ PlaceOk(Top) /\ Top.pkts \in Seq(Packet) /\ Top.missed \in Seq(Missed)
  BY <1>1, TopIsInput
<1>4. Tail(Top.pkts) \in Seq(Packet)
  BY <1>1, <1>3, TailIs
<1>5. InputIs(fr, "emc", Tail(Top.pkts), Top.missed, Top.i, Top.new, Top.acts, Top.batches, Top.old, Top.own)
  BY <1>1, <1>3, <1>4, WithPkts
<1> HIDE DEF fr
<1>6. /\ p \in Packet /\ p \in Own(Top) /\ Neat(fr) /\ ~Lent(fr) /\ fr \in Frame
      /\ Own(fr) = Own(Top) \ {p}
  BY <1>1, <1>5, FirstGoes
<1>7. pkt[p] # Null
  BY <1>1, <1>6, TopOwns
<1>8. CASE Delete({p}) /\ stack' = SetTop(fr)
  <2>1. /\ PktType' /\ freed' = {}
        /\ \A q \in Packet: pkt'[q] # Null <=> pkt[q] # Null /\ q \notin {p}
    BY <1>7, <1>8, DeleteIs
  <2> HIDE DEF p
  <2>2. \A q \in Packet: pkt'[q] # Null <=> pkt[q] # Null /\ ~(q \in Own(Top) /\ q \notin Own(fr))
    BY <1>6, <2>1
  <2> QED  BY <1>1, <1>6, <1>8, <2>1, <2>2, TopPackets
<1>9. CASE f # Null /\ QueueBatches(SetTop(fr), p, f) /\ UNCHANGED <<pkt, freed>>
  <2>1. PICK g \in FlowObj: g = f
    BY <1>2, <1>9, EmcLookupWaits
  <2>2. PICK y \in Packet: y = p
    BY <1>6
  <2>3. QueueBatches(SetTop(fr), y, g)
    BY <1>9, <2>1, <2>2
  <2>4. PlaceOk(fr)
    BY <1>1, <1>3, <1>5 DEF PlaceOk, InputIs
  <2>5. Continues(Top, fr)
    BY <1>1, <1>5, <2>4, InputGoes
  <2>6. y \in Own(Top) /\ Own(fr) = Own(Top) \ {y}
    BY <1>6, <2>2
  <2> HIDE DEF f, p
  <2> QED  BY <1>1, <1>6, <1>9, <2>3, <2>5, <2>6, QueuePackets
<1>10. CASE stack' = SetTop(hr) /\ UNCHANGED <<pkt, freed>>
  <2> DEFINE m == [p |-> p, key |-> pkt[p], rule |-> Null]
             ms == Append(Top.missed, m)
  <2>1. m \in Missed /\ m.p = p
    BY <1>2, <1>6, EmptyIs DEF Missed
  <2> HIDE DEF p
  <2>2. m.rule = Null
    OBVIOUS
  <2> HIDE DEF m
  <2>3. ms \in Seq(Missed)
    BY <1>3, <2>1
  <2>4. hr = [fr EXCEPT !.missed = ms]
    BY <1>5 DEF hr, ms, m, InputIs, InputFrame
  <2> HIDE DEF hr
  <2>5. fr \in InputFrame /\ fr.missed = Top.missed /\ fr.pc = "emc"
    BY <1>5 DEF InputIs
  <2>6. InputIs(hr, "emc", fr.pkts, Append(fr.missed, m), fr.i, fr.new, fr.acts, fr.batches, fr.old, fr.own)
    BY <2>3, <2>4, <2>5, WithMissed
  <2>7. m.p \notin Own(fr)
    BY <1>6, <2>1
  <2>8. Neat(hr) /\ ~Lent(hr) /\ hr \in Frame /\ Own(hr) = Own(fr) \cup {m.p}
    BY <1>6, <2>1, <2>2, <2>5, <2>6, <2>7, FirstMisses
  <2>9. Own(hr) = Own(Top)
    BY <1>6, <2>1, <2>8
  <2>10. PktType' /\ freed' = {}
    BY <1>10 DEF PacketInv, PktType
  <2> QED  BY <1>1, <1>10, <2>8, <2>9, <2>10, TopPackets
<1> QED  BY <1>8, <1>9, <1>10 DEF EmcProcessing, fr, pktVars

LEMMA ClassifyPackets ==
  ASSUME MemoryInv, CallInv, PacketInv, Classify
  PROVE  PacketInv'
<1> DEFINE ms == Top.missed
           rs == [i \in DOMAIN ms |-> [ms[i] EXCEPT !.rule = AnyRule(Port[ms[1].key], ms[i].key)]]
           lost == {i \in DOMAIN rs: rs[i].rule = Null}
           next == CASE ms = <<>> -> "reset"
                     [] ms # <<>> /\ lost # {} /\ enabled -> "upcall"
                     [] OTHER -> "queue"
           gr == [Top EXCEPT !.missed = rs, !.pc = next]
<1>0. stack # <<>> /\ Top.kind = "input" /\ Top.pc = "emc" /\ Top.pkts = <<>> /\ StackTypes
  BY DEF Classify, At, CallInv
<1>1. /\ stack' = SetTop(gr)
      /\ next = "queue" => Delete({rs[i].p: i \in lost})
      /\ next # "queue" => UNCHANGED <<pkt, freed>>
  BY DEF Classify, pktVars
<1> HIDE DEF gr
<1>2. FlowTypes
  BY DEF MemoryInv
<1>3. next \in {"reset", "upcall", "queue"} /\ (next = "reset" => ms = <<>>)
  OBVIOUS
<1>4. /\ Top \in InputFrame /\ PlaceOk(Top) /\ ms \in Seq(Missed) /\ Top.i = 1
  BY <1>0, TopIsInput DEF PlaceOk
<1>5. rs = Ruled(ms)
  BY DEF Ruled
<1>6. /\ rs \in Seq(Missed) /\ DOMAIN rs = DOMAIN ms /\ \A j \in DOMAIN ms: rs[j].p = ms[j].p
  BY <1>2, <1>4, <1>5, RuledIs
<1>7. PICK n \in Nat: DOMAIN ms = 1 .. n
  BY <1>4, Members
<1>8. lost \subseteq 1 .. n /\ \A j \in 1 .. n: j \in lost <=> rs[j].rule = Null
  BY <1>6, <1>7
<1> HIDE DEF rs, lost, next
<1>9. InputIs(gr, next, <<>>, rs, Top.i, Top.new, Top.acts, Top.batches, Top.old, Top.own)
  BY <1>0, <1>3, <1>4, <1>6, WithMissedPc DEF Place, gr
<1> HIDE DEF ms
<1>10. /\ gr \in InputFrame /\ gr.pc = next /\ gr.pkts = <<>> /\ gr.missed = rs /\ gr.i = 1
       /\ gr.batches = Top.batches
  BY <1>4, <1>9 DEF InputIs
<1>11. Pending(Top) = 1 .. n
  BY <1>0, <1>7 DEF Pending, ms
<1>12. DOMAIN rs = 1 .. n
  BY <1>6, <1>7
<1>13. Pending(gr) = IF next = "queue" THEN 1 .. n \ lost ELSE 1 .. n
  <2>1. CASE next = "queue"
    BY <1>8, <1>10, <1>12, <2>1 DEF Pending
  <2>2. CASE next = "upcall"
    BY <1>10, <1>12, <2>2 DEF Pending
  <2>3. CASE next = "reset"
    <3>1. ms = <<>>
      BY <1>3, <2>3
    <3>2. 1 .. n = {}
      BY <1>7, <3>1, EmptyIs
    <3> QED  BY <1>10, <1>12, <2>3, <3>2 DEF Pending
  <2> QED  BY <1>3, <2>1, <2>2, <2>3
<1>14. Neat(Top) /\ \A p \in Own(Top): p \in Packet /\ pkt[p] # Null
  BY <1>0, TopOwns
<1>15. \A j \in Pending(gr): gr.missed[j].p = Top.missed[j].p
  BY <1>6, <1>7, <1>10, <1>13 DEF ms
<1> DEFINE gone == {Top.missed[j].p: j \in Pending(Top) \ Pending(gr)}
<1>16. Pending(gr) \subseteq Pending(Top)
  BY <1>11, <1>13
<1>17. Top.pc # "execute" /\ gr.pc # "execute"
  BY <1>0, <1>3, <1>10
<1>18. /\ Neat(gr) /\ ~Lent(gr) /\ gr \in Frame /\ Own(gr) = Own(Top) \ gone
  BY <1>0, <1>4, <1>10, <1>14, <1>15, <1>16, <1>17, MissedGoes
<1>19. gone \subseteq Own(Top)
  BY <1>4, InputOwns DEF MissedPkts
<1>20. CASE next = "queue"
  <2>1. gone = {rs[i].p: i \in lost}
    BY <1>6, <1>7, <1>8, <1>11, <1>13, <1>20 DEF ms
  <2>2. Delete(gone)
    BY <1>1, <1>20, <2>1
  <2> HIDE DEF gone
  <2>3. /\ PktType' /\ freed' = {}
        /\ \A p \in Packet: pkt'[p] # Null <=> pkt[p] # Null /\ p \notin gone
    BY <1>14, <1>19, <2>2, DeleteIs
  <2>4. \A p \in Packet: pkt'[p] # Null <=> pkt[p] # Null /\ ~(p \in Own(Top) /\ p \notin Own(gr))
    BY <1>18, <1>19, <2>3
  <2>5. Own(gr) \subseteq Own(Top)
    BY <1>18
  <2> QED  BY <1>0, <1>1, <1>18, <2>3, <2>4, <2>5, TopPackets
<1>21. CASE next # "queue"
  <2>1. gone = {}
    BY <1>11, <1>13, <1>21
  <2>2. Own(gr) = Own(Top)
    BY <1>18, <2>1
  <2>3. PktType' /\ freed' = {} /\ UNCHANGED pkt
    BY <1>1, <1>21 DEF PacketInv, PktType
  <2> QED  BY <1>0, <1>1, <1>18, <2>2, <2>3, TopPackets
<1> QED  BY <1>20, <1>21

\* The place where an input call makes upcalls, and where it goes on.
LEMMA UpcallGoes ==
  ASSUME NEW fr \in InputFrame, fr.pc \in {"upcall", "install", "insert"},
         NEW gr \in InputFrame, gr.pc = "upcall", gr.i = fr.i + 1,
         DOMAIN gr.missed = DOMAIN fr.missed, DOMAIN fr.missed \subseteq Nat,
         \A j \in DOMAIN fr.missed: j # fr.i => gr.missed[j] = fr.missed[j]
  PROVE  /\ Pending(gr) \subseteq Pending(fr) \cup {fr.i}
         /\ Pending(fr) \subseteq Pending(gr) \cup {fr.i}
         /\ fr.i \in Pending(gr) <=> fr.i \in DOMAIN fr.missed /\ gr.missed[fr.i].rule # Null
         /\ fr.i \in Pending(fr) <=> fr.i \in DOMAIN fr.missed /\ (fr.pc = "upcall" \/ fr.missed[fr.i].rule # Null)
<1>1. fr.i \in Nat
  BY InputTypes
<1>2. \A j \in DOMAIN fr.missed: j \in Pending(gr) <=> (j >= fr.i + 1 \/ gr.missed[j].rule # Null)
  BY <1>1 DEF Pending
<1>3. \A j \in DOMAIN fr.missed: j \in Pending(fr) <=> \/ j > fr.i
                                                     \/ fr.missed[j].rule # Null
                                                     \/ (fr.pc = "upcall" /\ j = fr.i)
  BY <1>1 DEF Pending
<1>4. Pending(fr) \subseteq DOMAIN fr.missed /\ Pending(gr) \subseteq DOMAIN fr.missed
  BY DEF Pending
<1>5. \A j \in DOMAIN fr.missed: j # fr.i => (j > fr.i <=> j >= fr.i + 1)
  BY <1>1
<1>6. ~(fr.i > fr.i) /\ ~(fr.i >= fr.i + 1)
  BY <1>1
<1> QED  BY <1>2, <1>3, <1>4, <1>5, <1>6

\* The packet of an upcall.
LEMMA PendingMissed ==
  ASSUME StackTypes, PacketInv, stack # <<>>, Top.kind = "input", NEW j \in Pending(Top)
  PROVE  /\ j \in DOMAIN Top.missed /\ Top.missed[j] \in Missed
         /\ Top.missed[j].p \in Own(Top) /\ Top.missed[j].p \in Packet /\ pkt[Top.missed[j].p] # Null
<1>1. Top \in InputFrame /\ Top.missed \in Seq(Missed)
  BY TopIsInput
<1>2. j \in DOMAIN Top.missed
  BY DEF Pending
<1>3. Top.missed[j] \in Missed
  BY <1>1, <1>2, Members
<1>4. Top.missed[j].p \in Own(Top)
  BY <1>1, InputOwns DEF MissedPkts
<1> QED  BY <1>2, <1>3, <1>4, TopOwns

\* The call goes on with another place, and the same packets.
LEMMA SameMissed ==
  ASSUME CallInv, PacketInv, stack # <<>>, Top.kind = "input", Top.pkts = <<>>, Top.pc # "execute",
         NEW gr \in InputFrame, gr.pkts = <<>>, gr.pc # "execute", gr.batches = Top.batches,
         Pending(gr) = Pending(Top), \A j \in Pending(gr): gr.missed[j].p = Top.missed[j].p,
         stack' = SetTop(gr), UNCHANGED <<pkt, freed>>
  PROVE  PacketInv'
<1>1. StackTypes /\ Top \in InputFrame /\ Neat(Top)
  BY TopIsInput, TopOwns DEF CallInv
<1>2. Neat(gr) /\ ~Lent(gr) /\ gr \in Frame /\ Own(gr) = Own(Top)
  BY <1>1, MissedGoes
<1>3. PktType' /\ freed' = {}
  BY DEF PacketInv, PktType
<1> QED  BY <1>1, <1>2, <1>3, TopPackets

LEMMA MissUpcallPackets ==
  ASSUME MemoryInv, CallInv, PacketInv, MissUpcall
  PROVE  PacketInv'
<1> DEFINE i == Top.i
           m == Top.missed[i]
           f == AnyRule(Port[m.key], m.key)
<1>1. /\ stack # <<>> /\ Top.kind = "input" /\ Top.pc = "upcall" /\ StackTypes
  BY DEF MissUpcall, At, CallInv
<1>2. FlowTypes
  BY DEF MemoryInv
<1>3. /\ Top \in InputFrame /\ PlaceOk(Top) /\ Top.missed \in Seq(Missed) /\ i \in Nat \ {0}
      /\ Top.pkts = <<>>
  BY <1>1, TopIsInput DEF PlaceOk
<1>4. PICK n \in Nat: DOMAIN Top.missed = 1 .. n /\ n = Len(Top.missed)
  BY <1>3, Members
<1>5. InputIs(NextUpcall, "upcall", Top.pkts, Top.missed, i + 1, Null, <<>>, Top.batches, Top.old, Top.own)
  BY <1>1, NextUpcallIs
<1>6. /\ NextUpcall \in InputFrame /\ NextUpcall.pkts = <<>> /\ NextUpcall.pc = "upcall"
      /\ NextUpcall.i = i + 1 /\ NextUpcall.missed = Top.missed /\ NextUpcall.batches = Top.batches
  BY <1>3, <1>5 DEF InputIs
<1>7. Neat(Top)
  BY <1>1, TopOwns
<1>8. CASE i > Len(Top.missed) /\ stack' = SetTop([Top EXCEPT !.pc = "queue", !.i = 1]) /\ UNCHANGED pktVars
  <2> DEFINE gr == [Top EXCEPT !.pc = "queue", !.i = 1]
  <2>0. PICK x \in Nat \ {0}: x = 1
    OBVIOUS
  <2>1. InputIs(gr, "queue", Top.pkts, Top.missed, x, Top.new, Top.acts, Top.batches, Top.old, Top.own)
    BY <1>3, <2>0, WithPcI DEF Place
  <2> HIDE DEF gr
  <2>2. /\ gr \in InputFrame /\ gr.pkts = <<>> /\ gr.pc = "queue" /\ gr.missed = Top.missed /\ gr.i = 1
        /\ gr.batches = Top.batches
    BY <1>3, <2>0, <2>1 DEF InputIs
  <2>3. Pending(gr) = Pending(Top)
    <3>1. \A j \in 1 .. n: j >= 1 /\ ~(j > i) /\ j # i
      BY <1>3, <1>4, <1>8
    <3> QED  BY <1>1, <1>4, <2>2, <3>1 DEF Pending
  <2>4. stack' = SetTop(gr) /\ UNCHANGED <<pkt, freed>>
    BY <1>8 DEF gr, pktVars
  <2> QED  BY <1>1, <1>3, <2>2, <2>3, <2>4, SameMissed
<1>9. CASE /\ i <= Len(Top.missed) /\ (m.rule # Null \/ f # Null) /\ UNCHANGED pktVars
           /\ stack' = SetTop([NextUpcall EXCEPT !.missed[i].rule = IF m.rule # Null THEN @ ELSE f])
  <2> DEFINE r == IF m.rule # Null THEN m.rule ELSE f
             mr == [m EXCEPT !.rule = r]
             ms == [Top.missed EXCEPT ![i] = mr]
             gr == [NextUpcall EXCEPT !.missed = ms]
  <2>1. i \in DOMAIN Top.missed /\ m \in Missed
    BY <1>3, <1>9
  <2>2. r \in MaybeFlow /\ r # Null
    <3>1. f \in MaybeFlow /\ m.rule \in MaybeFlow
      BY <1>2, <2>1, RuleIs DEF Missed
    <3> QED  BY <1>9, <3>1
  <2> HIDE DEF f
  <2>4. [NextUpcall EXCEPT !.missed[i].rule = IF m.rule # Null THEN @ ELSE f] = gr
    BY <1>6
  <2> HIDE DEF r
  <2>5. mr \in Missed /\ mr.rule = r /\ mr.p = m.p
    BY <2>1, <2>2 DEF Missed
  <2>a. m.p = Top.missed[i].p
    OBVIOUS
  <2> HIDE DEF mr, m
  <2>6. ms \in Seq(Missed) /\ DOMAIN ms = DOMAIN Top.missed /\ ms[i] = mr
        /\ \A j \in DOMAIN Top.missed: j # i => ms[j] = Top.missed[j]
    BY <1>3, <2>1, <2>5
  <2> HIDE DEF ms
  <2>7. InputIs(gr, "upcall", Top.pkts, ms, i + 1, Null, <<>>, Top.batches, Top.old, Top.own)
    BY <1>5, <1>6, <2>6, WithMissed DEF InputIs
  <2> HIDE DEF gr
  <2>8. /\ gr \in InputFrame /\ gr.pkts = <<>> /\ gr.pc = "upcall" /\ gr.missed = ms /\ gr.i = i + 1
        /\ gr.batches = Top.batches
    BY <1>3, <2>7 DEF InputIs
  <2>9. Pending(gr) = Pending(Top)
    <3>1. DOMAIN Top.missed \subseteq Nat
      BY <1>4
    <3>2. /\ Pending(gr) \subseteq Pending(Top) \cup {i} /\ Pending(Top) \subseteq Pending(gr) \cup {i}
          /\ i \in Pending(gr) <=> i \in DOMAIN Top.missed /\ gr.missed[i].rule # Null
          /\ i \in Pending(Top) <=> i \in DOMAIN Top.missed /\ (Top.pc = "upcall" \/ Top.missed[i].rule # Null)
      BY <1>1, <1>3, <2>6, <2>8, <3>1, UpcallGoes
    <3>3. gr.missed[i].rule # Null
      BY <2>2, <2>5, <2>6, <2>8
    <3>4. i \in Pending(gr)
      BY <2>1, <3>2, <3>3
    <3>5. i \in Pending(Top)
      BY <1>1, <2>1, <3>2
    <3> QED  BY <3>2, <3>4, <3>5
  <2>10. \A j \in Pending(gr): gr.missed[j].p = Top.missed[j].p
    <3>1. \A j \in Pending(gr): j \in DOMAIN Top.missed
      BY <2>9 DEF Pending
    <3> QED  BY <2>5, <2>6, <2>8, <2>a, <3>1
  <2>11. stack' = SetTop(gr) /\ UNCHANGED <<pkt, freed>>
    BY <1>9, <2>4 DEF m, pktVars
  <2> HIDE DEF i
  <2> QED  BY <1>1, <1>3, <2>8, <2>9, <2>10, <2>11, SameMissed
\* NextUpcall forgets the packet at i
<1>10. ASSUME i <= Len(Top.missed), m.rule = Null
       PROVE  /\ i \in Pending(Top) /\ Pending(NextUpcall) = Pending(Top) \ {i}
              /\ Neat(NextUpcall) /\ ~Lent(NextUpcall) /\ NextUpcall \in Frame
              /\ Own(NextUpcall) = Own(Top) \ {m.p}
              /\ m.p \in Own(Top) /\ m.p \in Packet /\ pkt[m.p] # Null
  <2>1. i \in DOMAIN Top.missed /\ DOMAIN Top.missed \subseteq Nat
    BY <1>3, <1>4, <1>10
  <2>2. /\ Pending(NextUpcall) \subseteq Pending(Top) \cup {i} /\ Pending(Top) \subseteq Pending(NextUpcall) \cup {i}
        /\ i \in Pending(NextUpcall) <=> i \in DOMAIN Top.missed /\ NextUpcall.missed[i].rule # Null
        /\ i \in Pending(Top) <=> i \in DOMAIN Top.missed /\ (Top.pc = "upcall" \/ Top.missed[i].rule # Null)
    BY <1>1, <1>3, <1>6, <2>1, UpcallGoes
  <2>3. i \in Pending(Top) /\ Pending(NextUpcall) = Pending(Top) \ {i}
    BY <1>1, <1>6, <1>10, <2>1, <2>2
  <2>4. {Top.missed[j].p: j \in Pending(Top) \ Pending(NextUpcall)} = {m.p}
    BY <2>3
  <2>5. Pending(NextUpcall) \subseteq Pending(Top) /\ \A j \in Pending(NextUpcall): NextUpcall.missed[j].p = Top.missed[j].p
    BY <1>6, <2>3
  <2>6. Top.pc # "execute" /\ NextUpcall.pc # "execute"
    BY <1>1, <1>6
  <2>7. /\ Neat(NextUpcall) /\ ~Lent(NextUpcall) /\ NextUpcall \in Frame
        /\ Own(NextUpcall) = Own(Top) \ {Top.missed[j].p: j \in Pending(Top) \ Pending(NextUpcall)}
    BY <1>3, <1>6, <1>7, <2>5, <2>6, MissedGoes
  <2> QED  BY <1>1, <2>3, <2>4, <2>7, PendingMissed
<1>11. CASE i <= Len(Top.missed) /\ m.rule = Null /\ Delete({m.p}) /\ stack' = SetTop(NextUpcall)
  <2>1. /\ Neat(NextUpcall) /\ ~Lent(NextUpcall) /\ NextUpcall \in Frame
        /\ Own(NextUpcall) = Own(Top) \ {m.p}
        /\ m.p \in Own(Top) /\ m.p \in Packet /\ pkt[m.p] # Null
    BY <1>10, <1>11
  <2>2. /\ PktType' /\ freed' = {}
        /\ \A p \in Packet: pkt'[p] # Null <=> pkt[p] # Null /\ p \notin {m.p}
    BY <1>11, <2>1, DeleteIs
  <2> HIDE DEF m
  <2>3. \A p \in Packet: pkt'[p] # Null <=> pkt[p] # Null /\ ~(p \in Own(Top) /\ p \notin Own(NextUpcall))
    BY <2>1, <2>2
  <2> QED  BY <1>1, <1>11, <2>1, <2>2, <2>3, TopPackets
<1>12. ASSUME NEW acts \in Program, NEW nospace \in BOOLEAN,
              i <= Len(Top.missed), m.rule = Null, UNCHANGED pktVars,
              stack' = Append(SetTop(IF nospace THEN NextUpcall
                                     ELSE [Top EXCEPT !.pc = "install", !.acts = acts]),
                              Actions(<<m.p>>, acts, TRUE))
       PROVE  PacketInv'
  <2> DEFINE gr == [Top EXCEPT !.pc = "install", !.acts = acts]
             xr == IF nospace THEN NextUpcall ELSE gr
             hr == Actions(<<m.p>>, acts, TRUE)
  <2>1. acts \in Seq(ActionKind)
    BY NetdevInputAssumption DEF ActionKind
  <2>2. /\ i \in Pending(Top) /\ Pending(NextUpcall) = Pending(Top) \ {i}
        /\ Neat(NextUpcall) /\ ~Lent(NextUpcall) /\ NextUpcall \in Frame
        /\ Own(NextUpcall) = Own(Top) \ {m.p}
        /\ m.p \in Own(Top) /\ m.p \in Packet /\ pkt[m.p] # Null
    BY <1>10, <1>12
  <2>3. PICK p \in Packet: p = m.p
    BY <2>2
  <2>4. <<p>> \in Seq(Packet)
    OBVIOUS
  <2>a. hr = Actions(<<p>>, acts, TRUE)
    BY <2>3
  <2>5. /\ hr \in Frame /\ hr.kind = "actions" /\ hr.pkts = <<p>> /\ hr.steal = TRUE
    <3>1. /\ Actions(<<p>>, acts, TRUE) \in Frame /\ Actions(<<p>>, acts, TRUE).kind = "actions"
          /\ Actions(<<p>>, acts, TRUE).pkts = <<p>> /\ Actions(<<p>>, acts, TRUE).steal = TRUE
      BY <2>1, <2>4, BatchActionsIs
    <3> HIDE DEF hr
    <3> QED  BY <2>a, <3>1
  <2>6. stack' = Append(SetTop(xr), hr)
    BY <1>12
  <2> HIDE DEF hr
  <2>7. ToSet(<<p>>) = {p} /\ Distinct(<<p>>)
    BY DEF ToSet, Distinct
  <2>8. Own(hr) = {p} /\ Neat(hr) /\ ~Lent(hr)
    BY <2>5, <2>7 DEF Own, Neat, Lent
  <2>9. InputIs(gr, "install", Top.pkts, Top.missed, i, Top.new, acts, Top.batches, Top.old, Top.own)
    BY <1>3, <2>1, WithPcActs DEF Place
  <2> HIDE DEF gr
  <2>10. /\ gr \in InputFrame /\ gr.pkts = <<>> /\ gr.pc = "install" /\ gr.missed = Top.missed /\ gr.i = i
         /\ gr.batches = Top.batches
    BY <1>3, <2>9 DEF InputIs
  <2>11. Pending(gr) = Pending(Top) \ {i}
    <3>1. \A j \in 1 .. n: j > i => j # i
      BY <1>3
    <3>2. ~(i > i)
      BY <1>3
    <3> QED  BY <1>1, <1>4, <1>12, <2>10, <3>1, <3>2 DEF Pending
  <2>12. /\ Neat(gr) /\ ~Lent(gr) /\ gr \in Frame
         /\ Own(gr) = Own(Top) \ {Top.missed[j].p: j \in Pending(Top) \ Pending(gr)}
    <3>1. Pending(gr) \subseteq Pending(Top) /\ \A j \in Pending(gr): gr.missed[j].p = Top.missed[j].p
      BY <2>10, <2>11
    <3>2. Top.pc # "execute" /\ gr.pc # "execute"
      BY <1>1, <2>10
    <3> QED  BY <1>3, <1>7, <2>10, <3>1, <3>2, MissedGoes
  <2>13. {Top.missed[j].p: j \in Pending(Top) \ Pending(gr)} = {m.p}
    BY <2>2, <2>11
  <2>14. Neat(xr) /\ ~Lent(xr) /\ xr \in Frame /\ Own(xr) = Own(Top) \ {p} /\ p \in Own(Top) /\ pkt[p] # Null
    BY <2>2, <2>3, <2>12, <2>13
  <2> HIDE DEF xr, m
  <2>15. PktType' /\ freed' = {} /\ UNCHANGED pkt
    BY <1>12 DEF PacketInv, PktType, pktVars
  <2>16. \A q \in Packet: pkt'[q] # Null <=> \/ pkt[q] # Null /\ ~(q \in Own(Top) /\ q \notin Own(xr))
                                             \/ q \in Own(hr)
    BY <2>8, <2>14, <2>15
  <2>17. \A q \in Own(hr): (q \in Own(Top) /\ q \notin Own(xr)) \/ pkt[q] = Null
    BY <2>8, <2>14
  <2>18. Own(xr) \subseteq Own(Top)
    BY <2>14
  <2> QED  BY <1>1, <2>5, <2>6, <2>8, <2>14, <2>15, <2>16, <2>17, <2>18, PushPackets
<1>13. \/ i > Len(Top.missed) /\ stack' = SetTop([Top EXCEPT !.pc = "queue", !.i = 1]) /\ UNCHANGED pktVars
       \/ /\ i <= Len(Top.missed) /\ (m.rule # Null \/ f # Null) /\ UNCHANGED pktVars
          /\ stack' = SetTop([NextUpcall EXCEPT !.missed[i].rule = IF m.rule # Null THEN @ ELSE f])
       \/ i <= Len(Top.missed) /\ m.rule = Null /\ Delete({m.p}) /\ stack' = SetTop(NextUpcall)
       \/ \E acts \in Program, nospace \in BOOLEAN:
            /\ i <= Len(Top.missed) /\ m.rule = Null /\ UNCHANGED pktVars
            /\ stack' = Append(SetTop(IF nospace THEN NextUpcall
                                      ELSE [Top EXCEPT !.pc = "install", !.acts = acts]),
                               Actions(<<m.p>>, acts, TRUE))
  BY DEF MissUpcall
<1> HIDE DEF i, m, f
<1> QED  BY <1>8, <1>9, <1>11, <1>12, <1>13

LEMMA InstallPackets ==
  ASSUME MemoryInv, CallInv, PacketInv, Install
  PROVE  PacketInv'
<1>1. /\ stack # <<>> /\ Top.kind = "input" /\ Top.pc = "install" /\ StackTypes
      /\ UNCHANGED <<pkt, freed>>
  BY DEF Install, At, CallInv, pktVars
<1>2. /\ Top \in InputFrame /\ PlaceOk(Top) /\ Top.missed \in Seq(Missed)
      /\ Top.pkts = <<>> /\ Top.i \in DOMAIN Top.missed
  BY <1>1, TopIsInput DEF PlaceOk
<1>3. FlowTypes
  BY DEF MemoryInv
<1>4. ASSUME NEW f \in MaybeFlow, stack' = SetTop([Top EXCEPT !.pc = "insert", !.new = f])
      PROVE  PacketInv'
  <2> DEFINE gr == [Top EXCEPT !.pc = "insert", !.new = f]
  <2>1. InputIs(gr, "insert", Top.pkts, Top.missed, Top.i, f, Top.acts, Top.batches, Top.old, Top.own)
    BY <1>2, <1>4, WithPcNew DEF Place
  <2>2. stack' = SetTop(gr)
    BY <1>4
  <2> HIDE DEF gr
  <2>3. /\ gr \in InputFrame /\ gr.pkts = <<>> /\ gr.pc = "insert" /\ gr.missed = Top.missed /\ gr.i = Top.i
        /\ gr.batches = Top.batches
    BY <1>2, <2>1 DEF InputIs
  <2>4. Pending(gr) = Pending(Top)
    BY <1>1, <2>3 DEF Pending
  <2> QED  BY <1>1, <1>2, <2>2, <2>3, <2>4, SameMissed
<1>5. PICK m \in Missed: m = Top.missed[Top.i]
  BY <1>2
<1>6. PICK old \in MaybeFlow: old = AnyRule(Port[m.key], m.key)
  BY <1>3, RuleIs
<1>7. \A f \in FreshFlow: f \in MaybeFlow
  BY FreshIs DEF MaybeFlow
<1>8. \/ stack' = SetTop([Top EXCEPT !.pc = "insert", !.new = old])
      \/ \E f \in FreshFlow: stack' = SetTop([Top EXCEPT !.pc = "insert", !.new = f])
  BY <1>5, <1>6 DEF Install
<1> QED  BY <1>4, <1>7, <1>8

LEMMA InsertPackets ==
  ASSUME MemoryInv, CallInv, PacketInv, Insert
  PROVE  PacketInv'
<1>1. /\ stack # <<>> /\ Top.kind = "input" /\ Top.pc = "insert" /\ StackTypes
      /\ UNCHANGED <<pkt, freed>> /\ stack' = SetTop(NextUpcall)
  BY DEF Insert, At, CallInv, pktVars
<1>2. /\ Top \in InputFrame /\ PlaceOk(Top) /\ Top.missed \in Seq(Missed)
      /\ Top.pkts = <<>> /\ Top.i \in DOMAIN Top.missed
  BY <1>1, TopIsInput DEF PlaceOk
<1>3. InputIs(NextUpcall, "upcall", Top.pkts, Top.missed, Top.i + 1, Null, <<>>, Top.batches, Top.old, Top.own)
  BY <1>1, NextUpcallIs
<1>4. /\ NextUpcall \in InputFrame /\ NextUpcall.pkts = <<>> /\ NextUpcall.pc = "upcall"
      /\ NextUpcall.i = Top.i + 1 /\ NextUpcall.missed = Top.missed /\ NextUpcall.batches = Top.batches
  BY <1>2, <1>3 DEF InputIs
<1>5. DOMAIN Top.missed \subseteq Nat
  BY <1>2, Members
<1>6. Pending(NextUpcall) = Pending(Top)
  <2>1. /\ Pending(NextUpcall) \subseteq Pending(Top) \cup {Top.i} /\ Pending(Top) \subseteq Pending(NextUpcall) \cup {Top.i}
        /\ Top.i \in Pending(NextUpcall) <=> Top.i \in DOMAIN Top.missed /\ NextUpcall.missed[Top.i].rule # Null
        /\ Top.i \in Pending(Top) <=> Top.i \in DOMAIN Top.missed /\ (Top.pc = "upcall" \/ Top.missed[Top.i].rule # Null)
    BY <1>1, <1>2, <1>4, <1>5, UpcallGoes
  <2>2. Top.i \in Pending(NextUpcall) <=> Top.i \in Pending(Top)
    BY <1>1, <1>4, <2>1
  <2> QED  BY <2>1, <2>2
<1> QED  BY <1>1, <1>2, <1>4, <1>6, SameMissed

LEMMA QueueRulePackets ==
  ASSUME MemoryInv, CallInv, PacketInv, QueueRule
  PROVE  PacketInv'
<1>1. /\ stack # <<>> /\ Top.kind = "input" /\ Top.pc = "queue" /\ StackTypes
      /\ UNCHANGED <<pkt, freed>>
  BY DEF QueueRule, At, CallInv, pktVars
<1>2. /\ Top \in InputFrame /\ PlaceOk(Top) /\ Top.missed \in Seq(Missed) /\ Top.i \in Nat \ {0}
      /\ Top.pkts = <<>>
  BY <1>1, TopIsInput DEF PlaceOk
<1>a. PICK n \in Nat: DOMAIN Top.missed = 1 .. n /\ n = Len(Top.missed)
  BY <1>2, Members
<1>3. CASE Top.i > Len(Top.missed)
  <2> DEFINE gr == [Top EXCEPT !.pc = "reset"]
  <2>1. stack' = SetTop(gr)
    BY <1>3 DEF QueueRule
  <2>2. InputIs(gr, "reset", Top.pkts, Top.missed, Top.i, Top.new, Top.acts, Top.batches, Top.old, Top.own)
    BY <1>2, WithPc DEF Place
  <2> HIDE DEF gr
  <2>3. /\ gr \in InputFrame /\ gr.pkts = <<>> /\ gr.pc = "reset" /\ gr.missed = Top.missed
        /\ gr.batches = Top.batches
    BY <1>2, <2>2 DEF InputIs
  <2>4. \A j \in 1 .. n: ~(j >= Top.i)
    BY <1>2, <1>3, <1>a
  <2>5. Pending(gr) = Pending(Top)
    BY <1>1, <1>a, <2>3, <2>4 DEF Pending
  <2> QED  BY <1>1, <1>2, <2>1, <2>3, <2>5, SameMissed
<1>4. CASE ~(Top.i > Len(Top.missed))
  <2>1. Top.i \in DOMAIN Top.missed
    BY <1>2, <1>4
  <2>2. PICK m \in Missed: m = Top.missed[Top.i]
    BY <1>2, <2>1
  <2>3. PICK x \in Nat \ {0}: x = Top.i + 1
    BY <1>2
  <2> DEFINE gr == [Top EXCEPT !.i = x]
  <2>4. [Top EXCEPT !.i = @ + 1] = gr
    BY <2>3
  <2>5. InputIs(gr, "queue", Top.pkts, Top.missed, x, Top.new, Top.acts, Top.batches, Top.old, Top.own)
    BY <1>1, <1>2, WithI
  <2> HIDE DEF gr
  <2>6. /\ gr \in InputFrame /\ gr.pkts = <<>> /\ gr.pc = "queue" /\ gr.missed = Top.missed /\ gr.i = x
        /\ gr.batches = Top.batches
    BY <1>2, <2>5 DEF InputIs
  <2>7. \A j \in 1 .. n: j >= x <=> j >= Top.i /\ j # Top.i
    BY <1>2, <2>3
  <2>8. Pending(gr) = Pending(Top) \ {Top.i}
    <3>1. ~(Top.i >= x)
      BY <1>2, <2>3
    <3> QED  BY <1>1, <1>a, <2>6, <2>7, <3>1 DEF Pending
  <2>9. CASE m.rule = Null
    <3>1. stack' = SetTop(gr)
      BY <1>4, <2>2, <2>4, <2>9 DEF QueueRule
    <3>2. Top.i \notin Pending(Top)
      BY <1>1, <2>2, <2>9 DEF Pending
    <3>3. Pending(gr) = Pending(Top)
      BY <2>8, <3>2
    <3> QED  BY <1>1, <1>2, <2>6, <3>1, <3>3, SameMissed
  <2>10. CASE m.rule # Null
    <3>1. QueueBatches(SetTop(gr), m.p, m.rule)
      BY <1>4, <2>2, <2>4, <2>10 DEF QueueRule
    <3>2. m.p \in Packet /\ m.rule \in FlowObj
      BY <2>10 DEF Missed, MaybeFlow
    <3>3. PlaceOk(gr)
      BY <1>1, <1>2, <2>5, <2>6 DEF PlaceOk, InputIs
    <3>4. Continues(Top, gr)
      BY <1>1, <2>5, <3>3, InputGoes
    <3>5. Top.i >= Top.i
      BY <1>2
    <3>6. Top.i \in Pending(Top)
      BY <1>1, <2>1, <2>2, <2>10, <3>5 DEF Pending
    <3>7. m.p \in Own(Top)
      BY <1>1, <2>2, <3>6, PendingMissed
    <3>8. Neat(Top)
      BY <1>1, TopOwns
    <3>9. /\ Neat(gr) /\ ~Lent(gr) /\ gr \in Frame
          /\ Own(gr) = Own(Top) \ {Top.missed[j].p: j \in Pending(Top) \ Pending(gr)}
      <4>1. Pending(gr) \subseteq Pending(Top) /\ \A j \in Pending(gr): gr.missed[j].p = Top.missed[j].p
        BY <2>6, <2>8
      <4>2. Top.pc # "execute" /\ gr.pc # "execute"
        BY <1>1, <2>6
      <4> QED  BY <1>2, <2>6, <3>8, <4>1, <4>2, MissedGoes
    <3>10. {Top.missed[j].p: j \in Pending(Top) \ Pending(gr)} = {m.p}
      BY <2>2, <2>8, <3>6
    <3>11. Own(gr) = Own(Top) \ {m.p}
      BY <3>9, <3>10
    <3>12. PICK y \in Packet, g \in FlowObj: y = m.p /\ g = m.rule
      BY <3>2
    <3>13. Top.pc # "execute"
      BY <1>1
    <3> QED  BY <1>1, <3>1, <3>4, <3>7, <3>9, <3>11, <3>12, <3>13, QueuePackets
  <2> QED  BY <2>9, <2>10
<1> QED  BY <1>3, <1>4

LEMMA ResetBatchesPackets ==
  ASSUME MemoryInv, CallInv, PacketInv, ResetBatches
  PROVE  PacketInv'
<1>1. /\ stack # <<>> /\ Top.kind = "input" /\ Top.pc = "reset" /\ StackTypes
      /\ UNCHANGED <<pkt, freed>>
  BY DEF ResetBatches, At, CallInv, pktVars
<1>2. /\ Top \in InputFrame /\ PlaceOk(Top) /\ Top.pkts = <<>> /\ Top.batches \in Seq(Batch)
  BY <1>1, TopIsInput DEF PlaceOk
<1>a. PICK n \in Nat: DOMAIN Top.batches = 1 .. n
  BY <1>2, Members
<1> DEFINE gr == [Top EXCEPT !.pc = "execute", !.i = 1]
<1>0. PICK x \in Nat \ {0}: x = 1
  OBVIOUS
<1>3. InputIs(gr, "execute", Top.pkts, Top.missed, x, Top.new, Top.acts, Top.batches, Top.old, Top.own)
  BY <1>0, <1>2, WithPcI DEF Place
<1>4. stack' = SetTop(gr)
  BY DEF ResetBatches
<1> HIDE DEF gr
<1>5. /\ gr \in InputFrame /\ gr.pkts = Top.pkts /\ gr.pc = "execute" /\ gr.missed = Top.missed /\ gr.i = 1
      /\ gr.batches = Top.batches
  BY <1>0, <1>3 DEF InputIs
<1>6. Open(gr) = Open(Top)
  <2>1. \A j \in 1 .. n: j >= 1
    OBVIOUS
  <2> QED  BY <1>1, <1>5, <1>a, <2>1 DEF Open
<1>7. Pending(gr) = {} /\ Pending(Top) = {}
  BY <1>1, <1>5 DEF Pending
<1>8. MissedPkts(gr) = {} /\ MissedPkts(Top) = {} /\ MissedOnce(gr)
  BY <1>7 DEF MissedPkts, MissedOnce
<1>9. Neat(Top)
  BY <1>1, TopOwns
<1>10. BatchPkts(gr) = BatchPkts(Top) /\ BatchesOnce(gr)
  BY <1>2, <1>5, <1>6, <1>9, BatchesAlike, InputOwns
<1>11. Own(gr) = Own(Top) /\ ~Lent(gr) /\ gr \in Frame
  BY <1>2, <1>5, <1>8, <1>10, InputOwns DEF Frame
<1>12. Neat(gr)
  BY <1>2, <1>5, <1>8, <1>9, <1>10, InputOwns
<1>13. PktType' /\ freed' = {}
  BY <1>1 DEF PacketInv, PktType
<1> QED  BY <1>1, <1>4, <1>11, <1>12, <1>13, TopPackets

LEMMA ExecuteBatchPackets ==
  ASSUME MemoryInv, CallInv, PacketInv, ExecuteBatch
  PROVE  PacketInv'
<1>1. /\ stack # <<>> /\ Top.kind = "input" /\ Top.pc = "execute" /\ StackTypes /\ Top.i <= Len(Top.batches)
      /\ UNCHANGED <<pkt, freed>>
  BY DEF ExecuteBatch, At, CallInv, pktVars
<1>2. /\ Top \in InputFrame /\ PlaceOk(Top) /\ Top.batches \in Seq(Batch) /\ Top.i \in Nat \ {0}
      /\ Top.pkts = <<>>
  BY <1>1, TopIsInput DEF PlaceOk
<1>a. PICK n \in Nat: DOMAIN Top.batches = 1 .. n /\ n = Len(Top.batches)
  BY <1>2, Members
<1>3. Top.i \in DOMAIN Top.batches
  BY <1>1, <1>2, <1>a
<1>4. PICK b \in Batch: b = Top.batches[Top.i]
  BY <1>2, <1>3
<1>5. PICK x \in Nat \ {0}: x = Top.i + 1
  BY <1>2
<1> DEFINE gr == [Top EXCEPT !.i = x]
           hr == Actions(b.pkts, flow[b.flow].acts, TRUE)
<1>6. stack' = Append(SetTop(gr), hr)
  BY <1>4, <1>5 DEF ExecuteBatch
<1>7. InputIs(gr, "execute", Top.pkts, Top.missed, x, Top.new, Top.acts, Top.batches, Top.old, Top.own)
  BY <1>1, <1>2, WithI
<1> HIDE DEF gr
<1>8. /\ gr \in InputFrame /\ gr.pkts = <<>> /\ gr.pc = "execute" /\ gr.missed = Top.missed /\ gr.i = x
      /\ gr.batches = Top.batches
  BY <1>2, <1>7 DEF InputIs
<1>9. b.pkts \in Seq(Packet) /\ flow[b.flow].acts \in Seq(ActionKind)
  BY DEF Batch, FlowTypes, Flow, MemoryInv
<1>10. hr \in Frame /\ hr.kind = "actions" /\ hr.pkts = b.pkts /\ hr.steal = TRUE
  <2>1. PICK ps \in Seq(Packet): ps = b.pkts
    BY <1>9
  <2>2. PICK acts \in Seq(ActionKind): acts = flow[b.flow].acts
    BY <1>9
  <2>3. /\ Actions(ps, acts, TRUE) \in Frame /\ Actions(ps, acts, TRUE).kind = "actions"
        /\ Actions(ps, acts, TRUE).pkts = ps /\ Actions(ps, acts, TRUE).steal = TRUE
    BY BatchActionsIs
  <2>4. hr = Actions(ps, acts, TRUE)
    BY <2>1, <2>2
  <2> HIDE DEF hr
  <2> QED  BY <2>1, <2>3, <2>4
<1> HIDE DEF hr
<1>11. Neat(Top) /\ \A p \in Own(Top): p \in Packet /\ pkt[p] # Null
  BY <1>1, TopOwns
<1>12. /\ MissedOnce(Top) /\ BatchesOnce(Top) /\ ToSet(Top.pkts) = {}
       /\ Own(Top) = ToSet(Top.pkts) \cup MissedPkts(Top) \cup BatchPkts(Top)
  BY <1>2, <1>11, InputOwns, EmptyIs
<1>13. Pending(gr) = {} /\ Pending(Top) = {}
  BY <1>1, <1>8 DEF Pending
<1>14. MissedPkts(gr) = {} /\ MissedPkts(Top) = {} /\ MissedOnce(gr)
  BY <1>13 DEF MissedPkts, MissedOnce
<1>15. \A k \in 1 .. n: k >= x <=> k >= Top.i /\ k # Top.i
  BY <1>2, <1>5
<1>16. Open(gr) = Open(Top) \ {Top.i} /\ Top.i \in Open(Top)
  <2>1. Top.i >= Top.i /\ ~(Top.i >= x)
    BY <1>2, <1>5
  <2> QED  BY <1>1, <1>3, <1>8, <1>a, <1>15, <2>1 DEF Open
<1>17. BatchesOnce(gr)
  BY <1>8, <1>12, <1>16 DEF BatchesOnce
<1>18. /\ \A p \in BatchPkts(gr): p \notin ToSet(b.pkts)
       /\ BatchPkts(Top) = BatchPkts(gr) \cup ToSet(b.pkts)
       /\ Distinct(b.pkts)
  <2>1. \A k \in Open(gr): ToSet(gr.batches[k].pkts) \cap ToSet(b.pkts) = {}
    BY <1>4, <1>8, <1>12, <1>16 DEF BatchesOnce
  <2>2. Distinct(b.pkts)
    BY <1>4, <1>12, <1>16 DEF BatchesOnce
  <2>3. \A p: p \in BatchPkts(Top) <=> p \in BatchPkts(gr) \/ p \in ToSet(b.pkts)
    BY <1>4, <1>8, <1>16 DEF BatchPkts
  <2>4. \A p \in BatchPkts(gr): p \notin ToSet(b.pkts)
    BY <2>1 DEF BatchPkts
  <2> QED  BY <2>2, <2>3, <2>4
<1>19. ToSet(gr.pkts) = {} /\ Distinct(gr.pkts)
  BY <1>8, EmptyIs DEF Distinct
<1>20. Own(gr) = BatchPkts(gr) /\ Neat(gr) /\ ~Lent(gr) /\ gr \in Frame
  BY <1>8, <1>14, <1>17, <1>19, InputOwns DEF Frame
<1>21. Own(hr) = ToSet(b.pkts) /\ Neat(hr) /\ ~Lent(hr)
  BY <1>10, <1>18 DEF Own, Neat, Lent
<1>22. /\ Own(gr) \subseteq Own(Top)
       /\ \A p \in Own(hr): p \in Own(Top) /\ p \notin Own(gr)
       /\ \A p \in Own(Top): p \in Own(gr) \/ p \in Own(hr)
  BY <1>12, <1>14, <1>18, <1>20, <1>21
<1>23. PktType' /\ freed' = {} /\ UNCHANGED pkt
  BY <1>1 DEF PacketInv, PktType
<1>24. \A q \in Packet: pkt'[q] # Null <=> \/ pkt[q] # Null /\ ~(q \in Own(Top) /\ q \notin Own(gr))
                                           \/ q \in Own(hr)
  BY <1>11, <1>22, <1>23
<1> QED  BY <1>1, <1>6, <1>10, <1>20, <1>21, <1>22, <1>23, <1>24, PushPackets

LEMMA ReturnPackets ==
  ASSUME MemoryInv, CallInv, PacketInv, InputReturns \/ CallerFrees \/ ActionsReturn
  PROVE  PacketInv'
<1>1. /\ stack # <<>> /\ stack' = Front(stack) /\ StackTypes
  BY DEF InputReturns, CallerFrees, ActionsReturn, At, CallInv, Return
<1>2. Neat(Top) /\ \A p \in Own(Top): p \in Packet /\ pkt[p] # Null
  BY <1>1, TopOwns
<1>3. CASE InputReturns
  <2>1. Top.kind = "input" /\ Top.pc = "execute" /\ Top.i > Len(Top.batches) /\ UNCHANGED <<pkt, freed>>
    BY <1>3 DEF InputReturns, At, pktVars
  <2>2. /\ Top \in InputFrame /\ PlaceOk(Top) /\ Top.batches \in Seq(Batch) /\ Top.i \in Nat \ {0}
        /\ Top.pkts = <<>>
    BY <1>1, <2>1, TopIsInput DEF PlaceOk
  <2>3. PICK n \in Nat: DOMAIN Top.batches = 1 .. n /\ n = Len(Top.batches)
    BY <2>2, Members
  <2>4. \A k \in 1 .. n: ~(k >= Top.i)
    BY <2>1, <2>2, <2>3
  <2>5. Open(Top) = {} /\ Pending(Top) = {} /\ ToSet(Top.pkts) = {}
    BY <2>1, <2>2, <2>3, <2>4, EmptyIs DEF Open, Pending
  <2>6. MissedPkts(Top) = {} /\ BatchPkts(Top) = {}
    BY <2>5 DEF MissedPkts, BatchPkts
  <2>7. Own(Top) = {}
    BY <2>2, <2>5, <2>6, InputOwns
  <2>8. PktType' /\ freed' = {} /\ UNCHANGED pkt
    BY <2>1 DEF PacketInv, PktType
  <2> QED  BY <1>1, <2>7, <2>8, PopPackets
<1>4. CASE CallerFrees \/ ActionsReturn
  <2>1. Top.kind # "input"
    BY <1>4 DEF CallerFrees, ActionsReturn
  <2>2. /\ \A p \in ToSet(Top.pkts): p \in Packet /\ pkt[p] # Null
        /\ Lent(Top) => Own(Top) = {}
        /\ ~Lent(Top) => Own(Top) = ToSet(Top.pkts)
    BY <1>1, <2>1, TopUses
  <2>3. IF Lent(Top) THEN UNCHANGED <<pkt, freed>> ELSE Delete(ToSet(Top.pkts))
    <3>1. CASE CallerFrees
      BY <3>1 DEF CallerFrees, Lent
    <3>2. CASE ActionsReturn
      BY <3>2 DEF ActionsReturn, Lent, pktVars
    <3> QED  BY <1>4, <3>1, <3>2
  <2>4. CASE Lent(Top)
    <3>1. PktType' /\ freed' = {} /\ UNCHANGED pkt
      BY <2>3, <2>4 DEF PacketInv, PktType
    <3> QED  BY <1>1, <2>2, <2>4, <3>1, PopPackets
  <2>5. CASE ~Lent(Top)
    <3>1. /\ PktType' /\ freed' = {}
          /\ \A p \in Packet: pkt'[p] # Null <=> pkt[p] # Null /\ p \notin ToSet(Top.pkts)
      BY <2>2, <2>3, <2>5, DeleteIs
    <3> QED  BY <1>1, <2>2, <2>5, <3>1, PopPackets
  <2> QED  BY <2>4, <2>5
<1> QED  BY <1>3, <1>4

\* What a list of actions has after one of them.
LEMMA AfterOwns ==
  ASSUME StackTypes, PacketInv, stack # <<>>, Top.kind = "actions", Top.acts # <<>>
  PROVE  /\ AfterAction \in Frame /\ Neat(AfterAction) /\ Distinct(Top.pkts) /\ Top.pkts \in Seq(Packet)
         /\ Own(AfterAction) = (IF MaySteal THEN {} ELSE Own(Top))
         /\ MaySteal => Own(Top) = ToSet(Top.pkts)
         /\ Lent(AfterAction) => Lent(Top) /\ ToSet(AfterAction.pkts) \subseteq ToSet(Top.pkts)
         /\ ~MaySteal => \A p \in ToSet(Top.pkts): p \in Own(AfterAction) \/ Lent(Top)
         /\ \A p \in ToSet(Top.pkts): p \in Packet /\ pkt[p] # Null
<1>1. /\ Top.pkts \in Seq(Packet) /\ Top.steal \in BOOLEAN
      /\ AfterAction \in Frame /\ AfterAction.kind = "actions" /\ AfterAction.steal = Top.steal
      /\ AfterAction.pkts = (IF MaySteal THEN <<>> ELSE Top.pkts)
      /\ MaySteal \in BOOLEAN /\ (MaySteal => Top.steal)
  BY AfterActionIs
<1>2. Neat(Top)
  BY TopOwns
<1>3. Distinct(Top.pkts) /\ Distinct(<<>>)
  BY <1>2 DEF Neat, Distinct
<1>4. Neat(AfterAction)
  <2>1. Distinct(AfterAction.pkts)
    BY <1>1, <1>3
  <2> QED  BY <1>1, <2>1 DEF Neat
<1>5. Own(Top) = (IF Top.steal THEN ToSet(Top.pkts) ELSE {}) /\ (Lent(Top) <=> ~Top.steal)
  BY DEF Own, Lent
<1>6. Own(AfterAction) = (IF Top.steal THEN ToSet(AfterAction.pkts) ELSE {}) /\ (Lent(AfterAction) <=> ~Top.steal)
  BY <1>1 DEF Own, Lent
<1>7. ToSet(AfterAction.pkts) = IF MaySteal THEN {} ELSE ToSet(Top.pkts)
  BY <1>1, EmptyIs
<1>8. \A p \in ToSet(Top.pkts): p \in Packet /\ pkt[p] # Null
  BY TopUses
<1> QED  BY <1>1, <1>3, <1>4, <1>5, <1>6, <1>7, <1>8

LEMMA DropPackets ==
  ASSUME MemoryInv, CallInv, PacketInv, Drop
  PROVE  PacketInv'
<1>1. /\ stack # <<>> /\ Top.kind = "actions" /\ Top.acts # <<>> /\ StackTypes
      /\ stack' = SetTop(AfterAction)
      /\ IF MaySteal THEN Delete(ToSet(Top.pkts)) ELSE UNCHANGED <<pkt, freed>>
  BY DEF Drop, Doing, pktVars, CallInv
<1>2. /\ AfterAction \in Frame /\ Neat(AfterAction)
      /\ Own(AfterAction) = (IF MaySteal THEN {} ELSE Own(Top))
      /\ MaySteal => Own(Top) = ToSet(Top.pkts)
      /\ Lent(AfterAction) => Lent(Top) /\ ToSet(AfterAction.pkts) \subseteq ToSet(Top.pkts)
      /\ \A p \in ToSet(Top.pkts): p \in Packet /\ pkt[p] # Null
  BY <1>1, AfterOwns
<1>3. CASE MaySteal
  <2>1. /\ PktType' /\ freed' = {}
        /\ \A p \in Packet: pkt'[p] # Null <=> pkt[p] # Null /\ p \notin ToSet(Top.pkts)
    BY <1>1, <1>2, <1>3, DeleteIs
  <2>2. \A p \in Packet: pkt'[p] # Null <=> pkt[p] # Null /\ ~(p \in Own(Top) /\ p \notin Own(AfterAction))
    BY <1>2, <1>3, <2>1
  <2>3. Own(AfterAction) \subseteq Own(Top)
    BY <1>2, <1>3
  <2> QED  BY <1>1, <1>2, <2>1, <2>2, <2>3, TopPackets
<1>4. CASE ~MaySteal
  <2>1. PktType' /\ freed' = {} /\ UNCHANGED pkt
    BY <1>1, <1>4 DEF PacketInv, PktType
  <2> QED  BY <1>1, <1>2, <1>4, <2>1, TopPackets
<1> QED  BY <1>3, <1>4

LEMMA InputCallOwns ==
  ASSUME NEW ps \in Seq(Packet), Distinct(ps)
  PROVE  Own(InputCall(ps)) = ToSet(ps) /\ Neat(InputCall(ps)) /\ ~Lent(InputCall(ps)) /\ InputCall(ps) \in Frame
<1>1. /\ InputIs(InputCall(ps), "emc", ps, <<>>, 1, Null, <<>>, <<>>, {f \in FlowObj: flow[f].dead /\ ref[f] > 0}, ToSet(ps))
      /\ InputCall(ps) \in Frame
  BY InputCallIs
<1>2. PICK fr \in InputFrame: fr = InputCall(ps)
  BY <1>1 DEF InputIs
<1>3. fr.pkts = ps /\ fr.missed = <<>> /\ fr.batches = <<>>
  BY <1>1, <1>2 DEF InputIs
<1>4. Pending(fr) = {} /\ Open(fr) = {}
  BY <1>3, EmptyIs DEF Pending, Open
<1>5. MissedPkts(fr) = {} /\ BatchPkts(fr) = {} /\ MissedOnce(fr) /\ BatchesOnce(fr)
  BY <1>4 DEF MissedPkts, BatchPkts, MissedOnce, BatchesOnce
<1>6. Own(fr) = ToSet(ps) /\ Neat(fr) /\ ~Lent(fr)
  BY <1>3, <1>5, InputOwns
<1> QED  BY <1>1, <1>2, <1>6

LEMMA KeptPackets ==
  ASSUME NEW n \in Nat, NEW keep \in SUBSET (1 .. n), NEW ps, \A i \in 1 .. n: ps[i] \in Packet
  PROVE  /\ KeptOf(ps, keep) \in Seq(Packet) /\ DOMAIN KeptOf(ps, keep) = 1 .. Cardinality(keep)
         /\ \A j \in 1 .. Cardinality(keep): KeptOf(ps, keep)[j] = ps[Nth(j, keep)] /\ Nth(j, keep) \in keep
         /\ \A j, k \in 1 .. Cardinality(keep): Nth(j, keep) = Nth(k, keep) => j = k
<1>1. PICK S: S = Packet
  OBVIOUS
<1>2. \A i \in 1 .. n: ps[i] \in S
  BY <1>1
<1>3. KeptOf(ps, keep) \in Seq(S) /\ DOMAIN KeptOf(ps, keep) = 1 .. Cardinality(keep)
  BY <1>2, KeptIs
<1>4. /\ \A j \in 1 .. Cardinality(keep): KeptOf(ps, keep)[j] = ps[Nth(j, keep)] /\ Nth(j, keep) \in keep
      /\ \A j, k \in 1 .. Cardinality(keep): Nth(j, keep) = Nth(k, keep) => j = k
  BY <1>2, KeptIs
<1> QED  BY <1>1, <1>3, <1>4

LEMMA RecirculatePackets ==
  ASSUME MemoryInv, CallInv, PacketInv, Recirculate
  PROVE  PacketInv'
<1>0. StackTypes
  BY DEF CallInv
<1>1. /\ stack # <<>> /\ Top.kind = "actions" /\ Top.acts # <<>> /\ Top.pkts \in Seq(Packet)
      /\ \E n \in Nat: \E ps \in Seq(Packet): \E keep:
           Recirculates(n, ps, keep) /\ DOMAIN ps = 1 .. n /\ Len(ps) = n /\ DOMAIN Top.pkts = 1 .. n
  BY <1>0, RecirculateIs
<1>2. PICK n \in Nat: \E ps \in Seq(Packet): \E keep:
        Recirculates(n, ps, keep) /\ DOMAIN ps = 1 .. n /\ Len(ps) = n /\ DOMAIN Top.pkts = 1 .. n
  BY <1>1
<1>3. PICK ps \in Seq(Packet): \E keep:
        Recirculates(n, ps, keep) /\ DOMAIN ps = 1 .. n /\ Len(ps) = n /\ DOMAIN Top.pkts = 1 .. n
  BY <1>2
<1>4. PICK keep: Recirculates(n, ps, keep) /\ DOMAIN ps = 1 .. n /\ Len(ps) = n /\ DOMAIN Top.pkts = 1 .. n
  BY <1>3
<1>5. /\ AfterAction \in Frame /\ Neat(AfterAction) /\ Distinct(Top.pkts)
      /\ Own(AfterAction) = (IF MaySteal THEN {} ELSE Own(Top))
      /\ MaySteal => Own(Top) = ToSet(Top.pkts)
      /\ Lent(AfterAction) => Lent(Top) /\ ToSet(AfterAction.pkts) \subseteq ToSet(Top.pkts)
      /\ \A p \in ToSet(Top.pkts): p \in Packet /\ pkt[p] # Null
  BY <1>0, <1>1, AfterOwns
<1>6. /\ MaySteal => ps = Top.pkts
      /\ ~MaySteal => ps \in Fresh(n)
      /\ keep \in SUBSET (1 .. n)
  BY <1>4 DEF Recirculates
<1>7. Distinct(ps) /\ (~MaySteal => \A i \in 1 .. n: pkt[ps[i]] = Null)
  <2>1. CASE MaySteal
    BY <1>5, <1>6, <2>1
  <2>2. CASE ~MaySteal
    BY <1>4, <1>6, <2>2, FreshPackets DEF Distinct
  <2> QED  BY <2>1, <2>2
<1>8. \A i \in 1 .. n: ps[i] \in Packet
  BY <1>4
<1>a. keep \in SUBSET (1 .. n)
  BY <1>6
<1>9. /\ KeptOf(ps, keep) \in Seq(Packet) /\ DOMAIN KeptOf(ps, keep) = 1 .. Cardinality(keep)
      /\ \A j \in 1 .. Cardinality(keep): KeptOf(ps, keep)[j] = ps[Nth(j, keep)] /\ Nth(j, keep) \in keep
      /\ \A j, k \in 1 .. Cardinality(keep): Nth(j, keep) = Nth(k, keep) => j = k
  BY ONLY <1>8, <1>a, n \in Nat, KeptPackets
<1>10. PICK kept \in Seq(Packet): kept = KeptOf(ps, keep)
  BY <1>9
<1>11. Distinct(kept)
  <2>1. ASSUME NEW j \in DOMAIN kept, NEW k \in DOMAIN kept, kept[j] = kept[k]
        PROVE  j = k
    <3>1. j \in 1 .. Cardinality(keep) /\ k \in 1 .. Cardinality(keep)
      BY <1>9, <1>10, <2>1
    <3>2. ps[Nth(j, keep)] = ps[Nth(k, keep)] /\ Nth(j, keep) \in 1 .. n /\ Nth(k, keep) \in 1 .. n
      BY <1>6, <1>9, <1>10, <2>1, <3>1
    <3>3. Nth(j, keep) = Nth(k, keep)
      BY <1>4, <1>7, <3>2 DEF Distinct
    <3> QED  BY <1>9, <3>1, <3>3
  <2> QED  BY <2>1 DEF Distinct
<1>12. \A p \in ToSet(kept): p \in Packet /\ \E i \in 1 .. n: ps[i] = p
  <2> TAKE p \in ToSet(kept)
  <2>1. PICK j \in DOMAIN kept: kept[j] = p
    BY Members
  <2>2. p = ps[Nth(j, keep)] /\ Nth(j, keep) \in 1 .. n
    BY <1>6, <1>9, <1>10, <2>1
  <2> QED  BY <1>8, <2>2
<1>13. ToSet(ps) = {ps[i]: i \in 1 .. n}
  BY <1>4 DEF ToSet
<1> DEFINE K == ToSet(kept)
           from(p) == CHOOSE i \in 1 .. n: ps[i] = p
<1>14. pkt' = [p \in Packet |-> CASE p \notin ToSet(ps) -> pkt[p]
                 [] p \in K -> Recirc[pkt[Top.pkts[from(p)]]]
                 [] OTHER -> Null]
  BY <1>4, <1>10 DEF Recirculates
<1>15. \A p \in K: p \in Packet /\ p \in ToSet(ps) /\ Recirc[pkt[Top.pkts[from(p)]]] \in Key
  <2> TAKE p \in K
  <2>1. from(p) \in 1 .. n
    BY <1>12
  <2>2. PICK i \in 1 .. n: i = from(p)
    BY <2>1
  <2>3. Top.pkts[i] \in ToSet(Top.pkts)
    BY <1>4 DEF ToSet
  <2>4. pkt[Top.pkts[i]] \in Key
    BY <1>5, <2>3 DEF PacketInv, PktType
  <2>5. Recirc[pkt[Top.pkts[i]]] \in Key
    BY <2>4, NetdevInputAssumption
  <2> QED  BY <1>12, <1>13, <2>2, <2>5
<1> HIDE DEF K, from
<1>16. pkt \in [Packet -> Key \cup {Null}] /\ Null \notin Key
  BY NetdevInputAssumption DEF PacketInv, PktType
<1>17. PktType' /\ \A p \in Packet: pkt'[p] # Null <=> \/ pkt[p] # Null /\ p \notin ToSet(ps)
                                                      \/ p \in K
  <2>1. \A p \in Packet: pkt'[p] = CASE p \notin ToSet(ps) -> pkt[p]
                                     [] p \in K -> Recirc[pkt[Top.pkts[from(p)]]]
                                     [] OTHER -> Null
    BY <1>14
  <2>2. \A p \in Packet: pkt'[p] \in Key \cup {Null} /\ (pkt'[p] # Null <=> \/ pkt[p] # Null /\ p \notin ToSet(ps)
                                                                            \/ p \in K)
    <3> TAKE p \in Packet
    <3>1. CASE p \notin ToSet(ps)
      <4>1. pkt'[p] = pkt[p] /\ p \notin K
        BY <1>15, <2>1, <3>1
      <4> QED  BY <1>16, <3>1, <4>1
    <3>2. CASE p \in K
      <4>1. p \in ToSet(ps) /\ Recirc[pkt[Top.pkts[from(p)]]] \in Key
        BY <1>15, <3>2
      <4>2. pkt'[p] = Recirc[pkt[Top.pkts[from(p)]]]
        BY <2>1, <3>2, <4>1
      <4>3. pkt'[p] \in Key
        BY <4>1, <4>2
      <4> QED  BY <1>16, <3>2, <4>3
    <3>3. CASE p \in ToSet(ps) /\ p \notin K
      <4>1. pkt'[p] = Null
        BY <2>1, <3>3
      <4> QED  BY <3>3, <4>1
    <3> QED  BY <3>1, <3>2, <3>3
  <2>3. pkt' = [p \in Packet |-> pkt'[p]]
    BY <1>14
  <2>4. pkt' \in [Packet -> Key \cup {Null}]
    BY <2>2, <2>3
  <2> QED  BY <2>2, <2>4 DEF PktType
<1>18. freed' = {}
  <2>1. freed' = freed \cup {p \in ToSet(Top.pkts): pkt[p] = Null}
    BY <1>4 DEF Recirculates
  <2> QED  BY <1>5, <2>1 DEF PacketInv
<1>19. \A p \in Packet: pkt'[p] # Null <=> \/ pkt[p] # Null /\ ~(p \in Own(Top) /\ p \notin Own(AfterAction))
                                           \/ p \in K
  <2>1. CASE MaySteal
    BY <1>5, <1>6, <1>17, <2>1
  <2>2. CASE ~MaySteal
    <3>1. \A p \in ToSet(ps): pkt[p] = Null
      BY <1>7, <1>13, <2>2
    <3> QED  BY <1>5, <1>17, <2>2, <3>1
  <2> QED  BY <2>1, <2>2
<1>20. Own(AfterAction) \subseteq Own(Top)
  BY <1>5
<1>21. CASE kept = <<>> /\ stack' = SetTop(AfterAction)
  <2>1. K = {}
    BY <1>21, EmptyIs DEF K
  <2>2. \A p \in Packet: pkt'[p] # Null <=> pkt[p] # Null /\ ~(p \in Own(Top) /\ p \notin Own(AfterAction))
    BY <1>19, <2>1
  <2> QED  BY <1>0, <1>1, <1>5, <1>17, <1>18, <1>20, <1>21, <2>2, TopPackets
<1>22. CASE stack' = Append(SetTop(AfterAction), InputCall(kept))
  <2>1. /\ Own(InputCall(kept)) = K /\ Neat(InputCall(kept)) /\ ~Lent(InputCall(kept))
        /\ InputCall(kept) \in Frame
    BY <1>11, InputCallOwns DEF K
  <2>2. PICK hr \in Frame: hr = InputCall(kept)
    BY <2>1
  <2>3. Own(hr) = K /\ Neat(hr) /\ ~Lent(hr) /\ stack' = Append(SetTop(AfterAction), hr)
    BY <1>22, <2>1, <2>2
  <2>4. \A p \in Own(hr): (p \in Own(Top) /\ p \notin Own(AfterAction)) \/ pkt[p] = Null
    <3> TAKE p \in Own(hr)
    <3>1. p \in ToSet(ps)
      BY <1>15, <2>3
    <3>2. CASE MaySteal
      BY <1>5, <1>6, <3>1, <3>2
    <3>3. CASE ~MaySteal
      BY <1>7, <1>13, <3>1, <3>3
    <3> QED  BY <3>2, <3>3
  <2> QED  BY <1>0, <1>1, <1>5, <1>17, <1>18, <1>19, <1>20, <2>3, <2>4, PushPackets
<1> QED  BY <1>4, <1>10, <1>21, <1>22 DEF Recirculates

LEMMA ToUserspacePackets ==
  ASSUME MemoryInv, CallInv, PacketInv, ToUserspace
  PROVE  PacketInv'
<1>1. /\ stack # <<>> /\ Top.kind = "actions" /\ Top.acts # <<>> /\ StackTypes
      /\ stack' = Append(SetTop(AfterAction), Userspace(Top.pkts, MaySteal))
      /\ UNCHANGED <<pkt, freed>>
  BY DEF ToUserspace, Doing, pktVars, CallInv
<1>2. /\ AfterAction \in Frame /\ Neat(AfterAction) /\ Distinct(Top.pkts) /\ Top.pkts \in Seq(Packet)
      /\ Own(AfterAction) = (IF MaySteal THEN {} ELSE Own(Top))
      /\ MaySteal => Own(Top) = ToSet(Top.pkts)
      /\ Lent(AfterAction) => Lent(Top) /\ ToSet(AfterAction.pkts) \subseteq ToSet(Top.pkts)
      /\ ~MaySteal => \A p \in ToSet(Top.pkts): p \in Own(AfterAction) \/ Lent(Top)
      /\ \A p \in ToSet(Top.pkts): p \in Packet /\ pkt[p] # Null
  BY <1>1, AfterOwns
<1>3. MaySteal \in BOOLEAN
  BY <1>1, AfterActionIs
<1>4. /\ Userspace(Top.pkts, MaySteal) \in Frame /\ Userspace(Top.pkts, MaySteal).kind = "userspace"
      /\ Userspace(Top.pkts, MaySteal).pkts = Top.pkts /\ Userspace(Top.pkts, MaySteal).steal = MaySteal
  BY <1>2, <1>3, UserspaceIs
<1>5. PICK hr \in Frame: hr = Userspace(Top.pkts, MaySteal)
  BY <1>4
<1>6. hr.kind = "userspace" /\ hr.pkts = Top.pkts /\ hr.steal = MaySteal
  BY <1>4, <1>5
<1>7. /\ Own(hr) = (IF MaySteal THEN ToSet(Top.pkts) ELSE {}) /\ Neat(hr) /\ (Lent(hr) <=> ~MaySteal)
  BY <1>2, <1>6 DEF Own, Neat, Lent
<1>8. PktType' /\ freed' = {} /\ UNCHANGED pkt
  BY <1>1 DEF PacketInv, PktType
<1>9. \A p \in Packet: pkt'[p] # Null <=> \/ pkt[p] # Null /\ ~(p \in Own(Top) /\ p \notin Own(AfterAction))
                                          \/ p \in Own(hr)
  BY <1>2, <1>7, <1>8
<1>10. /\ Own(AfterAction) \subseteq Own(Top)
       /\ \A p \in Own(hr): (p \in Own(Top) /\ p \notin Own(AfterAction)) \/ pkt[p] = Null
  BY <1>2, <1>7
<1>11. Lent(hr) => \A p \in ToSet(hr.pkts): p \in Own(AfterAction) \/ (Lent(Top) /\ p \in ToSet(Top.pkts))
  BY <1>2, <1>6, <1>7
<1>12. stack' = Append(SetTop(AfterAction), hr)
  BY <1>1, <1>5
<1> QED  BY <1>1, <1>2, <1>7, <1>8, <1>9, <1>10, <1>11, <1>12, PushPackets

LEMMA UserspaceUpcallPackets ==
  ASSUME MemoryInv, CallInv, PacketInv, UserspaceUpcall
  PROVE  PacketInv'
<1>1. stack # <<>> /\ Top.kind = "userspace" /\ Top.kind # "input" /\ StackTypes
  BY DEF UserspaceUpcall, CallInv
<1>2. Top.pkts \in Seq(Packet) /\ Top.steal \in BOOLEAN
  BY <1>1, UserspaceTop
<1>3. /\ \A p \in ToSet(Top.pkts): p \in Packet /\ pkt[p] # Null
      /\ Lent(Top) => Own(Top) = {}
      /\ ~Lent(Top) => Own(Top) = ToSet(Top.pkts)
      /\ Lent(Top) <=> ~Top.steal
  BY <1>1, TopUses DEF Lent
<1>4. Neat(Top)
  BY <1>1, TopOwns
<1>5. CASE Top.pkts = <<>>
  <2>1. stack' = Front(stack) /\ UNCHANGED <<pkt, freed>>
    BY <1>5 DEF UserspaceUpcall, pktVars
  <2>2. Own(Top) = {}
    BY <1>3, <1>5, EmptyIs
  <2>3. PktType' /\ freed' = {} /\ UNCHANGED pkt
    BY <2>1 DEF PacketInv, PktType
  <2> QED  BY <1>1, <2>1, <2>2, <2>3, PopPackets
<1>6. CASE Top.pkts # <<>>
  <2> DEFINE gr == [Top EXCEPT !.pkts = Tail(Top.pkts)]
  <2>1. PICK p \in Packet: p = Head(Top.pkts)
    BY <1>2, <1>6, TailIs
  <2>2. /\ Tail(Top.pkts) \in Seq(Packet) /\ Distinct(Tail(Top.pkts))
        /\ ToSet(Tail(Top.pkts)) = ToSet(Top.pkts) \ {p} /\ p \in ToSet(Top.pkts)
    BY <1>2, <1>4, <1>6, <2>1, TailIs, TailDistinct DEF Neat
  <2>3. /\ gr \in Frame /\ gr.kind = "userspace" /\ gr.pkts = Tail(Top.pkts) /\ gr.steal = Top.steal
    BY <1>1, <2>2, UserTail
  <2>4. [Top EXCEPT !.pkts = Tail(@)] = gr
    OBVIOUS
  <2> HIDE DEF gr
  <2>5. /\ Neat(gr) /\ Own(gr) = Own(Top) \ {p} /\ (Lent(gr) <=> ~Top.steal)
        /\ ToSet(gr.pkts) \subseteq ToSet(Top.pkts)
    <3>1. Own(gr) = (IF Top.steal THEN ToSet(gr.pkts) ELSE {}) /\ (Lent(gr) <=> ~Top.steal)
      BY <2>3 DEF Own, Lent
    <3>2. Neat(gr)
      BY <2>2, <2>3 DEF Neat
    <3> QED  BY <1>3, <2>2, <2>3, <3>1, <3>2
  <2>6. pkt[p] # Null
    BY <1>3, <2>2
  <2>7. CASE stack' = SetTop(gr) /\ IF Top.steal THEN Delete({p}) ELSE UNCHANGED <<pkt, freed>>
    <3>1. CASE Top.steal
      <4>1. /\ PktType' /\ freed' = {}
            /\ \A q \in Packet: pkt'[q] # Null <=> pkt[q] # Null /\ q \notin {p}
        BY <2>6, <2>7, <3>1, DeleteIs
      <4>2. \A q \in Packet: pkt'[q] # Null <=> pkt[q] # Null /\ ~(q \in Own(Top) /\ q \notin Own(gr))
        BY <1>3, <2>2, <2>5, <3>1, <4>1
      <4>3. Own(gr) \subseteq Own(Top)
        BY <2>5
      <4> QED  BY <1>1, <1>3, <2>3, <2>5, <2>7, <4>1, <4>2, <4>3, TopPackets
    <3>2. CASE ~Top.steal
      <4>1. PktType' /\ freed' = {} /\ UNCHANGED pkt
        BY <2>7, <3>2 DEF PacketInv, PktType
      <4>2. Own(gr) = Own(Top)
        BY <1>3, <2>5, <3>2
      <4> QED  BY <1>1, <1>3, <2>3, <2>5, <2>7, <4>1, <4>2, TopPackets
    <3> QED  BY <1>2, <3>1, <3>2
  <2>8. ASSUME NEW acts \in Program, UNCHANGED <<pkt, freed>>,
               stack' = Append(SetTop(gr), Actions(<<p>>, acts, Top.steal))
        PROVE  PacketInv'
    <3>1. acts \in Seq(ActionKind)
      BY NetdevInputAssumption DEF ActionKind
    <3>2. <<p>> \in Seq(Packet) /\ ToSet(<<p>>) = {p} /\ Distinct(<<p>>)
      BY DEF ToSet, Distinct
    <3> DEFINE xr == Actions(<<p>>, acts, Top.steal)
    <3>a. Top.steal \in BOOLEAN
      BY <1>2
    <3>b. PICK b \in BOOLEAN: b = Top.steal
      BY <3>a
    <3>c. PICK one \in Seq(Packet): one = <<p>>
      BY <3>2
    <3>d. /\ Actions(one, acts, b) \in Frame /\ Actions(one, acts, b).kind = "actions"
          /\ Actions(one, acts, b).pkts = one /\ Actions(one, acts, b).steal = b
      BY <3>1, ActionsIs
    <3>3. xr \in Frame /\ xr.kind = "actions" /\ xr.pkts = <<p>> /\ xr.steal = Top.steal
      BY <3>b, <3>c, <3>d
    <3>4. stack' = Append(SetTop(gr), xr)
      BY <2>8
    <3> HIDE DEF xr
    <3>5. Own(xr) = (IF Top.steal THEN {p} ELSE {}) /\ Neat(xr) /\ (Lent(xr) <=> ~Top.steal)
          /\ ToSet(xr.pkts) = {p}
      BY <3>2, <3>3 DEF Own, Neat, Lent
    <3>6. PktType' /\ freed' = {} /\ UNCHANGED pkt
      BY <2>8 DEF PacketInv, PktType
    <3>7. \A q \in Packet: pkt'[q] # Null <=> \/ pkt[q] # Null /\ ~(q \in Own(Top) /\ q \notin Own(gr))
                                              \/ q \in Own(xr)
      BY <1>3, <2>2, <2>5, <2>6, <3>5, <3>6
    <3>8. /\ Own(gr) \subseteq Own(Top)
          /\ \A q \in Own(xr): (q \in Own(Top) /\ q \notin Own(gr)) \/ pkt[q] = Null
      BY <1>3, <2>2, <2>5, <3>5
    <3>9. Lent(xr) => \A q \in ToSet(xr.pkts): q \in Own(gr) \/ (Lent(Top) /\ q \in ToSet(Top.pkts))
      BY <1>3, <2>2, <3>5
    <3>10. Lent(gr) => Lent(Top) /\ ToSet(gr.pkts) \subseteq ToSet(Top.pkts)
      BY <1>3, <2>5
    <3> QED  BY <1>1, <2>3, <2>5, <3>3, <3>4, <3>5, <3>6, <3>7, <3>8, <3>9, <3>10, PushPackets
  <2> QED  BY <1>6, <2>1, <2>4, <2>7, <2>8 DEF UserspaceUpcall, pktVars
<1> QED  BY <1>5, <1>6

\* The first calls.
LEMMA AllFreeAtRest ==
  ASSUME PacketInv, stack = <<>>
  PROVE  \A p \in Packet: pkt[p] = Null
<1>1. DOMAIN stack = {}
  BY EmptyIs
<1> QED  BY <1>1 DEF PacketInv, OwnedInv

LEMMA InputPackets ==
  ASSUME MemoryInv, CallInv, PacketInv, Input
  PROVE  PacketInv'
<1>1. stack = <<>> /\ UNCHANGED freed /\ StackTypes
  BY DEF Input, CallInv
<1>2. PICK n \in 1 .. Burst: \E keys \in [1 .. n -> Key]: \E ps \in Fresh(n):
        /\ stack' = <<InputCall(ps)>>
        /\ pkt' = [p \in Packet |-> IF p \in ToSet(ps) THEN keys[CHOOSE i \in 1 .. n: ps[i] = p] ELSE pkt[p]]
  BY DEF Input
<1>3. n \in Nat
  BY NetdevInputAssumption
<1>4. PICK keys \in [1 .. n -> Key]: \E ps \in Fresh(n):
        /\ stack' = <<InputCall(ps)>>
        /\ pkt' = [p \in Packet |-> IF p \in ToSet(ps) THEN keys[CHOOSE i \in 1 .. n: ps[i] = p] ELSE pkt[p]]
  BY <1>2
<1>5. PICK ps \in Fresh(n):
        /\ stack' = <<InputCall(ps)>>
        /\ pkt' = [p \in Packet |-> IF p \in ToSet(ps) THEN keys[CHOOSE i \in 1 .. n: ps[i] = p] ELSE pkt[p]]
  BY <1>4
<1>6. ps \in Seq(Packet) /\ DOMAIN ps = 1 .. n /\ Distinct(ps)
  BY <1>3, FreshPackets DEF Distinct
<1>7. /\ Own(InputCall(ps)) = ToSet(ps) /\ Neat(InputCall(ps)) /\ ~Lent(InputCall(ps))
      /\ InputCall(ps) \in Frame
  BY <1>6, InputCallOwns
<1>8. PICK fr \in Frame: fr = InputCall(ps)
  BY <1>7
<1>9. stack' = <<fr>> /\ Own(fr) = ToSet(ps) /\ Neat(fr) /\ ~Lent(fr)
  BY <1>5, <1>7, <1>8
<1>10. stack' \in Seq(Frame) /\ DOMAIN stack' = {1} /\ stack'[1] = fr
  BY <1>9
<1>11. \A p \in Packet: pkt[p] = Null
  BY <1>1, AllFreeAtRest
<1>12. \A p \in ToSet(ps): p \in Packet /\ keys[CHOOSE i \in 1 .. n: ps[i] = p] \in Key
  <2> TAKE p \in ToSet(ps)
  <2>1. PICK i \in 1 .. n: ps[i] = p
    BY <1>6 DEF ToSet
  <2>2. (CHOOSE j \in 1 .. n: ps[j] = p) \in 1 .. n
    BY <2>1
  <2> QED  BY <1>6, <2>1, <2>2
<1>13. Null \notin Key
  BY NetdevInputAssumption
<1>14. PktType'
  BY <1>5, <1>11, <1>12 DEF PktType
<1>15. \A p \in Packet: pkt'[p] # Null <=> p \in ToSet(ps)
  BY <1>5, <1>11, <1>12, <1>13
<1>16. \A p \in Packet: pkt'[p] # Null <=> \E l \in DOMAIN stack': p \in Own(stack'[l])
  BY <1>9, <1>10, <1>15
<1>17. freed' = {}
  BY <1>1 DEF PacketInv
<1>18. /\ \A l \in DOMAIN stack': Neat(stack'[l]) /\ ~Lent(stack'[l])
       /\ \A l, m \in DOMAIN stack': l = m
  BY <1>9, <1>10
<1> QED  BY <1>1, <1>10, <1>14, <1>16, <1>17, <1>18, StartPackets

LEMMA ExecuteCallPackets ==
  ASSUME MemoryInv, CallInv, PacketInv, ExecuteCall
  PROVE  PacketInv'
<1>1. stack = <<>> /\ UNCHANGED freed /\ StackTypes
  BY DEF ExecuteCall, CallInv
<1>2. PICK k \in Key, acts \in Program: \E ps \in Fresh(1):
        /\ stack' = <<Caller(ps[1]), Actions(ps, acts, FALSE)>>
        /\ pkt' = [pkt EXCEPT ![ps[1]] = k]
  BY DEF ExecuteCall
<1>3. PICK ps \in Fresh(1): stack' = <<Caller(ps[1]), Actions(ps, acts, FALSE)>> /\ pkt' = [pkt EXCEPT ![ps[1]] = k]
  BY <1>2
<1>4. ps \in Seq(Packet) /\ DOMAIN ps = 1 .. 1 /\ ps[1] \in Packet /\ acts \in Seq(ActionKind)
  <2>1. 1 \in Nat /\ 1 \in 1 .. 1
    OBVIOUS
  <2>2. ps \in Seq(Packet) /\ DOMAIN ps = 1 .. 1 /\ \A i \in 1 .. 1: ps[i] \in Packet /\ pkt[ps[i]] = Null
    BY <2>1, FreshPackets
  <2>3. acts \in Seq(ActionKind)
    BY NetdevInputAssumption DEF ActionKind
  <2> QED  BY <2>1, <2>2, <2>3
<1>5. PICK p \in Packet: p = ps[1]
  BY <1>4
<1>6. ToSet(ps) = {p} /\ Distinct(ps)
  BY <1>4, <1>5 DEF ToSet, Distinct
<1>7. ToSet(<<p>>) = {p} /\ Distinct(<<p>>)
  BY DEF ToSet, Distinct
<1>8. PICK fr \in Frame: fr = Caller(p) /\ fr.kind = "caller" /\ fr.pkts = <<p>>
  BY <1>4, CallerIs
<1>9. PICK hr \in Frame: hr = Actions(ps, acts, FALSE) /\ hr.kind = "actions" /\ hr.pkts = ps /\ hr.steal = FALSE
  <2>1. PICK b \in BOOLEAN: b = FALSE
    OBVIOUS
  <2>2. /\ Actions(ps, acts, b) \in Frame /\ Actions(ps, acts, b).kind = "actions"
        /\ Actions(ps, acts, b).pkts = ps /\ Actions(ps, acts, b).steal = b
    BY <1>4, ActionsIs
  <2> QED  BY <2>1, <2>2
<1>10. stack' = <<fr, hr>>
  BY <1>3, <1>5, <1>8, <1>9
<1>11. stack' \in Seq(Frame) /\ DOMAIN stack' = {1, 2} /\ stack'[1] = fr /\ stack'[2] = hr
  BY <1>10
<1>12. Own(fr) = {p} /\ Neat(fr) /\ ~Lent(fr) /\ Own(hr) = {} /\ Neat(hr) /\ ToSet(hr.pkts) = {p}
  BY <1>6, <1>7, <1>8, <1>9 DEF Own, Neat, Lent
<1>13. \A q \in Packet: pkt[q] = Null
  BY <1>1, AllFreeAtRest
<1>14. Null \notin Key /\ pkt \in [Packet -> Key \cup {Null}]
  BY NetdevInputAssumption DEF PacketInv, PktType
<1>15. pkt' = [pkt EXCEPT ![p] = k]
  BY <1>3, <1>5
<1>16. PktType' /\ \A q \in Packet: pkt'[q] # Null <=> q = p
  BY <1>13, <1>14, <1>15 DEF PktType
<1>17. \A q \in Packet: pkt'[q] # Null <=> \E l \in DOMAIN stack': q \in Own(stack'[l])
  BY <1>11, <1>12, <1>16
<1>18. freed' = {}
  BY <1>1 DEF PacketInv
<1>19. /\ \A l \in DOMAIN stack': Neat(stack'[l])
       /\ \A l, m \in DOMAIN stack': \A q: q \in Own(stack'[l]) /\ q \in Own(stack'[m]) => l = m
  BY <1>11, <1>12
<1>20. \A l \in DOMAIN stack': Lent(stack'[l]) =>
         \A q \in ToSet(stack'[l].pkts): \E m \in 1 .. l - 1: q \in Own(stack'[m])
  <2>1. 1 \in 1 .. 2 - 1
    OBVIOUS
  <2> QED  BY <1>11, <1>12, <2>1
<1> QED  BY <1>1, <1>11, <1>16, <1>17, <1>18, <1>19, <1>20, StartPackets

LEMMA InitPackets ==
  ASSUME Init
  PROVE  PacketInv
<1>1. pkt = [p \in Packet |-> Null] /\ freed = {} /\ stack = <<>> /\ DOMAIN stack = {}
  BY EmptyIs DEF Init
<1> QED  BY <1>1 DEF PacketInv, PktType, NeatInv, ApartInv, OwnedInv, LentInv

LEMMA NextPackets ==
  ASSUME MemoryInv, CallInv, PacketInv, [Next]_vars
  PROVE  PacketInv'
<1>1. CASE UNCHANGED <<stack, pkt, freed>>
  BY <1>1, SamePackets
<1>2. CASE Call
  BY <1>2, EmcProcessingPackets, ClassifyPackets, MissUpcallPackets, InstallPackets, InsertPackets,
     QueueRulePackets, ResetBatchesPackets, ExecuteBatchPackets, ReturnPackets, DropPackets,
     RecirculatePackets, ToUserspacePackets, UserspaceUpcallPackets DEF Call
<1>3. CASE Input \/ ExecuteCall
  BY <1>3, InputPackets, ExecuteCallPackets
<1>4. UNCHANGED <<stack, pkt, freed>> \/ Call \/ Input \/ ExecuteCall
  BY DEF Next, vars, pktVars, Sweep, Reload, FlowPut, BeginRemoval, Unlink, Retire, DumpNext,
         DumpReports, EnableUpcalls, DisableUpcalls, Reclaim
<1> QED  BY <1>1, <1>2, <1>3, <1>4

\* What FreedOnce says, from it.
LEMMA FreedOnceIf ==
  ASSUME PacketInv
  PROVE  FreedOnce
<1>1. stack = <<>> => FreePackets = Packet
  BY AllFreeAtRest DEF FreePackets
<1> QED  BY <1>1 DEF FreedOnce, PacketInv

-----------------------------------------------------------------------------
(* Matching *)

Fits(f, k) == k \in Key /\ Class[k] = Class[flow[f].key] /\ Port[k] = Port[flow[f].key]

\* An entry of the cache is of a flow that matches its key.
EmcFit == \A s \in Slot: emc[s].flow # Null => Fits(emc[s].flow, emc[s].key)

\* Packets that actions are done for came in by one port, ...
PortsAlike(ps) == \A p, q \in ps: Port[pkt[p]] = Port[pkt[q]]

\* ... and so did the packets of a call, until it has looked for their rules.
MissedAlike(fr) ==
    /\ \A p \in ToSet(fr.pkts), j \in DOMAIN fr.missed: Port[pkt[p]] = Port[fr.missed[j].key]
    /\ \A j, k \in DOMAIN fr.missed: Port[fr.missed[j].key] = Port[fr.missed[k].key]

RulesFit(fr) ==
    /\ \A j \in DOMAIN fr.missed: fr.missed[j].rule # Null =>
          Fits(fr.missed[j].rule, fr.missed[j].key) /\ fr.missed[j].rule \notin fr.old
    /\ fr.pc = "insert" => Fits(fr.new, fr.missed[fr.i].key)
    /\ \A j \in Pending(fr): pkt[fr.missed[j].p] = fr.missed[j].key

QueuedFit(fr) ==
    /\ \A n \in Open(fr): \A p \in ToSet(fr.batches[n].pkts): Fits(fr.batches[n].flow, pkt[p])
    /\ \A n \in DOMAIN fr.batches: fr.batches[n].flow \notin fr.old
    /\ \A f \in fr.old: flow[f].dead

InputFit(fr) ==
    /\ fr.pc = "emc" => PortsAlike(ToSet(fr.pkts)) /\ MissedAlike(fr)
    /\ RulesFit(fr) /\ QueuedFit(fr)

FrameFit(fr) == IF fr.kind = "input" THEN InputFit(fr) ELSE PortsAlike(ToSet(fr.pkts))

FitInv == EmcFit /\ \A l \in DOMAIN stack: FrameFit(stack[l])

\* A call fits as long as the packets and flows it holds are the same.
LEMMA InputFitSame ==
  ASSUME NEW fr \in InputFrame, InputFit(fr),
         \A f \in HeldBy(fr): flow'[f].key = flow[f].key /\ (flow[f].dead => flow'[f].dead),
         \A p \in Own(fr): pkt'[p] = pkt[p],
         \A j \in DOMAIN fr.missed: fr.missed[j].rule \in MaybeFlow,
         fr.pc = "insert" => fr.new # Null
  PROVE  InputFit(fr)'
<1>1. Own(fr) = ToSet(fr.pkts) \cup MissedPkts(fr) \cup BatchPkts(fr)
  BY InputOwns
<1>2. \A f: f \in fr.old => flow'[f].key = flow[f].key /\ (flow[f].dead => flow'[f].dead)
  BY HeldIs
<1>3. \A j \in DOMAIN fr.missed: fr.missed[j].rule # Null =>
        flow'[fr.missed[j].rule].key = flow[fr.missed[j].rule].key
  BY HeldIs
<1>4. fr.pc = "insert" => flow'[fr.new].key = flow[fr.new].key
  BY HeldIs
<1>5. \A n \in DOMAIN fr.batches: flow'[fr.batches[n].flow].key = flow[fr.batches[n].flow].key
  <2> TAKE n \in DOMAIN fr.batches
  <2>1. fr.batches \in Seq(Batch)
    BY InputTypes
  <2>2. fr.batches[n] \in Batch
    BY <2>1
  <2>3. fr.batches[n].flow \in FlowObj
    BY <2>2 DEF Batch
  <2>4. fr.batches[n].flow # Null
    BY <2>3, NetdevInputAssumption
  <2> QED  BY <2>4, HeldIs
<1>6. fr.pc = "emc" => PortsAlike(ToSet(fr.pkts))' /\ MissedAlike(fr)'
  BY <1>1 DEF InputFit, PortsAlike, MissedAlike
<1>7. RulesFit(fr)'
  <2>1. \A j \in Pending(fr): pkt'[fr.missed[j].p] = pkt[fr.missed[j].p]
    BY <1>1 DEF MissedPkts
  <2> QED  BY <1>3, <1>4, <2>1 DEF InputFit, RulesFit, Fits
<1>8. QueuedFit(fr)'
  <2>1. \A n \in Open(fr): n \in DOMAIN fr.batches
                           /\ \A p \in ToSet(fr.batches[n].pkts): pkt'[p] = pkt[p]
    BY <1>1 DEF BatchPkts, Open
  <2> QED  BY <1>2, <1>5, <2>1 DEF InputFit, QueuedFit, Fits
<1> QED  BY <1>6, <1>7, <1>8 DEF InputFit

LEMMA FrameFitSame ==
  ASSUME NEW fr \in Frame, PlaceOk(fr), FrameFit(fr),
         \A f \in HeldBy(fr): flow'[f].key = flow[f].key /\ (flow[f].dead => flow'[f].dead),
         \A p \in Own(fr) \cup ToSet(fr.pkts): pkt'[p] = pkt[p]
  PROVE  FrameFit(fr)'
<1>1. CASE fr.kind = "input"
  <2>1. fr \in InputFrame
    BY <1>1, KindIs
  <2>2. \A j \in DOMAIN fr.missed: fr.missed[j].rule \in MaybeFlow
    <3>1. fr.missed \in Seq(Missed)
      BY <2>1, InputTypes
    <3>2. \A j \in DOMAIN fr.missed: fr.missed[j] \in Missed
      BY <3>1, Members
    <3> QED  BY <3>2 DEF Missed
  <2>3. fr.pc = "insert" => fr.new # Null
    BY <1>1 DEF PlaceOk
  <2>4. InputFit(fr)
    BY <1>1 DEF FrameFit
  <2>5. InputFit(fr)'
    BY <2>1, <2>2, <2>3, <2>4, InputFitSame
  <2> QED  BY <1>1, <2>5 DEF FrameFit
<1>2. CASE fr.kind # "input"
  BY <1>2 DEF FrameFit, PortsAlike
<1> QED  BY <1>1, <1>2

\* Packets are freed, and not changed.
OnlyFreed == \A p \in Packet: pkt'[p] \in {pkt[p], Null}

\* The packets a call uses are in use.
LEMMA UsesInUse ==
  ASSUME StackTypes, PacketInv, NEW l \in DOMAIN stack
  PROVE  \A p \in Own(stack[l]) \cup ToSet(stack[l].pkts): p \in Packet /\ pkt[p] # Null
<1>1. stack[l] \in Frame
  BY DEF StackTypes
<1>2. \A m \in DOMAIN stack: \A p \in Own(stack[m]): p \in Packet /\ pkt[p] # Null
  BY OwnedInUse
<1>3. CASE Lent(stack[l])
  <2>1. \A p \in ToSet(stack[l].pkts): \E m \in 1 .. l - 1: p \in Own(stack[m])
    BY <1>3 DEF PacketInv, LentInv
  <2>2. PICK n \in Nat: n = Len(stack) /\ DOMAIN stack = 1 .. n
    BY Members DEF StackTypes
  <2>3. \A m \in 1 .. l - 1: m \in DOMAIN stack
    BY <2>2
  <2> QED  BY <1>2, <2>1, <2>3
<1>4. CASE ~Lent(stack[l])
  <2>1. stack[l].kind = "input" => ToSet(stack[l].pkts) \subseteq Own(stack[l])
    BY <1>1, KindIs, InputOwns
  <2>2. stack[l].kind # "input" => ToSet(stack[l].pkts) \subseteq Own(stack[l])
    BY <1>1, <1>4, KindIs DEF Own, Lent
  <2> QED  BY <1>2, <2>1, <2>2
<1> QED  BY <1>3, <1>4

UsedInUse ==
    \A l \in DOMAIN stack: \A p \in Own(stack[l]) \cup ToSet(stack[l].pkts): p \in Packet /\ pkt[p] # Null

LEMMA AllInUse == StackTypes /\ PacketInv => UsedInUse
  BY UsesInUse DEF UsedInUse

\* A step that frees packets only, and leaves flows alone.
LEMMA StackFit ==
  ASSUME StackTypes', PacketInv', OnlyFreed, UNCHANGED flow, NEW s, stack' = s,
         \A l \in DOMAIN s: FrameFit(s[l]), EmcFit'
  PROVE  FitInv'
<1>1. ASSUME NEW l \in DOMAIN s
      PROVE  FrameFit(s[l])'
  <2>1. PICK fr \in Frame: fr = s[l] /\ PlaceOk(fr)
    BY DEF StackTypes
  <2>2. \A p \in Own(fr) \cup ToSet(fr.pkts): p \in Packet /\ pkt'[p] # Null
    <3>1. UsedInUse'
      BY AllInUse, PTL
    <3> QED  BY <2>1, <3>1 DEF UsedInUse
  <2>3. \A p \in Own(fr) \cup ToSet(fr.pkts): pkt'[p] = pkt[p]
    BY <2>2 DEF OnlyFreed
  <2>4. FrameFit(fr)
    BY <2>1
  <2>5. FrameFit(fr)'
    BY <2>1, <2>3, <2>4, FrameFitSame
  <2> QED  BY <2>1, <2>5
<1> QED  BY <1>1 DEF FitInv

\* What is known of a step already.
SoundStep == /\ MemoryInv /\ CallInv /\ PacketInv /\ FitInv
             /\ StackTypes' /\ PacketInv' /\ PinKept

LEMMA FitTop ==
  ASSUME SoundStep, stack # <<>>, OnlyFreed, UNCHANGED flow, EmcFit',
         NEW gr \in Frame, FrameFit(gr), stack' = SetTop(gr)
  PROVE  FitInv'
<1>0. StackTypes /\ \A l \in DOMAIN stack: FrameFit(stack[l])
  BY DEF SoundStep, CallInv, FitInv
<1>1. TopIs(stack', gr) /\ DOMAIN stack = 1 .. Len(stack)
  BY <1>0, SetTopIs
<1>2. PICK n \in Nat \ {0}: n = Len(stack)
  BY <1>0, SetTopIs
<1>3. PICK s \in Seq(Frame): s = stack'
  BY <1>1 DEF TopIs
<1>4. DOMAIN s = 1 .. n /\ s[n] = gr /\ \A l \in 1 .. n - 1: s[l] = stack[l]
  BY <1>1, <1>2, <1>3, Members DEF TopIs
<1>5. \A l \in 1 .. n: l = n \/ l \in 1 .. n - 1
  BY <1>2, LastOrBefore
<1>6. \A l \in DOMAIN s: FrameFit(s[l])
  BY <1>0, <1>1, <1>2, <1>4, <1>5
<1> QED  BY <1>3, <1>6, StackFit DEF SoundStep

LEMMA FitPush ==
  ASSUME SoundStep, stack # <<>>, OnlyFreed, UNCHANGED flow, EmcFit',
         NEW gr \in Frame, FrameFit(gr), NEW hr \in Frame, FrameFit(hr), stack' = Append(SetTop(gr), hr)
  PROVE  FitInv'
<1>0. StackTypes /\ \A l \in DOMAIN stack: FrameFit(stack[l])
  BY DEF SoundStep, CallInv, FitInv
<1>1. PushedIs(stack', gr, hr) /\ DOMAIN stack = 1 .. Len(stack)
  BY <1>0, SetTopIs, PushIs
<1>2. PICK n \in Nat \ {0}: n = Len(stack)
  BY <1>0, SetTopIs
<1>3. PICK s \in Seq(Frame): s = stack'
  BY <1>1 DEF PushedIs
<1>4. DOMAIN s = 1 .. n + 1 /\ s[n] = gr /\ s[n + 1] = hr /\ \A l \in 1 .. n - 1: s[l] = stack[l]
  BY <1>1, <1>2, <1>3, Members DEF PushedIs
<1>5. \A l \in 1 .. n + 1: l = n + 1 \/ l = n \/ l \in 1 .. n - 1
  BY <1>2
<1>a. \A l \in 1 .. n - 1: FrameFit(s[l])
  <2>1. \A l \in 1 .. n - 1: l \in DOMAIN stack
    BY <1>1, <1>2
  <2> QED  BY <1>0, <1>4, <2>1
<1>6. \A l \in DOMAIN s: FrameFit(s[l])
  BY <1>4, <1>5, <1>a
<1> QED  BY <1>3, <1>6, StackFit DEF SoundStep

LEMMA FitPop ==
  ASSUME SoundStep, stack # <<>>, OnlyFreed, UNCHANGED flow, EmcFit', stack' = Front(stack)
  PROVE  FitInv'
<1>0. StackTypes /\ \A l \in DOMAIN stack: FrameFit(stack[l])
  BY DEF SoundStep, CallInv, FitInv
<1>1. /\ Len(stack) \in Nat \ {0} /\ Front(stack) \in Seq(Frame) /\ Len(Front(stack)) = Len(stack) - 1
      /\ \A l \in 1 .. Len(stack) - 1: Front(stack)[l] = stack[l]
  BY <1>0, StackEnds
<1>2. PICK n \in Nat \ {0}: n = Len(stack) /\ DOMAIN stack = 1 .. n
  BY <1>0, SetTopIs, <1>1, Members DEF StackTypes
<1>3. PICK s \in Seq(Frame): s = stack'
  BY <1>1
<1>4. DOMAIN s = 1 .. n - 1 /\ \A l \in 1 .. n - 1: s[l] = stack[l]
  BY <1>1, <1>2, <1>3, Members
<1>5. \A l \in DOMAIN s: FrameFit(s[l])
  BY <1>0, <1>2, <1>4
<1> QED  BY <1>3, <1>5, StackFit DEF SoundStep

\* The emc is as it was, and so are the flows in it.
LEMMA EmcFitSame ==
  ASSUME EmcFit, UNCHANGED <<emc, flow>>
  PROVE  EmcFit'
  BY DEF EmcFit, Fits

\* A packet more in a batch.
LEMMA AddToFits ==
  ASSUME NEW fr \in InputFrame, InputFit(fr), fr.pc # "execute", NEW n \in DOMAIN fr.batches,
         NEW p \in Packet, Fits(fr.batches[n].flow, pkt[p])
  PROVE  InputFit(AddTo(fr, n, p))
<1>1. PICK gr \in InputFrame: gr = AddTo(fr, n, p) /\ BatchesOnly(fr, gr)
  BY AddToIs DEF BatchesOnly
<1>2. /\ DOMAIN gr.batches = DOMAIN fr.batches
      /\ gr.batches[n] = [flow |-> fr.batches[n].flow, pkts |-> Append(fr.batches[n].pkts, p)]
      /\ \A m \in DOMAIN fr.batches \ {n}: gr.batches[m] = fr.batches[m]
  BY <1>1, AddToIs
<1>3. fr.batches[n].pkts \in Seq(Packet)
  <2>1. fr.batches[n] \in Batch
    BY InputTypes, Members
  <2> QED  BY <2>1 DEF Batch
<1>4. ToSet(gr.batches[n].pkts) = ToSet(fr.batches[n].pkts) \cup {p} /\ gr.batches[n].flow = fr.batches[n].flow
  BY <1>2, <1>3, AppendDistinct
<1>5. Pending(gr) = Pending(fr)
  BY <1>1 DEF Pending, BatchesOnly
<1>6. Open(gr) = DOMAIN fr.batches /\ Open(fr) = DOMAIN fr.batches
  BY <1>1, <1>2, OpenBefore DEF BatchesOnly
<1>a. gr.old = fr.old
  BY <1>1 DEF BatchesOnly
<1>b. \A m \in DOMAIN fr.batches: gr.batches[m].flow = fr.batches[m].flow
  BY <1>2, <1>4
<1>c. \A m \in DOMAIN fr.batches: \A q \in ToSet(gr.batches[m].pkts):
        q \in ToSet(fr.batches[m].pkts) \/ (m = n /\ q = p)
  BY <1>2, <1>4
<1>d. QueuedFit(fr)
  BY DEF InputFit
<1>7. QueuedFit(gr)
  BY <1>2, <1>6, <1>a, <1>b, <1>c, <1>d DEF QueuedFit
<1>8. RulesFit(gr)
  BY <1>1, <1>5 DEF InputFit, RulesFit, BatchesOnly
<1> QED  BY <1>1, <1>7, <1>8 DEF InputFit, BatchesOnly, MissedAlike

LEMMA NewBatchFits ==
  ASSUME NEW fr \in InputFrame, InputFit(fr), fr.pc # "execute",
         NEW f \in FlowObj, f \notin fr.old, NEW p \in Packet, Fits(f, pkt[p])
  PROVE  InputFit(NewBatch(fr, f, p))
<1>1. PICK gr \in InputFrame: gr = NewBatch(fr, f, p) /\ BatchesOnly(fr, gr)
  BY NewBatchIs DEF BatchesOnly
<1>2. PICK n \in Nat: n = Len(fr.batches) /\ DOMAIN fr.batches = 1 .. n
  BY NewBatchIs
<1>3. /\ DOMAIN gr.batches = 1 .. n + 1
      /\ gr.batches[n + 1] = [flow |-> f, pkts |-> <<p>>]
      /\ \A m \in 1 .. n: gr.batches[m] = fr.batches[m]
  BY <1>1, <1>2, NewBatchIs
<1>4. ToSet(gr.batches[n + 1].pkts) = {p} /\ gr.batches[n + 1].flow = f
  <2>1. ToSet(<<p>>) = {p}
    BY DEF ToSet
  <2> QED  BY <1>3, <2>1
<1>5. Pending(gr) = Pending(fr)
  BY <1>1 DEF Pending, BatchesOnly
<1>6. Open(gr) = DOMAIN gr.batches /\ Open(fr) = DOMAIN fr.batches
  BY <1>1, OpenBefore DEF BatchesOnly
<1>7. \A m \in 1 .. n + 1: m = n + 1 \/ m \in 1 .. n
  BY <1>2
<1>8. QueuedFit(gr)
  BY <1>1, <1>2, <1>3, <1>4, <1>6, <1>7 DEF InputFit, QueuedFit, BatchesOnly
<1>9. RulesFit(gr)
  BY <1>1, <1>5 DEF InputFit, RulesFit, BatchesOnly
<1> QED  BY <1>1, <1>8, <1>9 DEF InputFit, BatchesOnly, MissedAlike

\* A packet that fits a flow is queued.
LEMMA FitQueue ==
  ASSUME SoundStep, stack # <<>>, UNCHANGED <<pkt, flow>>, EmcFit',
         NEW gr, Continues(Top, gr), Top.kind = "input", Top.pc # "execute", FrameFit(gr),
         NEW p \in Packet, NEW f \in FlowObj, f \notin gr.old, Fits(f, pkt[p]),
         QueueBatches(SetTop(gr), p, f)
  PROVE  FitInv'
<1>0. StackTypes /\ CallInv /\ \A l \in DOMAIN stack: FrameFit(stack[l])
  BY DEF SoundStep, CallInv, FitInv
<1>1. gr \in InputFrame /\ gr.kind = "input" /\ gr.pc # "execute"
  BY <1>0, QueueIs, KindIs DEF Continues
<1>2. InputFit(gr)
  BY <1>1 DEF FrameFit
<1>3. PICK n \in Nat \ {0}: n = Len(stack) /\ DOMAIN stack = 1 .. n
  BY <1>0, SetTopIs, KindIs DEF Continues
<1>4. \A l \in 1 .. n: l = n \/ l \in 1 .. n - 1
  BY <1>3, LastOrBefore
<1>5. OnlyFreed
  BY DEF OnlyFreed
<1>6. CASE Started(gr, p, f)
  <2>1. PICK hr \in InputFrame: hr = NewBatch(gr, f, p) /\ hr.kind = "input"
    BY <1>1, NewBatchIs DEF BatchesOnly
  <2>2. InputFit(hr)
    BY <1>1, <1>2, <2>1, NewBatchFits
  <2>3. PICK s \in Seq(Frame): s = stack' /\ Len(s) = n /\ s[n] = hr /\ \A l \in 1 .. n - 1: s[l] = stack[l]
    BY <1>3, <1>6, <2>1 DEF Started, TopIs
  <2>4. DOMAIN s = 1 .. n
    BY <2>3, Members
  <2>5. FrameFit(hr)
    BY <2>1, <2>2 DEF FrameFit
  <2>6. \A l \in DOMAIN s: FrameFit(s[l])
    BY <1>0, <1>3, <1>4, <2>3, <2>4, <2>5
  <2> QED  BY <1>5, <2>3, <2>6, StackFit DEF SoundStep
<1>7. ASSUME NEW l, NEW m, Joined(gr, p, f, l, m)
      PROVE  FitInv'
  <2>1. /\ l \in 1 .. n /\ stack' \in Seq(Frame) /\ Len(stack') = n
        /\ \A k \in 1 .. n \ {l}: stack'[k] = (IF k = n THEN gr ELSE stack[k])
    BY <1>3, <1>7 DEF Joined
  <2>2. PICK fr \in InputFrame: /\ fr = (IF l = n THEN gr ELSE stack[l])
                                /\ fr.pc # "execute" /\ m \in DOMAIN fr.batches /\ fr.batches[m].flow = f
                                /\ stack'[l] = AddTo(fr, m, p)
    BY <1>3, <1>7 DEF Joined
  <2>3. InputFit(fr)
    <3>1. fr.kind = "input"
      BY <2>2, InputTypes
    <3>2. FrameFit(fr)
      BY <1>0, <1>3, <2>1, <2>2
    <3> QED  BY <3>1, <3>2 DEF FrameFit
  <2>4. PICK hr \in InputFrame: hr = AddTo(fr, m, p) /\ hr.kind = "input"
    <3>1. BatchesOnly(fr, AddTo(fr, m, p))
      BY <2>2, AddToIs
    <3> QED  BY <3>1 DEF BatchesOnly
  <2>5. FrameFit(hr)
    <3>1. InputFit(hr)
      BY <2>2, <2>3, <2>4, AddToFits
    <3> QED  BY <2>4, <3>1 DEF FrameFit
  <2>6. PICK s \in Seq(Frame): s = stack'
    BY <2>1
  <2>7. DOMAIN s = 1 .. n /\ s[l] = hr /\ \A k \in 1 .. n \ {l}: s[k] = (IF k = n THEN gr ELSE stack[k])
    BY <2>1, <2>2, <2>4, <2>6, Members
  <2>8. \A k \in DOMAIN s: FrameFit(s[k])
    BY <1>0, <1>3, <2>5, <2>7
  <2> QED  BY <1>5, <2>6, <2>8, StackFit DEF SoundStep
<1> QED  BY <1>0, <1>6, <1>7, QueueIs

LEMMA DeleteOnly ==
  ASSUME NEW ps, Delete(ps)
  PROVE  OnlyFreed
  BY DEF Delete, OnlyFreed

LEMMA SameOnly ==
  ASSUME UNCHANGED pkt
  PROVE  OnlyFreed
  BY DEF OnlyFreed

\* A call that goes on, with some of its packets and perhaps more rules.
LEMMA FitGoes ==
  ASSUME NEW fr \in InputFrame, InputFit(fr), NEW gr \in InputFrame,
         gr.batches = fr.batches, gr.old = fr.old, DOMAIN gr.missed = DOMAIN fr.missed,
         Pending(gr) \subseteq Pending(fr), Open(gr) \subseteq Open(fr),
         \A j \in DOMAIN fr.missed: gr.missed[j].p = fr.missed[j].p /\ gr.missed[j].key = fr.missed[j].key,
         \A j \in DOMAIN fr.missed: gr.missed[j].rule # Null =>
            \/ gr.missed[j].rule = fr.missed[j].rule
            \/ Fits(gr.missed[j].rule, fr.missed[j].key) /\ gr.missed[j].rule \notin fr.old,
         gr.pc # "emc", gr.pc = "insert" => Fits(gr.new, gr.missed[gr.i].key)
  PROVE  FrameFit(gr)
<1>1. gr.kind = "input"
  BY InputTypes
<1>2. Pending(fr) \subseteq DOMAIN fr.missed
  BY DEF Pending
<1>3. RulesFit(fr) /\ QueuedFit(fr)
  BY DEF InputFit
<1>4. \A j \in DOMAIN gr.missed: gr.missed[j].rule # Null =>
        Fits(gr.missed[j].rule, gr.missed[j].key) /\ gr.missed[j].rule \notin gr.old
  BY <1>3 DEF RulesFit
<1>5. \A j \in Pending(gr): pkt[gr.missed[j].p] = gr.missed[j].key
  BY <1>2, <1>3 DEF RulesFit
<1>6. RulesFit(gr)
  BY <1>4, <1>5 DEF RulesFit
<1>7. QueuedFit(gr)
  BY <1>3 DEF QueuedFit
<1> QED  BY <1>1, <1>6, <1>7 DEF FrameFit, InputFit

LEMMA TopFits ==
  ASSUME SoundStep, stack # <<>>
  PROVE  /\ CallInv /\ StackTypes /\ FlowTypes /\ MemoryInv /\ PacketInv /\ EmcFit /\ FrameFit(Top)
         /\ Top \in Frame
         /\ Top.kind = "input" => InputFit(Top) /\ Top \in InputFrame
<1>1. /\ CallInv /\ StackTypes /\ FlowTypes /\ MemoryInv /\ PacketInv /\ EmcFit
      /\ \A l \in DOMAIN stack: FrameFit(stack[l])
  BY DEF SoundStep, CallInv, MemoryInv, FitInv
<1>2. Top \in Frame /\ Top = stack[Len(stack)] /\ Len(stack) \in DOMAIN stack
  BY <1>1, StackEnds, SetTopIs
<1>3. FrameFit(Top)
  BY <1>1, <1>2
<1>4. Top.kind = "input" => InputFit(Top) /\ Top \in InputFrame
  BY <1>2, <1>3, KindIs DEF FrameFit
<1> QED  BY <1>1, <1>2, <1>3, <1>4

\* Flows found in the classifier match, and were not removed before the call.
LEMMA RuleFits ==
  ASSUME SoundStep, stack # <<>>, Top.kind = "input", NEW k \in Key, AnyRule(Port[k], k) # Null
  PROVE  Fits(AnyRule(Port[k], k), k) /\ AnyRule(Port[k], k) \notin Top.old
<1>1. FlowTypes /\ MemoryInv /\ InputFit(Top)
  BY TopFits
<1>2. PICK f \in FlowObj: f = AnyRule(Port[k], k) /\ f \in cls
                          /\ Port[flow[f].key] = Port[k] /\ Class[flow[f].key] = Class[k]
  BY <1>1, RuleIs
<1>3. ~flow[f].dead
  BY <1>1, <1>2, ClsWaits
<1> QED  BY <1>1, <1>2, <1>3 DEF Fits, InputFit, QueuedFit

LEMMA EmcProcessingFit ==
  ASSUME SoundStep, EmcProcessing
  PROVE  FitInv'
<1> DEFINE p == Head(Top.pkts)
           fr == [Top EXCEPT !.pkts = Tail(@)]
           f == EmcLookup(pkt[p])
           hr == [fr EXCEPT !.missed = Append(@, [p |-> p, key |-> pkt[p], rule |-> Null])]
<1>1. /\ stack # <<>> /\ Top.kind = "input" /\ Top.pc = "emc" /\ Top.pkts # <<>>
      /\ UNCHANGED <<flow, emc>>
  BY DEF EmcProcessing, At, flowVars, cacheVars
<1>2. /\ CallInv /\ StackTypes /\ FlowTypes /\ MemoryInv /\ PacketInv /\ EmcFit /\ InputFit(Top)
  BY <1>1, TopFits
<1>a. EmcFit'
  BY <1>1, <1>2, EmcFitSame
<1>3. /\ Top \in InputFrame /\ PlaceOk(Top) /\ Top.pkts \in Seq(Packet) /\ Top.missed \in Seq(Missed)
  BY <1>1, <1>2, TopIsInput
<1>4. /\ Tail(Top.pkts) \in Seq(Packet) /\ p \in Packet
      /\ ToSet(Top.pkts) = {p} \cup ToSet(Tail(Top.pkts))
  BY <1>1, <1>3, TailIs
<1>5. InputIs(fr, "emc", Tail(Top.pkts), Top.missed, Top.i, Top.new, Top.acts, Top.batches, Top.old, Top.own)
  BY <1>1, <1>3, <1>4, WithPkts
<1>6. pkt[p] \in Key
  <2>1. At("emc")
    BY DEF EmcProcessing
  <2> QED  BY <1>1, <1>2, <2>1, HeadInUse DEF HeadHasKey
<1> HIDE DEF fr
<1>7. /\ fr \in InputFrame /\ fr.kind = "input" /\ fr.pc = "emc" /\ fr.pkts = Tail(Top.pkts)
      /\ fr.missed = Top.missed /\ fr.batches = Top.batches /\ fr.old = Top.old
  BY <1>5 DEF InputIs
<1>8. Pending(fr) = Pending(Top) /\ Open(fr) = Open(Top)
  BY <1>1, <1>7 DEF Pending, Open
<1>9. PortsAlike(ToSet(fr.pkts)) /\ MissedAlike(fr)
  BY <1>1, <1>2, <1>4, <1>7 DEF InputFit, PortsAlike, MissedAlike
<1>10. RulesFit(fr)
  BY <1>1, <1>2, <1>7, <1>8 DEF InputFit, RulesFit
<1>11. QueuedFit(fr)
  BY <1>2, <1>7, <1>8 DEF InputFit, QueuedFit
<1>12. FrameFit(fr) /\ fr \in Frame
  BY <1>7, <1>9, <1>10, <1>11, InputTypes DEF FrameFit, InputFit
<1>13. CASE Delete({p}) /\ stack' = SetTop(fr)
  <2>1. OnlyFreed
    BY <1>13, DeleteOnly
  <2> QED  BY <1>1, <1>a, <1>12, <1>13, <2>1, FitTop
<1>14. CASE f # Null /\ QueueBatches(SetTop(fr), p, f) /\ UNCHANGED pkt
  <2>1. \E s \in Slot: emc[s].flow = f /\ emc[s].key = pkt[p] /\ f \in FlowObj /\ ~flow[f].dead
    BY <1>2, <1>6, <1>14, EmcLookupIs
  <2>2. PICK g \in FlowObj: g = f /\ ~flow[g].dead /\ \E s \in Slot: emc[s].flow = g /\ emc[s].key = pkt[p]
    BY <2>1
  <2>3. PICK y \in Packet: y = p
    BY <1>4
  <2>4. g # Null /\ Fits(g, pkt[y])
    <3>1. g # Null
      BY <1>14, <2>2
    <3> QED  BY <1>2, <2>2, <2>3, <3>1 DEF EmcFit
  <2>5. QueueBatches(SetTop(fr), y, g)
    BY <1>14, <2>2, <2>3
  <2>6. g \notin fr.old
    BY <2>2, <1>11 DEF QueuedFit
  <2>7. PlaceOk(fr)
    BY <1>1, <1>3, <1>5 DEF PlaceOk, InputIs
  <2>8. Continues(Top, fr)
    BY <1>1, <1>2, <1>5, <2>7, InputGoes
  <2>9. UNCHANGED <<pkt, flow>> /\ Top.pc # "execute"
    BY <1>1, <1>14
  <2> HIDE DEF f, p
  <2> QED  BY <1>1, <1>a, <1>12, <2>4, <2>5, <2>6, <2>8, <2>9, FitQueue
<1>15. CASE stack' = SetTop(hr) /\ UNCHANGED pkt
  <2> DEFINE m == [p |-> p, key |-> pkt[p], rule |-> Null]
             ms == Append(Top.missed, m)
  <2>1. m \in Missed /\ m.p = p /\ m.key = pkt[p] /\ m.rule = Null
    BY <1>4, <1>6, EmptyIs DEF Missed
  <2>a. PortsAlike(ToSet(Top.pkts)) /\ MissedAlike(Top) /\ RulesFit(Top) /\ QueuedFit(Top)
    BY <1>1, <1>2 DEF InputFit
  <2> HIDE DEF p
  <2>2. PICK q \in Missed: q = m
    BY <2>1
  <2>3. ms \in Seq(Missed)
    BY <1>3, <2>1
  <2>4. hr = [fr EXCEPT !.missed = ms]
    BY <1>7 DEF hr, ms, m, InputFrame
  <2>b. PICK n \in Nat: n = Len(Top.missed) /\ DOMAIN Top.missed = 1 .. n
    BY <1>3, Members
  <2>c. /\ DOMAIN ms = 1 .. n + 1 /\ ms[n + 1] = q
        /\ \A j \in 1 .. n: ms[j] = Top.missed[j]
    BY <1>3, <2>2, <2>b
  <2>d. \A j \in 1 .. n + 1: j \in 1 .. n \/ j = n + 1
    BY <2>b
  <2>e. q.p = p /\ q.key = pkt[p] /\ q.rule = Null
    BY <2>1, <2>2
  <2> HIDE DEF m, ms, hr
  <2>5. InputIs(hr, "emc", Tail(Top.pkts), ms, Top.i, Top.new, Top.acts, Top.batches, Top.old, Top.own)
    BY <1>5, <2>3, <2>4, WithMissed DEF InputIs
  <2>6. /\ hr \in InputFrame /\ hr.kind = "input" /\ hr.pc = "emc" /\ hr.pkts = Tail(Top.pkts)
        /\ hr.missed = ms /\ hr.batches = Top.batches /\ hr.old = Top.old
    BY <2>5 DEF InputIs
  <2>7. \A j \in 1 .. n: Port[pkt[p]] = Port[Top.missed[j].key]
    BY <1>4, <2>a, <2>b DEF MissedAlike
  <2>8. \A y \in ToSet(Tail(Top.pkts)): Port[pkt[y]] = Port[pkt[p]]
    BY <1>4, <2>a DEF PortsAlike
  <2>9. \A j, k \in 1 .. n: Port[Top.missed[j].key] = Port[Top.missed[k].key]
    BY <2>a, <2>b DEF MissedAlike
  <2>10. \A j \in 1 .. n + 1: Port[ms[j].key] = Port[pkt[p]]
    BY <2>7, <2>c, <2>d, <2>e
  <2>11. MissedAlike(hr)
    BY <2>6, <2>8, <2>10, <2>c DEF MissedAlike
  <2>12. PortsAlike(ToSet(hr.pkts))
    BY <2>6, <2>8 DEF PortsAlike
  <2>13. RulesFit(hr)
    <3>1. \A j \in 1 .. n + 1: ms[j].rule = Null
      <4>1. \A j \in 1 .. n: Top.missed[j].rule = Null
        BY <1>1, <1>3, <2>b DEF PlaceOk
      <4> QED  BY <4>1, <2>c, <2>d, <2>e
    <3>2. \A j \in 1 .. n + 1: pkt[ms[j].p] = ms[j].key
      <4>1. \A j \in 1 .. n: pkt[Top.missed[j].p] = Top.missed[j].key
        BY <1>1, <2>a, <2>b DEF RulesFit, Pending
      <4> QED  BY <4>1, <2>c, <2>d, <2>e
    <3>3. Pending(hr) = 1 .. n + 1
      BY <2>6, <2>c DEF Pending
    <3> QED  BY <3>1, <3>2, <3>3, <2>6, <2>c DEF RulesFit
  <2>14. QueuedFit(hr)
    <3>1. Open(hr) = Open(Top)
      BY <1>1, <2>6 DEF Open
    <3> QED  BY <3>1, <2>6, <2>a DEF QueuedFit
  <2>15. FrameFit(hr) /\ hr \in Frame
    BY <2>6, <2>11, <2>12, <2>13, <2>14, InputTypes DEF FrameFit, InputFit
  <2>16. OnlyFreed
    BY <1>15, SameOnly
  <2> QED  BY <1>1, <1>a, <1>15, <2>15, <2>16, FitTop
<1> QED  BY <1>13, <1>14, <1>15 DEF EmcProcessing, fr, pktVars

LEMMA ClassifyFit ==
  ASSUME SoundStep, Classify
  PROVE  FitInv'
<1> DEFINE ms == Top.missed
           rs == [i \in DOMAIN ms |-> [ms[i] EXCEPT !.rule = AnyRule(Port[ms[1].key], ms[i].key)]]
           lost == {i \in DOMAIN rs: rs[i].rule = Null}
           next == CASE ms = <<>> -> "reset"
                     [] ms # <<>> /\ lost # {} /\ enabled -> "upcall"
                     [] OTHER -> "queue"
           gr == [Top EXCEPT !.missed = rs, !.pc = next]
<1>0. stack # <<>> /\ Top.kind = "input" /\ Top.pc = "emc" /\ Top.pkts = <<>> /\ UNCHANGED <<flow, emc>>
  BY DEF Classify, At, flowVars, cacheVars
<1>1. /\ stack' = SetTop(gr)
      /\ next = "queue" => Delete({rs[i].p: i \in lost})
      /\ next # "queue" => UNCHANGED <<pkt, freed>>
  BY DEF Classify, pktVars
<1> HIDE DEF gr
<1>2. /\ CallInv /\ StackTypes /\ FlowTypes /\ MemoryInv /\ PacketInv /\ EmcFit /\ InputFit(Top)
  BY <1>0, TopFits
<1>3. next \in {"reset", "upcall", "queue"}
  OBVIOUS
<1>4. /\ Top \in InputFrame /\ ms \in Seq(Missed)
  BY <1>0, <1>2, TopIsInput
<1>5. rs = Ruled(ms)
  BY DEF Ruled
<1>6. /\ rs \in Seq(Missed) /\ DOMAIN rs = DOMAIN ms
      /\ \A j \in DOMAIN ms: rs[j].p = ms[j].p /\ rs[j].key = ms[j].key
                             /\ rs[j].rule = AnyRule(Port[ms[1].key], ms[j].key)
  BY <1>2, <1>4, <1>5, RuledIs
<1>7. PICK n \in Nat: DOMAIN ms = 1 .. n
  BY <1>4, Members
<1>8. OnlyFreed
  BY <1>1, DeleteOnly, SameOnly
<1> HIDE DEF rs, lost, next
<1>9. InputIs(gr, next, Top.pkts, rs, Top.i, Top.new, Top.acts, Top.batches, Top.old, Top.own)
  BY <1>0, <1>3, <1>4, <1>6, WithMissedPc DEF Place, gr
<1>10. /\ gr \in InputFrame /\ gr.pc = next /\ gr.missed = rs /\ gr.batches = Top.batches /\ gr.old = Top.old
       /\ gr \in Frame
  BY <1>9 DEF InputIs, Frame
<1>11. Pending(gr) \subseteq Pending(Top)
  <2>1. Pending(gr) \subseteq DOMAIN ms
    BY <1>6, <1>10 DEF Pending
  <2>2. Pending(Top) = DOMAIN ms
    BY <1>0 DEF Pending
  <2> QED  BY <2>1, <2>2
<1>12. Open(gr) \subseteq Open(Top)
  BY <1>0, <1>10 DEF Open
<1>13. \A j \in DOMAIN ms: rs[j].rule # Null => Fits(rs[j].rule, ms[j].key) /\ rs[j].rule \notin Top.old
  <2> SUFFICES ASSUME NEW j \in DOMAIN ms, rs[j].rule # Null
               PROVE  Fits(rs[j].rule, ms[j].key) /\ rs[j].rule \notin Top.old
    OBVIOUS
  <2>1. ms[j] \in Missed
    BY <1>4, Members
  <2>2. PICK k \in Key: k = ms[j].key
    BY <2>1 DEF Missed
  <2>3. 1 \in DOMAIN ms
    BY <1>7
  <2>4. Port[ms[1].key] = Port[k]
    BY <1>0, <1>2, <2>2, <2>3 DEF InputFit, MissedAlike
  <2>5. rs[j].rule = AnyRule(Port[k], k)
    BY <1>6, <2>2, <2>4
  <2> QED  BY <1>0, <2>2, <2>5, RuleFits
<1>14. gr.pc # "emc" /\ gr.pc # "insert"
  BY <1>3, <1>10
<1>15. FrameFit(gr)
  <2>1. \A j \in DOMAIN Top.missed: gr.missed[j].p = Top.missed[j].p /\ gr.missed[j].key = Top.missed[j].key
    BY <1>6, <1>10
  <2>2. \A j \in DOMAIN Top.missed: gr.missed[j].rule # Null =>
          Fits(gr.missed[j].rule, Top.missed[j].key) /\ gr.missed[j].rule \notin Top.old
    BY <1>10, <1>13
  <2>3. DOMAIN gr.missed = DOMAIN Top.missed
    BY <1>6, <1>10
  <2> HIDE DEF ms
  <2> QED  BY <1>2, <1>4, <1>10, <1>11, <1>12, <1>14, <2>1, <2>2, <2>3, FitGoes
<1>16. EmcFit'
  BY <1>0, <1>2, EmcFitSame
<1> QED  BY <1>0, <1>1, <1>8, <1>10, <1>15, <1>16, FitTop

\* A call that goes on with the same missed packets fits.
LEMMA FitWithMissed ==
  ASSUME NEW fr \in InputFrame, InputFit(fr), NEW gr \in InputFrame,
         gr.batches = fr.batches, gr.old = fr.old, gr.missed = fr.missed,
         Pending(gr) \subseteq Pending(fr), Open(gr) \subseteq Open(fr),
         gr.pc # "emc", gr.pc = "insert" => Fits(gr.new, gr.missed[gr.i].key)
  PROVE  FrameFit(gr)
<1>1. DOMAIN gr.missed = DOMAIN fr.missed
  OBVIOUS
<1>2. \A j \in DOMAIN fr.missed: gr.missed[j].p = fr.missed[j].p /\ gr.missed[j].key = fr.missed[j].key
                                 /\ gr.missed[j].rule = fr.missed[j].rule
  OBVIOUS
<1> QED  BY <1>1, <1>2, FitGoes

\* Of upcalls, the one at i is over.
LEMMA FitNextUpcall ==
  ASSUME SoundStep, stack # <<>>, Top.kind = "input", Top.pc \in {"upcall", "insert"}
  PROVE  FrameFit(NextUpcall) /\ NextUpcall \in Frame
<1>1. CallInv /\ StackTypes /\ InputFit(Top) /\ Top \in InputFrame
  BY TopFits
<1>2. InputIs(NextUpcall, "upcall", Top.pkts, Top.missed, Top.i + 1, Null, <<>>, Top.batches, Top.old, Top.own)
  BY <1>1, NextUpcallIs
<1>3. /\ NextUpcall \in InputFrame /\ NextUpcall.pc = "upcall" /\ NextUpcall.i = Top.i + 1
      /\ NextUpcall.missed = Top.missed /\ NextUpcall.batches = Top.batches /\ NextUpcall.old = Top.old
  BY <1>2 DEF InputIs
<1>4. DOMAIN Top.missed \subseteq Nat
  BY <1>1, InputTypes, Members
<1>5. /\ Pending(NextUpcall) \subseteq Pending(Top) \cup {Top.i}
      /\ Top.i \in Pending(NextUpcall) <=> Top.i \in DOMAIN Top.missed /\ NextUpcall.missed[Top.i].rule # Null
      /\ Top.i \in Pending(Top) <=> Top.i \in DOMAIN Top.missed /\ (Top.pc = "upcall" \/ Top.missed[Top.i].rule # Null)
  BY <1>1, <1>3, <1>4, UpcallGoes
<1>6. Pending(NextUpcall) \subseteq Pending(Top)
  BY <1>3, <1>5
<1>7. Open(NextUpcall) \subseteq Open(Top)
  BY <1>3 DEF Open
<1>8. FrameFit(NextUpcall)
  BY <1>1, <1>3, <1>6, <1>7, FitWithMissed
<1> QED  BY <1>3, <1>8 DEF Frame

\* Actions for one packet.
LEMMA FitOnePacket ==
  ASSUME NEW p \in Packet, NEW acts \in Seq(ActionKind), NEW steal \in BOOLEAN
  PROVE  Actions(<<p>>, acts, steal) \in Frame /\ FrameFit(Actions(<<p>>, acts, steal))
<1>0. <<p>> \in Seq(Packet)
  OBVIOUS
<1>1. PICK one \in Seq(Packet): one = <<p>>
  BY <1>0
<1>2. ToSet(one) = {p}
  BY <1>1 DEF ToSet
<1>3. PICK hr \in Frame: hr = Actions(one, acts, steal) /\ hr.kind = "actions" /\ hr.pkts = one
  BY ActionsIs
<1>4. FrameFit(hr)
  BY <1>2, <1>3 DEF FrameFit, PortsAlike
<1> QED  BY <1>1, <1>3, <1>4

LEMMA MissUpcallFit ==
  ASSUME SoundStep, MissUpcall
  PROVE  FitInv'
<1> DEFINE i == Top.i
           m == Top.missed[i]
           f == AnyRule(Port[m.key], m.key)
<1>1. /\ stack # <<>> /\ Top.kind = "input" /\ Top.pc = "upcall" /\ UNCHANGED <<flow, emc>>
  BY DEF MissUpcall, At, flowVars, cacheVars
<1>2. /\ CallInv /\ StackTypes /\ FlowTypes /\ MemoryInv /\ PacketInv /\ EmcFit /\ InputFit(Top)
  BY <1>1, TopFits
<1>3. /\ Top \in InputFrame /\ Top.missed \in Seq(Missed) /\ i \in Nat \ {0}
  BY <1>1, <1>2, TopIsInput
<1>4. PICK n \in Nat: DOMAIN Top.missed = 1 .. n /\ n = Len(Top.missed)
  BY <1>3, Members
<1>5. EmcFit'
  BY <1>1, <1>2, EmcFitSame
<1>6. FrameFit(NextUpcall) /\ NextUpcall \in Frame
  BY <1>1, FitNextUpcall
<1>7. InputIs(NextUpcall, "upcall", Top.pkts, Top.missed, i + 1, Null, <<>>, Top.batches, Top.old, Top.own)
  BY <1>1, <1>2, NextUpcallIs
<1>8. CASE i > Len(Top.missed) /\ stack' = SetTop([Top EXCEPT !.pc = "queue", !.i = 1]) /\ UNCHANGED pkt
  <2> DEFINE gr == [Top EXCEPT !.pc = "queue", !.i = 1]
  <2>0. PICK x \in Nat \ {0}: x = 1
    OBVIOUS
  <2>1. InputIs(gr, "queue", Top.pkts, Top.missed, x, Top.new, Top.acts, Top.batches, Top.old, Top.own)
    BY <1>3, <2>0, WithPcI DEF Place
  <2>2. stack' = SetTop(gr)
    BY <1>8
  <2> HIDE DEF gr
  <2>3. /\ gr \in InputFrame /\ gr.pc = "queue" /\ gr.missed = Top.missed /\ gr.i = 1
        /\ gr.batches = Top.batches /\ gr.old = Top.old /\ gr \in Frame
    BY <2>0, <2>1 DEF InputIs, Frame
  <2>4. Pending(gr) \subseteq Pending(Top)
    BY <1>1, <1>4, <2>3 DEF Pending
  <2>5. Open(gr) \subseteq Open(Top)
    BY <1>1, <2>3 DEF Open
  <2>6. FrameFit(gr)
    BY <1>2, <1>3, <2>3, <2>4, <2>5, FitWithMissed
  <2>7. OnlyFreed
    BY <1>8, SameOnly
  <2> QED  BY <1>1, <1>5, <2>2, <2>3, <2>6, <2>7, FitTop
<1>9. CASE /\ i <= Len(Top.missed) /\ (m.rule # Null \/ f # Null) /\ UNCHANGED pkt
           /\ stack' = SetTop([NextUpcall EXCEPT !.missed[i].rule = IF m.rule # Null THEN @ ELSE f])
  <2> DEFINE r == IF m.rule # Null THEN m.rule ELSE f
             mr == [m EXCEPT !.rule = r]
             ms == [Top.missed EXCEPT ![i] = mr]
             gr == [NextUpcall EXCEPT !.missed = ms]
  <2>1. i \in DOMAIN Top.missed /\ m \in Missed
    BY <1>3, <1>9
  <2>2. PICK k \in Key: k = m.key
    BY <2>1 DEF Missed
  <2>a. f # Null => Fits(f, k) /\ f \notin Top.old
    BY <1>1, <2>2, RuleFits
  <2>b. f \in MaybeFlow /\ m.rule \in MaybeFlow
    BY <1>2, <2>1, RuleIs DEF Missed
  <2>3. r \in MaybeFlow /\ (r = m.rule \/ (Fits(r, k) /\ r \notin Top.old))
    BY <1>9, <2>a, <2>b
  <2>4. [NextUpcall EXCEPT !.missed[i].rule = IF m.rule # Null THEN @ ELSE f] = gr
    BY <1>7 DEF InputIs
  <2> HIDE DEF f
  <2> HIDE DEF r
  <2>5. mr \in Missed /\ mr.rule = r /\ mr.p = m.p /\ mr.key = m.key
    BY <2>1, <2>3 DEF Missed
  <2>6. m = Top.missed[i]
    OBVIOUS
  <2> HIDE DEF mr, m
  <2>7. ms \in Seq(Missed) /\ DOMAIN ms = DOMAIN Top.missed /\ ms[i] = mr
        /\ \A j \in DOMAIN Top.missed: j # i => ms[j] = Top.missed[j]
    BY <1>3, <2>1, <2>5
  <2> HIDE DEF ms
  <2>8. InputIs(gr, "upcall", Top.pkts, ms, i + 1, Null, <<>>, Top.batches, Top.old, Top.own)
    BY <1>7, <2>7, WithMissed DEF InputIs
  <2> HIDE DEF gr
  <2>9. /\ gr \in InputFrame /\ gr.pc = "upcall" /\ gr.missed = ms /\ gr.i = i + 1
        /\ gr.batches = Top.batches /\ gr.old = Top.old /\ gr \in Frame
    BY <2>8 DEF InputIs, Frame
  <2>10. Pending(gr) \subseteq Pending(Top)
    <3>1. DOMAIN Top.missed \subseteq Nat
      BY <1>4
    <3>2. /\ Pending(gr) \subseteq Pending(Top) \cup {i}
          /\ i \in Pending(Top) <=> i \in DOMAIN Top.missed /\ (Top.pc = "upcall" \/ Top.missed[i].rule # Null)
      BY <1>1, <1>3, <2>7, <2>9, <3>1, UpcallGoes
    <3> QED  BY <1>1, <2>1, <3>2
  <2>11. Open(gr) \subseteq Open(Top)
    BY <1>1, <2>9 DEF Open
  <2>12. \A j \in DOMAIN Top.missed: gr.missed[j].p = Top.missed[j].p /\ gr.missed[j].key = Top.missed[j].key
    BY <2>5, <2>6, <2>7, <2>9
  <2>13. \A j \in DOMAIN Top.missed: gr.missed[j].rule # Null =>
           \/ gr.missed[j].rule = Top.missed[j].rule
           \/ Fits(gr.missed[j].rule, Top.missed[j].key) /\ gr.missed[j].rule \notin Top.old
    BY <2>2, <2>3, <2>5, <2>6, <2>7, <2>9
  <2>14. DOMAIN gr.missed = DOMAIN Top.missed
    BY <2>7, <2>9
  <2>15. FrameFit(gr)
    BY <1>2, <1>3, <2>9, <2>10, <2>11, <2>12, <2>13, <2>14, FitGoes
  <2>16. stack' = SetTop(gr) /\ OnlyFreed
    BY <1>9, <2>4, SameOnly DEF m, f
  <2> QED  BY <1>1, <1>5, <2>9, <2>15, <2>16, FitTop
<1>10. CASE Delete({m.p}) /\ stack' = SetTop(NextUpcall)
  <2>1. OnlyFreed
    BY <1>10, DeleteOnly
  <2> QED  BY <1>1, <1>5, <1>6, <1>10, <2>1, FitTop
<1>11. ASSUME NEW acts \in Program, NEW nospace \in BOOLEAN,
              i <= Len(Top.missed), UNCHANGED pkt,
              stack' = Append(SetTop(IF nospace THEN NextUpcall
                                     ELSE [Top EXCEPT !.pc = "install", !.acts = acts]),
                              Actions(<<m.p>>, acts, TRUE))
       PROVE  FitInv'
  <2> DEFINE gr == [Top EXCEPT !.pc = "install", !.acts = acts]
             xr == IF nospace THEN NextUpcall ELSE gr
  <2>1. acts \in Seq(ActionKind)
    BY NetdevInputAssumption DEF ActionKind
  <2>2. m \in Missed
    BY <1>3, <1>11
  <2>3. PICK p \in Packet: p = m.p
    BY <2>2 DEF Missed
  <2>4. PICK b \in BOOLEAN: b = TRUE
    OBVIOUS
  <2>5. PICK hr \in Frame: hr = Actions(<<p>>, acts, b) /\ FrameFit(hr)
    BY <2>1, FitOnePacket
  <2>6. stack' = Append(SetTop(xr), hr)
    BY <1>11, <2>3, <2>4, <2>5
  <2>7. InputIs(gr, "install", Top.pkts, Top.missed, i, Top.new, acts, Top.batches, Top.old, Top.own)
    BY <1>3, <2>1, WithPcActs DEF Place
  <2> HIDE DEF gr
  <2>8. /\ gr \in InputFrame /\ gr.pc = "install" /\ gr.missed = Top.missed /\ gr.i = i
        /\ gr.batches = Top.batches /\ gr.old = Top.old /\ gr \in Frame
    BY <2>7 DEF InputIs, Frame
  <2>9. Pending(gr) \subseteq Pending(Top)
    BY <1>1, <2>8 DEF Pending
  <2>10. Open(gr) \subseteq Open(Top)
    BY <1>1, <2>8 DEF Open
  <2>11. FrameFit(gr)
    BY <1>2, <1>3, <2>8, <2>9, <2>10, FitWithMissed
  <2>12. xr \in Frame /\ FrameFit(xr)
    BY <1>6, <2>8, <2>11
  <2>13. OnlyFreed
    BY <1>11, SameOnly
  <2> HIDE DEF xr, m
  <2> QED  BY <1>1, <1>5, <2>5, <2>6, <2>12, <2>13, FitPush
<1>12. \/ i > Len(Top.missed) /\ stack' = SetTop([Top EXCEPT !.pc = "queue", !.i = 1]) /\ UNCHANGED pkt
       \/ /\ i <= Len(Top.missed) /\ (m.rule # Null \/ f # Null) /\ UNCHANGED pkt
          /\ stack' = SetTop([NextUpcall EXCEPT !.missed[i].rule = IF m.rule # Null THEN @ ELSE f])
       \/ Delete({m.p}) /\ stack' = SetTop(NextUpcall)
       \/ \E acts \in Program, nospace \in BOOLEAN:
            /\ i <= Len(Top.missed) /\ UNCHANGED pkt
            /\ stack' = Append(SetTop(IF nospace THEN NextUpcall
                                      ELSE [Top EXCEPT !.pc = "install", !.acts = acts]),
                               Actions(<<m.p>>, acts, TRUE))
  BY DEF MissUpcall, pktVars
<1> HIDE DEF i, m, f
<1> QED  BY <1>8, <1>9, <1>10, <1>11, <1>12

-----------------------------------------------------------------------------
(* Rules that are found go to the cache and to batches *)

\* emc_insert enters a flow with a key it matches.
LEMMA EmcInsertFits ==
  ASSUME MemoryInv, EmcFit, NEW k \in Key, NEW f \in FlowObj, Fits(f, k), EmcInsert(k, f), UNCHANGED flow
  PROVE  EmcFit'
<1>1. PICK z \in Slot: z = EmcPlace(k)
  BY PlaceIs
<1>2. emc \in [Slot -> Entry]
  BY DEF MemoryInv, FlowTypes
<1>3. CASE emc[z].flow = f
  <2>1. emc' = [emc EXCEPT ![z].key = k]
    BY <1>1, <1>3 DEF EmcInsert
  <2>2. emc'[z].flow = f /\ emc'[z].key = k /\ \A t \in Slot \ {z}: emc'[t] = emc[t]
    BY <1>2, <1>3, <2>1 DEF Entry
  <2> QED  BY <2>2 DEF EmcFit, Fits
<1>4. CASE emc[z].flow # f
  <2>1. emc' = [emc EXCEPT ![z] = [flow |-> IF ref[f] > 0 THEN f ELSE Null, key |-> k]]
    BY <1>1, <1>4 DEF EmcInsert
  <2>2. emc'[z].flow \in {f, Null} /\ emc'[z].key = k /\ \A t \in Slot \ {z}: emc'[t] = emc[t]
    BY <1>2, <2>1
  <2> QED  BY <2>2 DEF EmcFit, Fits
<1> QED  BY <1>3, <1>4

\* Entries stay or are given up, and a counted flow keeps its key.
LEMMA EmcKept ==
  ASSUME MemoryInv, EmcFit, \A s \in Slot: emc'[s].flow # Null => emc'[s] = emc[s],
         \A g \in FlowObj: ref[g] > 0 => flow'[g].key = flow[g].key
  PROVE  EmcFit'
<1>1. ASSUME NEW s \in Slot, emc'[s].flow # Null
      PROVE  Fits(emc[s].flow, emc[s].key) /\ emc'[s] = emc[s]
             /\ flow'[emc[s].flow].key = flow[emc[s].flow].key
  <2>1. emc'[s] = emc[s] /\ Fits(emc[s].flow, emc[s].key)
    BY <1>1 DEF EmcFit
  <2>2. emc \in [Slot -> Entry]
    BY DEF MemoryInv, FlowTypes
  <2>3. emc[s] \in Entry
    BY <2>2
  <2>4. PICK g \in FlowObj: g = emc[s].flow
    BY <1>1, <2>1, <2>3 DEF Entry, MaybeFlow
  <2>5. ref[g] > 0
    BY <2>4, InUse DEF MemoryInv
  <2> QED  BY <2>1, <2>4, <2>5
<1> QED  BY <1>1 DEF EmcFit, Fits

LEMMA InsertFit ==
  ASSUME SoundStep, Insert
  PROVE  FitInv'
<1>1. /\ stack # <<>> /\ Top.kind = "input" /\ Top.pc = "insert" /\ UNCHANGED <<flow, pkt>>
      /\ EmcInsert(Top.missed[Top.i].key, Top.new) /\ stack' = SetTop(NextUpcall)
  BY DEF Insert, At, pktVars
<1>2. /\ StackTypes /\ MemoryInv /\ EmcFit /\ InputFit(Top)
  BY <1>1, TopFits
<1>3. /\ Top \in InputFrame /\ PlaceOk(Top) /\ Top.missed \in Seq(Missed)
  BY <1>1, <1>2, TopIsInput
<1>4. Top.i \in DOMAIN Top.missed /\ Top.new # Null /\ Top.new \in MaybeFlow
  BY <1>1, <1>3, InputTypes DEF PlaceOk
<1>5. PICK m \in Missed: m = Top.missed[Top.i]
  BY <1>3, <1>4
<1>6. PICK f \in FlowObj, k \in Key: f = Top.new /\ k = m.key
  BY <1>4 DEF MaybeFlow, Missed
<1>7. Fits(f, k) /\ EmcInsert(k, f)
  BY <1>1, <1>2, <1>5, <1>6 DEF InputFit, RulesFit
<1>8. EmcFit'
  BY <1>1, <1>2, <1>7, EmcInsertFits
<1>9. FrameFit(NextUpcall) /\ NextUpcall \in Frame
  BY <1>1, FitNextUpcall
<1>10. OnlyFreed
  BY <1>1, SameOnly
<1> QED  BY <1>1, <1>8, <1>9, <1>10, FitTop

LEMMA QueueRuleFit ==
  ASSUME SoundStep, QueueRule
  PROVE  FitInv'
<1>1. /\ stack # <<>> /\ Top.kind = "input" /\ Top.pc = "queue" /\ UNCHANGED <<flow, pkt>>
  BY DEF QueueRule, At, pktVars
<1>2. /\ CallInv /\ StackTypes /\ MemoryInv /\ EmcFit /\ InputFit(Top)
  BY <1>1, TopFits
<1>3. /\ Top \in InputFrame /\ PlaceOk(Top) /\ Top.missed \in Seq(Missed) /\ Top.i \in Nat \ {0}
      /\ Top.pkts = <<>>
  BY <1>1, <1>2, TopIsInput DEF PlaceOk
<1>4. PICK n \in Nat: DOMAIN Top.missed = 1 .. n /\ n = Len(Top.missed)
  BY <1>3, Members
<1>5. OnlyFreed
  BY <1>1, SameOnly
<1>6. CASE Top.i > Len(Top.missed)
  <2> DEFINE gr == [Top EXCEPT !.pc = "reset"]
  <2>1. stack' = SetTop(gr) /\ UNCHANGED emc
    BY <1>6 DEF QueueRule
  <2>2. InputIs(gr, "reset", Top.pkts, Top.missed, Top.i, Top.new, Top.acts, Top.batches, Top.old, Top.own)
    BY <1>3, WithPc DEF Place
  <2> HIDE DEF gr
  <2>3. /\ gr \in InputFrame /\ gr.pc = "reset" /\ gr.missed = Top.missed
        /\ gr.batches = Top.batches /\ gr.old = Top.old /\ gr \in Frame
    BY <2>2 DEF InputIs, Frame
  <2>4. Pending(gr) = {}
    BY <2>3 DEF Pending
  <2>5. Open(gr) \subseteq Open(Top)
    BY <1>1, <2>3 DEF Open
  <2>6. FrameFit(gr)
    BY <1>2, <1>3, <2>3, <2>4, <2>5, FitWithMissed
  <2>7. EmcFit'
    BY <1>1, <1>2, <2>1, EmcFitSame
  <2> QED  BY <1>1, <1>5, <2>1, <2>3, <2>6, <2>7, FitTop
<1>7. CASE ~(Top.i > Len(Top.missed))
  <2>1. Top.i \in DOMAIN Top.missed
    BY <1>3, <1>7
  <2>2. PICK m \in Missed: m = Top.missed[Top.i]
    BY <1>3, <2>1
  <2>3. PICK x \in Nat \ {0}: x = Top.i + 1
    BY <1>3
  <2> DEFINE gr == [Top EXCEPT !.i = x]
  <2>4. [Top EXCEPT !.i = @ + 1] = gr
    BY <2>3
  <2>5. InputIs(gr, "queue", Top.pkts, Top.missed, x, Top.new, Top.acts, Top.batches, Top.old, Top.own)
    BY <1>1, <1>3, WithI
  <2> HIDE DEF gr
  <2>6. /\ gr \in InputFrame /\ gr.pc = "queue" /\ gr.missed = Top.missed /\ gr.i = x
        /\ gr.batches = Top.batches /\ gr.old = Top.old /\ gr \in Frame /\ gr.pkts = Top.pkts
    BY <2>5 DEF InputIs, Frame
  <2>7. \A j \in 1 .. n: j >= x => j >= Top.i
    BY <1>3, <2>3
  <2>8. Pending(gr) \subseteq Pending(Top)
    BY <1>1, <1>4, <2>6, <2>7 DEF Pending
  <2>9. Open(gr) \subseteq Open(Top)
    BY <1>1, <2>6 DEF Open
  <2>10. FrameFit(gr)
    BY <1>2, <1>3, <2>6, <2>8, <2>9, FitWithMissed
  <2>11. CASE m.rule = Null
    <3>1. stack' = SetTop(gr) /\ UNCHANGED emc
      BY <1>7, <2>2, <2>4, <2>11 DEF QueueRule
    <3>2. EmcFit'
      BY <1>1, <1>2, <3>1, EmcFitSame
    <3> QED  BY <1>1, <1>5, <2>6, <2>10, <3>1, <3>2, FitTop
  <2>12. CASE m.rule # Null
    <3>1. EmcInsert(m.key, m.rule) /\ QueueBatches(SetTop(gr), m.p, m.rule)
      BY <1>7, <2>2, <2>4, <2>12 DEF QueueRule
    <3>2. PICK p \in Packet, f \in FlowObj, k \in Key: p = m.p /\ f = m.rule /\ k = m.key
      BY <2>12 DEF Missed, MaybeFlow
    <3>3. Top.i >= Top.i
      BY <1>3
    <3>4. Top.i \in Pending(Top)
      BY <1>1, <2>1, <2>2, <2>12, <3>3 DEF Pending
    <3>5. Fits(f, k) /\ f \notin Top.old /\ pkt[p] = k
      BY <1>2, <2>1, <2>2, <2>12, <3>2, <3>4 DEF InputFit, RulesFit
    <3>6. EmcFit'
      BY <1>1, <1>2, <3>1, <3>2, <3>5, EmcInsertFits
    <3>7. PlaceOk(gr)
      BY <1>1, <1>3, <2>5, <2>6 DEF PlaceOk, InputIs
    <3>8. Continues(Top, gr)
      BY <1>1, <1>2, <2>5, <3>7, InputGoes
    <3>9. Fits(f, pkt[p]) /\ f \notin gr.old /\ QueueBatches(SetTop(gr), p, f)
      BY <2>6, <3>1, <3>2, <3>5
    <3>10. Top.pc # "execute" /\ UNCHANGED <<pkt, flow>>
      BY <1>1
    <3> QED  BY <1>1, <2>10, <3>6, <3>8, <3>9, <3>10, FitQueue
  <2> QED  BY <2>11, <2>12
<1> QED  BY <1>6, <1>7

\* What a call looks for fits while others work, as its flows are not freed.
LEMMA FrameKept ==
  ASSUME CallInv, stack # <<>>, stack' # <<>>, PinKept, UNCHANGED pkt,
         NEW l \in DOMAIN stack, NEW fr \in Frame, fr = stack[l], FrameFit(fr)
  PROVE  FrameFit(fr)'
<1>1. PlaceOk(fr) /\ HeldBy(fr) \subseteq FlowObj
  BY HeldTypes DEF CallInv, StackTypes
<1>2. \A f \in HeldBy(fr): Waits(f, "pmd")
  BY DEF CallInv, HeldInv
<1>3. \A f \in HeldBy(fr): flow'[f].key = flow[f].key /\ (flow[f].dead => flow'[f].dead)
  BY <1>1, <1>2 DEF PinKept
<1> QED  BY <1>1, <1>3, FrameFitSame

\* A new flow changes none that is counted or that a call holds.
LEMMA InstallFit ==
  ASSUME SoundStep, Install
  PROVE  FitInv'
<1>1. /\ stack # <<>> /\ Top.kind = "input" /\ Top.pc = "install" /\ UNCHANGED <<pkt, emc, deferred>>
  BY DEF Install, At, pktVars, cacheVars
<1>2. /\ CallInv /\ StackTypes /\ FlowTypes /\ MemoryInv /\ PacketInv /\ EmcFit /\ InputFit(Top)
  BY <1>1, TopFits
<1>3. /\ Top \in InputFrame /\ PlaceOk(Top) /\ Top.missed \in Seq(Missed) /\ Top.i \in DOMAIN Top.missed
  BY <1>1, <1>2, TopIsInput DEF PlaceOk
<1>4. PICK m \in Missed: m = Top.missed[Top.i]
  BY <1>3
<1>5. PICK k \in Key: k = m.key
  BY DEF Missed
<1>6. PICK old \in MaybeFlow: old = AnyRule(Port[k], k)
  BY <1>2, RuleIs
<1>7. \/ old # Null /\ stack' = SetTop([Top EXCEPT !.pc = "insert", !.new = old]) /\ UNCHANGED flow
      \/ \E f \in FreshFlow: /\ stack' = SetTop([Top EXCEPT !.pc = "insert", !.new = f])
                             /\ FlowAdd(f, k, Top.acts)
  BY <1>4, <1>5, <1>6 DEF Install
<1>8. ASSUME NEW f \in MaybeFlow
      PROVE  LET gr == [Top EXCEPT !.pc = "insert", !.new = f]
             IN  /\ gr \in InputFrame /\ gr \in Frame /\ gr.pc = "insert" /\ gr.missed = Top.missed
                 /\ gr.i = Top.i /\ gr.new = f /\ gr.batches = Top.batches /\ gr.old = Top.old
                 /\ Pending(gr) \subseteq Pending(Top) /\ Open(gr) \subseteq Open(Top)
  <2> DEFINE gr == [Top EXCEPT !.pc = "insert", !.new = f]
  <2>1. InputIs(gr, "insert", Top.pkts, Top.missed, Top.i, f, Top.acts, Top.batches, Top.old, Top.own)
    BY <1>3, WithPcNew DEF Place
  <2> HIDE DEF gr
  <2>2. /\ gr \in InputFrame /\ gr \in Frame /\ gr.pc = "insert" /\ gr.missed = Top.missed
        /\ gr.i = Top.i /\ gr.new = f /\ gr.batches = Top.batches /\ gr.old = Top.old
    BY <2>1 DEF InputIs, Frame
  <2>3. Pending(gr) \subseteq Pending(Top) /\ Open(gr) \subseteq Open(Top)
    BY <1>1, <2>2 DEF Pending, Open
  <2>4. /\ gr \in InputFrame /\ gr \in Frame /\ gr.pc = "insert" /\ gr.missed = Top.missed
        /\ gr.i = Top.i /\ gr.new = f /\ gr.batches = Top.batches /\ gr.old = Top.old
        /\ Pending(gr) \subseteq Pending(Top) /\ Open(gr) \subseteq Open(Top)
    BY <2>2, <2>3
  <2> QED  BY <2>4 DEF gr
<1>9. CASE old # Null /\ stack' = SetTop([Top EXCEPT !.pc = "insert", !.new = old]) /\ UNCHANGED flow
  <2>1. PICK gr \in InputFrame:
           /\ gr = [Top EXCEPT !.pc = "insert", !.new = old]
           /\ gr \in Frame /\ gr.pc = "insert" /\ gr.missed = Top.missed
           /\ gr.i = Top.i /\ gr.new = old /\ gr.batches = Top.batches /\ gr.old = Top.old
           /\ Pending(gr) \subseteq Pending(Top) /\ Open(gr) \subseteq Open(Top)
    BY <1>8
  <2>2. Fits(old, k)
    BY <1>1, <1>6, <1>9, RuleFits
  <2>3. gr.pc # "emc" /\ Fits(gr.new, gr.missed[gr.i].key)
    BY <1>4, <1>5, <2>1, <2>2
  <2>4. FrameFit(gr)
    BY <1>2, <1>3, <2>1, <2>3, FitWithMissed
  <2>5. EmcFit' /\ OnlyFreed
    BY <1>1, <1>2, <1>9, EmcFitSame, SameOnly
  <2>6. stack' = SetTop(gr)
    BY <1>9, <2>1
  <2> QED  BY <1>1, <1>9, <2>1, <2>4, <2>5, <2>6, FitTop
<1>10. ASSUME NEW f \in FreshFlow, stack' = SetTop([Top EXCEPT !.pc = "insert", !.new = f]),
              FlowAdd(f, k, Top.acts)
       PROVE  FitInv'
  <2>1. f \in FlowObj /\ flow[f].st = "free" /\ ref[f] = 0
    BY <1>2, FreshIs, FreeIsUnused
  <2>2. flow'[f].key = k /\ \A g \in FlowObj \ {f}: flow'[g] = flow[g]
    <3> DEFINE new == [NoFlow EXCEPT !.st = "live", !.key = k, !.acts = Top.acts]
    <3>1. flow' = [flow EXCEPT ![f] = new] /\ new.key = k
      BY <1>10 DEF FlowAdd, NoFlow
    <3> HIDE DEF new
    <3> QED  BY <1>2, <2>1, <3>1 DEF FlowTypes
  <2>3. EmcFit'
    <3>1. \A s \in Slot: emc'[s] = emc[s]
      BY <1>1
    <3>2. \A g \in FlowObj: ref[g] > 0 => flow'[g].key = flow[g].key
      BY <2>1, <2>2
    <3> QED  BY <1>2, <3>1, <3>2, EmcKept
  <2>4. PICK n \in Nat \ {0}: n = Len(stack) /\ DOMAIN stack = 1 .. n /\ Top = stack[n]
    BY <1>1, <1>2, TopOwns
  <2>5. PICK gr \in InputFrame:
           /\ gr = [Top EXCEPT !.pc = "insert", !.new = f]
           /\ gr \in Frame /\ gr.pc = "insert" /\ gr.missed = Top.missed
           /\ gr.i = Top.i /\ gr.new = f /\ gr.batches = Top.batches /\ gr.old = Top.old
           /\ Pending(gr) \subseteq Pending(Top) /\ Open(gr) \subseteq Open(Top)
    <3>1. f \in MaybeFlow
      BY <2>1 DEF MaybeFlow
    <3> QED  BY <1>8, <3>1
  <2>6. TopIs(stack', gr)
    BY <1>1, <1>2, <1>10, <2>5, SetTopIs
  <2>7. PICK s \in Seq(Frame): s = stack'
    BY <2>6 DEF TopIs
  <2>8. DOMAIN s = 1 .. n /\ s[n] = gr /\ \A l \in 1 .. n - 1: s[l] = stack[l]
    BY <2>4, <2>6, <2>7, Members DEF TopIs
  <2>9. s # <<>> /\ UNCHANGED pkt /\ PinKept
    BY <1>1, <2>4, <2>8 DEF SoundStep
  <2>10. \A l \in DOMAIN stack: FrameFit(stack[l])
    BY DEF SoundStep, FitInv
  <2>11. ASSUME NEW l \in 1 .. n - 1 PROVE FrameFit(s[l])'
    <3>1. PICK fr \in Frame: fr = s[l] /\ fr = stack[l]
      BY <2>8, Members
    <3>2. l \in DOMAIN stack
      BY <2>4
    <3>3. FrameFit(fr)'
      BY <1>1, <1>2, <2>7, <2>9, <2>10, <3>1, <3>2, FrameKept
    <3> QED  BY <3>1, <3>3
  <2>12. FrameFit(gr)'
    <3>1. PICK fr \in InputFrame: fr = Top
      BY <1>3
    <3>2. n \in DOMAIN stack /\ fr \in Frame
      BY <2>4, <3>1, InputTypes
    <3>3. FrameFit(fr)'
      BY <1>1, <1>2, <2>4, <2>7, <2>9, <2>10, <3>1, <3>2, FrameKept
    <3>4. RulesFit(fr)' /\ QueuedFit(fr)' /\ fr.kind = "input"
      BY <3>3, InputTypes DEF FrameFit, InputFit
    <3>5. Fits(f, k)'
      BY <2>2 DEF Fits
    <3>6. gr.missed[gr.i].key = k /\ gr.missed = fr.missed /\ gr.old = fr.old /\ gr.batches = fr.batches
          /\ gr.kind = "input" /\ Pending(gr) \subseteq Pending(fr) /\ Open(gr) \subseteq Open(fr)
      BY <1>4, <1>5, <2>5, <3>1, InputTypes
    <3>7. RulesFit(gr)'
      BY <2>5, <3>4, <3>5, <3>6 DEF RulesFit
    <3>8. QueuedFit(gr)'
      BY <3>4, <3>6 DEF QueuedFit
    <3> QED  BY <2>5, <3>6, <3>7, <3>8 DEF FrameFit, InputFit
  <2>13. \A l \in 1 .. n: l = n \/ l \in 1 .. n - 1
    BY LastOrBefore
  <2>14. \A l \in DOMAIN s: FrameFit(s[l])'
    BY <2>8, <2>11, <2>12, <2>13
  <2> QED  BY <2>3, <2>7, <2>14 DEF FitInv
<1> QED  BY <1>7, <1>9, <1>10

\* No batch refers to the cache any more.
LEMMA ResetBatchesFit ==
  ASSUME SoundStep, ResetBatches
  PROVE  FitInv'
<1>1. /\ stack # <<>> /\ Top.kind = "input" /\ Top.pc = "reset" /\ UNCHANGED <<flow, pkt, emc>>
  BY DEF ResetBatches, At, pktVars, flowVars, cacheVars
<1>2. /\ StackTypes /\ EmcFit /\ InputFit(Top)
  BY <1>1, TopFits
<1>3. /\ Top \in InputFrame /\ Top.batches \in Seq(Batch)
  BY <1>1, <1>2, TopIsInput
<1> DEFINE gr == [Top EXCEPT !.pc = "execute", !.i = 1]
<1>4. PICK x \in Nat \ {0}: x = 1
  OBVIOUS
<1>5. InputIs(gr, "execute", Top.pkts, Top.missed, x, Top.new, Top.acts, Top.batches, Top.old, Top.own)
  BY <1>3, <1>4, WithPcI DEF Place
<1>6. stack' = SetTop(gr)
  BY DEF ResetBatches
<1> HIDE DEF gr
<1>7. /\ gr \in InputFrame /\ gr \in Frame /\ gr.pc = "execute" /\ gr.missed = Top.missed
      /\ gr.batches = Top.batches /\ gr.old = Top.old
  BY <1>5 DEF InputIs, Frame
<1>8. Pending(gr) = {}
  BY <1>7 DEF Pending
<1>9. Open(gr) \subseteq Open(Top)
  BY <1>1, <1>7 DEF Open
<1>10. FrameFit(gr)
  BY <1>2, <1>3, <1>7, <1>8, <1>9, FitWithMissed
<1>11. EmcFit' /\ OnlyFreed
  BY <1>1, <1>2, EmcFitSame, SameOnly
<1> QED  BY <1>1, <1>6, <1>7, <1>10, <1>11, FitTop

\* The packets of a batch came in by the port of its flow.
LEMMA ExecuteBatchFit ==
  ASSUME SoundStep, ExecuteBatch
  PROVE  FitInv'
<1>1. /\ stack # <<>> /\ Top.kind = "input" /\ Top.pc = "execute" /\ Top.i <= Len(Top.batches)
      /\ UNCHANGED <<flow, pkt, emc>>
  BY DEF ExecuteBatch, At, pktVars, flowVars, cacheVars
<1>2. /\ StackTypes /\ FlowTypes /\ EmcFit /\ InputFit(Top)
  BY <1>1, TopFits
<1>3. /\ Top \in InputFrame /\ Top.batches \in Seq(Batch) /\ Top.i \in Nat \ {0}
  BY <1>1, <1>2, TopIsInput
<1>4. PICK n \in Nat: DOMAIN Top.batches = 1 .. n /\ n = Len(Top.batches)
  BY <1>3, Members
<1>5. Top.i \in DOMAIN Top.batches
  BY <1>1, <1>3, <1>4
<1>6. PICK b \in Batch: b = Top.batches[Top.i]
  BY <1>3, <1>5
<1>7. PICK x \in Nat \ {0}: x = Top.i + 1
  BY <1>3
<1> DEFINE gr == [Top EXCEPT !.i = x]
<1>8. b.pkts \in Seq(Packet) /\ flow[b.flow].acts \in Seq(ActionKind)
  BY <1>2 DEF Batch, FlowTypes, Flow
<1>9. PICK hr \in Frame: /\ hr = Actions(b.pkts, flow[b.flow].acts, TRUE)
                         /\ hr.kind = "actions" /\ hr.pkts = b.pkts
  <2>1. PICK ps \in Seq(Packet), acts \in Seq(ActionKind), yes \in BOOLEAN:
          ps = b.pkts /\ acts = flow[b.flow].acts /\ yes = TRUE
    BY <1>8
  <2>2. PICK ar \in Frame: ar = Actions(ps, acts, yes) /\ ar.kind = "actions" /\ ar.pkts = ps
    BY ActionsIs
  <2> QED  BY <2>1, <2>2
<1>10. stack' = Append(SetTop(gr), hr)
  BY <1>6, <1>7, <1>9 DEF ExecuteBatch
<1>11. InputIs(gr, "execute", Top.pkts, Top.missed, x, Top.new, Top.acts, Top.batches, Top.old, Top.own)
  BY <1>1, <1>3, WithI
<1> HIDE DEF gr
<1>12. /\ gr \in InputFrame /\ gr \in Frame /\ gr.pc = "execute" /\ gr.missed = Top.missed /\ gr.i = x
       /\ gr.batches = Top.batches /\ gr.old = Top.old
  BY <1>11 DEF InputIs, Frame
<1>13. Pending(gr) = {}
  BY <1>12 DEF Pending
<1>14. Open(gr) \subseteq Open(Top) /\ Top.i \in Open(Top)
  <2>1. \A j \in 1 .. n: j >= x => j >= Top.i
    BY <1>3, <1>7
  <2>2. Top.i >= Top.i
    BY <1>3
  <2> QED  BY <1>1, <1>4, <1>5, <1>12, <2>1, <2>2 DEF Open
<1>15. FrameFit(gr)
  BY <1>2, <1>3, <1>12, <1>13, <1>14, FitWithMissed
<1>16. FrameFit(hr)
  <2>1. \A p \in ToSet(b.pkts): Fits(b.flow, pkt[p])
    BY <1>2, <1>6, <1>14 DEF InputFit, QueuedFit
  <2>2. PortsAlike(ToSet(hr.pkts))
    BY <1>9, <2>1 DEF PortsAlike, Fits
  <2> QED  BY <1>9, <2>2 DEF FrameFit
<1>17. EmcFit' /\ OnlyFreed
  BY <1>1, <1>2, EmcFitSame, SameOnly
<1> QED  BY <1>1, <1>10, <1>12, <1>15, <1>16, <1>17, FitPush

LEMMA ReturnFit ==
  ASSUME SoundStep, InputReturns \/ CallerFrees \/ ActionsReturn
  PROVE  FitInv'
<1>1. stack # <<>> /\ stack' = Front(stack) /\ UNCHANGED <<flow, emc>>
  BY DEF InputReturns, CallerFrees, ActionsReturn, At, Return, cacheVars
<1>2. (\E ps \in {ToSet(Top.pkts)}: Delete(ps)) \/ UNCHANGED pkt
  BY DEF InputReturns, CallerFrees, ActionsReturn, pktVars
<1>3. EmcFit' /\ OnlyFreed
  BY <1>1, <1>2, TopFits, EmcFitSame, DeleteOnly, SameOnly
<1> QED  BY <1>1, <1>3, FitPop

LEMMA AfterFits ==
  ASSUME SoundStep, stack # <<>>, Top.kind = "actions", Top.acts # <<>>
  PROVE  /\ AfterAction \in Frame /\ FrameFit(AfterAction) /\ PortsAlike(ToSet(Top.pkts))
         /\ Top.pkts \in Seq(Packet) /\ MaySteal \in BOOLEAN
<1>1. StackTypes /\ FrameFit(Top)
  BY TopFits
<1>2. /\ AfterAction \in Frame /\ AfterAction.kind = "actions" /\ Top.pkts \in Seq(Packet)
      /\ MaySteal \in BOOLEAN /\ AfterAction.pkts = (IF MaySteal THEN <<>> ELSE Top.pkts)
  BY <1>1, AfterActionIs
<1>3. PortsAlike(ToSet(Top.pkts))
  BY <1>1 DEF FrameFit
<1>4. ToSet(AfterAction.pkts) \subseteq ToSet(Top.pkts)
  BY <1>2, EmptyIs
<1>5. FrameFit(AfterAction)
  BY <1>2, <1>3, <1>4 DEF FrameFit, PortsAlike
<1> QED  BY <1>2, <1>3, <1>5

LEMMA DropFit ==
  ASSUME SoundStep, Drop
  PROVE  FitInv'
<1>1. /\ stack # <<>> /\ Top.kind = "actions" /\ Top.acts # <<>> /\ UNCHANGED <<flow, emc>>
      /\ stack' = SetTop(AfterAction) /\ (Delete(ToSet(Top.pkts)) \/ UNCHANGED pkt)
  BY DEF Drop, Doing, pktVars, flowVars, cacheVars
<1>2. EmcFit' /\ OnlyFreed
  BY <1>1, TopFits, EmcFitSame, DeleteOnly, SameOnly
<1>3. AfterAction \in Frame /\ FrameFit(AfterAction)
  BY <1>1, AfterFits
<1> QED  BY <1>1, <1>2, <1>3, FitTop

LEMMA ToUserspaceFit ==
  ASSUME SoundStep, ToUserspace
  PROVE  FitInv'
<1>1. /\ stack # <<>> /\ Top.kind = "actions" /\ Top.acts # <<>> /\ UNCHANGED <<flow, emc, pkt>>
      /\ stack' = Append(SetTop(AfterAction), Userspace(Top.pkts, MaySteal))
  BY DEF ToUserspace, Doing, pktVars, flowVars, cacheVars
<1>2. EmcFit' /\ OnlyFreed
  BY <1>1, TopFits, EmcFitSame, SameOnly
<1>3. /\ AfterAction \in Frame /\ FrameFit(AfterAction) /\ PortsAlike(ToSet(Top.pkts))
      /\ Top.pkts \in Seq(Packet) /\ MaySteal \in BOOLEAN
  BY <1>1, AfterFits
<1>4. PICK hr \in Frame: /\ hr = Userspace(Top.pkts, MaySteal) /\ hr.kind = "userspace"
                         /\ hr.pkts = Top.pkts
  BY <1>3, UserspaceIs
<1>5. FrameFit(hr)
  BY <1>3, <1>4 DEF FrameFit
<1>6. stack' = Append(SetTop(AfterAction), hr)
  BY <1>1, <1>4
<1> QED  BY <1>1, <1>2, <1>3, <1>5, <1>6, FitPush

LEMMA UserspaceUpcallFit ==
  ASSUME SoundStep, UserspaceUpcall
  PROVE  FitInv'
<1>1. stack # <<>> /\ Top.kind = "userspace" /\ UNCHANGED <<flow, emc>>
  BY DEF UserspaceUpcall, flowVars, cacheVars
<1>2. StackTypes /\ FrameFit(Top) /\ EmcFit'
  BY <1>1, TopFits, EmcFitSame
<1>3. Top.pkts \in Seq(Packet) /\ Top.steal \in BOOLEAN
  BY <1>1, <1>2, UserspaceTop
<1>4. CASE Top.pkts = <<>>
  <2>1. stack' = Front(stack) /\ OnlyFreed
    BY <1>4, SameOnly DEF UserspaceUpcall, pktVars
  <2> QED  BY <1>1, <1>2, <2>1, FitPop
<1>5. CASE Top.pkts # <<>>
  <2>1. Tail(Top.pkts) \in Seq(Packet) /\ Head(Top.pkts) \in Packet
        /\ ToSet(Tail(Top.pkts)) \subseteq ToSet(Top.pkts)
    BY <1>3, <1>5, TailIs
  <2>2. PICK p \in Packet: p = Head(Top.pkts)
    BY <2>1
  <2> DEFINE gr == [Top EXCEPT !.pkts = Tail(Top.pkts)]
  <2>3. gr \in Frame /\ gr.kind = "userspace" /\ gr.pkts = Tail(Top.pkts)
    BY <1>1, <1>2, <2>1, UserTail
  <2>4. [Top EXCEPT !.pkts = Tail(@)] = gr
    OBVIOUS
  <2> HIDE DEF gr
  <2>5. FrameFit(gr)
    BY <1>1, <1>2, <2>1, <2>3 DEF FrameFit, PortsAlike
  <2>6. CASE stack' = SetTop(gr) /\ (Delete({p}) \/ UNCHANGED pkt)
    <3>1. OnlyFreed
      BY <2>6, DeleteOnly, SameOnly
    <3> QED  BY <1>1, <1>2, <2>3, <2>5, <2>6, <3>1, FitTop
  <2>7. ASSUME NEW acts \in Program, UNCHANGED pkt,
               stack' = Append(SetTop(gr), Actions(<<p>>, acts, Top.steal))
        PROVE  FitInv'
    <3>1. acts \in Seq(ActionKind)
      BY NetdevInputAssumption DEF ActionKind
    <3>2. PICK b \in BOOLEAN: b = Top.steal
      BY <1>3
    <3>3. PICK hr \in Frame: hr = Actions(<<p>>, acts, b) /\ FrameFit(hr)
      BY <3>1, FitOnePacket
    <3>4. stack' = Append(SetTop(gr), hr)
      BY <2>7, <3>2, <3>3
    <3>5. OnlyFreed
      BY <2>7, SameOnly
    <3> QED  BY <1>1, <1>2, <2>3, <2>5, <3>3, <3>4, <3>5, FitPush
  <2> QED  BY <1>5, <2>2, <2>4, <2>6, <2>7 DEF UserspaceUpcall, pktVars
<1> QED  BY <1>4, <1>5

-----------------------------------------------------------------------------
(* Packets that are input *)

\* What a call uses is had by it or by a call below.
LEMMA UsesOwned ==
  ASSUME StackTypes, PacketInv, NEW l \in DOMAIN stack
  PROVE  \A p \in Own(stack[l]) \cup ToSet(stack[l].pkts):
            \E m \in DOMAIN stack: m <= l /\ p \in Own(stack[m])
<1>1. stack[l] \in Frame
  BY DEF StackTypes
<1>2. PICK n \in Nat: n = Len(stack) /\ DOMAIN stack = 1 .. n
  BY Members DEF StackTypes
<1>3. l <= l /\ \A m \in 1 .. l - 1: m \in DOMAIN stack /\ m <= l
  BY <1>2
<1>4. CASE Lent(stack[l])
  <2>1. \A p \in ToSet(stack[l].pkts): \E m \in 1 .. l - 1: p \in Own(stack[m])
    BY <1>4 DEF PacketInv, LentInv
  <2> QED  BY <1>3, <2>1
<1>5. CASE ~Lent(stack[l])
  <2>1. stack[l].kind = "input" => ToSet(stack[l].pkts) \subseteq Own(stack[l])
    BY <1>1, KindIs, InputOwns
  <2>2. stack[l].kind # "input" => ToSet(stack[l].pkts) \subseteq Own(stack[l])
    BY <1>1, <1>5, KindIs DEF Own, Lent
  <2> QED  BY <1>3, <2>1, <2>2
<1> QED  BY <1>4, <1>5

UsedOwned ==
    \A l \in DOMAIN stack: \A p \in Own(stack[l]) \cup ToSet(stack[l].pkts):
       \E m \in DOMAIN stack: m <= l /\ p \in Own(stack[m])

LEMMA AllOwned == StackTypes /\ PacketInv => UsedOwned
  BY UsesOwned DEF UsedOwned

\* A call begins with packets of one port.
LEMMA InputCallFits ==
  ASSUME NEW ps \in Seq(Packet), NEW fr, NEW old,
         InputIs(fr, "emc", ps, <<>>, 1, Null, <<>>, <<>>, old, ToSet(ps)),
         \A f \in old: flow'[f].dead, \A p, q \in ToSet(ps): Port[pkt'[p]] = Port[pkt'[q]]
  PROVE  FrameFit(fr)'
<1>1. /\ fr.kind = "input" /\ fr.pc = "emc" /\ fr.pkts = ps /\ fr.missed = <<>>
      /\ fr.batches = <<>> /\ fr.old = old
  BY DEF InputIs
<1>2. DOMAIN fr.missed = {} /\ DOMAIN fr.batches = {} /\ Pending(fr) = {} /\ Open(fr) = {}
  BY <1>1, EmptyIs DEF Pending, Open
<1>3. PortsAlike(ToSet(fr.pkts))' /\ MissedAlike(fr)'
  BY <1>1, <1>2 DEF PortsAlike, MissedAlike
<1>4. RulesFit(fr)' /\ QueuedFit(fr)'
  BY <1>1, <1>2 DEF RulesFit, QueuedFit
<1> QED  BY <1>1, <1>3, <1>4 DEF FrameFit, InputFit

LEMMA InputCallOld ==
  ASSUME NEW ps \in Seq(Packet), UNCHANGED flow
  PROVE  \E fr \in Frame: \E old: /\ fr = InputCall(ps) /\ \A f \in old: flow'[f].dead
                                  /\ InputIs(fr, "emc", ps, <<>>, 1, Null, <<>>, <<>>, old, ToSet(ps))
<1>1. /\ InputIs(InputCall(ps), "emc", ps, <<>>, 1, Null, <<>>, <<>>, {f \in FlowObj: flow[f].dead /\ ref[f] > 0}, ToSet(ps))
      /\ InputCall(ps) \in Frame
  BY InputCallIs
<1>2. PICK old: old = {f \in FlowObj: flow[f].dead /\ ref[f] > 0}
  OBVIOUS
<1>3. \A f \in old: flow'[f].dead
  BY <1>2
<1> QED  BY <1>1, <1>2, <1>3

LEMMA InputFits ==
  ASSUME SoundStep, Input
  PROVE  FitInv'
<1>1. stack = <<>> /\ UNCHANGED <<flow, emc>>
  BY DEF Input, flowVars, cacheVars
<1>2. PICK n \in 1 .. Burst: \E keys \in [1 .. n -> Key]: \E ps \in Fresh(n):
        /\ \A i \in 1 .. n: Port[keys[i]] = Port[keys[1]]
        /\ stack' = <<InputCall(ps)>>
        /\ pkt' = [p \in Packet |-> IF p \in ToSet(ps) THEN keys[CHOOSE i \in 1 .. n: ps[i] = p] ELSE pkt[p]]
  BY DEF Input
<1>3. n \in Nat
  BY NetdevInputAssumption
<1>4. PICK keys \in [1 .. n -> Key]: \E ps \in Fresh(n):
        /\ \A i \in 1 .. n: Port[keys[i]] = Port[keys[1]]
        /\ stack' = <<InputCall(ps)>>
        /\ pkt' = [p \in Packet |-> IF p \in ToSet(ps) THEN keys[CHOOSE i \in 1 .. n: ps[i] = p] ELSE pkt[p]]
  BY <1>2
<1>5. PICK ps \in Fresh(n):
        /\ \A i \in 1 .. n: Port[keys[i]] = Port[keys[1]]
        /\ stack' = <<InputCall(ps)>>
        /\ pkt' = [p \in Packet |-> IF p \in ToSet(ps) THEN keys[CHOOSE i \in 1 .. n: ps[i] = p] ELSE pkt[p]]
  BY <1>4
<1>6. ps \in Seq(Packet) /\ DOMAIN ps = 1 .. n
  BY <1>3, FreshPackets
<1>7. \A p \in ToSet(ps): Port[pkt'[p]] = Port[keys[1]]
  <2> TAKE p \in ToSet(ps)
  <2>1. PICK i \in 1 .. n: ps[i] = p
    BY <1>6 DEF ToSet
  <2>2. PICK j \in 1 .. n: j = CHOOSE h \in 1 .. n: ps[h] = p
    BY <2>1
  <2>3. p \in Packet
    BY <1>6, Members
  <2>4. pkt'[p] = keys[j]
    BY <1>5, <2>2, <2>3
  <2> QED  BY <1>5, <2>4
<1>8. PICK fr \in Frame: \E old: /\ fr = InputCall(ps) /\ \A f \in old: flow'[f].dead
                                 /\ InputIs(fr, "emc", ps, <<>>, 1, Null, <<>>, <<>>, old, ToSet(ps))
  BY <1>1, <1>6, InputCallOld
<1>9. FrameFit(fr)'
  <2>1. PICK old: /\ fr = InputCall(ps) /\ \A f \in old: flow'[f].dead
                  /\ InputIs(fr, "emc", ps, <<>>, 1, Null, <<>>, <<>>, old, ToSet(ps))
    BY <1>8
  <2> QED  BY <1>6, <1>7, <2>1, InputCallFits
<1>10. stack' = <<fr>>
  BY <1>5, <1>8
<1>11. DOMAIN stack' = {1} /\ stack'[1] = fr
  BY <1>10
<1>12. EmcFit'
  BY <1>1, EmcFitSame DEF SoundStep, FitInv
<1> QED  BY <1>9, <1>11, <1>12 DEF FitInv

LEMMA ExecuteCallFits ==
  ASSUME SoundStep, ExecuteCall
  PROVE  FitInv'
<1>1. stack = <<>> /\ UNCHANGED <<flow, emc>>
  BY DEF ExecuteCall, flowVars, cacheVars
<1>2. PICK k \in Key, acts \in Program: \E ps \in Fresh(1):
        stack' = <<Caller(ps[1]), Actions(ps, acts, FALSE)>>
  BY DEF ExecuteCall
<1>3. PICK ps \in Fresh(1): stack' = <<Caller(ps[1]), Actions(ps, acts, FALSE)>>
  BY <1>2
<1>4. ps \in Seq(Packet) /\ DOMAIN ps = 1 .. 1 /\ ps[1] \in Packet /\ acts \in Seq(ActionKind)
  <2>1. 1 \in Nat /\ 1 \in 1 .. 1
    OBVIOUS
  <2>2. ps \in Seq(Packet) /\ DOMAIN ps = 1 .. 1 /\ \A i \in 1 .. 1: ps[i] \in Packet /\ pkt[ps[i]] = Null
    BY <2>1, FreshPackets
  <2>3. acts \in Seq(ActionKind)
    BY NetdevInputAssumption DEF ActionKind
  <2> QED  BY <2>1, <2>2, <2>3
<1>5. PICK p \in Packet: p = ps[1]
  BY <1>4
<1>6. ToSet(ps) = {p} /\ ToSet(<<p>>) = {p}
  BY <1>4, <1>5 DEF ToSet
<1>7. PICK fr \in Frame: fr = Caller(p) /\ fr.kind = "caller" /\ fr.pkts = <<p>>
  BY <1>4, CallerIs
<1>8. PICK hr \in Frame: hr = Actions(ps, acts, FALSE) /\ hr.kind = "actions" /\ hr.pkts = ps
  <2>1. PICK b \in BOOLEAN: b = FALSE
    OBVIOUS
  <2>2. PICK ar \in Frame: ar = Actions(ps, acts, b) /\ ar.kind = "actions" /\ ar.pkts = ps
    BY <1>4, ActionsIs
  <2> QED  BY <2>1, <2>2
<1>9. stack' = <<fr, hr>>
  BY <1>3, <1>5, <1>7, <1>8
<1>10. DOMAIN stack' = {1, 2} /\ stack'[1] = fr /\ stack'[2] = hr
  BY <1>9
<1>11. FrameFit(fr)' /\ FrameFit(hr)'
  <2>1. ToSet(fr.pkts) = {p} /\ ToSet(hr.pkts) = {p}
    BY <1>6, <1>7, <1>8
  <2>2. PortsAlike(ToSet(fr.pkts))' /\ PortsAlike(ToSet(hr.pkts))'
    BY <2>1 DEF PortsAlike
  <2>3. fr.kind # "input" /\ hr.kind # "input"
    BY <1>7, <1>8
  <2> QED  BY <2>2, <2>3 DEF FrameFit
<1>12. EmcFit'
  BY <1>1, EmcFitSame DEF SoundStep, FitInv
<1> QED  BY <1>10, <1>11, <1>12 DEF FitInv

\* Packets that other calls use are not recirculated.
LEMMA RecirculateFit ==
  ASSUME SoundStep, Recirculate
  PROVE  FitInv'
<1>1. StackTypes
  BY DEF SoundStep, CallInv
<1>2. /\ stack # <<>> /\ Top.kind = "actions" /\ Top.acts # <<>> /\ Top.pkts \in Seq(Packet)
      /\ UNCHANGED <<flow, emc>>
      /\ \E n \in Nat: \E ps \in Seq(Packet): \E keep:
           Recirculates(n, ps, keep) /\ DOMAIN ps = 1 .. n /\ Len(ps) = n /\ DOMAIN Top.pkts = 1 .. n
  BY <1>1, RecirculateIs
<1>3. PICK n \in Nat: \E ps \in Seq(Packet): \E keep:
        Recirculates(n, ps, keep) /\ DOMAIN ps = 1 .. n /\ Len(ps) = n /\ DOMAIN Top.pkts = 1 .. n
  BY <1>2
<1>4. PICK ps \in Seq(Packet): \E keep:
        Recirculates(n, ps, keep) /\ DOMAIN ps = 1 .. n /\ Len(ps) = n /\ DOMAIN Top.pkts = 1 .. n
  BY <1>3
<1>5. PICK keep: Recirculates(n, ps, keep) /\ DOMAIN ps = 1 .. n /\ Len(ps) = n /\ DOMAIN Top.pkts = 1 .. n
  BY <1>4
<1>6. keep \in SUBSET (1 .. n) /\ \A i \in 1 .. n: ps[i] \in Packet
  BY <1>5 DEF Recirculates
<1>7. /\ KeptOf(ps, keep) \in Seq(Packet) /\ DOMAIN KeptOf(ps, keep) = 1 .. Cardinality(keep)
      /\ \A j \in 1 .. Cardinality(keep): KeptOf(ps, keep)[j] = ps[Nth(j, keep)] /\ Nth(j, keep) \in keep
  BY ONLY <1>6, n \in Nat, KeptPackets
<1>8. PICK kept \in Seq(Packet): kept = KeptOf(ps, keep)
  BY <1>7
<1>9. \A p \in ToSet(kept): p \in Packet /\ \E i \in 1 .. n: ps[i] = p
  <2> TAKE p \in ToSet(kept)
  <2>1. PICK j \in DOMAIN kept: kept[j] = p
    BY Members
  <2>2. p = ps[Nth(j, keep)] /\ Nth(j, keep) \in 1 .. n
    BY <1>6, <1>7, <1>8, <2>1
  <2> QED  BY <1>6, <2>2
<1>10. ToSet(ps) = {ps[i]: i \in 1 .. n}
  BY <1>5 DEF ToSet
<1> DEFINE K == ToSet(kept)
           from(p) == CHOOSE i \in 1 .. n: ps[i] = p
<1>11. pkt' = [p \in Packet |-> CASE p \notin ToSet(ps) -> pkt[p]
                 [] p \in K -> Recirc[pkt[Top.pkts[from(p)]]]
                 [] OTHER -> Null]
  BY <1>5, <1>8 DEF Recirculates
<1>12. /\ AfterAction \in Frame /\ FrameFit(AfterAction) /\ PortsAlike(ToSet(Top.pkts))
  BY <1>2, AfterFits
<1>13. \A p \in K: \E i \in 1 .. n: pkt'[p] = Recirc[pkt[Top.pkts[i]]] /\ pkt[Top.pkts[i]] \in Key
                                     /\ Top.pkts[i] \in ToSet(Top.pkts)
  <2> TAKE p \in K
  <2>1. PICK i \in 1 .. n: i = from(p)
    BY <1>9
  <2>2. p \in ToSet(ps) /\ p \in Packet
    BY <1>9, <1>10
  <2>3. pkt'[p] = Recirc[pkt[Top.pkts[i]]]
    BY <1>11, <2>1, <2>2
  <2>4. Top.pkts[i] \in ToSet(Top.pkts)
    BY <1>5 DEF ToSet
  <2>5. PacketInv
    BY DEF SoundStep
  <2>6. \A q \in ToSet(Top.pkts): q \in Packet /\ pkt[q] # Null
    BY <1>1, <1>2, <2>5, TopUses
  <2>7. pkt[Top.pkts[i]] \in Key
    BY <2>4, <2>5, <2>6 DEF PacketInv, PktType
  <2> QED  BY <2>3, <2>4, <2>7
<1>14. \A p, q \in K: Port[pkt'[p]] = Port[pkt'[q]]
  <2> TAKE p, q \in K
  <2>1. PICK i \in 1 .. n: pkt'[p] = Recirc[pkt[Top.pkts[i]]] /\ pkt[Top.pkts[i]] \in Key
                           /\ Top.pkts[i] \in ToSet(Top.pkts)
    BY <1>13
  <2>2. PICK j \in 1 .. n: pkt'[q] = Recirc[pkt[Top.pkts[j]]] /\ pkt[Top.pkts[j]] \in Key
                           /\ Top.pkts[j] \in ToSet(Top.pkts)
    BY <1>13
  <2>3. Port[pkt[Top.pkts[i]]] = Port[pkt[Top.pkts[j]]]
    BY <1>12, <2>1, <2>2 DEF PortsAlike
  <2>4. PICK a, b \in Key: a = pkt[Top.pkts[i]] /\ b = pkt[Top.pkts[j]]
    BY <2>1, <2>2
  <2>5. \A h, k \in Key: Port[h] = Port[k] => Port[Recirc[h]] = Port[Recirc[k]]
    BY NetdevInputAssumption
  <2>6. Port[a] = Port[b]
    BY <2>3, <2>4
  <2>7. Port[Recirc[a]] = Port[Recirc[b]]
    BY <2>5, <2>6
  <2>8. pkt'[p] = Recirc[a] /\ pkt'[q] = Recirc[b]
    BY <2>1, <2>2, <2>4
  <2> QED  BY <2>7, <2>8
<1> HIDE DEF K, from
<1>15. \A p \in Packet: p \notin K /\ pkt'[p] # Null => pkt'[p] = pkt[p]
  BY <1>11
<1>16. StackTypes' /\ PacketInv'
  BY DEF SoundStep
<1>17. EmcFit'
  BY <1>2, EmcFitSame DEF SoundStep, FitInv
<1>18. PICK s \in Seq(Frame): s = stack'
  BY <1>16 DEF StackTypes
<1>19. ASSUME NEW l \in DOMAIN s, FrameFit(s[l]),
              \A m \in DOMAIN s: m <= l => \A p \in Own(s[m]): p \notin K
       PROVE  FrameFit(s[l])'
  <2>1. PICK fr \in Frame: fr = s[l] /\ PlaceOk(fr)
    BY <1>16, <1>18 DEF StackTypes
  <2>2. \A p \in Own(fr) \cup ToSet(fr.pkts): p \in Packet /\ pkt'[p] # Null
    <3>1. UsedInUse'
      BY <1>16, AllInUse, PTL
    <3> QED  BY <1>18, <2>1, <3>1 DEF UsedInUse
  <2>3. \A p \in Own(fr) \cup ToSet(fr.pkts): p \notin K
    <3>1. UsedOwned'
      BY <1>16, AllOwned, PTL
    <3> QED  BY <1>18, <1>19, <2>1, <3>1 DEF UsedOwned
  <2>4. \A p \in Own(fr) \cup ToSet(fr.pkts): pkt'[p] = pkt[p]
    BY <1>15, <2>2, <2>3
  <2>5. \A f \in HeldBy(fr): flow'[f].key = flow[f].key /\ (flow[f].dead => flow'[f].dead)
    BY <1>2
  <2>6. FrameFit(fr)
    BY <1>19, <2>1
  <2>7. FrameFit(fr)'
    BY <2>1, <2>4, <2>5, <2>6, FrameFitSame
  <2> QED  BY <2>1, <2>7
<1>20. PICK top \in Nat \ {0}: top = Len(stack) /\ DOMAIN stack = 1 .. top
  BY <1>1, <1>2, SetTopIs
<1>21. \A l \in DOMAIN stack: FrameFit(stack[l])
  BY DEF SoundStep, FitInv
<1>22. PICK ar \in Frame: ar = AfterAction /\ FrameFit(ar)
  BY <1>12
<1>23. CASE kept = <<>> /\ stack' = SetTop(ar)
  <2>1. DOMAIN s = 1 .. top /\ s[top] = ar /\ \A l \in 1 .. top - 1: s[l] = stack[l]
    BY <1>1, <1>2, <1>18, <1>20, <1>23, SetTopIs, Members DEF TopIs
  <2>2. K = {}
    BY <1>23, EmptyIs DEF K
  <2>3. \A l \in 1 .. top: l = top \/ l \in 1 .. top - 1
    BY LastOrBefore
  <2>4. \A l \in DOMAIN s: FrameFit(s[l])
    BY <1>20, <1>21, <1>22, <2>1, <2>3
  <2>5. \A l \in DOMAIN s: FrameFit(s[l])'
    BY <1>19, <2>2, <2>4
  <2> QED  BY <1>17, <1>18, <2>5 DEF FitInv
<1>24. CASE stack' = Append(SetTop(ar), InputCall(kept))
  <2>0. PICK hr \in Frame: \E old: /\ hr = InputCall(kept) /\ \A f \in old: flow'[f].dead
                                   /\ InputIs(hr, "emc", kept, <<>>, 1, Null, <<>>, <<>>, old, ToSet(kept))
    BY <1>2, InputCallOld
  <2>1. PICK old: /\ hr = InputCall(kept) /\ \A f \in old: flow'[f].dead
                  /\ InputIs(hr, "emc", kept, <<>>, 1, Null, <<>>, <<>>, old, ToSet(kept))
    BY <2>0
  <2>2. FrameFit(hr)'
    BY <1>14, <2>1, InputCallFits DEF K
  <2>3. PushedIs(stack', ar, hr)
    BY <1>1, <1>2, <1>24, <2>1, PushIs
  <2>4. /\ DOMAIN s = 1 .. top + 1 /\ s[top] = ar /\ s[top + 1] = hr
        /\ \A l \in 1 .. top - 1: s[l] = stack[l]
    BY <1>18, <1>20, <2>3, Members DEF PushedIs
  <2>5. K \subseteq Own(hr)
    BY <2>1, InputOwns DEF InputIs, K
  <2>6. \A l \in 1 .. top: l \in DOMAIN s /\ l # top + 1 /\ (l = top \/ l \in 1 .. top - 1)
    BY <2>4
  <2>7. \A m \in 1 .. top: \A p \in Own(s[m]): p \notin K
    <3>1. (\A l, m \in DOMAIN stack: \A p: p \in Own(stack[l]) /\ p \in Own(stack[m]) => l = m)'
      BY <1>16 DEF PacketInv, ApartInv
    <3>2. top + 1 \in DOMAIN s
      BY <2>4
    <3> QED  BY <1>18, <2>4, <2>5, <2>6, <3>1, <3>2
  <2>8. \A l \in 1 .. top: FrameFit(s[l])
    BY <1>20, <1>21, <1>22, <2>4, <2>6
  <2>9. \A l \in 1 .. top: FrameFit(s[l])'
    <3> SUFFICES ASSUME NEW l \in 1 .. top PROVE FrameFit(s[l])'
      OBVIOUS
    <3>1. \A m \in DOMAIN s: m <= l => m \in 1 .. top
      BY <2>4
    <3> QED  BY <1>19, <2>6, <2>7, <2>8, <3>1
  <2>10. \A l \in 1 .. top + 1: l = top + 1 \/ l \in 1 .. top
    OBVIOUS
  <2>11. \A l \in DOMAIN s: FrameFit(s[l])'
    BY <2>2, <2>4, <2>9, <2>10
  <2> QED  BY <1>17, <1>18, <2>11 DEF FitInv
<1>25. stack' = IF kept = <<>> THEN SetTop(ar) ELSE Append(SetTop(ar), InputCall(kept))
  BY <1>5, <1>8, <1>22 DEF Recirculates
<1> QED  BY <1>23, <1>24, <1>25

\* What does not touch the calls and their packets.
LEMMA OtherFit ==
  ASSUME SoundStep, EmcFit', UNCHANGED <<stack, pkt>>
  PROVE  FitInv'
<1>1. CallInv /\ PinKept /\ \A l \in DOMAIN stack: FrameFit(stack[l])
  BY DEF SoundStep, FitInv
<1>2. PICK s: s = stack
  OBVIOUS
<1>3. ASSUME NEW l \in DOMAIN s
      PROVE  FrameFit(s[l])'
  <2>1. stack # <<>> /\ stack' # <<>>
    BY <1>2, <1>3, EmptyIs
  <2>2. PICK fr \in Frame: fr = s[l] /\ FrameFit(fr)
    BY <1>1, <1>2, <1>3 DEF CallInv, StackTypes
  <2>3. FrameFit(fr)'
    BY <1>1, <1>2, <2>1, <2>2, FrameKept
  <2> QED  BY <2>2, <2>3
<1> QED  BY <1>2, <1>3 DEF FitInv

\* The cache through the steps of others: what it refers to is not freed.
LEMMA OtherEmc ==
  ASSUME MemoryInv, EmcFit,
         Sweep \/ Reload \/ FlowPut \/ BeginRemoval \/ Unlink \/ Retire \/ DumpNext \/ DumpReports
           \/ EnableUpcalls \/ DisableUpcalls \/ Reclaim
  PROVE  EmcFit'
<1>1. FlowTypes /\ emc \in [Slot -> Entry] /\ flow \in [FlowObj -> Flow] /\ ref \in [FlowObj -> Nat]
  BY DEF MemoryInv, FlowTypes
<1>2. CASE Sweep
  <2>1. UNCHANGED flow /\ (emc' = [emc EXCEPT ![sweep].flow = Null] \/ UNCHANGED emc)
    BY <1>2 DEF Sweep
  <2>2. \A s \in Slot: emc'[s].flow # Null => emc'[s] = emc[s]
    <3>1. sweep \in Slot
      BY <1>1 DEF FlowTypes
    <3>2. CASE emc' = [emc EXCEPT ![sweep].flow = Null]
      <4>1. emc'[sweep].flow = Null /\ \A s \in Slot \ {sweep}: emc'[s] = emc[s]
        BY <1>1, <3>1, <3>2 DEF Entry
      <4> QED  BY <4>1
    <3> QED  BY <2>1, <3>2
  <2> QED  BY <2>1, <2>2, EmcKept
<1>3. CASE Reload
  <2>1. UNCHANGED flow /\ \A s \in Slot: emc'[s].flow = Null
    BY <1>1, <1>3 DEF Reload, Empty
  <2> QED  BY <2>1, EmcKept
<1>4. CASE FlowPut
  <2>1. PICK k \in Key, acts \in Program:
          \/ \E new \in FreshFlow: FlowAdd(new, k, acts)
          \/ /\ AnyRule(Port[k], k) # Null
             /\ flow' = [flow EXCEPT ![AnyRule(Port[k], k)].acts = acts]
    BY <1>4 DEF FlowPut
  <2>2. UNCHANGED emc
    BY <1>4 DEF FlowPut, cacheVars
  <2>3. CASE \E new \in FreshFlow: FlowAdd(new, k, acts)
    <3>1. PICK f \in FreshFlow: FlowAdd(f, k, acts)
      BY <2>3
    <3>2. f \in FlowObj /\ ref[f] = 0
      BY FreshIs, FreeIsUnused
    <3>3. \A g \in FlowObj \ {f}: flow'[g] = flow[g]
      BY <1>1, <3>1, <3>2 DEF FlowAdd
    <3>4. \A g \in FlowObj: ref[g] > 0 => flow'[g].key = flow[g].key
      BY <3>2, <3>3
    <3> QED  BY <2>2, <3>4, EmcKept
  <2>4. CASE /\ AnyRule(Port[k], k) # Null
             /\ flow' = [flow EXCEPT ![AnyRule(Port[k], k)].acts = acts]
    <3>1. PICK f \in FlowObj: f = AnyRule(Port[k], k)
      BY <1>1, <2>4, RuleIs
    <3>2. flow' = [flow EXCEPT ![f].acts = acts]
      BY <2>4, <3>1
    <3>3. \A g \in FlowObj: flow'[g].key = flow[g].key
      BY <1>1, <3>1, <3>2 DEF Flow
    <3> QED  BY <2>2, <3>3, EmcKept
  <2> QED  BY <2>1, <2>3, <2>4
<1>5. CASE Retire
  <2>1. UNCHANGED emc /\ flow' = [flow EXCEPT ![cmd.cur].dead = TRUE]
    BY <1>5 DEF Retire, cacheVars
  <2>2. \A g \in FlowObj: flow'[g].key = flow[g].key
    BY <1>1, <2>1 DEF Flow
  <2> QED  BY <2>1, <2>2, EmcKept
<1>6. CASE Reclaim
  <2>1. PICK x \in deferred: flow' = [flow EXCEPT ![x.flow] = NoFlow] /\ UNCHANGED emc
    BY <1>6 DEF Reclaim, cacheVars
  <2>2. x.flow \in FlowObj /\ ref[x.flow] = 0
    BY DEF MemoryInv, FlowTypes, Waiting, DeferredOnce
  <2>3. \A g \in FlowObj \ {x.flow}: flow'[g] = flow[g]
    BY <1>1, <2>1
  <2>4. \A g \in FlowObj: ref[g] > 0 => flow'[g].key = flow[g].key
    BY <2>2, <2>3
  <2> QED  BY <2>1, <2>4, EmcKept
<1>7. CASE BeginRemoval \/ Unlink \/ DumpNext \/ DumpReports \/ EnableUpcalls \/ DisableUpcalls
  <2>1. UNCHANGED <<emc, flow>>
    BY <1>7 DEF BeginRemoval, Unlink, DumpNext, DumpReports, EnableUpcalls, DisableUpcalls,
                flowVars, cacheVars
  <2> QED  BY <2>1, EmcFitSame
<1> QED  BY <1>2, <1>3, <1>4, <1>5, <1>6, <1>7

LEMMA InitFit ==
  ASSUME Init
  PROVE  FitInv
<1>1. stack = <<>> /\ DOMAIN stack = {}
  BY EmptyIs DEF Init
<1>2. \A s \in Slot: emc[s].flow = Null
  BY DEF Init, Slot, Empty
<1> QED  BY <1>1, <1>2 DEF FitInv, EmcFit

LEMMA NextFit ==
  ASSUME SoundStep, [Next]_vars
  PROVE  FitInv'
<1>1. CASE Call
  BY <1>1, EmcProcessingFit, ClassifyFit, MissUpcallFit, InstallFit, InsertFit, QueueRuleFit,
     ResetBatchesFit, ExecuteBatchFit, ReturnFit, DropFit, RecirculateFit, ToUserspaceFit,
     UserspaceUpcallFit DEF Call
<1>2. CASE Input \/ ExecuteCall
  BY <1>2, InputFits, ExecuteCallFits
<1>3. CASE Sweep \/ Reload \/ FlowPut \/ BeginRemoval \/ Unlink \/ Retire \/ DumpNext \/ DumpReports
             \/ EnableUpcalls \/ DisableUpcalls \/ Reclaim
  <2>1. UNCHANGED <<stack, pkt>>
    BY <1>3 DEF Sweep, Reload, FlowPut, BeginRemoval, Unlink, Retire, DumpNext, DumpReports,
                EnableUpcalls, DisableUpcalls, Reclaim, pktVars
  <2>2. EmcFit'
    BY <1>3, OtherEmc DEF SoundStep, FitInv
  <2> QED  BY <2>1, <2>2, OtherFit
<1>4. CASE UNCHANGED vars
  <2>1. UNCHANGED <<stack, pkt, emc, flow>>
    BY <1>4 DEF vars, flowVars, cacheVars, pktVars
  <2>2. EmcFit'
    BY <2>1, EmcFitSame DEF SoundStep, FitInv
  <2> QED  BY <2>1, <2>2, OtherFit
<1> QED  BY <1>1, <1>2, <1>3, <1>4 DEF Next

\* What BatchesFit says, from it.
LEMMA BatchesFitIf ==
  ASSUME CallInv, PacketInv, FitInv
  PROVE  BatchesFit
<1> SUFFICES ASSUME NEW l \in Frames("input"), NEW b \in ToSet(stack[l].batches)
             PROVE  /\ b.flow \notin stack[l].old
                    /\ stack[l].pc # "execute" =>
                         \A p \in ToSet(b.pkts): /\ pkt[p] # Null
                                                 /\ Class[pkt[p]] = Class[flow[b.flow].key]
                                                 /\ Port[pkt[p]] = Port[flow[b.flow].key]
  BY DEF BatchesFit
<1>1. l \in DOMAIN stack /\ stack[l].kind = "input"
  BY DEF Frames
<1>2. PICK fr \in InputFrame: fr = stack[l] /\ InputFit(fr) /\ fr.batches \in Seq(Batch)
  <2>1. stack[l] \in Frame /\ FrameFit(stack[l])
    BY <1>1 DEF CallInv, StackTypes, FitInv
  <2>2. stack[l] \in InputFrame /\ InputFit(stack[l])
    BY <1>1, <2>1, KindIs DEF FrameFit
  <2> QED  BY <2>2, InputTypes
<1>3. PICK n \in DOMAIN fr.batches: fr.batches[n] = b
  BY <1>2, Members
<1>4. b.flow \notin fr.old
  BY <1>2, <1>3 DEF InputFit, QueuedFit
<1>5. ASSUME fr.pc # "execute", NEW p \in ToSet(b.pkts)
      PROVE  pkt[p] # Null /\ Fits(b.flow, pkt[p])
  <2>1. n \in Open(fr)
    BY <1>3, <1>5, OpenBefore
  <2>2. Fits(b.flow, pkt[p])
    BY <1>2, <1>3, <1>5, <2>1 DEF InputFit, QueuedFit
  <2> QED  BY <2>2, NetdevInputAssumption DEF Fits
<1> QED  BY <1>2, <1>4, <1>5 DEF Fits

\* All that is needed for one step: references, calls, packets and rules.
IndInv == MemoryInv /\ CallInv /\ PacketInv /\ NoOverlap /\ FitInv

LEMMA InitInv == Init => IndInv
<1> SUFFICES ASSUME Init PROVE IndInv
  OBVIOUS
<1>1. cls = {}
  BY DEF Init
<1>2. NoOverlap
  BY <1>1 DEF NoOverlap
<1> QED  BY <1>2, InitFlows, InitPackets, InitFit DEF IndInv

LEMMA NextInv == IndInv /\ [Next]_vars => IndInv'
<1> SUFFICES ASSUME IndInv, [Next]_vars PROVE IndInv'
  OBVIOUS
<1>1. MemoryInv /\ CallInv /\ PacketInv /\ NoOverlap /\ FitInv /\ StackTypes
  BY DEF IndInv, CallInv
<1>2. HeadHasKey
  BY <1>1, HeadInUse
<1>3. FlowStep
  BY <1>1, <1>2, NextFlows
<1>4. MemoryInv' /\ CallInv'
  BY <1>3 DEF FlowStep
<1>5. PacketInv'
  BY <1>1, NextPackets
<1>6. NoOverlap'
  BY <1>1, NextRules
<1>7. StackTypes' /\ PinKept
  BY <1>3, <1>4 DEF FlowStep, CallInv
<1>8. SoundStep
  BY <1>1, <1>5, <1>7 DEF SoundStep
<1>9. FitInv'
  BY <1>8, NextFit
<1> QED  BY <1>4, <1>5, <1>6, <1>9 DEF IndInv

\* The inductive invariant of the user-space datapath.
THEOREM NetdevInvariance == Spec => []IndInv
  BY InitInv, NextInv, PTL DEF Spec

\* No flow is freed while the cache, a classifier, the table, a batch, a lookup under
\* way or a dump refers to it: dp_netdev_flow_ref and _unref, and ovsrcu_postpone.
THEOREM HeldIsLiveHolds == Spec => []HeldIsLive
<1>1. IndInv => HeldIsLive
  BY LiveIfHeld DEF IndInv
<1> QED  BY <1>1, NetdevInvariance, PTL

\* The batch pointer of a flow points into a call that still queues packets:
\* dp_netdev_input__ resets all of its batches before it executes the first.  A
\* recirculated packet meets a batch of an earlier call in an upcall only, where it
\* can be appended to it, and past its end.
THEOREM BatchIsOpenHolds == Spec => []BatchIsOpen
<1>1. ASSUME IndInv
      PROVE  BatchIsOpen
  <2> SUFFICES ASSUME NEW f \in FlowObj, batch[f] # Null
               PROVE  LET l == batch[f][1] IN
                      /\ l \in Frames("input") /\ stack[l].pc # "execute"
                      /\ batch[f][2] \in DOMAIN stack[l].batches
                      /\ stack[l].batches[batch[f][2]].flow = f
                      /\ (\E k \in Frames("input"): k > l) => stack[l].pc \in {"upcall", "install"}
    BY DEF BatchIsOpen
  <2> DEFINE l == batch[f][1]
  <2>1. /\ l \in Frames("input") /\ stack[l].pc # "execute"
        /\ batch[f][2] \in DOMAIN stack[l].batches
        /\ stack[l].batches[batch[f][2]].flow = f
    BY <1>1 DEF IndInv, CallInv, BatchPlace
  <2>2. (\E k \in Frames("input"): k > l) => stack[l].pc \in {"upcall", "install"}
    <3> HIDE DEF l
    <3> SUFFICES ASSUME NEW k \in Frames("input"), k > l
                 PROVE  stack[l].pc \in {"upcall", "install"}
      OBVIOUS
    <3>1. PICK n \in Nat: n = Len(stack) /\ DOMAIN stack = 1 .. n
      BY <1>1 DEF IndInv, CallInv, StackTypes
    <3>2. k \in 1 .. n /\ l \in 1 .. n
      BY <2>1, <3>1 DEF Frames
    <3>3. l # n
      BY <3>2
    <3>4. stack[l].pc \in {"upcall", "install", "execute"}
      BY <1>1, <2>1, <3>1, <3>3 DEF IndInv, CallInv, Nested, Frames
    <3> QED  BY <2>1, <3>4
  <2> QED  BY <2>1, <2>2
<1> QED  BY <1>1, NetdevInvariance, PTL

\* A batch that was overrun has a packet of another call: the packets of a call are a
\* burst at most, and none of them is queued twice.
THEOREM BurstIsEnoughHolds == Spec => []BurstIsEnough
<1>1. ASSUME IndInv
      PROVE  BurstIsEnough
  <2> SUFFICES ASSUME NEW l \in Frames("input"), NEW b \in ToSet(stack[l].batches),
                      ToSet(b.pkts) \subseteq stack[l].own
               PROVE  ~(Len(b.pkts) > Burst)
    BY DEF BurstIsEnough
  <2>1. l \in DOMAIN stack /\ stack[l].kind = "input"
    BY DEF Frames
  <2>2. PICK fr \in InputFrame: fr = stack[l] /\ PlaceOk(fr) /\ Neat(fr)
    <3>1. stack[l] \in Frame /\ PlaceOk(stack[l]) /\ Neat(stack[l])
      BY <1>1, <2>1 DEF IndInv, CallInv, StackTypes, PacketInv, NeatInv
    <3> QED  BY <2>1, <3>1, KindIs
  <2>3. fr.batches \in Seq(Batch) /\ fr.kind = "input"
    BY InputTypes
  <2>4. PICK n \in DOMAIN fr.batches: b = fr.batches[n]
    BY <2>2 DEF ToSet
  <2>a. fr.batches[n].pkts \in Seq(Packet)
    <3>1. fr.batches[n] \in Batch
      BY <2>3, <2>4
    <3> QED  BY <3>1 DEF Batch
  <2>5. CASE fr.pc = "execute"
    <3>1. Len(fr.batches[n].pkts) <= Burst
      BY <2>2, <2>3, <2>5 DEF PlaceOk
    <3>2. fr.batches[n].pkts \in Seq(Packet)
      BY <2>4, <2>a
    <3> QED  BY <2>4, <3>1, <3>2, NetdevInputAssumption
  <2>6. CASE fr.pc # "execute"
    <3>1. n \in Open(fr)
      BY <2>6, OpenBefore
    <3>2. b.pkts \in Seq(Packet)
      BY <2>4, <2>a
    <3>3. \A i, j \in DOMAIN b.pkts: b.pkts[i] = b.pkts[j] => i = j
      BY <2>2, <2>3, <2>4, <3>1 DEF Neat, BatchesOnce, Distinct
    <3>4. Cardinality(ToSet(b.pkts)) = Len(b.pkts) /\ Len(b.pkts) \in Nat
      BY <3>2, <3>3, MembersCount
    <3>5. IsFiniteSet(fr.own) /\ Cardinality(fr.own) <= Burst
      BY <2>2, <2>3 DEF PlaceOk
    <3>6. Cardinality(ToSet(b.pkts)) <= Cardinality(fr.own) /\ Cardinality(fr.own) \in Nat
      BY <2>2, <3>5, FS_Subset, FS_CardinalityType
    <3> QED  BY <3>4, <3>5, <3>6, NetdevInputAssumption
  <2> QED  BY <2>5, <2>6
<1> QED  BY <1>1, NetdevInvariance, PTL

\* No packet is freed twice and none is lost, whatever actions recirculate, copy,
\* drop or take it: may_steal in dp_netdev_execute_actions.
THEOREM FreedOnceHolds == Spec => []FreedOnce
<1>1. IndInv => FreedOnce
  BY FreedOnceIf DEF IndInv
<1> QED  BY <1>1, NetdevInvariance, PTL

\* A classifier has no two rules for the same packets: handle_packet_upcall and
\* flow_put_on_pmd look again under flow_mutex before they add one.
THEOREM NoOverlapHolds == Spec => []NoOverlap
<1>1. IndInv => NoOverlap
  BY DEF IndInv
<1> QED  BY <1>1, NetdevInvariance, PTL

\* The packets of a batch are in use and are those its flow matches, by class and by
\* port, until the batch is executed, and the flow was not dead when the call began:
\* emc_lookup, fast_path_processing and handle_packet_upcall.  The thread has no
\* steps once a batch was overrun, and the theorem says nothing of what comes then.
THEOREM BatchesFitHolds == Spec => []BatchesFit
<1>1. IndInv => BatchesFit
  BY BatchesFitIf DEF IndInv
<1> QED  BY <1>1, NetdevInvariance, PTL

=============================================================================
