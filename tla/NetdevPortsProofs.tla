-------------------------- MODULE NetdevPortsProofs --------------------------
(***************************************************************************)
(* Proofs about NetdevPorts, for every set of devices, polled devices and  *)
(* cores, every number of queues, and every sequence of commands, failures *)
(* and steps of the threads.                                               *)
(***************************************************************************)
EXTENDS NetdevPorts, FiniteSetTheorems, WellFoundedInduction, TLAPS

-----------------------------------------------------------------------------
(* The inductive invariant *)

HandshakePc == {"reload", "signal", "set", "wait", "woken"}

\* What the main thread does next, when the threads have reloaded.
Phase == IF main.pc \in HandshakePc THEN main.next ELSE main.pc

\* Thread c is yet to make its copies anew.
Due(c) ==
    /\ main.pc \in HandshakePc
    /\ c \in main.todo \/ (main.pc \in {"signal", "set", "wait"} /\ main.on = c)

\* No thread is to go by port d.
Gone(d) == \A c \in Thread: d \notin pmd[c].tx /\ \A q \in pmd[c].polls: q[1] # d

Caches == UNION {[D -> Int]: D \in SUBSET Dev}
Counts == UNION {[0 .. n - 1 -> Int]: n \in Nat}

\* Everything about a port but its number and what its queues are pinned and given to.
PortTypes ==
    /\ port = [d \in Dev |-> [st |-> port[d].st, no |-> port[d].no, need |-> port[d].need,
                              rxq |-> port[d].rxq, dynamic |-> port[d].dynamic,
                              used |-> port[d].used, aff |-> port[d].aff, pmd |-> port[d].pmd]]
    /\ \A d \in Dev: /\ port[d].st \in {"none", "in", "removed"}
                     /\ port[d].need \in BOOLEAN /\ port[d].dynamic \in BOOLEAN
                     /\ port[d].rxq \in Nat /\ port[d].used \in Counts

PmdState == [pc: {"none", "start", "block", "poll", "loaded", "exit", "ended"}, tid: Nat,
             polls: SUBSET Queue, tx: SUBSET Dev, need: BOOLEAN, seq: BOOLEAN,
             reload: BOOLEAN, latch: BOOLEAN, snap: SUBSET Queue, cache: Caches]

Device == [rxq: Nat, txq: Nat \ {0}, want: Nat \ {0}, wantrx: Nat, reconf: BOOLEAN]

MainState == [pc: HandshakePc \cup {"idle", "threads", "create", "stale", "ports", "add",
                                    "end", "destroy"},
              todo: SUBSET (Dev \cup Thread), on: Thread \cup {None},
              next: {"idle", "create", "ports", "add", "end", "destroy"}, del: SUBSET Dev,
              saved: Dev \cup {None}]

Handles == [handles: Nat, destroyed: BOOLEAN]

StateTypes ==
    /\ PortTypes
    /\ pmd \in [Thread -> PmdState]
    /\ netdev \in [Dev -> Device]
    /\ main \in MainState
    /\ ref \in Handles

\* The main thread and a thread that reloads.
HandshakeInv ==
    /\ main.pc \in HandshakePc => main.next # "idle" /\ main.todo \subseteq Polling
    /\ main.pc \in {"signal", "set", "wait", "woken"} => main.on \in Running \ main.todo
    /\ \A c \in Thread:
        /\ pmd[c].pc = "none" => pmd[c] = NoPmd
        /\ pmd[c].pc = "ended" => pmd[c].snap = {} /\ pmd[c].cache = <<>>
        /\ pmd[c].reload => main.pc \in {"set", "wait"} /\ main.on = c
        /\ pmd[c].pc = "loaded" => /\ pmd[c].reload
                                   /\ pmd[c].snap \subseteq pmd[c].polls
                                   /\ DOMAIN pmd[c].cache \subseteq pmd[c].tx
    /\ pmd[NonPmd].pc \in {"none", "poll"} /\ pmd[NonPmd].snap = {} /\ pmd[NonPmd].tid = 0

\* The copies of a thread that need not reload are copies of a part of the lists.
CopiesInv ==
    \A c \in Thread: Due(c) \/ /\ pmd[c].snap \subseteq pmd[c].polls
                               /\ DOMAIN pmd[c].cache \subseteq pmd[c].tx

\* A queue is in the list of the thread it is given to, and nobody else goes by it.
OwnerInv ==
    /\ \A c \in Thread: \A q \in pmd[c].polls: port[q[1]].pmd[q[2]] = c
    /\ \A c, e \in Core: c # e => pmd[c].snap \cap pmd[e].polls = {}

\* The lists name no port that is not there; after step 2 none that was removed, and
\* in step 3 none that is to be reconfigured.
GoneInv ==
    /\ \A d \in Dev: \/ port[d].st = "none"
                     \/ port[d].st # "in" /\ Phase \in {"ports", "add", "end", "idle", "destroy"}
                     \/ port[d].need /\ Phase = "ports"
                     => Gone(d)
    /\ \A d \in main.del: port[d].st # "in"

\* Queues in lists and copies are open, ports in copies are there.
OpenInv ==
    \A c \in Thread:
        /\ \A q \in pmd[c].polls \cup pmd[c].snap: q[2] < port[q[1]].rxq
        /\ \A d \in Dev: Uses(c, d) => port[d].st # "none"

\* A transmit queue that is in use is one that the port has and shares out.
SharedInv ==
    /\ \A d \in Dev: port[d].dynamic => 0 \in DOMAIN port[d].used
    /\ \A c \in Thread: \A d \in DOMAIN pmd[c].cache:
        \/ pmd[c].cache[d] = -1
        \/ port[d].dynamic /\ pmd[c].cache[d] \in DOMAIN port[d].used

\* What reconfigure_datapath has done to the ports.
NeedInv ==
    /\ Phase \in {"add", "end", "idle", "destroy"} => \A d \in Ports: ~ port[d].need
    /\ main.pc = "ports" => \A d \in Ports: port[d].need => d \in main.todo
    /\ Phase = "destroy" => Ports = {}
    /\ Phase = "add" => \A q \in Queues: port[q[1]].pmd[q[2]] \in Running \cup {None}

\* Whether a port's transmit queues are enough for the threads there are.
ThreadsCounted ==
    /\ \A d \in Ports \cap PmdDev: ~ port[d].need =>
          (port[d].dynamic <=> netdev[d].txq < netdev[d].want)
    /\ Phase \in {"ports", "add", "end", "idle", "destroy"} =>
          \A d \in Ports \cap PmdDev: netdev[d].want = Cardinality(Polling)

\* Which threads there are.
ThreadsInv ==
    /\ NonPmd \notin Polling => main.pc = "idle" /\ ref.handles = 0 /\ Polling = {} /\ Ports = {}
    /\ Phase = "destroy" => ref.handles = 0
    /\ main.pc \in {"create", "destroy"} => Running = {}
    /\ main.pc \in HandshakePc /\ Ending =>
          Running \subseteq main.todo \cup (IF main.pc = "reload" THEN {} ELSE {main.on})

\* static_tx_qid: no two threads have the same, and ports with enough transmit
\* queues have one for each thread that sends to them.
TidInv ==
    /\ \A c, e \in Polling: c # e => pmd[c].tid # pmd[e].tid
    /\ Phase \notin {"create", "destroy"} => \A c \in Polling: pmd[c].tid < Cardinality(Polling)
    /\ \A c \in Thread: \A d \in PmdDev \cap (pmd[c].tx \cup DOMAIN pmd[c].cache):
          ~ port[d].dynamic => pmd[c].tid < netdev[d].txq

\* The threads that use transmit queue q of port d.
Users(d, q) == {c \in Thread: d \in DOMAIN pmd[c].cache /\ pmd[c].cache[d] = q}

\* dp_netdev_free has a port saved for as long as there is one left.
FreeInv == ref.handles = 0 /\ main.pc # "idle" /\ main.saved = None => Ports = {}

IndInv ==
    /\ StateTypes /\ HandshakeInv /\ CopiesInv
    /\ OwnerInv /\ OnePoller /\ GoneInv /\ OpenInv
    /\ SharedInv /\ TxqUsedCounts
    /\ NeedInv /\ ThreadsCounted /\ ThreadsInv /\ TidInv

-----------------------------------------------------------------------------
(* Types *)

LEMMA CoreThreads == Core \subseteq Thread /\ NonPmd \in Thread /\ NonPmd \notin Core /\ IsFiniteSet(Thread)
<1>1. IsFiniteSet(Core) /\ NonPmd \notin Core  BY NetdevPortsAssumption
<1>2. IsFiniteSet(Core \cup {NonPmd})  BY <1>1, FS_AddElement
<1>3. QED  BY <1>1, <1>2 DEF Thread

LEMMA EmptyTypes ==
  /\ <<>> \in Caches /\ <<>> \in Counts /\ NoPmd \in PmdState
  /\ DOMAIN <<>> = {}
<1>1. <<>> \in [{} -> Int]  OBVIOUS
<1>2. <<>> \in Caches  BY <1>1 DEF Caches
<1>3. <<>> \in Counts
  <2>1. <<>> \in [0 .. 0 - 1 -> Int]  OBVIOUS
  <2>2. QED  BY <2>1 DEF Counts
<1>4. NoPmd \in PmdState  BY <1>2 DEF NoPmd, PmdState
<1>5. QED  BY <1>1, <1>2, <1>3, <1>4

LEMMA CacheType ==
  ASSUME NEW k \in Caches
  PROVE  DOMAIN k \in SUBSET Dev /\ k \in [DOMAIN k -> Int]
BY DEF Caches

LEMMA CountsType ==
  ASSUME NEW u \in Counts
  PROVE  u \in [DOMAIN u -> Int] /\ \E n \in Nat: DOMAIN u = 0 .. n - 1
BY DEF Counts

LEMMA PmdFields ==
  ASSUME StateTypes, NEW c \in Thread
  PROVE  /\ pmd[c] \in PmdState /\ pmd[c].polls \in SUBSET Queue /\ pmd[c].tx \in SUBSET Dev
         /\ pmd[c].snap \in SUBSET Queue /\ pmd[c].cache \in Caches /\ pmd[c].tid \in Nat
         /\ DOMAIN pmd[c].cache \in SUBSET Dev /\ pmd[c].cache \in [DOMAIN pmd[c].cache -> Int]
         /\ pmd[c].need \in BOOLEAN /\ pmd[c].reload \in BOOLEAN
<1>1. pmd[c] \in PmdState  BY DEF StateTypes
<1>2. /\ pmd[c].polls \in SUBSET Queue /\ pmd[c].tx \in SUBSET Dev
      /\ pmd[c].snap \in SUBSET Queue /\ pmd[c].cache \in Caches /\ pmd[c].tid \in Nat
      /\ pmd[c].need \in BOOLEAN /\ pmd[c].reload \in BOOLEAN
  BY <1>1 DEF PmdState
<1>3. QED  BY <1>1, <1>2, CacheType

\* What an update of one thread leaves alone.
LEMMA OtherPmds ==
  ASSUME StateTypes, NEW c \in Thread, NEW r \in PmdState, pmd' = [pmd EXCEPT ![c] = r]
  PROVE  /\ pmd' \in [Thread -> PmdState] /\ pmd'[c] = r
         /\ \A e \in Thread: e # c => pmd'[e] = pmd[e]
BY DEF StateTypes

LEMMA QueueDev == \A q \in Queue: q[1] \in Dev /\ q[2] \in Nat
  BY NetdevPortsAssumption DEF Queue

-----------------------------------------------------------------------------
(* What steps leave alone *)

SamePorts(p) ==
    \A d \in Dev: /\ p[d].st = port[d].st /\ p[d].need = port[d].need /\ p[d].rxq = port[d].rxq
                  /\ p[d].dynamic = port[d].dynamic /\ p[d].pmd = port[d].pmd

\* The lists of the threads, and which there are.
SameLists ==
    \A c \in Thread: /\ pmd'[c].polls = pmd[c].polls /\ pmd'[c].tx = pmd[c].tx
                     /\ pmd'[c].tid = pmd[c].tid
                     /\ pmd'[c].pc = "none" <=> pmd[c].pc = "none"

SameDevices == \A d \in Dev: netdev'[d].txq = netdev[d].txq /\ netdev'[d].want = netdev[d].want

\* reconfigure_datapath goes on, without a step of it that these invariants are about.
SamePhase ==
    /\ \/ Phase' = Phase
       \/ Phase \notin {"create", "destroy"} /\ Phase' \in {"threads", "stale", "create"}
       \/ Phase = "idle" /\ Phase' = "end"
    /\ main'.del \subseteq main.del
    /\ main'.pc = "ports" => main'.todo = Ports \/ (main.pc = "ports" /\ main'.todo = main.todo)

LEMMA SamePolling == SameLists => Polling' = Polling /\ Running' = Running
  BY DEF SameLists, Polling, Running

LEMMA SamePortSet == SamePorts(port') => Ports' = Ports
  BY DEF SamePorts, Ports

\* Steps of the threads, and of the main thread between those of reconfigure_datapath.
LEMMA ListsFrame ==
  ASSUME IndInv, SamePorts(port'), SameLists, SameDevices, SamePhase
  PROVE  GoneInv' /\ NeedInv' /\ ThreadsCounted'
<1>1. Ports' = Ports /\ Polling' = Polling  BY SamePolling, SamePortSet
<1>2. ASSUME NEW d \in Dev PROVE Gone(d) => Gone(d)'  BY DEF Gone, SameLists
<1>3. GoneInv'
  <2>1. \A d \in Dev: \/ port[d].st = "none"
                      \/ port[d].st # "in" /\ Phase \in {"ports", "add", "end", "idle", "destroy"}
                      \/ port[d].need /\ Phase = "ports"
                      => Gone(d)
    BY DEF IndInv, GoneInv
  <2>2. \A d \in main.del: d \in Dev /\ port[d].st # "in"
    BY DEF IndInv, GoneInv, StateTypes, MainState
  <2>3. /\ Phase' \in {"ports", "add", "end", "idle", "destroy"} => Phase \in {"ports", "add", "end", "idle", "destroy"}
        /\ Phase' = "ports" => Phase = "ports"
        /\ main'.del \subseteq main.del
    BY DEF SamePhase
  <2>4. \A d \in Dev: port'[d].st = port[d].st /\ port'[d].need = port[d].need  BY DEF SamePorts
  <2>5. ASSUME NEW d \in Dev,
               \/ port'[d].st = "none"
               \/ port'[d].st # "in" /\ Phase' \in {"ports", "add", "end", "idle", "destroy"}
               \/ port'[d].need /\ Phase' = "ports"
        PROVE  Gone(d)'
    BY <1>2, <2>1, <2>3, <2>4, <2>5
  <2>6. \A d \in main'.del: port'[d].st # "in"  BY <2>2, <2>3, <2>4
  <2>7. QED  BY <2>5, <2>6 DEF GoneInv
<1>4. NeedInv'
  <2>1. \A d \in Ports: port'[d].need = port[d].need  BY DEF SamePorts, Ports
  <2>2. \/ Phase' = Phase \/ Phase' \in {"threads", "stale", "create"} \/ (Phase = "idle" /\ Phase' = "end")
    BY DEF SamePhase
  <2>3. (Phase \in {"add", "end", "idle", "destroy"} => \A d \in Ports: ~ port[d].need)
        /\ (main.pc = "ports" => \A d \in Ports: port[d].need => d \in main.todo)
        /\ (Phase = "destroy" => Ports = {})
    BY DEF IndInv, NeedInv
  <2>4. main'.pc = "ports" => \A d \in Ports: port[d].need => d \in main'.todo  BY <2>3 DEF SamePhase
  <2>5. Phase' \in {"add", "end", "idle", "destroy"} => \A d \in Ports: ~ port[d].need  BY <2>2, <2>3
  <2>6. Phase' = "destroy" => Ports = {}  BY <2>2, <2>3
  <2>7. ASSUME Phase' = "add" PROVE \A q \in Queues': port'[q[1]].pmd[q[2]] \in Running' \cup {None}
    <3>1. Phase = "add"  BY <2>7 DEF SamePhase
    <3>2. \A q \in Queues: port[q[1]].pmd[q[2]] \in Running \cup {None}
      BY <3>1 DEF IndInv, NeedInv
    <3>3. \A q \in Queue: /\ q[1] \in Dev /\ port'[q[1]].rxq = port[q[1]].rxq
                          /\ port'[q[1]].pmd = port[q[1]].pmd
      BY QueueDev DEF SamePorts
    <3>4. Running' = Running  BY SamePolling
    <3>5. \A q \in Queue: q \in Queues' <=> q \in Queues  BY <1>1, <3>3 DEF Queues
    <3>6. Queues' \subseteq Queue /\ Queues \subseteq Queue  BY DEF Queues
    <3>7. QED  BY <3>2, <3>3, <3>4, <3>5, <3>6
  <2>8. QED  BY <1>1, <2>1, <2>4, <2>5, <2>6, <2>7 DEF NeedInv
<1>5. ThreadsCounted'
  <2>1. \A d \in Ports \cap PmdDev: /\ port'[d].need = port[d].need
                                    /\ port'[d].dynamic = port[d].dynamic
                                    /\ netdev'[d].txq = netdev[d].txq /\ netdev'[d].want = netdev[d].want
    BY DEF SamePorts, Ports, SameDevices
  <2>2. Phase' \in {"ports", "add", "end", "idle", "destroy"} => Phase \in {"ports", "add", "end", "idle", "destroy"}
    BY DEF SamePhase
  <2>3. QED  BY <1>1, <2>1, <2>2 DEF IndInv, ThreadsCounted
<1>6. QED  BY <1>3, <1>4, <1>5

\* New copies are made of the lists, and otherwise copies only shrink.
Copies ==
    \A c \in Thread: /\ pmd'[c].snap \subseteq pmd[c].snap \cup pmd[c].polls
                     /\ DOMAIN pmd'[c].cache \subseteq DOMAIN pmd[c].cache \cup pmd[c].tx

\* One thread makes its copies at a time.
CopiesOne(c) ==
    \A e \in Thread \ {c}: pmd'[e].snap = pmd[e].snap /\ pmd'[e].cache = pmd[e].cache

LEMMA CopiesFrame ==
  ASSUME IndInv, SamePorts(port'), SameLists, SameDevices, SamePhase,
         Copies, NEW c \in Thread, CopiesOne(c)
  PROVE  OwnerInv' /\ OnePoller' /\ OpenInv' /\ TidInv'
<1>0. StateTypes /\ OwnerInv /\ OnePoller /\ GoneInv /\ OpenInv /\ TidInv  BY DEF IndInv
<1>1. \A e \in Thread: /\ pmd'[e].polls = pmd[e].polls /\ pmd'[e].tx = pmd[e].tx
                       /\ pmd'[e].tid = pmd[e].tid
  BY DEF SameLists
<1>2. \A e \in Thread: \A q \in pmd[e].polls \cup pmd[e].snap: q[1] \in Dev
  BY <1>0, PmdFields, QueueDev
<1>3. \A e \in Thread: \A q \in pmd[e].polls: port[q[1]].pmd[q[2]] = e  BY <1>0 DEF OwnerInv
<1>4. OwnerInv'
  <2>1. \A e \in Thread: \A q \in pmd'[e].polls: port'[q[1]].pmd[q[2]] = e
    BY <1>1, <1>2, <1>3 DEF SamePorts
  <2>2. ASSUME NEW a \in Core, NEW e \in Core, a # e PROVE pmd'[a].snap \cap pmd'[e].polls = {}
    <3>1. pmd'[a].snap \subseteq pmd[a].snap \cup pmd[a].polls /\ pmd'[e].polls = pmd[e].polls
      BY <1>1, CoreThreads DEF Copies
    <3>2. pmd[a].snap \cap pmd[e].polls = {}  BY <1>0, <2>2 DEF OwnerInv
    <3>3. pmd[a].polls \cap pmd[e].polls = {}  BY <1>3, <2>2, CoreThreads
    <3>4. QED  BY <3>1, <3>2, <3>3
  <2>3. QED  BY <2>1, <2>2 DEF OwnerInv
<1>5. OnePoller'
  <2>1. ASSUME NEW a \in Core, NEW e \in Core, a # e, a # c PROVE pmd'[a].snap \cap pmd'[e].snap = {}
    <3>1. pmd'[a].snap = pmd[a].snap  BY <2>1, CoreThreads DEF CopiesOne
    <3>2. pmd'[e].snap \subseteq pmd[e].snap \cup pmd[e].polls  BY CoreThreads DEF Copies
    <3>3. pmd[a].snap \cap pmd[e].snap = {}  BY <1>0, <2>1 DEF OnePoller
    <3>4. pmd[a].snap \cap pmd[e].polls = {}  BY <1>0, <2>1 DEF OwnerInv
    <3>5. QED  BY <3>1, <3>2, <3>3, <3>4
  <2>2. QED  BY <2>1 DEF OnePoller
<1>6. OpenInv'
  <2>1. ASSUME NEW e \in Thread, NEW q \in pmd'[e].polls \cup pmd'[e].snap
        PROVE  q[2] < port'[q[1]].rxq
    <3>1. q \in pmd[e].polls \cup pmd[e].snap  BY <1>1, <2>1 DEF Copies
    <3>2. q[2] < port[q[1]].rxq  BY <1>0, <3>1 DEF OpenInv
    <3>3. q[1] \in Dev  BY <1>2, <3>1
    <3>4. QED  BY <3>2, <3>3 DEF SamePorts
  <2>2. ASSUME NEW e \in Thread, NEW d \in Dev, Uses(e, d)' PROVE port'[d].st # "none"
    <3>1. \/ Uses(e, d) \/ d \in pmd[e].tx \/ \E q \in pmd[e].polls: q[1] = d
      BY <2>2 DEF Uses, Copies
    <3>2. port[d].st # "none"  BY <1>0, <3>1 DEF OpenInv, GoneInv, Gone
    <3>3. QED  BY <3>2 DEF SamePorts
  <2>3. QED  BY <2>1, <2>2 DEF OpenInv
<1>7. TidInv'
  <2>1. Polling' = Polling /\ Polling \subseteq Thread  BY SamePolling DEF Polling
  <2>2. ASSUME NEW e \in Thread, NEW d \in PmdDev, d \in pmd'[e].tx \cup DOMAIN pmd'[e].cache,
               ~ port'[d].dynamic
        PROVE  pmd'[e].tid < netdev'[d].txq
    <3>1. d \in pmd[e].tx \cup DOMAIN pmd[e].cache  BY <1>1, <2>2 DEF Copies
    <3>2. d \in Dev  BY NetdevPortsAssumption
    <3>3. ~ port[d].dynamic /\ netdev'[d].txq = netdev[d].txq
      BY <2>2, <3>2 DEF SamePorts, SameDevices
    <3>4. QED  BY <1>0, <1>1, <3>1, <3>3 DEF TidInv
  <2>3. Phase' \notin {"create", "destroy"} => Phase \notin {"create", "destroy"}  BY DEF SamePhase
  <2>4. \A d, e \in Polling: d # e => pmd'[d].tid # pmd'[e].tid  BY <1>0, <1>1, <2>1 DEF TidInv
  <2>5. Phase' \notin {"create", "destroy"} => \A e \in Polling: pmd'[e].tid < Cardinality(Polling)
    BY <1>0, <1>1, <2>1, <2>3 DEF TidInv
  <2>6. QED  BY <2>1, <2>2, <2>4, <2>5 DEF TidInv
<1>8. QED  BY <1>4, <1>5, <1>6, <1>7

-----------------------------------------------------------------------------
(* The transmit queues in use *)

\* One thread's cache changes, and the counter of a queue by what that thread does.
LEMMA CountOne ==
  ASSUME StateTypes, TxqUsedCounts, NEW c \in Thread, CopiesOne(c), NEW d \in Dev,
         NEW r \in DOMAIN port[d].used,
         port'[d].used[r] = port[d].used[r] - (IF c \in Users(d, r) THEN 1 ELSE 0)
                                            + (IF c \in Users(d, r)' THEN 1 ELSE 0)
  PROVE  port'[d].used[r] = Cardinality(Users(d, r)')
<1>1. PICK A: A = Users(d, r)  OBVIOUS
<1>2. PICK B: B = Users(d, r)'  OBVIOUS
<1>3. port[d].used[r] = Cardinality(A)  BY <1>1 DEF TxqUsedCounts, Users
<1>4. A \subseteq Thread /\ B \subseteq Thread  BY <1>1, <1>2 DEF Users
<1>5. IsFiniteSet(A) /\ IsFiniteSet(B)  BY <1>4, CoreThreads, FS_Subset
<1>6. \A e \in Thread \ {c}: e \in A <=> e \in B  BY <1>1, <1>2 DEF Users, CopiesOne
<1>7. A \ {c} = B \ {c}  BY <1>4, <1>6
<1>8. /\ Cardinality(A \ {c}) = IF c \in A THEN Cardinality(A) - 1 ELSE Cardinality(A)
      /\ Cardinality(B \ {c}) = IF c \in B THEN Cardinality(B) - 1 ELSE Cardinality(B)
  BY <1>5, FS_RemoveElement
<1>9. Cardinality(A) \in Nat /\ Cardinality(B) \in Nat  BY <1>5, FS_CardinalityType
<1>10. port'[d].used[r] = Cardinality(A) - (IF c \in A THEN 1 ELSE 0) + (IF c \in B THEN 1 ELSE 0)
  BY <1>1, <1>2, <1>3
<1>11. Cardinality(A \ {c}) = Cardinality(B \ {c})  BY <1>7
<1>12. port'[d].used[r] = Cardinality(B)
  BY <1>8, <1>9, <1>10, <1>11
<1>13. QED  BY <1>2, <1>12

\* The ports whose queues thread c gives up.
Mine(c, ds) == {d \in ds \cap DOMAIN pmd[c].cache: port[d].dynamic /\ pmd[c].cache[d] >= 0}

LEMMA ReleasedFields ==
  ASSUME StateTypes, SharedInv, NEW c \in Thread, NEW ds \in SUBSET Dev
  PROVE  /\ Released(c, ds) =
              [d \in Dev |-> [st |-> port[d].st, no |-> port[d].no, need |-> port[d].need,
                              rxq |-> port[d].rxq, dynamic |-> port[d].dynamic,
                              used |-> Released(c, ds)[d].used,
                              aff |-> port[d].aff, pmd |-> port[d].pmd]]
         /\ \A d \in Dev:
              /\ Released(c, ds)[d].used \in Counts
              /\ DOMAIN Released(c, ds)[d].used = DOMAIN port[d].used
              /\ \A r \in DOMAIN port[d].used:
                    Released(c, ds)[d].used[r] =
                      port[d].used[r] - (IF d \in Mine(c, ds) /\ r = pmd[c].cache[d] THEN 1 ELSE 0)
<1> DEFINE Rel == Released(c, ds)
<1>1. Rel = [d \in Dev |-> IF d \in Mine(c, ds) THEN [port[d] EXCEPT !.used[pmd[c].cache[d]] = @ - 1]
                           ELSE port[d]]
  BY DEF Released, Mine
<1>2. \A d \in Dev: port[d] = [st |-> port[d].st, no |-> port[d].no, need |-> port[d].need,
                               rxq |-> port[d].rxq, dynamic |-> port[d].dynamic,
                               used |-> port[d].used, aff |-> port[d].aff, pmd |-> port[d].pmd]
  BY DEF StateTypes, PortTypes
<1>3. ASSUME NEW d \in Dev
      PROVE  /\ Rel[d] = [st |-> port[d].st, no |-> port[d].no, need |-> port[d].need,
                          rxq |-> port[d].rxq, dynamic |-> port[d].dynamic,
                          used |-> Rel[d].used, aff |-> port[d].aff, pmd |-> port[d].pmd]
             /\ Rel[d].used \in Counts
             /\ DOMAIN Rel[d].used = DOMAIN port[d].used
             /\ \A r \in DOMAIN port[d].used:
                   Rel[d].used[r] = port[d].used[r]
                                      - (IF d \in Mine(c, ds) /\ r = pmd[c].cache[d] THEN 1 ELSE 0)
  <2>0. port[d].used \in Counts  BY DEF StateTypes, PortTypes
  <2>1. PICK n \in Nat: port[d].used \in [0 .. n - 1 -> Int]  BY <2>0 DEF Counts
  <2>2. CASE d \notin Mine(c, ds)
    <3>1. Rel[d] = port[d]  BY <1>1, <2>2
    <3>2. \A r \in DOMAIN port[d].used: port[d].used[r] - 0 = port[d].used[r]  BY <2>1
    <3>3. QED  BY <1>2, <2>0, <2>2, <3>1, <3>2
  <2>3. CASE d \in Mine(c, ds)
    <3> DEFINE k == pmd[c].cache[d]
    <3>1. k \in DOMAIN port[d].used
      <4>1. d \in DOMAIN pmd[c].cache /\ k >= 0  BY <2>3 DEF Mine
      <4>2. k = -1 \/ k \in DOMAIN port[d].used  BY <4>1 DEF SharedInv
      <4>3. QED  BY <4>1, <4>2
    <3> HIDE DEF k
    <3>2. Rel[d] = [port[d] EXCEPT !.used[k] = @ - 1]  BY <1>1, <2>3 DEF k
    <3>3. Rel[d] = [port[d] EXCEPT !.used = [port[d].used EXCEPT ![k] = @ - 1]]  BY <1>2, <3>2
    <3>4. Rel[d].used = [port[d].used EXCEPT ![k] = @ - 1]  BY <1>2, <3>3
    <3>5. Rel[d] = [st |-> port[d].st, no |-> port[d].no, need |-> port[d].need,
                    rxq |-> port[d].rxq, dynamic |-> port[d].dynamic,
                    used |-> Rel[d].used, aff |-> port[d].aff, pmd |-> port[d].pmd]
      BY <1>2, <3>3
    <3>6. Rel[d].used \in [0 .. n - 1 -> Int]  BY <2>1, <3>1, <3>4
    <3>7. Rel[d].used \in Counts  BY <3>6 DEF Counts
    <3>8. DOMAIN Rel[d].used = DOMAIN port[d].used  BY <3>4
    <3>9. \A r \in DOMAIN port[d].used: Rel[d].used[r] = port[d].used[r] - (IF r = k THEN 1 ELSE 0)
      BY <2>1, <3>1, <3>4
    <3>10. QED  BY <2>3, <3>5, <3>7, <3>8, <3>9 DEF k
  <2>4. QED  BY <2>2, <2>3
<1>4. Rel = [d \in Dev |-> [st |-> port[d].st, no |-> port[d].no, need |-> port[d].need,
                            rxq |-> port[d].rxq, dynamic |-> port[d].dynamic,
                            used |-> Rel[d].used, aff |-> port[d].aff, pmd |-> port[d].pmd]]
  <2>1. DOMAIN Rel = Dev /\ Rel = [d \in Dev |-> Rel[d]]  BY <1>1
  <2> HIDE DEF Rel
  <2>2. QED  BY <1>3, <2>1
<1>5. QED  BY <1>3, <1>4

\* Ports of which the counters of transmit queues change, and nothing else.
OnlyUsed(u) ==
    /\ port' = [d \in Dev |-> [st |-> port[d].st, no |-> port[d].no, need |-> port[d].need,
                               rxq |-> port[d].rxq, dynamic |-> port[d].dynamic,
                               used |-> u[d], aff |-> port[d].aff, pmd |-> port[d].pmd]]
    /\ \A d \in Dev: u[d] \in Counts /\ DOMAIN u[d] = DOMAIN port[d].used

LEMMA OnlyUsedFrame ==
  ASSUME StateTypes, NEW u, OnlyUsed(u)
  PROVE  PortTypes' /\ SamePorts(port') /\ \A d \in Dev: port'[d].used = u[d]
<1>1. \A d \in Dev: /\ port'[d].st = port[d].st /\ port'[d].no = port[d].no /\ port'[d].need = port[d].need
                    /\ port'[d].rxq = port[d].rxq /\ port'[d].dynamic = port[d].dynamic
                    /\ port'[d].used = u[d] /\ port'[d].aff = port[d].aff /\ port'[d].pmd = port[d].pmd
  BY DEF OnlyUsed
<1>2. SamePorts(port') /\ \A d \in Dev: port'[d].used = u[d]  BY <1>1 DEF SamePorts
<1>3. port' = [d \in Dev |-> [st |-> port'[d].st, no |-> port'[d].no, need |-> port'[d].need,
                              rxq |-> port'[d].rxq, dynamic |-> port'[d].dynamic,
                              used |-> port'[d].used, aff |-> port'[d].aff, pmd |-> port'[d].pmd]]
  BY <1>1 DEF OnlyUsed
<1>4. \A d \in Dev: /\ port'[d].st \in {"none", "in", "removed"}
                    /\ port'[d].need \in BOOLEAN /\ port'[d].dynamic \in BOOLEAN
                    /\ port'[d].rxq \in Nat /\ port'[d].used \in Counts
  BY <1>1 DEF OnlyUsed, StateTypes, PortTypes
<1>5. QED  BY <1>2, <1>3, <1>4 DEF PortTypes

LEMMA ReleasedFrame ==
  ASSUME StateTypes, SharedInv, NEW c \in Thread, NEW ds \in SUBSET Dev, port' = Released(c, ds)
  PROVE  PortTypes' /\ SamePorts(port')
         /\ \A d \in Dev: port'[d].used = Released(c, ds)[d].used
<1> DEFINE u == [d \in Dev |-> Released(c, ds)[d].used]
<1>1. OnlyUsed(u)  BY ReleasedFields DEF OnlyUsed
<1>2. \A d \in Dev: u[d] = Released(c, ds)[d].used  OBVIOUS
<1> HIDE DEF u
<1>3. QED  BY <1>1, <1>2, OnlyUsedFrame

\* Thread c gives up all its queues and starts with a new copy of the ports.
LEMMA NewCopies ==
  ASSUME StateTypes, SharedInv, TxqUsedCounts, NEW c \in Thread, CopiesOne(c),
         port' = Released(c, DOMAIN pmd[c].cache),
         \A d \in DOMAIN pmd'[c].cache: pmd'[c].cache[d] = -1
  PROVE  SharedInv' /\ TxqUsedCounts'
<1> DEFINE old == pmd[c].cache
<1>0. DOMAIN old \in SUBSET Dev /\ old \in [DOMAIN old -> Int]  BY PmdFields
<1>1. SamePorts(port') /\ \A d \in Dev: port'[d].used = Released(c, DOMAIN old)[d].used
  BY <1>0, ReleasedFrame
<1>2. \A d \in Dev: /\ DOMAIN port'[d].used = DOMAIN port[d].used
                    /\ \A r \in DOMAIN port[d].used:
                         port'[d].used[r] = port[d].used[r]
                            - (IF d \in Mine(c, DOMAIN old) /\ r = old[d] THEN 1 ELSE 0)
  BY <1>0, <1>1, ReleasedFields
<1>3. SharedInv'
  <2>1. \A d \in Dev: port'[d].dynamic => 0 \in DOMAIN port'[d].used
    BY <1>1, <1>2 DEF SharedInv, SamePorts
  <2>2. ASSUME NEW e \in Thread, e # c, NEW d \in DOMAIN pmd'[e].cache
        PROVE  \/ pmd'[e].cache[d] = -1
               \/ port'[d].dynamic /\ pmd'[e].cache[d] \in DOMAIN port'[d].used
    <3>1. pmd'[e].cache = pmd[e].cache  BY <2>2 DEF CopiesOne
    <3>2. d \in Dev  BY <2>2, <3>1, PmdFields
    <3>3. QED  BY <1>1, <1>2, <2>2, <3>1, <3>2 DEF SharedInv, SamePorts
  <2>3. QED  BY <2>1, <2>2 DEF SharedInv
<1>4. ASSUME NEW d \in Dev, NEW r \in DOMAIN port'[d].used
      PROVE  port'[d].used[r] = Cardinality(Users(d, r)')
  <2>1. r \in DOMAIN port[d].used  BY <1>2
  <2>2. port[d].used \in Counts  BY DEF StateTypes, PortTypes
  <2>3. r \in Nat /\ port[d].used[r] \in Int  BY <2>1, <2>2 DEF Counts
  <2>4. c \notin Users(d, r)'  BY <2>3 DEF Users
  <2>5. c \in Users(d, r) <=> d \in Mine(c, DOMAIN old) /\ r = old[d]
    <3>1. ASSUME d \in DOMAIN old, old[d] = r PROVE d \in Mine(c, DOMAIN old)
      <4>1. port[d].dynamic  BY <2>3, <3>1 DEF SharedInv
      <4>2. QED  BY <2>3, <3>1, <4>1 DEF Mine
    <3>2. QED  BY <3>1 DEF Users, Mine
  <2>6. port'[d].used[r] = port[d].used[r] - (IF c \in Users(d, r) THEN 1 ELSE 0)
                                           + (IF c \in Users(d, r)' THEN 1 ELSE 0)
    BY <1>2, <2>1, <2>3, <2>4, <2>5
  <2>7. QED  BY <2>1, <2>6, CountOne
<1>5. TxqUsedCounts'  BY <1>4 DEF TxqUsedCounts, Users
<1>6. QED  BY <1>3, <1>5

\* Steps that leave the caches alone, and start counting only where nobody counts.
SameCaches ==
    \A c \in Thread: /\ DOMAIN pmd'[c].cache = DOMAIN pmd[c].cache
                     /\ \A d \in DOMAIN pmd[c].cache: pmd'[c].cache[d] = pmd[c].cache[d]

LEMMA SharedFrame ==
  ASSUME StateTypes, SharedInv, TxqUsedCounts, SameCaches,
         \A d \in Dev: \/ port'[d].dynamic = port[d].dynamic /\ port'[d].used = port[d].used
                       \/ /\ \A c \in Thread: d \notin DOMAIN pmd[c].cache
                          /\ \A q \in DOMAIN port'[d].used: port'[d].used[q] = 0
                          /\ port'[d].dynamic => 0 \in DOMAIN port'[d].used
  PROVE  SharedInv' /\ TxqUsedCounts'
<1>1. SharedInv'
  <2>1. \A d \in Dev: port'[d].dynamic => 0 \in DOMAIN port'[d].used  BY DEF SharedInv
  <2>2. ASSUME NEW e \in Thread, NEW d \in DOMAIN pmd'[e].cache
        PROVE  \/ pmd'[e].cache[d] = -1
               \/ port'[d].dynamic /\ pmd'[e].cache[d] \in DOMAIN port'[d].used
    <3>1. d \in DOMAIN pmd[e].cache /\ pmd'[e].cache[d] = pmd[e].cache[d]  BY <2>2 DEF SameCaches
    <3>2. d \in Dev  BY <3>1, PmdFields
    <3>3. port'[d].dynamic = port[d].dynamic /\ port'[d].used = port[d].used  BY <3>1, <3>2
    <3>4. QED  BY <3>1, <3>3 DEF SharedInv
  <2>3. QED  BY <2>1, <2>2 DEF SharedInv
<1>2. ASSUME NEW d \in Dev, NEW r \in DOMAIN port'[d].used
      PROVE  port'[d].used[r] = Cardinality(Users(d, r)')
  <2>1. Users(d, r)' = Users(d, r)
    <3>1. \A e \in Thread: e \in Users(d, r)' <=> e \in Users(d, r)  BY DEF Users, SameCaches
    <3>2. Users(d, r) \subseteq Thread /\ Users(d, r)' \subseteq Thread  BY DEF Users
    <3>3. QED  BY <3>1, <3>2
  <2>2. CASE port'[d].dynamic = port[d].dynamic /\ port'[d].used = port[d].used
    <3>1. port[d].used[r] = Cardinality(Users(d, r))  BY <2>2 DEF TxqUsedCounts, Users
    <3>2. QED  BY <2>1, <2>2, <3>1
  <2>3. CASE \A c \in Thread: d \notin DOMAIN pmd[c].cache
    <3>1. Users(d, r) = {}  BY <2>3 DEF Users
    <3>2. CASE port'[d].used[r] = 0  BY <2>1, <3>1, <3>2, FS_EmptySet
    <3>3. QED  BY <2>2, <3>2
  <2>4. QED  BY <2>2, <2>3
<1>3. TxqUsedCounts'  BY <1>2 DEF TxqUsedCounts, Users
<1>4. QED  BY <1>1, <1>3

LEMMA MinIn ==
  ASSUME NEW S \in SUBSET Nat, S # {}
  PROVE  Min(S) \in S /\ \A y \in S: Min(S) <= y
<1>1. PICK x \in S: \A y \in S: ~ (<<y, x>> \in OpToRel(<, Nat))
  BY NatLessThanWellFounded, WFMin
<1>2. \A y \in S: x <= y
  <2>1. ASSUME NEW y \in S, y < x PROVE FALSE
    <3>1. <<y, x>> \in OpToRel(<, Nat)  BY <2>1 DEF OpToRel
    <3>2. QED  BY <1>1, <3>1
  <2>2. QED  BY <2>1
<1>3. QED  BY <1>2 DEF Min

LEMMA LeastUsedIn ==
  ASSUME NEW D \in SUBSET Nat, D # {}, NEW u \in [D -> Nat]
  PROVE  LeastUsed(u) \in D
<1> DEFINE Values == {u[q]: q \in D}
           Least == {q \in DOMAIN u: \A r \in DOMAIN u: u[q] <= u[r]}
<1>1. Values \in SUBSET Nat /\ Values # {}  OBVIOUS
<1>2. Min(Values) \in Values /\ \A v \in Values: Min(Values) <= v
  <2> HIDE DEF Values
  <2>1. QED  BY <1>1, MinIn
<1>3. PICK q \in D: u[q] = Min(Values)  BY <1>2
<1>4. \A r \in D: u[q] <= u[r]  BY <1>2, <1>3
<1>5. Least \in SUBSET Nat /\ Least \subseteq D /\ q \in Least  BY <1>4
<1>6. Min(Least) \in Least
  <2> HIDE DEF Least
  <2>1. QED  BY <1>5, MinIn
<1>7. QED  BY <1>5, <1>6 DEF LeastUsed

\* A queue that a thread uses has been counted.
LEMMA CountedOnce ==
  ASSUME StateTypes, TxqUsedCounts, NEW c \in Thread, NEW d \in Dev, NEW r \in DOMAIN port[d].used
  PROVE  /\ port[d].used[r] \in Nat
         /\ c \in Users(d, r) => port[d].used[r] - 1 \in Nat
<1>1. port[d].used[r] = Cardinality(Users(d, r))  BY DEF TxqUsedCounts, Users
<1>2. IsFiniteSet(Users(d, r))
  <2>1. Users(d, r) \in SUBSET Thread  BY DEF Users
  <2>2. QED  BY <2>1, CoreThreads, FS_Subset
<1>3. Cardinality(Users(d, r)) \in Nat /\ (c \in Users(d, r) => Cardinality(Users(d, r)) # 0)
  BY <1>2, FS_CardinalityType, FS_EmptySet
<1>4. QED  BY <1>1, <1>3

\* Thread c picks a transmit queue of port d, after it has given up those of late.
LEMMA SendSharing ==
  ASSUME StateTypes, SharedInv, TxqUsedCounts, NEW c \in Thread, NEW d \in DOMAIN pmd[c].cache,
         NEW late \in SUBSET DOMAIN pmd[c].cache, port[d].dynamic,
         ~ (pmd[c].cache[d] >= 0 /\ d \notin late), SendXps(c, d, late)
  PROVE  /\ PortTypes' /\ SamePorts(port')
         /\ \E k \in Caches: DOMAIN k = DOMAIN pmd[c].cache /\ pmd' = [pmd EXCEPT ![c].cache = k]
         /\ SharedInv' /\ TxqUsedCounts'
<1> DEFINE old == pmd[c].cache
           after == Released(c, late)
           q == LeastUsed(after[d].used)
           gone == {e \in late: port[e].dynamic}
           k == [e \in DOMAIN old |-> IF e = d THEN q ELSE IF e \in gone THEN -1 ELSE old[e]]
           u == [e \in Dev |-> IF e = d THEN [after[e].used EXCEPT ![q] = @ + 1] ELSE after[e].used]
<1>0. DOMAIN old \in SUBSET Dev /\ old \in [DOMAIN old -> Int] /\ late \in SUBSET Dev /\ d \in Dev
  BY PmdFields
<1>1. /\ after = [e \in Dev |-> [st |-> port[e].st, no |-> port[e].no, need |-> port[e].need,
                                 rxq |-> port[e].rxq, dynamic |-> port[e].dynamic,
                                 used |-> after[e].used, aff |-> port[e].aff, pmd |-> port[e].pmd]]
      /\ \A e \in Dev: /\ after[e].used \in Counts
                       /\ DOMAIN after[e].used = DOMAIN port[e].used
                       /\ \A r \in DOMAIN port[e].used:
                            after[e].used[r] = port[e].used[r]
                              - (IF e \in Mine(c, late) /\ r = old[e] THEN 1 ELSE 0)
  BY <1>0, ReleasedFields
<1>2. port' = [after EXCEPT ![d].used[q] = @ + 1] /\ pmd' = [pmd EXCEPT ![c].cache = k]
  BY DEF SendXps
<1> HIDE DEF after
<1>3. ASSUME NEW e \in Dev, NEW r \in DOMAIN port[e].used
      PROVE  /\ r \in Nat /\ after[e].used[r] \in Nat /\ port[e].used[r] \in Nat
             /\ e \in Mine(c, late) /\ r = old[e] <=> e \in late /\ c \in Users(e, r)
  <2>1. port[e].used \in Counts  BY DEF StateTypes, PortTypes
  <2>2. r \in Nat  BY <2>1 DEF Counts
  <2>3. e \in Mine(c, late) /\ r = old[e] <=> e \in late /\ c \in Users(e, r)
    <3>1. ASSUME e \in DOMAIN old, old[e] = r PROVE port[e].dynamic /\ old[e] >= 0
      BY <2>2, <3>1 DEF SharedInv
    <3>2. QED  BY <3>1 DEF Users, Mine
  <2>4. port[e].used[r] \in Nat /\ (c \in Users(e, r) => port[e].used[r] - 1 \in Nat)
    BY CountedOnce
  <2>5. CASE e \in Mine(c, late) /\ r = old[e]
    <3>1. c \in Users(e, r)  BY <2>3, <2>5
    <3>2. after[e].used[r] = port[e].used[r] - 1  BY <1>1, <2>5
    <3>3. QED  BY <2>2, <2>3, <2>4, <3>1, <3>2
  <2>6. CASE ~ (e \in Mine(c, late) /\ r = old[e])
    <3>1. after[e].used[r] = port[e].used[r] - 0  BY <1>1, <2>6
    <3>2. QED  BY <2>2, <2>3, <2>4, <3>1
  <2>7. QED  BY <2>5, <2>6
<1>4. q \in DOMAIN port[d].used
  <2>1. 0 \in DOMAIN port[d].used  BY <1>0 DEF SharedInv
  <2>2. PICK D: D = DOMAIN port[d].used  OBVIOUS
  <2>3. D \in SUBSET Nat /\ D # {}  BY <1>0, <1>3, <2>1, <2>2
  <2>4. DOMAIN after[d].used = D /\ after[d].used \in [DOMAIN after[d].used -> Int]
    BY <1>0, <1>1, <2>2, CountsType
  <2>5. after[d].used \in [D -> Nat]  BY <1>0, <1>3, <2>2, <2>4
  <2>6. LeastUsed(after[d].used) \in D  BY <2>3, <2>5, LeastUsedIn
  <2>7. QED  BY <2>2, <2>6
<1>5. q \in Nat  BY <1>0, <1>3, <1>4
<1> HIDE DEF q
<1>6. \A e \in Dev: /\ u[e] \in Counts /\ DOMAIN u[e] = DOMAIN port[e].used
                    /\ \A r \in DOMAIN port[e].used:
                          u[e][r] = after[e].used[r] + (IF e = d /\ r = q THEN 1 ELSE 0)
  <2>1. TAKE e \in Dev
  <2>a. after[e].used \in Counts  BY <1>1
  <2>2. PICK n \in Nat: after[e].used \in [0 .. n - 1 -> Int]
    <3> HIDE DEF u, k
    <3>1. QED  BY <2>a DEF Counts
  <2>3. \A r \in DOMAIN port[e].used: after[e].used[r] \in Int  BY <1>3
  <2>4. CASE e = d
    <3>1. u[e] = [after[e].used EXCEPT ![q] = @ + 1]  BY <2>4
    <3>2. q \in DOMAIN after[e].used /\ DOMAIN after[e].used = DOMAIN port[e].used  BY <1>1, <1>4, <2>4
    <3>3. u[e] \in [0 .. n - 1 -> Int]
      <4>1. PICK a: a = after[e].used  OBVIOUS
      <4>2. a \in [0 .. n - 1 -> Int] /\ q \in 0 .. n - 1  BY <2>2, <3>2, <4>1
      <4>3. [a EXCEPT ![q] = @ + 1] \in [0 .. n - 1 -> Int]  BY <4>2
      <4>4. QED  BY <3>1, <4>1, <4>3
    <3>4. DOMAIN u[e] = DOMAIN port[e].used
          /\ \A r \in DOMAIN port[e].used: u[e][r] = after[e].used[r] + (IF r = q THEN 1 ELSE 0)
      BY <2>3, <3>1, <3>2
    <3>5. QED  BY <2>4, <3>3, <3>4 DEF Counts
  <2>5. CASE e # d
    <3>1. u[e] = after[e].used  BY <2>5
    <3>2. \A r \in DOMAIN port[e].used: after[e].used[r] = after[e].used[r] + 0  BY <2>3
    <3>3. QED  BY <1>1, <2>5, <3>1, <3>2
  <2>6. QED  BY <2>4, <2>5
<1>7. OnlyUsed(u)
  <2>1. port' = [e \in Dev |-> [st |-> port[e].st, no |-> port[e].no, need |-> port[e].need,
                                rxq |-> port[e].rxq, dynamic |-> port[e].dynamic,
                                used |-> u[e], aff |-> port[e].aff, pmd |-> port[e].pmd]]
    <3>1. after[d] = [st |-> port[d].st, no |-> port[d].no, need |-> port[d].need,
                      rxq |-> port[d].rxq, dynamic |-> port[d].dynamic,
                      used |-> after[d].used, aff |-> port[d].aff, pmd |-> port[d].pmd]
      BY <1>0, <1>1
    <3>2. port' = [after EXCEPT ![d] = [after[d] EXCEPT !.used = [after[d].used EXCEPT ![q] = @ + 1]]]
      BY <1>0, <1>1, <1>2, <3>1
    <3>3. [after[d] EXCEPT !.used = [after[d].used EXCEPT ![q] = @ + 1]]
            = [st |-> port[d].st, no |-> port[d].no, need |-> port[d].need,
               rxq |-> port[d].rxq, dynamic |-> port[d].dynamic,
               used |-> u[d], aff |-> port[d].aff, pmd |-> port[d].pmd]
      <4>1. u[d] = [after[d].used EXCEPT ![q] = @ + 1]  BY <1>0
      <4> HIDE DEF u
      <4>2. PICK b: b = u[d]  OBVIOUS
      <4>3. PICK a: a = after[d].used  OBVIOUS
      <4>4. after[d] = [st |-> port[d].st, no |-> port[d].no, need |-> port[d].need,
                        rxq |-> port[d].rxq, dynamic |-> port[d].dynamic,
                        used |-> a, aff |-> port[d].aff, pmd |-> port[d].pmd]
        BY <3>1, <4>3
      <4>5. PICK x: x = after[d]  OBVIOUS
      <4>6. PICK p: p = port[d]  OBVIOUS
      <4>7. x = [st |-> p.st, no |-> p.no, need |-> p.need, rxq |-> p.rxq, dynamic |-> p.dynamic,
                 used |-> a, aff |-> p.aff, pmd |-> p.pmd]
        BY <4>4, <4>5, <4>6
      <4>8. [x EXCEPT !.used = b]
              = [st |-> p.st, no |-> p.no, need |-> p.need, rxq |-> p.rxq, dynamic |-> p.dynamic,
                 used |-> b, aff |-> p.aff, pmd |-> p.pmd]
        BY ONLY <4>7
      <4>9. QED  BY <4>1, <4>2, <4>5, <4>6, <4>8
    <3>4. \A e \in Dev: e # d => u[e] = after[e].used  OBVIOUS
    <3>5. \A e \in Dev: e # d => after[e] = [st |-> port[e].st, no |-> port[e].no, need |-> port[e].need,
                                rxq |-> port[e].rxq, dynamic |-> port[e].dynamic,
                                used |-> after[e].used, aff |-> port[e].aff, pmd |-> port[e].pmd]
      BY <1>1
    <3>6. DOMAIN after = Dev  BY <1>1
    <3> HIDE DEF u
    <3>7. PICK x: x = [after[d] EXCEPT !.used = [after[d].used EXCEPT ![q] = @ + 1]]  OBVIOUS
    <3>8. port' = [after EXCEPT ![d] = x]  BY <3>2, <3>7
    <3>9. port' = [e \in Dev |-> IF e = d THEN x ELSE after[e]]  BY ONLY <3>6, <3>8
    <3>10. \A e \in Dev: (IF e = d THEN x ELSE after[e])
             = [st |-> port[e].st, no |-> port[e].no, need |-> port[e].need,
                rxq |-> port[e].rxq, dynamic |-> port[e].dynamic,
                used |-> u[e], aff |-> port[e].aff, pmd |-> port[e].pmd]
      <4>1. TAKE e \in Dev
      <4>2. CASE e = d  BY <3>3, <3>7, <4>2
      <4>3. CASE e # d
        <5>1. u[e] = after[e].used  BY <3>4, <4>3
        <5>2. PICK a: a = u[e]  OBVIOUS
        <5>3. after[e] = [st |-> port[e].st, no |-> port[e].no, need |-> port[e].need,
                          rxq |-> port[e].rxq, dynamic |-> port[e].dynamic,
                          used |-> a, aff |-> port[e].aff, pmd |-> port[e].pmd]
          BY <3>5, <4>3, <5>1, <5>2
        <5>4. QED  BY ONLY <4>3, <5>2, <5>3
      <4>4. QED  BY <4>2, <4>3
    <3>11. QED  BY ONLY <3>9, <3>10
  <2> HIDE DEF u
  <2>2. QED  BY <1>6, <2>1 DEF OnlyUsed
<1>8. PortTypes' /\ SamePorts(port') /\ \A e \in Dev: port'[e].used = u[e]
  <2> HIDE DEF u
  <2>1. QED  BY <1>7, OnlyUsedFrame
<1>9. k \in Caches /\ DOMAIN k = DOMAIN old
  <2>1. k \in [DOMAIN old -> Int]  BY <1>0, <1>5
  <2>2. QED  BY <1>0, <2>1 DEF Caches
<1>10. pmd'[c].cache = k /\ CopiesOne(c)
  <2>1. pmd \in [Thread -> PmdState]  BY DEF StateTypes
  <2>2. pmd[c] \in PmdState  BY <2>1
  <2>3. pmd' = [pmd EXCEPT ![c] = [pmd[c] EXCEPT !.cache = k]]  BY <1>2, <2>1
  <2>4. pmd'[c].cache = k  BY <2>1, <2>2, <2>3 DEF PmdState
  <2>5. CopiesOne(c)  BY <2>1, <2>3 DEF CopiesOne
  <2>6. QED  BY <2>4, <2>5
<1>11. SharedInv'
  <2>1. \A e \in Dev: port'[e].dynamic => 0 \in DOMAIN port'[e].used
    BY <1>6, <1>8 DEF SharedInv, SamePorts
  <2>2. ASSUME NEW t \in Thread, t # c, NEW e \in DOMAIN pmd'[t].cache
        PROVE  \/ pmd'[t].cache[e] = -1
               \/ port'[e].dynamic /\ pmd'[t].cache[e] \in DOMAIN port'[e].used
    <3>1. pmd'[t].cache = pmd[t].cache  BY <1>10, <2>2 DEF CopiesOne
    <3>2. e \in Dev  BY <2>2, <3>1, PmdFields
    <3>3. pmd[t].cache[e] = -1 \/ (port[e].dynamic /\ pmd[t].cache[e] \in DOMAIN port[e].used)
      BY <2>2, <3>1 DEF SharedInv
    <3>4. port'[e].dynamic = port[e].dynamic /\ DOMAIN port'[e].used = DOMAIN port[e].used
      <4> HIDE DEF u
      <4>1. QED  BY <1>6, <1>8, <3>2 DEF SamePorts
    <3>5. QED  BY <3>1, <3>3, <3>4
  <2>3. ASSUME NEW e \in DOMAIN old
        PROVE  \/ k[e] = -1
               \/ port'[e].dynamic /\ k[e] \in DOMAIN port'[e].used
    <3>1. e \in Dev  BY <1>0
    <3>2. port'[e].dynamic = port[e].dynamic /\ DOMAIN port'[e].used = DOMAIN port[e].used
      BY <1>6, <1>8, <3>1 DEF SamePorts
    <3>3. CASE e = d  BY <1>4, <3>2, <3>3
    <3>4. CASE e # d /\ e \in gone  BY <3>4
    <3>5. CASE e # d /\ e \notin gone
      <4>1. k[e] = old[e]  BY <3>5
      <4>2. QED  BY <3>2, <4>1 DEF SharedInv
    <3>6. QED  BY <3>3, <3>4, <3>5
  <2>4. QED  BY <1>9, <1>10, <2>1, <2>2, <2>3 DEF SharedInv
<1>12. ASSUME NEW e \in Dev, NEW r \in DOMAIN port'[e].used
       PROVE  port'[e].used[r] = Cardinality(Users(e, r)')
  <2>1. r \in DOMAIN port[e].used  BY <1>6, <1>8
  <2>2. r \in Nat /\ after[e].used[r] \in Nat /\ port[e].used[r] \in Nat
        /\ (e \in Mine(c, late) /\ r = old[e] <=> e \in late /\ c \in Users(e, r))
    BY <1>3, <2>1
  <2>3. port'[e].used[r] = after[e].used[r] + (IF e = d /\ r = q THEN 1 ELSE 0)
    <3> HIDE DEF u, k
    <3>1. u[e][r] = after[e].used[r] + (IF e = d /\ r = q THEN 1 ELSE 0)  BY <1>6, <2>1
    <3>2. port'[e].used = u[e]  BY <1>8
    <3>3. QED  BY <3>1, <3>2
  <2>4. after[e].used[r] = port[e].used[r] - (IF e \in late /\ c \in Users(e, r) THEN 1 ELSE 0)
    BY <1>1, <2>1, <2>2
  <2>5. c \in Users(e, r)' <=> e \in DOMAIN old /\ k[e] = r  BY <1>9, <1>10 DEF Users
  <2>6. c \in Users(e, r) <=> e \in DOMAIN old /\ old[e] = r  BY DEF Users
  <2>7. port'[e].used[r] = port[e].used[r] - (IF c \in Users(e, r) THEN 1 ELSE 0)
                                           + (IF c \in Users(e, r)' THEN 1 ELSE 0)
    <3>1. CASE e = d
      <4>1. c \in Users(e, r)' <=> r = q  BY <2>5, <3>1
      <4>2. c \in Users(e, r) => e \in late  BY <2>2, <2>6, <3>1
      <4>3. QED  BY <2>2, <2>3, <2>4, <3>1, <4>1, <4>2
    <3>2. CASE e # d /\ e \in gone
      <4>1. e \in late /\ e \in DOMAIN old  BY <3>2
      <4>2. k[e] = -1  BY <3>2, <4>1
      <4>3. c \notin Users(e, r)'  BY <2>2, <2>5, <4>2
      <4>4. QED  BY <2>2, <2>3, <2>4, <3>2, <4>1, <4>3
    <3>3. CASE e # d /\ e \notin gone
      <4>1. c \in Users(e, r)' <=> c \in Users(e, r)  BY <2>5, <2>6, <3>3
      <4>2. c \in Users(e, r) => e \notin late
        <5>1. ASSUME c \in Users(e, r) PROVE port[e].dynamic  BY <2>2, <2>6, <5>1 DEF SharedInv
        <5>2. QED  BY <3>3, <5>1
      <4>3. QED  BY <2>2, <2>3, <2>4, <3>3, <4>1, <4>2
    <3>4. QED  BY <3>1, <3>2, <3>3
  <2>8. QED  BY <1>10, <2>1, <2>7, CountOne
<1>13. TxqUsedCounts'  BY <1>12 DEF TxqUsedCounts, Users
<1>14. \E x \in Caches: DOMAIN x = DOMAIN pmd[c].cache /\ pmd' = [pmd EXCEPT ![c].cache = x]
  BY <1>2, <1>9
<1>15. QED  BY <1>8, <1>11, <1>13, <1>14

-----------------------------------------------------------------------------
(* Steps of the threads *)

LEMMA MainFields ==
  ASSUME StateTypes
  PROVE  /\ main = [pc |-> main.pc, todo |-> main.todo, on |-> main.on, next |-> main.next,
                    del |-> main.del, saved |-> main.saved]
         /\ main.todo \in SUBSET (Dev \cup Thread) /\ main.on \in Thread \cup {None}
         /\ main.del \in SUBSET Dev /\ main.saved \in Dev \cup {None}
         /\ main.next \in {"idle", "create", "ports", "add", "end", "destroy"}
         /\ main.pc \in HandshakePc \cup {"idle", "threads", "create", "stale", "ports", "add",
                                          "end", "destroy"}
BY DEF StateTypes, MainState

\* What the main thread is at goes on, or thread c is done with.
MainWaits(c, synced) ==
    \/ main' = main
    \/ main.pc = "wait" /\ main.on = c /\ main' = [main EXCEPT !.pc = "woken"] /\ synced
    \/ main.pc = "reload" /\ c = NonPmd /\ main' = [main EXCEPT !.todo = @ \ {c}] /\ synced

LEMMA MainWaitsFrame ==
  ASSUME IndInv, NEW c \in Thread, NEW synced, MainWaits(c, synced),
         Polling' = Polling, Running' = Running, Ports' = Ports, ref' = ref
  PROVE  /\ main' \in MainState /\ SamePhase /\ ThreadsInv'
         /\ \/ main'.pc \in {"set", "wait"} /\ main'.on = main.on
            \/ ~ (main.pc \in {"set", "wait"}) \/ (synced /\ main.on = c)
         /\ \A e \in Thread: Due(e) => Due(e)' \/ (e = c /\ synced)
         /\ main'.pc \in HandshakePc => main'.next # "idle" /\ main'.todo \subseteq Polling
         /\ main'.pc \in {"signal", "set", "wait", "woken"} => main'.on \in Running \ main'.todo
<1>0. /\ StateTypes /\ ThreadsInv
      /\ main.pc \in HandshakePc => main.next # "idle" /\ main.todo \subseteq Polling
      /\ main.pc \in {"signal", "set", "wait", "woken"} => main.on \in Running \ main.todo
  BY DEF IndInv, HandshakeInv
<1>m. /\ main = [pc |-> main.pc, todo |-> main.todo, on |-> main.on, next |-> main.next,
                 del |-> main.del, saved |-> main.saved]
      /\ main \in MainState
  BY <1>0, MainFields DEF StateTypes
<1>1. \/ main'.pc = main.pc /\ main'.todo = main.todo
      \/ main.pc = "wait" /\ main.on = c /\ synced /\ main'.pc = "woken" /\ main'.todo = main.todo
      \/ main.pc = "reload" /\ main'.pc = "reload" /\ c = NonPmd /\ synced /\ main'.todo = main.todo \ {c}
  BY <1>m DEF MainWaits
<1>2. main'.on = main.on /\ main'.next = main.next /\ main'.del = main.del  BY <1>m DEF MainWaits
<1>3. main' \in MainState
  <2>1. CASE main' = main  BY <1>m, <2>1
  <2>2. CASE main' = [main EXCEPT !.pc = "woken"]  BY <1>m, <2>2 DEF MainState, HandshakePc
  <2>3. CASE main' = [main EXCEPT !.todo = @ \ {c}]
    <3>1. main.todo \ {c} \in SUBSET (Dev \cup Thread)  BY <1>0, MainFields
    <3>2. PICK t: t = main.todo \ {c}  OBVIOUS
    <3>3. main' = [main EXCEPT !.todo = t]  BY <1>m, <2>3, <3>2
    <3>4. QED  BY <1>m, <3>1, <3>2, <3>3 DEF MainState
  <2>4. QED  BY <2>1, <2>2, <2>3 DEF MainWaits
<1>4. SamePhase  BY <1>1, <1>2 DEF SamePhase, Phase, HandshakePc
<1>5. ThreadsInv'
  <2>1. Ending' = Ending  BY <1>2 DEF Ending
  <2>2. NonPmd \notin Polling => main.pc = "idle" /\ ref.handles = 0 /\ Polling = {} /\ Ports = {}
    BY <1>0 DEF ThreadsInv
  <2>3. main.pc = "idle" => main'.pc = "idle"  BY <1>1
  <2>4. main'.pc \in {"create", "destroy"} => Running = {}  BY <1>0, <1>1 DEF ThreadsInv
  <2>5. ASSUME main'.pc \in HandshakePc, Ending
        PROVE  Running \subseteq main'.todo \cup (IF main'.pc = "reload" THEN {} ELSE {main'.on})
    <3>1. Running \subseteq main.todo \cup (IF main.pc = "reload" THEN {} ELSE {main.on})
      BY <1>0, <1>1, <2>5 DEF ThreadsInv, HandshakePc
    <3>2. NonPmd \notin Running  BY DEF Running
    <3>3. QED  BY <1>1, <1>2, <3>1, <3>2
  <2>6. Phase' = "destroy" => ref.handles = 0  BY <1>0, <1>4 DEF SamePhase, ThreadsInv
  <2>7. QED  BY <2>1, <2>2, <2>3, <2>4, <2>5, <2>6 DEF ThreadsInv
<1>6. \A e \in Thread: Due(e) => Due(e)' \/ (e = c /\ synced)
  BY <1>1, <1>2 DEF Due, HandshakePc
<1>7. /\ main'.pc \in HandshakePc => main'.next # "idle" /\ main'.todo \subseteq Polling
      /\ main'.pc \in {"signal", "set", "wait", "woken"} => main'.on \in Running \ main'.todo
  BY <1>0, <1>1, <1>2 DEF HandshakePc
<1>8. \/ main'.pc \in {"set", "wait"} /\ main'.on = main.on
      \/ ~ (main.pc \in {"set", "wait"}) \/ (synced /\ main.on = c)
  BY <1>1, <1>2
<1>9. QED  BY <1>3, <1>4, <1>5, <1>6, <1>7, <1>8

\* Thread c goes on, and perhaps makes its copies anew.
LEMMA ThreadStep ==
  ASSUME IndInv, NEW c \in Thread, NEW r \in PmdState, pmd' = [pmd EXCEPT ![c] = r],
         UNCHANGED <<netdev, ref>>,
         NEW synced, synced = (r.snap \subseteq r.polls /\ DOMAIN r.cache \subseteq r.tx /\ ~ r.reload),
         MainWaits(c, synced),
         PortTypes', SamePorts(port'), SharedInv', TxqUsedCounts',
         r.polls = pmd[c].polls, r.tx = pmd[c].tx, r.tid = pmd[c].tid,
         r.pc # "none", pmd[c].pc # "none",
         \/ r.snap = pmd[c].snap \/ r.snap = pmd[c].polls \/ r.snap = {},
         DOMAIN r.cache \subseteq DOMAIN pmd[c].cache \cup pmd[c].tx,
         Due(c) \/ (r.snap \subseteq r.polls /\ DOMAIN r.cache \subseteq r.tx),
         r.pc = "ended" => r.snap = {} /\ r.cache = <<>>,
         r.reload => pmd[c].reload,
         r.pc = "loaded" => r.reload /\ r.snap \subseteq r.polls /\ DOMAIN r.cache \subseteq r.tx,
         c = NonPmd => r.pc = "poll" /\ r.snap = {}
  PROVE  IndInv'
<1>0. StateTypes /\ HandshakeInv /\ CopiesInv  BY DEF IndInv
<1>1. /\ pmd' \in [Thread -> PmdState] /\ pmd'[c] = r
      /\ \A e \in Thread: e # c => pmd'[e] = pmd[e]
  BY <1>0, OtherPmds
<1>2. SameLists  BY <1>1 DEF SameLists
<1>3. Polling' = Polling /\ Running' = Running /\ Ports' = Ports
  BY <1>2, SamePolling, SamePortSet
<1>4. /\ main' \in MainState /\ SamePhase /\ ThreadsInv'
      /\ \/ main'.pc \in {"set", "wait"} /\ main'.on = main.on
         \/ ~ (main.pc \in {"set", "wait"}) \/ (synced /\ main.on = c)
      /\ \A e \in Thread: Due(e) => Due(e)' \/ (e = c /\ synced)
      /\ main'.pc \in HandshakePc => main'.next # "idle" /\ main'.todo \subseteq Polling
      /\ main'.pc \in {"signal", "set", "wait", "woken"} => main'.on \in Running \ main'.todo
  BY <1>3, MainWaitsFrame
<1>5. SameDevices  BY DEF SameDevices
<1>6. Copies /\ CopiesOne(c)
  <2>1. \A e \in Thread \ {c}: pmd'[e].snap = pmd[e].snap /\ pmd'[e].cache = pmd[e].cache  BY <1>1
  <2>2. /\ pmd'[c].snap \subseteq pmd[c].snap \cup pmd[c].polls
        /\ DOMAIN pmd'[c].cache \subseteq DOMAIN pmd[c].cache \cup pmd[c].tx
    BY <1>1
  <2>3. QED  BY <2>1, <2>2 DEF Copies, CopiesOne
<1>7. StateTypes'  BY <1>0, <1>1, <1>4 DEF StateTypes
<1>8. HandshakeInv'
  <2>1. ASSUME NEW e \in Thread
        PROVE  /\ pmd'[e].pc = "none" => pmd'[e] = NoPmd
               /\ pmd'[e].pc = "ended" => pmd'[e].snap = {} /\ pmd'[e].cache = <<>>
               /\ pmd'[e].reload => main'.pc \in {"set", "wait"} /\ main'.on = e
               /\ pmd'[e].pc = "loaded" => /\ pmd'[e].reload
                                           /\ pmd'[e].snap \subseteq pmd'[e].polls
                                           /\ DOMAIN pmd'[e].cache \subseteq pmd'[e].tx
    <3>1. /\ pmd[e].pc = "none" => pmd[e] = NoPmd
          /\ pmd[e].pc = "ended" => pmd[e].snap = {} /\ pmd[e].cache = <<>>
          /\ pmd[e].reload => main.pc \in {"set", "wait"} /\ main.on = e
          /\ pmd[e].pc = "loaded" => /\ pmd[e].reload
                                     /\ pmd[e].snap \subseteq pmd[e].polls
                                     /\ DOMAIN pmd[e].cache \subseteq pmd[e].tx
      BY <1>0 DEF HandshakeInv
    <3>2. CASE e # c  BY <1>1, <1>4, <3>1, <3>2
    <3>3. CASE e = c
      <4>1. r.reload => main'.pc \in {"set", "wait"} /\ main'.on = c  BY <1>4, <3>1, <3>3
      <4>2. QED  BY <1>1, <3>3, <4>1
    <3>4. QED  BY <3>2, <3>3
  <2>2. pmd'[NonPmd].pc \in {"none", "poll"} /\ pmd'[NonPmd].snap = {} /\ pmd'[NonPmd].tid = 0
    <3>1. pmd[NonPmd].pc \in {"none", "poll"} /\ pmd[NonPmd].snap = {} /\ pmd[NonPmd].tid = 0
      BY <1>0 DEF HandshakeInv
    <3>2. QED  BY <1>1, <3>1, CoreThreads
  <2>3. QED  BY <1>3, <1>4, <2>1, <2>2 DEF HandshakeInv
<1>9. CopiesInv'
  <2>1. ASSUME NEW e \in Thread
        PROVE  Due(e)' \/ (pmd'[e].snap \subseteq pmd'[e].polls /\ DOMAIN pmd'[e].cache \subseteq pmd'[e].tx)
    <3>1. Due(e) \/ (pmd[e].snap \subseteq pmd[e].polls /\ DOMAIN pmd[e].cache \subseteq pmd[e].tx)
      BY <1>0 DEF CopiesInv
    <3>2. CASE e # c  BY <1>1, <1>4, <3>1, <3>2
    <3>3. CASE e = c  BY <1>1, <1>4, <3>3
    <3>4. QED  BY <3>2, <3>3
  <2>2. QED  BY <2>1 DEF CopiesInv
<1>10. GoneInv' /\ NeedInv' /\ ThreadsCounted'  BY <1>2, <1>4, <1>5, ListsFrame
<1>11. OwnerInv' /\ OnePoller' /\ OpenInv' /\ TidInv'  BY <1>2, <1>4, <1>5, <1>6, CopiesFrame
<1>12. QED  BY <1>4, <1>7, <1>8, <1>9, <1>10, <1>11 DEF IndInv

LEMMA CopiedType ==
  ASSUME StateTypes, NEW c \in Thread
  PROVE  /\ Copied(c) \in Caches /\ DOMAIN Copied(c) \subseteq pmd[c].tx
         /\ \A d \in DOMAIN Copied(c): Copied(c)[d] = -1
<1>1. pmd[c].tx \in SUBSET Dev  BY PmdFields
<1> DEFINE D == {e \in pmd[c].tx: netdev[e].txq > 0}
<1>2. D \in SUBSET Dev /\ D \subseteq pmd[c].tx  BY <1>1
<1>3. Copied(c) = [d \in D |-> -1]  BY DEF Copied
<1> HIDE DEF D
<1>4. Copied(c) \in [D -> Int]  BY <1>3
<1>5. QED  BY <1>2, <1>3, <1>4 DEF Caches

\* pmd_load_queues_and_ports: the copies are those of the lists, and no queue is in use.
LEMMA LoadStep ==
  ASSUME IndInv, NEW c \in Core, NEW pc \in {"block", "poll", "loaded"}, pmd[c].pc # "none",
         LoadQueues(c, pc), pc = "loaded" => pmd[c].reload, UNCHANGED <<netdev, main, ref>>
  PROVE  IndInv'
<1>0. c \in Thread /\ c # NonPmd /\ StateTypes /\ SharedInv /\ TxqUsedCounts
  BY CoreThreads DEF IndInv
<1> DEFINE r == [pmd[c] EXCEPT !.snap = pmd[c].polls, !.cache = Copied(c), !.pc = pc]
<1>1. /\ pmd[c] \in PmdState /\ pmd[c].polls \in SUBSET Queue /\ DOMAIN pmd[c].cache \in SUBSET Dev
  BY <1>0, PmdFields
<1>2. /\ Copied(c) \in Caches /\ DOMAIN Copied(c) \subseteq pmd[c].tx
      /\ \A d \in DOMAIN Copied(c): Copied(c)[d] = -1
  BY <1>0, CopiedType
<1>3. r \in PmdState  BY <1>1, <1>2 DEF PmdState
<1>4. /\ r.snap = pmd[c].polls /\ r.cache = Copied(c) /\ r.pc = pc /\ r.polls = pmd[c].polls
      /\ r.tx = pmd[c].tx /\ r.tid = pmd[c].tid /\ r.reload = pmd[c].reload
  BY <1>1 DEF PmdState
<1>5. pmd' = [pmd EXCEPT ![c] = r] /\ port' = Released(c, DOMAIN pmd[c].cache)
  BY DEF LoadQueues
<1> HIDE DEF r
<1>6. pmd'[c] = r /\ CopiesOne(c)  BY <1>0, <1>3, <1>5, OtherPmds DEF CopiesOne
<1>7. PortTypes' /\ SamePorts(port')  BY <1>0, <1>1, <1>5, ReleasedFrame
<1>8. SharedInv' /\ TxqUsedCounts'
  <2>1. \A d \in DOMAIN pmd'[c].cache: pmd'[c].cache[d] = -1  BY <1>2, <1>4, <1>6
  <2>2. QED  BY <1>0, <1>5, <1>6, <2>1, NewCopies
<1>9. PICK synced: synced = (r.snap \subseteq r.polls /\ DOMAIN r.cache \subseteq r.tx /\ ~ r.reload)
  OBVIOUS
<1>10. MainWaits(c, synced)  BY DEF MainWaits
<1>11. QED
  BY <1>0, <1>2, <1>3, <1>4, <1>5, <1>7, <1>8, <1>9, <1>10, ThreadStep

LEMMA StartStep == ASSUME IndInv, NEW c \in Core, Start(c) PROVE IndInv'
<1>1. CASE pmd[c].polls = {}  BY <1>1, LoadStep DEF Start
<1>2. CASE pmd[c].polls # {}  BY <1>2, LoadStep DEF Start
<1>3. QED  BY <1>1, <1>2

LEMMA ReloadStep == ASSUME IndInv, NEW c \in Core, Reload(c) PROVE IndInv'
  BY LoadStep DEF Reload

\* Steps in which no queue changes hands.
LEMMA SameSharing ==
  ASSUME StateTypes, SharedInv, TxqUsedCounts, NEW c \in Thread, NEW r \in PmdState,
         pmd' = [pmd EXCEPT ![c] = r], r.cache = pmd[c].cache, port' = port
  PROVE  PortTypes' /\ SamePorts(port') /\ SharedInv' /\ TxqUsedCounts'
<1>1. SameCaches  BY OtherPmds DEF SameCaches
<1>2. SharedInv' /\ TxqUsedCounts'  BY <1>1, SharedFrame
<1>3. PortTypes'  BY DEF PortTypes, StateTypes
<1>4. QED  BY <1>2, <1>3 DEF SamePorts

LEMMA UnblockStep == ASSUME IndInv, NEW c \in Core, Unblock(c) PROVE IndInv'
<1>0. c \in Thread /\ c # NonPmd /\ StateTypes /\ SharedInv /\ TxqUsedCounts /\ CopiesInv /\ HandshakeInv
  BY CoreThreads DEF IndInv
<1> DEFINE r == [pmd[c] EXCEPT !.pc = "poll"]
<1>1. pmd[c] \in PmdState  BY <1>0, PmdFields
<1>2. r \in PmdState  BY <1>1 DEF PmdState
<1>3. /\ r.snap = pmd[c].snap /\ r.cache = pmd[c].cache /\ r.pc = "poll" /\ r.polls = pmd[c].polls
      /\ r.tx = pmd[c].tx /\ r.tid = pmd[c].tid /\ r.reload = pmd[c].reload
  BY <1>1 DEF PmdState
<1>4. pmd' = [pmd EXCEPT ![c] = r] /\ port' = port /\ pmd[c].pc = "block"
      /\ UNCHANGED <<netdev, main, ref>>
  BY DEF Unblock
<1> HIDE DEF r
<1>5. PortTypes' /\ SamePorts(port') /\ SharedInv' /\ TxqUsedCounts'
  BY <1>0, <1>2, <1>3, <1>4, SameSharing
<1>6. PICK synced: synced = (r.snap \subseteq r.polls /\ DOMAIN r.cache \subseteq r.tx /\ ~ r.reload)
  OBVIOUS
<1>7. MainWaits(c, synced)  BY <1>4 DEF MainWaits
<1>8. Due(c) \/ (r.snap \subseteq r.polls /\ DOMAIN r.cache \subseteq r.tx)
  BY <1>0, <1>3 DEF CopiesInv
<1>9. QED  BY <1>0, <1>2, <1>3, <1>4, <1>5, <1>6, <1>7, <1>8, ThreadStep

LEMMA ReloadDoneStep == ASSUME IndInv, NEW c \in Core, ReloadDone(c) PROVE IndInv'
<1>0. c \in Thread /\ c # NonPmd /\ StateTypes /\ SharedInv /\ TxqUsedCounts /\ HandshakeInv
  BY CoreThreads DEF IndInv
<1>p. PICK pc \in {"exit", "block", "poll"}:
         pc = IF pmd[c].latch THEN "exit" ELSE IF pmd[c].snap = {} THEN "block" ELSE "poll"
  OBVIOUS
<1> DEFINE r == [pmd[c] EXCEPT !.reload = FALSE, !.seq = FALSE, !.pc = pc]
<1>1. pmd[c] \in PmdState  BY <1>0, PmdFields
<1>2. r \in PmdState  BY <1>1 DEF PmdState
<1>3. /\ r.snap = pmd[c].snap /\ r.cache = pmd[c].cache /\ r.pc = pc /\ r.polls = pmd[c].polls
      /\ r.tx = pmd[c].tx /\ r.tid = pmd[c].tid /\ r.reload = FALSE
  BY <1>1 DEF PmdState
<1>4. pmd' = [pmd EXCEPT ![c] = r] /\ port' = port /\ pmd[c].pc = "loaded"
      /\ UNCHANGED <<netdev, ref>>
  BY <1>p DEF ReloadDone
<1> HIDE DEF r
<1>5. PortTypes' /\ SamePorts(port') /\ SharedInv' /\ TxqUsedCounts'
  BY <1>0, <1>2, <1>3, <1>4, SameSharing
<1>6. /\ pmd[c].reload /\ pmd[c].snap \subseteq pmd[c].polls /\ DOMAIN pmd[c].cache \subseteq pmd[c].tx
      /\ main.pc \in {"set", "wait"} /\ main.on = c
  BY <1>0, <1>4 DEF HandshakeInv
<1>7. main.pc = "wait" /\ main' = [main EXCEPT !.pc = "woken"]  BY <1>6 DEF ReloadDone, Locked
<1>8. PICK synced: synced = (r.snap \subseteq r.polls /\ DOMAIN r.cache \subseteq r.tx /\ ~ r.reload)
  OBVIOUS
<1>9. MainWaits(c, synced)  BY <1>3, <1>6, <1>7, <1>8 DEF MainWaits
<1>10. QED  BY <1>0, <1>2, <1>3, <1>4, <1>5, <1>6, <1>8, <1>9, ThreadStep

LEMMA ExitStep == ASSUME IndInv, NEW c \in Core, Exit(c) PROVE IndInv'
<1>0. c \in Thread /\ c # NonPmd /\ StateTypes /\ SharedInv /\ TxqUsedCounts
  BY CoreThreads DEF IndInv
<1> DEFINE r == [pmd[c] EXCEPT !.pc = "ended", !.cache = <<>>, !.snap = {}]
<1>1. pmd[c] \in PmdState /\ DOMAIN pmd[c].cache \in SUBSET Dev  BY <1>0, PmdFields
<1>2. r \in PmdState  BY <1>1, EmptyTypes DEF PmdState
<1>3. /\ r.snap = {} /\ r.cache = <<>> /\ r.pc = "ended" /\ r.polls = pmd[c].polls
      /\ r.tx = pmd[c].tx /\ r.tid = pmd[c].tid /\ r.reload = pmd[c].reload
  BY <1>1 DEF PmdState
<1>4. /\ pmd' = [pmd EXCEPT ![c] = r] /\ port' = Released(c, DOMAIN pmd[c].cache)
      /\ pmd[c].pc = "exit" /\ UNCHANGED <<netdev, main, ref>>
  BY DEF Exit
<1> HIDE DEF r
<1>5. pmd'[c] = r /\ CopiesOne(c)  BY <1>0, <1>2, <1>4, OtherPmds DEF CopiesOne
<1>6. PortTypes' /\ SamePorts(port')  BY <1>0, <1>1, <1>4, ReleasedFrame
<1>7. DOMAIN r.cache = {}  BY <1>3, EmptyTypes
<1>8. SharedInv' /\ TxqUsedCounts'
  <2>1. \A d \in DOMAIN pmd'[c].cache: pmd'[c].cache[d] = -1  BY <1>5, <1>7
  <2>2. QED  BY <1>0, <1>4, <1>5, <2>1, NewCopies
<1>9. PICK synced: synced = (r.snap \subseteq r.polls /\ DOMAIN r.cache \subseteq r.tx /\ ~ r.reload)
  OBVIOUS
<1>10. MainWaits(c, synced)  BY <1>4 DEF MainWaits
<1>11. QED
  BY <1>0, <1>2, <1>3, <1>4, <1>6, <1>7, <1>8, <1>9, <1>10, ThreadStep

LEMMA SendStep == ASSUME IndInv, NEW c \in Thread, Send(c) PROVE IndInv'
<1>0. StateTypes /\ SharedInv /\ TxqUsedCounts /\ HandshakeInv /\ CopiesInv
  BY DEF IndInv
<1>1. PICK d \in DOMAIN pmd[c].cache, late \in SUBSET DOMAIN pmd[c].cache:
         port[d].dynamic /\ SendXps(c, d, late)
  BY DEF Send
<1>2. pmd[c].pc = "poll" /\ UNCHANGED <<netdev, main, ref>>  BY DEF Send
<1>3. pmd[c] \in PmdState  BY <1>0, PmdFields
<1>4. \E k \in Caches: /\ DOMAIN k = DOMAIN pmd[c].cache /\ pmd' = [pmd EXCEPT ![c].cache = k]
                       /\ PortTypes' /\ SamePorts(port') /\ SharedInv' /\ TxqUsedCounts'
  <2>1. CASE pmd[c].cache[d] >= 0 /\ d \notin late
    <3>1. port' = port /\ pmd' = pmd  BY <1>1, <2>1 DEF SendXps
    <3>2. pmd' = [pmd EXCEPT ![c] = pmd[c]] /\ pmd' = [pmd EXCEPT ![c].cache = pmd[c].cache]
      BY <1>0, <1>3, <3>1 DEF StateTypes, PmdState
    <3>3. PortTypes' /\ SamePorts(port') /\ SharedInv' /\ TxqUsedCounts'
      BY <1>0, <1>3, <3>1, <3>2, SameSharing
    <3>4. pmd[c].cache \in Caches  BY <1>0, PmdFields
    <3>5. QED  BY <3>2, <3>3, <3>4
  <2>2. CASE ~ (pmd[c].cache[d] >= 0 /\ d \notin late)  BY <1>0, <1>1, <2>2, SendSharing
  <2>3. QED  BY <2>1, <2>2
<1>5. PICK k \in Caches: /\ DOMAIN k = DOMAIN pmd[c].cache /\ pmd' = [pmd EXCEPT ![c].cache = k]
                         /\ PortTypes' /\ SamePorts(port') /\ SharedInv' /\ TxqUsedCounts'
  BY <1>4
<1> DEFINE r == [pmd[c] EXCEPT !.cache = k]
<1>6. r \in PmdState  BY <1>3 DEF PmdState
<1>7. /\ r.snap = pmd[c].snap /\ r.cache = k /\ r.pc = pmd[c].pc /\ r.polls = pmd[c].polls
      /\ r.tx = pmd[c].tx /\ r.tid = pmd[c].tid /\ r.reload = pmd[c].reload
  BY <1>3 DEF PmdState
<1>8. pmd' = [pmd EXCEPT ![c] = r]  BY <1>5
<1> HIDE DEF r
<1>9. PICK synced: synced = (r.snap \subseteq r.polls /\ DOMAIN r.cache \subseteq r.tx /\ ~ r.reload)
  OBVIOUS
<1>10. MainWaits(c, synced)  BY <1>2 DEF MainWaits
<1>11. Due(c) \/ (r.snap \subseteq r.polls /\ DOMAIN r.cache \subseteq r.tx)
  BY <1>0, <1>5, <1>7 DEF CopiesInv
<1>12. c = NonPmd => r.snap = {}  BY <1>0, <1>7 DEF HandshakeInv
<1>13. QED  BY <1>2, <1>5, <1>6, <1>7, <1>8, <1>9, <1>10, <1>11, <1>12, ThreadStep

LEMMA ReloadNonPmdStep == ASSUME IndInv, ReloadNonPmd PROVE IndInv'
<1> DEFINE c == NonPmd
           r == [pmd[c] EXCEPT !.cache = Copied(c), !.need = FALSE]
<1>0. c \in Thread /\ StateTypes /\ SharedInv /\ TxqUsedCounts /\ HandshakeInv /\ ThreadsInv
  BY CoreThreads DEF IndInv
<1>1. pmd[c] \in PmdState /\ DOMAIN pmd[c].cache \in SUBSET Dev  BY <1>0, PmdFields
<1>2. /\ Copied(c) \in Caches /\ DOMAIN Copied(c) \subseteq pmd[c].tx
      /\ \A d \in DOMAIN Copied(c): Copied(c)[d] = -1
  BY <1>0, CopiedType
<1>3. r \in PmdState  BY <1>1, <1>2 DEF PmdState
<1>4. /\ r.snap = pmd[c].snap /\ r.cache = Copied(c) /\ r.pc = pmd[c].pc /\ r.polls = pmd[c].polls
      /\ r.tx = pmd[c].tx /\ r.tid = pmd[c].tid /\ r.reload = pmd[c].reload
  BY <1>1 DEF PmdState
<1>5. /\ pmd' = [pmd EXCEPT ![c] = r] /\ port' = Released(c, DOMAIN pmd[c].cache)
      /\ main.pc = "reload" /\ main' = [main EXCEPT !.todo = @ \ {c}] /\ UNCHANGED <<netdev, ref>>
  BY DEF ReloadNonPmd
<1> HIDE DEF r
<1>6. pmd'[c] = r /\ CopiesOne(c)  BY <1>0, <1>3, <1>5, OtherPmds DEF CopiesOne
<1>7. PortTypes' /\ SamePorts(port')  BY <1>0, <1>1, <1>5, ReleasedFrame
<1>8. SharedInv' /\ TxqUsedCounts'
  <2>1. \A d \in DOMAIN pmd'[c].cache: pmd'[c].cache[d] = -1  BY <1>2, <1>4, <1>6
  <2>2. QED  BY <1>0, <1>5, <1>6, <2>1, NewCopies
<1>9. /\ pmd[c].pc \in {"none", "poll"} /\ pmd[c].snap = {} /\ ~ pmd[c].reload
  BY <1>0, <1>5 DEF HandshakeInv
<1>10. pmd[c].pc = "poll"  BY <1>0, <1>5, <1>9 DEF ThreadsInv, Polling
<1>11. PICK synced: synced = (r.snap \subseteq r.polls /\ DOMAIN r.cache \subseteq r.tx /\ ~ r.reload)
  OBVIOUS
<1>12. MainWaits(c, synced)  BY <1>2, <1>4, <1>5, <1>9, <1>11 DEF MainWaits
<1>13. QED
  BY <1>0, <1>2, <1>3, <1>4, <1>5, <1>7, <1>8, <1>9, <1>10, <1>11, <1>12, ThreadStep

-----------------------------------------------------------------------------
(* Steps of the main thread in which no port and no list changes *)

SameCopies == \A c \in Thread: pmd'[c].snap = pmd[c].snap /\ pmd'[c].cache = pmd[c].cache

LEMMA MainStep ==
  ASSUME IndInv, PortTypes', SamePorts(port'), \A d \in Dev: port'[d].used = port[d].used,
         netdev' \in [Dev -> Device], SameDevices, ref' \in Handles,
         pmd' \in [Thread -> PmdState], SameLists, SameCopies,
         main' \in MainState, SamePhase, HandshakeInv', CopiesInv', ThreadsInv'
  PROVE  IndInv'
<1>1. StateTypes'  BY DEF StateTypes
<1>2. Copies /\ CopiesOne(NonPmd)  BY DEF Copies, CopiesOne, SameCopies
<1>3. SharedInv' /\ TxqUsedCounts'
  <2>1. SameCaches  BY DEF SameCaches, SameCopies
  <2>2. \A d \in Dev: port'[d].dynamic = port[d].dynamic  BY DEF SamePorts
  <2>3. QED  BY <2>1, <2>2, SharedFrame DEF IndInv
<1>4. GoneInv' /\ NeedInv' /\ ThreadsCounted'  BY ListsFrame
<1>5. OwnerInv' /\ OnePoller' /\ OpenInv' /\ TidInv'  BY <1>2, CoreThreads, CopiesFrame
<1>6. QED  BY <1>1, <1>3, <1>4, <1>5 DEF IndInv

\* The threads are left alone.
LEMMA SamePmdInv ==
  ASSUME HandshakeInv, CopiesInv, pmd' = pmd,
         main'.pc \in HandshakePc => main'.next # "idle" /\ main'.todo \subseteq Polling,
         main'.pc \in {"signal", "set", "wait", "woken"} => main'.on \in Running \ main'.todo,
         \A c \in Thread: pmd[c].reload => main'.pc \in {"set", "wait"} /\ main'.on = c,
         \A c \in Thread: Due(c) => Due(c)'
  PROVE  HandshakeInv' /\ CopiesInv'
<1>1. Polling' = Polling /\ Running' = Running  BY DEF Polling, Running
<1>2. HandshakeInv'  BY <1>1 DEF HandshakeInv
<1>3. CopiesInv'
  <2>1. \A c \in Thread: Due(c) \/ /\ pmd[c].snap \subseteq pmd[c].polls
                                   /\ DOMAIN pmd[c].cache \subseteq pmd[c].tx
    BY DEF CopiesInv
  <2>2. \A c \in Thread: Due(c)' \/ /\ pmd'[c].snap \subseteq pmd'[c].polls
                                    /\ DOMAIN pmd'[c].cache \subseteq pmd'[c].tx
    BY <2>1
  <2>3. QED  BY <2>2 DEF CopiesInv
<1>4. QED  BY <1>2, <1>3

\* The same when no port changes either.
LEMMA MainOnly ==
  ASSUME IndInv, UNCHANGED <<port, netdev, pmd>>, ref' \in Handles,
         main' \in MainState, SamePhase, ThreadsInv',
         main'.pc \in HandshakePc => main'.next # "idle" /\ main'.todo \subseteq Polling,
         main'.pc \in {"signal", "set", "wait", "woken"} => main'.on \in Running \ main'.todo,
         \A c \in Thread: pmd[c].reload => main'.pc \in {"set", "wait"} /\ main'.on = c,
         \A c \in Thread: Due(c) => Due(c)'
  PROVE  IndInv'
<1>1. HandshakeInv' /\ CopiesInv'  BY SamePmdInv DEF IndInv
<1>2. PortTypes' /\ SamePorts(port') /\ netdev' \in [Dev -> Device] /\ pmd' \in [Thread -> PmdState]
  BY DEF PortTypes, SamePorts, IndInv, StateTypes
<1>3. SameDevices /\ SameLists /\ SameCopies  BY DEF SameDevices, SameLists, SameCopies
<1>4. QED  BY <1>1, <1>2, <1>3, MainStep

\* Nothing changes for the threads and the main thread.
LEMMA QuietStep ==
  ASSUME IndInv, UNCHANGED <<pmd, main>>, PortTypes', SamePorts(port'),
         \A d \in Dev: port'[d].used = port[d].used,
         netdev' \in [Dev -> Device], SameDevices, ref' \in Handles,
         ref' # ref => Polling # {} /\ main.pc = "idle"
  PROVE  IndInv'
<1>0. StateTypes /\ HandshakeInv /\ CopiesInv /\ ThreadsInv /\ NeedInv  BY DEF IndInv
<1>1. SameLists /\ SameCopies /\ SamePhase  BY DEF SameLists, SameCopies, SamePhase, Phase
<1>2. HandshakeInv' /\ CopiesInv'
  <2>1. \A c \in Thread: Due(c) => Due(c)'  BY DEF Due
  <2>2. QED  BY <1>0, <2>1, SamePmdInv DEF HandshakeInv
<1>3. ThreadsInv'
  <2>1. Polling' = Polling /\ Running' = Running /\ Ports' = Ports
    BY <1>1, SamePolling, SamePortSet
  <2>2. Phase' = Phase /\ Ending' = Ending  BY DEF Phase, Ending
  <2>3. NonPmd \notin Polling => main.pc = "idle" /\ ref'.handles = 0 /\ Polling = {} /\ Ports = {}
    BY <1>0 DEF ThreadsInv
  <2>4. Phase = "destroy" => ref'.handles = 0  BY <1>0 DEF ThreadsInv, Phase, HandshakePc
  <2>5. QED  BY <1>0, <2>1, <2>2, <2>3, <2>4 DEF ThreadsInv
<1>4. pmd' \in [Thread -> PmdState] /\ main' \in MainState  BY <1>0 DEF StateTypes
<1>5. QED  BY <1>1, <1>2, <1>3, <1>4, MainStep

LEMMA SameEverywhere ==
  ASSUME StateTypes
  PROVE  /\ port' = port => PortTypes' /\ SamePorts(port') /\ \A d \in Dev: port'[d].used = port[d].used
         /\ netdev' = netdev => netdev' \in [Dev -> Device] /\ SameDevices
BY DEF StateTypes, PortTypes, SamePorts, SameDevices

LEMMA PmdSetStep == ASSUME IndInv, PmdSet PROVE IndInv'
<1>1. UNCHANGED <<port, netdev, pmd, main, ref>>  BY DEF PmdSet
<1>2. ref' \in Handles /\ StateTypes  BY <1>1 DEF IndInv, StateTypes
<1>3. QED  BY <1>1, <1>2, SameEverywhere, QuietStep

LEMMA OpenAgainStep == ASSUME IndInv, OpenAgain PROVE IndInv'
<1>1. UNCHANGED <<port, netdev, pmd, main>> /\ Polling # {} /\ main.pc = "idle"
      /\ ref' = [ref EXCEPT !.handles = @ + 1]
  BY DEF OpenAgain
<1>2. StateTypes /\ ref \in Handles  BY DEF IndInv, StateTypes
<1>3. ref' \in Handles  BY <1>1, <1>2 DEF Handles
<1>4. QED  BY <1>1, <1>2, <1>3, SameEverywhere, QuietStep

LEMMA DestroyStep == ASSUME IndInv, Destroy PROVE IndInv'
<1>1. UNCHANGED <<port, netdev, pmd, main>> /\ main.pc = "idle" /\ ref.handles > 0
      /\ ref' = [ref EXCEPT !.destroyed = TRUE]
  BY DEF Destroy, Open
<1>2. StateTypes /\ ref \in Handles  BY DEF IndInv, StateTypes
<1>3. ref' \in Handles  BY <1>1, <1>2 DEF Handles
<1>4. Polling # {}
  <2>1. ref.handles # 0  BY <1>1
  <2>2. NonPmd \in Polling  BY <2>1 DEF IndInv, ThreadsInv
  <2>3. QED  BY <2>2
<1>5. QED  BY <1>1, <1>2, <1>3, <1>4, SameEverywhere, QuietStep

LEMMA DeviceChangesStep == ASSUME IndInv, DeviceChanges PROVE IndInv'
<1>1. PICK d \in PmdDev \cap Ports, n \in 1 .. MaxRxq:
         netdev' = [netdev EXCEPT ![d].wantrx = n, ![d].reconf = TRUE]
  BY DEF DeviceChanges
<1>2. UNCHANGED <<port, pmd, main, ref>>  BY DEF DeviceChanges
<1>3. StateTypes /\ ref' \in Handles /\ netdev \in [Dev -> Device]  BY <1>2 DEF IndInv, StateTypes
<1>4. n \in Nat  BY NetdevPortsAssumption
<1>5. d \in Dev /\ netdev[d] \in Device  BY <1>3 DEF Ports
<1> DEFINE x == [netdev[d] EXCEPT !.wantrx = n, !.reconf = TRUE]
<1>6. x \in Device /\ x.txq = netdev[d].txq /\ x.want = netdev[d].want  BY <1>4, <1>5 DEF Device
<1>7. netdev' = [netdev EXCEPT ![d] = x]  BY <1>1, <1>3, <1>5
<1> HIDE DEF x
<1>8. netdev' \in [Dev -> Device] /\ SameDevices  BY <1>3, <1>6, <1>7 DEF SameDevices
<1>9. QED  BY <1>2, <1>3, <1>8, SameEverywhere, QuietStep

LEMMA SetAffinityStep == ASSUME IndInv, SetAffinity PROVE IndInv'
<1>1. PICK d \in Ports \cap PmdDev: \E a \in Affinity \ {port[d].aff}: port' = [port EXCEPT ![d].aff = a]
  BY DEF SetAffinity
<1>a. PICK a: port' = [port EXCEPT ![d].aff = a]  BY <1>1
<1>2. UNCHANGED <<netdev, pmd, main, ref>>  BY DEF SetAffinity
<1>3. StateTypes /\ ref' \in Handles /\ PortTypes  BY <1>2 DEF IndInv, StateTypes
<1>4. \A e \in Dev: port[e] = [st |-> port[e].st, no |-> port[e].no, need |-> port[e].need,
                               rxq |-> port[e].rxq, dynamic |-> port[e].dynamic,
                               used |-> port[e].used, aff |-> port[e].aff, pmd |-> port[e].pmd]
  BY <1>3 DEF PortTypes
<1>5. d \in Dev /\ DOMAIN port = Dev  BY <1>3 DEF Ports, PortTypes
<1>6. port' = [port EXCEPT ![d] = [port[d] EXCEPT !.aff = a]]  BY <1>a, <1>5
<1>7. port'[d] = [st |-> port[d].st, no |-> port[d].no, need |-> port[d].need,
                  rxq |-> port[d].rxq, dynamic |-> port[d].dynamic,
                  used |-> port[d].used, aff |-> a, pmd |-> port[d].pmd]
  BY <1>4, <1>5, <1>6
<1>8. \A e \in Dev: e # d => port'[e] = port[e]  BY <1>5, <1>6
<1>9. \A e \in Dev: port'[e] = [st |-> port[e].st, no |-> port[e].no, need |-> port[e].need,
                                rxq |-> port[e].rxq, dynamic |-> port[e].dynamic,
                                used |-> port[e].used, aff |-> port'[e].aff, pmd |-> port[e].pmd]
  BY <1>4, <1>7, <1>8
<1>10. PortTypes' /\ SamePorts(port') /\ \A e \in Dev: port'[e].used = port[e].used
  <2>1. \A e \in Dev: /\ port'[e].st = port[e].st /\ port'[e].no = port[e].no
                      /\ port'[e].need = port[e].need /\ port'[e].rxq = port[e].rxq
                      /\ port'[e].dynamic = port[e].dynamic /\ port'[e].used = port[e].used
                      /\ port'[e].pmd = port[e].pmd
    <3>1. TAKE e \in Dev
    <3>2. PICK p: p = port[e]  OBVIOUS
    <3>3. port'[e] = [st |-> p.st, no |-> p.no, need |-> p.need, rxq |-> p.rxq,
                      dynamic |-> p.dynamic, used |-> p.used, aff |-> port'[e].aff, pmd |-> p.pmd]
      BY <1>9, <3>2
    <3>4. /\ port'[e].st = p.st /\ port'[e].no = p.no /\ port'[e].need = p.need
          /\ port'[e].rxq = p.rxq /\ port'[e].dynamic = p.dynamic /\ port'[e].used = p.used
          /\ port'[e].pmd = p.pmd
      BY ONLY <3>3
    <3>5. QED  BY <3>2, <3>4
  <2>2. port' = [e \in Dev |-> port'[e]]  BY <1>5, <1>6
  <2>3. port' = [e \in Dev |-> [st |-> port'[e].st, no |-> port'[e].no, need |-> port'[e].need,
                                rxq |-> port'[e].rxq, dynamic |-> port'[e].dynamic,
                                used |-> port'[e].used, aff |-> port'[e].aff, pmd |-> port'[e].pmd]]
    BY <1>9, <2>1, <2>2
  <2>4. \A e \in Dev: /\ port'[e].st \in {"none", "in", "removed"}
                      /\ port'[e].need \in BOOLEAN /\ port'[e].dynamic \in BOOLEAN
                      /\ port'[e].rxq \in Nat /\ port'[e].used \in Counts
    BY <1>3, <2>1 DEF PortTypes
  <2>5. QED  BY <2>1, <2>3, <2>4 DEF PortTypes, SamePorts
<1>11. QED  BY <1>2, <1>3, <1>10, SameEverywhere, QuietStep

\* The main thread does not wait for threads.
AtWork == main.pc \notin HandshakePc \/ (main.pc = "reload" /\ main.todo = {})

LEMMA NoneDue ==
  ASSUME IndInv, AtWork
  PROVE  /\ \A c \in Thread: ~ pmd[c].reload /\ ~ Due(c)
         /\ \A c \in Thread: /\ pmd[c].snap \subseteq pmd[c].polls
                             /\ DOMAIN pmd[c].cache \subseteq pmd[c].tx
<1>1. \A c \in Thread: pmd[c].reload => main.pc \in {"set", "wait"}
  BY DEF IndInv, HandshakeInv
<1>2. \A c \in Thread: ~ pmd[c].reload  BY <1>1 DEF AtWork, HandshakePc
<1>3. \A c \in Thread: ~ Due(c)  BY DEF AtWork, Due, HandshakePc
<1>4. QED  BY <1>2, <1>3 DEF IndInv, CopiesInv

LEMMA PollingThreads == Polling \subseteq Thread /\ Running \subseteq Polling /\ Running \subseteq Core
  BY CoreThreads DEF Polling, Running, Thread

LEMMA RunStep == ASSUME IndInv, Run PROVE IndInv'
<1>1. /\ main.pc = "idle" /\ ref.handles > 0 /\ main' = [Idle EXCEPT !.pc = "threads"]
      /\ UNCHANGED <<port, netdev, pmd, ref>>
  BY DEF Run, Open
<1>2. main' = [pc |-> "threads", todo |-> {}, on |-> None, next |-> "idle", del |-> {}, saved |-> None]
  BY <1>1 DEF Idle
<1>3. main' \in MainState  BY <1>2 DEF MainState
<1>4. SamePhase  BY <1>1, <1>2 DEF SamePhase, Phase, HandshakePc
<1>5. NonPmd \in Polling
  <2>1. ref.handles # 0  BY <1>1
  <2>2. QED  BY <2>1 DEF IndInv, ThreadsInv
<1>6. Polling' = Polling  BY <1>1 DEF Polling
<1>7. ThreadsInv'  BY <1>2, <1>5, <1>6 DEF ThreadsInv, Phase, HandshakePc
<1>8. \A c \in Thread: ~ pmd[c].reload /\ ~ Due(c)  BY <1>1, NoneDue DEF AtWork, HandshakePc
<1>9. ref' \in Handles  BY <1>1 DEF IndInv, StateTypes
<1>10. QED  BY <1>1, <1>2, <1>3, <1>4, <1>7, <1>8, <1>9, MainOnly DEF HandshakePc

LEMMA ThreadsStep == ASSUME IndInv, Threads PROVE IndInv'
<1>1. main.pc = "threads" /\ UNCHANGED <<port, netdev, pmd, ref>>  BY DEF Threads
<1>2. StateTypes  BY DEF IndInv
<1>3. NonPmd \in Polling  BY <1>1 DEF IndInv, ThreadsInv
<1>4. Polling' = Polling /\ Running' = Running  BY <1>1 DEF Polling, Running
<1>5. \A c \in Thread: ~ pmd[c].reload /\ ~ Due(c)  BY <1>1, NoneDue DEF AtWork, HandshakePc
<1>6. ref' \in Handles  BY <1>1, <1>2 DEF StateTypes
<1>7. CASE main' = [main EXCEPT !.pc = "stale"]
  <2>1. main' = [pc |-> "stale", todo |-> main.todo, on |-> main.on, next |-> main.next, del |-> main.del, saved |-> main.saved]
    BY <1>2, <1>7, MainFields
  <2>2. main' \in MainState  BY <1>2, <2>1, MainFields DEF MainState
  <2>3. SamePhase  BY <1>1, <2>1 DEF SamePhase, Phase, HandshakePc
  <2>4. ThreadsInv'  BY <1>3, <1>4, <2>1 DEF ThreadsInv, Phase, HandshakePc
  <2>5. QED  BY <1>1, <1>5, <1>6, <2>1, <2>2, <2>3, <2>4, MainOnly DEF HandshakePc
<1>8. CASE main' = Reloading(Running, "create")
  <2>1. main' = [pc |-> "reload", todo |-> Running, on |-> main.on, next |-> "create", del |-> main.del, saved |-> main.saved]
    BY <1>2, <1>8, MainFields DEF Reloading
  <2>2. main' \in MainState
    <3>1. Running \in SUBSET (Dev \cup Thread)  BY PollingThreads
    <3>2. QED  BY <1>2, <2>1, <3>1, MainFields DEF MainState, HandshakePc
  <2>3. SamePhase  BY <1>1, <2>1 DEF SamePhase, Phase, HandshakePc
  <2>4. ThreadsInv'  BY <1>3, <1>4, <2>1 DEF ThreadsInv, Phase, HandshakePc
  <2>5. QED  BY <1>1, <1>5, <1>6, <2>1, <2>2, <2>3, <2>4, MainOnly, PollingThreads DEF HandshakePc
<1>9. QED  BY <1>7, <1>8 DEF Threads

LEMMA ReloadWaitStep == ASSUME IndInv, ReloadWait PROVE IndInv'
<1>1. main.pc = "set" /\ main' = [main EXCEPT !.pc = "wait"] /\ UNCHANGED <<port, netdev, pmd, ref>>
  BY DEF ReloadWait
<1>2. StateTypes /\ HandshakeInv /\ ThreadsInv  BY DEF IndInv
<1>3. main' = [pc |-> "wait", todo |-> main.todo, on |-> main.on, next |-> main.next, del |-> main.del, saved |-> main.saved]
  BY <1>1, <1>2, MainFields
<1>4. main' \in MainState  BY <1>2, <1>3, MainFields DEF MainState, HandshakePc
<1>5. SamePhase  BY <1>1, <1>3 DEF SamePhase, Phase, HandshakePc
<1>6. Polling' = Polling /\ Running' = Running /\ Ports' = Ports  BY <1>1 DEF Polling, Running, Ports
<1>7. ThreadsInv'
  <2>1. NonPmd \in Polling  BY <1>1, <1>2 DEF ThreadsInv
  <2>2. Ending' = Ending /\ Phase' = Phase  BY <1>1, <1>3 DEF Ending, Phase, HandshakePc
  <2>3. Ending => Running \subseteq main.todo \cup {main.on}
    BY <1>1, <1>2 DEF ThreadsInv, HandshakePc
  <2>4. Phase = "destroy" => ref.handles = 0  BY <1>2 DEF ThreadsInv
  <2>5. QED  BY <1>1, <1>3, <1>6, <2>1, <2>2, <2>3, <2>4 DEF ThreadsInv, HandshakePc
<1>8. /\ main.next # "idle" /\ main.todo \subseteq Polling /\ main.on \in Running \ main.todo
      /\ \A c \in Thread: pmd[c].reload => main.on = c
  BY <1>1, <1>2 DEF HandshakeInv, HandshakePc
<1>9. \A c \in Thread: Due(c) => Due(c)'  BY <1>1, <1>3 DEF Due, HandshakePc
<1>10. ref' \in Handles  BY <1>1, <1>2 DEF StateTypes
<1>11. QED  BY <1>1, <1>3, <1>4, <1>5, <1>7, <1>8, <1>9, <1>10, MainOnly

LEMMA ReloadEndStep == ASSUME IndInv, ReloadEnd PROVE IndInv'
<1>1. main.pc = "reload" /\ main.todo = {} /\ UNCHANGED <<port, netdev, pmd, ref>>
  BY DEF ReloadEnd
<1>2. StateTypes /\ HandshakeInv /\ ThreadsInv  BY DEF IndInv
<1>t. PICK t: t = IF main.next \in {"ports", "add"} THEN Ports ELSE {}  OBVIOUS
<1>3. main' = [pc |-> main.next, todo |-> t, on |-> main.on, next |-> main.next, del |-> main.del, saved |-> main.saved]
  BY <1>1, <1>2, <1>t, MainFields DEF ReloadEnd
<1>4. main.next \in {"create", "ports", "add", "end", "destroy"}
  BY <1>1, <1>2, MainFields DEF HandshakeInv, HandshakePc
<1>5. main' \in MainState
  <2>1. t \in SUBSET (Dev \cup Thread)  BY <1>t DEF Ports
  <2>2. QED  BY <1>2, <1>3, <1>4, <2>1, MainFields DEF MainState
<1>6. Phase = main.next /\ Phase' = main.next
  BY <1>1, <1>3, <1>4 DEF Phase, HandshakePc
<1>7. SamePhase  BY <1>3, <1>4, <1>6, <1>t DEF SamePhase
<1>8. Polling' = Polling /\ Running' = Running /\ Ports' = Ports  BY <1>1 DEF Polling, Running, Ports
<1>9. ThreadsInv'
  <2>1. NonPmd \in Polling  BY <1>1, <1>2 DEF ThreadsInv
  <2>2. Phase = "destroy" => ref.handles = 0  BY <1>2 DEF ThreadsInv
  <2>3. main.next \in {"create", "destroy"} => Running = {}
    BY <1>1, <1>2 DEF ThreadsInv, Ending, HandshakePc
  <2>4. QED  BY <1>1, <1>3, <1>4, <1>6, <1>8, <2>1, <2>2, <2>3 DEF ThreadsInv, HandshakePc
<1>10. \A c \in Thread: ~ pmd[c].reload /\ ~ Due(c)  BY <1>1, NoneDue DEF AtWork
<1>11. ref' \in Handles  BY <1>1, <1>2 DEF StateTypes
<1>12. main'.pc \notin HandshakePc  BY <1>3, <1>4 DEF HandshakePc
<1>13. QED  BY <1>1, <1>5, <1>7, <1>9, <1>10, <1>11, <1>12, MainOnly DEF HandshakePc

\* The port that dp_netdev_free goes on with, if any.
LEMMA FollowingIn ==
  ASSUME NEW ds \in SUBSET Dev, NEW n \in Following(ds)
  PROVE  n \in Dev \cup {None} /\ (n = None => ds = {})
BY NetdevPortsAssumption DEF Following

LEMMA CloseStep == ASSUME IndInv, Close PROVE IndInv'
<1>1. /\ main.pc = "idle" /\ ref.handles > 0 /\ ref' = [ref EXCEPT !.handles = @ - 1]
      /\ UNCHANGED <<port, netdev, pmd>>
  BY DEF Close, Open
<1>m. \/ main' = main
      \/ \E n \in Following(Ports): main' = [Idle EXCEPT !.pc = "end", !.saved = n]
  BY DEF Close
<1>2. StateTypes /\ HandshakeInv /\ ThreadsInv /\ ref \in Handles  BY DEF IndInv, StateTypes
<1>3. ref' \in Handles  BY <1>1, <1>2 DEF Handles
<1>4. NonPmd \in Polling
  <2>1. ref.handles # 0  BY <1>1
  <2>2. QED  BY <1>2, <2>1 DEF ThreadsInv
<1>5. Polling' = Polling  BY <1>1 DEF Polling
<1>6. ASSUME NEW n \in Following(Ports), main' = [Idle EXCEPT !.pc = "end", !.saved = n]
      PROVE  IndInv'
  <2>n. n \in Dev \cup {None}  BY FollowingIn DEF Ports
  <2>1. main' = [pc |-> "end", todo |-> {}, on |-> None, next |-> "idle", del |-> {}, saved |-> n]
    BY <1>6 DEF Idle
  <2>2. main' \in MainState  BY <2>1, <2>n DEF MainState
  <2>3. SamePhase  BY <1>1, <2>1 DEF SamePhase, Phase, HandshakePc
  <2>4. ThreadsInv'  BY <1>4, <1>5, <2>1 DEF ThreadsInv, Phase, HandshakePc
  <2>5. \A c \in Thread: ~ pmd[c].reload /\ ~ Due(c)  BY <1>1, NoneDue DEF AtWork, HandshakePc
  <2>6. QED  BY <1>1, <1>3, <2>1, <2>2, <2>3, <2>4, <2>5, MainOnly DEF HandshakePc
<1>7. CASE main' = main
  <2>1. Polling # {}  BY <1>4
  <2>2. QED  BY <1>1, <1>2, <1>3, <1>7, <2>1, SameEverywhere, QuietStep
<1>8. QED  BY <1>m, <1>6, <1>7

-----------------------------------------------------------------------------
(* dp_netdev_reload_pmd__ *)

\* The main thread changes what it tells one thread.
LEMMA TellStep ==
  ASSUME IndInv, UNCHANGED <<port, netdev, ref>>,
         NEW c \in Core, NEW r \in PmdState, pmd' = [pmd EXCEPT ![c] = r], pmd[c].pc # "none",
         r.pc = pmd[c].pc, r.polls = pmd[c].polls, r.tx = pmd[c].tx, r.tid = pmd[c].tid,
         r.snap = pmd[c].snap, r.cache = pmd[c].cache,
         pmd[c].reload => r.reload,
         r.reload => main'.pc \in {"set", "wait"} /\ main'.on = c,
         \A e \in Thread: pmd[e].reload => e = c,
         main' \in MainState, SamePhase, ThreadsInv',
         main'.pc \in HandshakePc => main'.next # "idle" /\ main'.todo \subseteq Polling,
         main'.pc \in {"signal", "set", "wait", "woken"} => main'.on \in Running \ main'.todo,
         \A e \in Thread: Due(e) => Due(e)'
  PROVE  IndInv'
<1>0. c \in Thread /\ c # NonPmd /\ StateTypes /\ HandshakeInv /\ CopiesInv
  BY CoreThreads DEF IndInv
<1>1. /\ pmd' \in [Thread -> PmdState] /\ pmd'[c] = r
      /\ \A e \in Thread: e # c => pmd'[e] = pmd[e]
  BY <1>0, OtherPmds
<1>2. SameLists /\ SameCopies  BY <1>1 DEF SameLists, SameCopies
<1>3. Polling' = Polling /\ Running' = Running  BY <1>2, SamePolling
<1>4. HandshakeInv'
  <2>1. ASSUME NEW e \in Thread
        PROVE  /\ pmd'[e].pc = "none" => pmd'[e] = NoPmd
               /\ pmd'[e].pc = "ended" => pmd'[e].snap = {} /\ pmd'[e].cache = <<>>
               /\ pmd'[e].reload => main'.pc \in {"set", "wait"} /\ main'.on = e
               /\ pmd'[e].pc = "loaded" => /\ pmd'[e].reload
                                           /\ pmd'[e].snap \subseteq pmd'[e].polls
                                           /\ DOMAIN pmd'[e].cache \subseteq pmd'[e].tx
    <3>1. /\ pmd[e].pc = "none" => pmd[e] = NoPmd
          /\ pmd[e].pc = "ended" => pmd[e].snap = {} /\ pmd[e].cache = <<>>
          /\ pmd[e].pc = "loaded" => /\ pmd[e].reload
                                     /\ pmd[e].snap \subseteq pmd[e].polls
                                     /\ DOMAIN pmd[e].cache \subseteq pmd[e].tx
      BY <1>0 DEF HandshakeInv
    <3>2. CASE e # c  BY <1>1, <3>1, <3>2
    <3>3. CASE e = c  BY <1>1, <3>1, <3>3
    <3>4. QED  BY <3>2, <3>3
  <2>2. pmd'[NonPmd] = pmd[NonPmd]  BY <1>0, <1>1, CoreThreads
  <2>3. QED  BY <1>0, <1>3, <2>1, <2>2 DEF HandshakeInv
<1>5. CopiesInv'
  <2>1. ASSUME NEW e \in Thread
        PROVE  Due(e)' \/ (pmd'[e].snap \subseteq pmd'[e].polls /\ DOMAIN pmd'[e].cache \subseteq pmd'[e].tx)
    <3>1. Due(e) \/ (pmd[e].snap \subseteq pmd[e].polls /\ DOMAIN pmd[e].cache \subseteq pmd[e].tx)
      BY <1>0 DEF CopiesInv
    <3>2. pmd'[e].snap = pmd[e].snap /\ pmd'[e].cache = pmd[e].cache
          /\ pmd'[e].polls = pmd[e].polls /\ pmd'[e].tx = pmd[e].tx
      BY <1>2 DEF SameLists, SameCopies
    <3>3. QED  BY <3>1, <3>2
  <2>2. QED  BY <2>1 DEF CopiesInv
<1>6. ref' \in Handles  BY <1>0 DEF StateTypes
<1>7. QED  BY <1>0, <1>1, <1>2, <1>4, <1>5, <1>6, SameEverywhere, MainStep

LEMMA ReloadSeqStep == ASSUME IndInv, ReloadSeq PROVE IndInv'
<1>1. PICK c \in main.todo \ {NonPmd}:
         /\ pmd' = [pmd EXCEPT ![c].seq = TRUE, ![c].latch = Ending]
         /\ main' = [main EXCEPT !.pc = "signal", !.on = c, !.todo = @ \ {c}]
  BY DEF ReloadSeq
<1>2. main.pc = "reload" /\ UNCHANGED <<port, netdev, ref>>  BY DEF ReloadSeq
<1>3. StateTypes /\ HandshakeInv /\ ThreadsInv  BY DEF IndInv
<1>4. main.next # "idle" /\ main.todo \subseteq Polling  BY <1>2, <1>3 DEF HandshakeInv, HandshakePc
<1>5. c \in Running /\ c \in Core /\ c \in Thread  BY <1>1, <1>4, PollingThreads DEF Running
<1>t. PICK t: t = main.todo \ {c}  OBVIOUS
<1>6. main' = [pc |-> "signal", todo |-> t, on |-> c, next |-> main.next, del |-> main.del, saved |-> main.saved]
  BY <1>1, <1>3, <1>t, MainFields
<1>7. main' \in MainState
  <2>1. t \in SUBSET (Dev \cup Thread)  BY <1>3, <1>t, MainFields
  <2>2. QED  BY <1>3, <1>5, <1>6, <2>1, MainFields DEF MainState, HandshakePc
<1>8. SamePhase  BY <1>2, <1>6 DEF SamePhase, Phase, HandshakePc
<1>b. PICK latch \in BOOLEAN: latch = Ending
  <2>1. CASE Ending
    <3>1. TRUE = Ending  BY <2>1
    <3>2. QED  BY <3>1
  <2>2. CASE ~ Ending
    <3>1. FALSE = Ending  BY <2>2 DEF Ending
    <3>2. QED  BY <3>1
  <2>3. QED  BY <2>1, <2>2
<1> DEFINE r == [pmd[c] EXCEPT !.seq = TRUE, !.latch = latch]
<1>9. pmd[c] \in PmdState  BY <1>3, <1>5, PmdFields
<1>10. r \in PmdState  BY <1>9 DEF PmdState
<1>11. /\ r.pc = pmd[c].pc /\ r.polls = pmd[c].polls /\ r.tx = pmd[c].tx /\ r.tid = pmd[c].tid
       /\ r.snap = pmd[c].snap /\ r.cache = pmd[c].cache /\ r.reload = pmd[c].reload
  BY <1>9 DEF PmdState
<1>12. pmd' = [pmd EXCEPT ![c] = r]  BY <1>1, <1>b
<1> HIDE DEF r
<1>13. \A e \in Thread: ~ pmd[e].reload
  <2>1. \A e \in Thread: pmd[e].reload => main.pc \in {"set", "wait"}  BY <1>3 DEF HandshakeInv
  <2>2. QED  BY <1>2, <2>1
<1>14. pmd[c].pc # "none"  BY <1>5 DEF Running, Polling
<1>15. ThreadsInv'
  <2>1. \A e \in Thread: pmd'[e].pc = "none" <=> pmd[e].pc = "none"
    BY <1>3, <1>5, <1>10, <1>11, <1>12, OtherPmds
  <2>2. Polling' = Polling /\ Running' = Running  BY <2>1 DEF Polling, Running
  <2>3. Ending' = Ending /\ Phase' = Phase  BY <1>2, <1>6 DEF Ending, Phase, HandshakePc
  <2>4. NonPmd \in Polling  BY <1>2, <1>3 DEF ThreadsInv
  <2>5. Ending => Running \subseteq main.todo  BY <1>2, <1>3 DEF ThreadsInv, HandshakePc
  <2>6. Ending => Running \subseteq t \cup {c}  BY <1>t, <2>5
  <2>7. Phase = "destroy" => ref.handles = 0  BY <1>3 DEF ThreadsInv
  <2>8. QED  BY <1>2, <1>6, <2>2, <2>3, <2>4, <2>6, <2>7 DEF ThreadsInv, HandshakePc
<1>16. \A e \in Thread: Due(e) => Due(e)'
  <2>1. \A e \in Thread: Due(e) => e = c \/ e \in t  BY <1>2, <1>t DEF Due, HandshakePc
  <2>2. QED  BY <1>6, <2>1 DEF Due, HandshakePc
<1>17. t \subseteq Polling /\ c \notin t  BY <1>4, <1>t
<1>18. QED
  BY <1>2, <1>4, <1>5, <1>6, <1>7, <1>8, <1>10, <1>11, <1>12, <1>13, <1>14, <1>15, <1>16, <1>17, TellStep

LEMMA ReloadSetStep == ASSUME IndInv, ReloadSet PROVE IndInv'
<1>1. /\ main.pc = "signal" /\ pmd' = [pmd EXCEPT ![main.on].reload = TRUE]
      /\ main' = [main EXCEPT !.pc = "set"] /\ UNCHANGED <<port, netdev, ref>>
  BY DEF ReloadSet
<1>2. StateTypes /\ HandshakeInv /\ ThreadsInv  BY DEF IndInv
<1>3. main.next # "idle" /\ main.todo \subseteq Polling /\ main.on \in Running \ main.todo
  BY <1>1, <1>2 DEF HandshakeInv, HandshakePc
<1>c. PICK c \in Core: c = main.on  BY <1>3, PollingThreads
<1>4. c \in Running /\ c \in Thread /\ c \notin main.todo /\ pmd[c].pc # "none"
  BY <1>3, <1>c, PollingThreads DEF Running, Polling
<1>5. main' = [pc |-> "set", todo |-> main.todo, on |-> c, next |-> main.next, del |-> main.del, saved |-> main.saved]
  BY <1>1, <1>2, <1>c, MainFields
<1>6. main' \in MainState  BY <1>2, <1>4, <1>5, MainFields DEF MainState, HandshakePc
<1>7. SamePhase  BY <1>1, <1>5 DEF SamePhase, Phase, HandshakePc
<1> DEFINE r == [pmd[c] EXCEPT !.reload = TRUE]
<1>8. pmd[c] \in PmdState  BY <1>2, <1>4, PmdFields
<1>9. r \in PmdState  BY <1>8 DEF PmdState
<1>10. /\ r.pc = pmd[c].pc /\ r.polls = pmd[c].polls /\ r.tx = pmd[c].tx /\ r.tid = pmd[c].tid
       /\ r.snap = pmd[c].snap /\ r.cache = pmd[c].cache /\ r.reload
  BY <1>8 DEF PmdState
<1>11. pmd' = [pmd EXCEPT ![c] = r]  BY <1>1, <1>c
<1> HIDE DEF r
<1>12. \A e \in Thread: ~ pmd[e].reload
  <2>1. \A e \in Thread: pmd[e].reload => main.pc \in {"set", "wait"}  BY <1>2 DEF HandshakeInv
  <2>2. QED  BY <1>1, <2>1
<1>13. ThreadsInv'
  <2>1. \A e \in Thread: pmd'[e].pc = "none" <=> pmd[e].pc = "none"
    BY <1>2, <1>4, <1>9, <1>10, <1>11, OtherPmds
  <2>2. Polling' = Polling /\ Running' = Running  BY <2>1 DEF Polling, Running
  <2>3. Ending' = Ending /\ Phase' = Phase  BY <1>1, <1>5 DEF Ending, Phase, HandshakePc
  <2>4. NonPmd \in Polling  BY <1>1, <1>2 DEF ThreadsInv
  <2>5. Ending => Running \subseteq main.todo \cup {c}  BY <1>1, <1>2, <1>c DEF ThreadsInv, HandshakePc
  <2>6. Phase = "destroy" => ref.handles = 0  BY <1>2 DEF ThreadsInv
  <2>7. QED  BY <1>1, <1>5, <2>2, <2>3, <2>4, <2>5, <2>6 DEF ThreadsInv, HandshakePc
<1>14. \A e \in Thread: Due(e) => Due(e)'  BY <1>1, <1>5, <1>c DEF Due, HandshakePc
<1>15. /\ main'.pc = "set" /\ main'.on = c /\ main'.next # "idle" /\ main'.todo \subseteq Polling
       /\ main'.on \in Running \ main'.todo
  BY <1>3, <1>4, <1>5
<1>16. /\ UNCHANGED <<port, netdev, ref>>
       /\ \A e \in Thread: pmd[e].reload => e = c
       /\ pmd[c].reload => r.reload
       /\ r.reload => main'.pc \in {"set", "wait"} /\ main'.on = c
  BY <1>1, <1>10, <1>12, <1>15
<1>17. QED
  BY <1>4, <1>6, <1>7, <1>9, <1>10, <1>11, <1>13, <1>14, <1>15, <1>16, TellStep

\* A thread that is done with reloading.
LEMMA ReloadedStep == ASSUME IndInv, ReloadNext, ~ Ending PROVE IndInv'
<1>1. /\ main.pc = "woken" /\ pmd' = [pmd EXCEPT ![main.on].need = FALSE]
      /\ main' = [main EXCEPT !.pc = "reload", !.on = None] /\ UNCHANGED <<port, netdev, ref>>
  BY DEF ReloadNext
<1>2. StateTypes /\ HandshakeInv /\ ThreadsInv  BY DEF IndInv
<1>3. main.next # "idle" /\ main.todo \subseteq Polling /\ main.on \in Running \ main.todo
  BY <1>1, <1>2 DEF HandshakeInv, HandshakePc
<1>c. PICK c \in Core: c = main.on  BY <1>3, PollingThreads
<1>4. c \in Running /\ c \in Thread /\ c \notin main.todo /\ pmd[c].pc # "none"
  BY <1>3, <1>c, PollingThreads DEF Running, Polling
<1>5. main' = [pc |-> "reload", todo |-> main.todo, on |-> None, next |-> main.next, del |-> main.del, saved |-> main.saved]
  BY <1>1, <1>2, MainFields
<1>6. main' \in MainState  BY <1>2, <1>5, MainFields DEF MainState, HandshakePc
<1>7. SamePhase  BY <1>1, <1>5 DEF SamePhase, Phase, HandshakePc
<1> DEFINE r == [pmd[c] EXCEPT !.need = FALSE]
<1>8. pmd[c] \in PmdState  BY <1>2, <1>4, PmdFields
<1>9. r \in PmdState  BY <1>8 DEF PmdState
<1>10. /\ r.pc = pmd[c].pc /\ r.polls = pmd[c].polls /\ r.tx = pmd[c].tx /\ r.tid = pmd[c].tid
       /\ r.snap = pmd[c].snap /\ r.cache = pmd[c].cache /\ r.reload = pmd[c].reload
  BY <1>8 DEF PmdState
<1>11. pmd' = [pmd EXCEPT ![c] = r]  BY <1>1, <1>c
<1> HIDE DEF r
<1>12. \A e \in Thread: ~ pmd[e].reload
  <2>1. \A e \in Thread: pmd[e].reload => main.pc \in {"set", "wait"}  BY <1>2 DEF HandshakeInv
  <2>2. QED  BY <1>1, <2>1
<1>13. ThreadsInv'
  <2>1. \A e \in Thread: pmd'[e].pc = "none" <=> pmd[e].pc = "none"
    BY <1>2, <1>4, <1>9, <1>10, <1>11, OtherPmds
  <2>2. Polling' = Polling /\ Running' = Running  BY <2>1 DEF Polling, Running
  <2>3. ~ Ending' /\ Phase' = Phase  BY <1>1, <1>5 DEF Ending, Phase, HandshakePc
  <2>4. NonPmd \in Polling  BY <1>1, <1>2 DEF ThreadsInv
  <2>5. Phase = "destroy" => ref.handles = 0  BY <1>2 DEF ThreadsInv
  <2>6. QED  BY <1>1, <1>5, <2>2, <2>3, <2>4, <2>5 DEF ThreadsInv, HandshakePc
<1>14. \A e \in Thread: Due(e) => Due(e)'  BY <1>1, <1>5 DEF Due, HandshakePc
<1>15. /\ main'.pc = "reload" /\ main'.next # "idle" /\ main'.todo \subseteq Polling
       /\ UNCHANGED <<port, netdev, ref>>
       /\ \A e \in Thread: pmd[e].reload => e = c
       /\ pmd[c].reload => r.reload
       /\ r.reload => main'.pc \in {"set", "wait"} /\ main'.on = c
  BY <1>1, <1>3, <1>4, <1>5, <1>10, <1>12
<1>16. QED
  BY <1>4, <1>6, <1>7, <1>9, <1>10, <1>11, <1>13, <1>14, <1>15, TellStep

\* Thread c, which goes by nothing any more, is destroyed.
LEMMA ThreadGone ==
  ASSUME IndInv, NEW c \in Thread, pmd' = [pmd EXCEPT ![c] = NoPmd],
         pmd[c].snap = {}, DOMAIN pmd[c].cache = {}, UNCHANGED <<port, netdev>>
  PROVE  /\ pmd' \in [Thread -> PmdState] /\ pmd'[c] = NoPmd
         /\ \A e \in Thread: e # c => pmd'[e] = pmd[e]
         /\ Polling' = Polling \ {c} /\ Running' = Running \ {c} /\ Ports' = Ports
         /\ OwnerInv' /\ OnePoller' /\ OpenInv' /\ SharedInv' /\ TxqUsedCounts'
         /\ \A d \in Dev: Gone(d) => Gone(d)'
         /\ \A a, e \in Polling': a # e => pmd'[a].tid # pmd'[e].tid
         /\ \A e \in Thread: \A d \in PmdDev \cap (pmd'[e].tx \cup DOMAIN pmd'[e].cache):
               ~ port'[d].dynamic => pmd'[e].tid < netdev'[d].txq
<1>0. /\ StateTypes /\ OwnerInv /\ OnePoller /\ OpenInv /\ SharedInv /\ TxqUsedCounts /\ TidInv
  BY DEF IndInv
<1>1. /\ pmd' \in [Thread -> PmdState] /\ pmd'[c] = NoPmd
      /\ \A e \in Thread: e # c => pmd'[e] = pmd[e]
  BY <1>0, EmptyTypes, OtherPmds
<1>2. /\ NoPmd.polls = {} /\ NoPmd.tx = {} /\ NoPmd.snap = {} /\ NoPmd.cache = <<>> /\ NoPmd.pc = "none"
      /\ DOMAIN NoPmd.cache = {}
  BY EmptyTypes DEF NoPmd
<1>3. \A e \in Thread: /\ pmd'[e].polls \subseteq pmd[e].polls /\ pmd'[e].tx \subseteq pmd[e].tx
                       /\ pmd'[e].snap \subseteq pmd[e].snap /\ DOMAIN pmd'[e].cache = DOMAIN pmd[e].cache
  BY <1>1, <1>2
<1>4. Polling' = Polling \ {c} /\ Running' = Running \ {c} /\ Ports' = Ports
  <2>1. \A e \in Thread: pmd'[e].pc # "none" <=> pmd[e].pc # "none" /\ e # c  BY <1>1, <1>2
  <2>2. Polling' = Polling \ {c}  BY <2>1 DEF Polling
  <2>3. QED  BY <2>2 DEF Running, Ports
<1>5. OwnerInv'
  <2>1. \A e \in Thread: \A q \in pmd'[e].polls: port'[q[1]].pmd[q[2]] = e  BY <1>0, <1>3 DEF OwnerInv
  <2>2. \A a, e \in Core: a # e => pmd'[a].snap \cap pmd'[e].polls = {}
    BY <1>0, <1>3, CoreThreads DEF OwnerInv
  <2>3. QED  BY <2>1, <2>2 DEF OwnerInv
<1>6. OnePoller'  BY <1>0, <1>3, CoreThreads DEF OnePoller
<1>7. OpenInv'
  <2>1. \A e \in Thread: \A d \in Dev: Uses(e, d)' => Uses(e, d)  BY <1>3 DEF Uses
  <2>2. \A e \in Thread: \A q \in pmd'[e].polls \cup pmd'[e].snap: q[2] < port'[q[1]].rxq
    BY <1>0, <1>3 DEF OpenInv
  <2>3. QED  BY <1>0, <2>1, <2>2 DEF OpenInv
<1>8. SharedInv' /\ TxqUsedCounts'
  <2>1. SameCaches
    <3>1. \A e \in Thread: \A d \in DOMAIN pmd[e].cache: pmd'[e].cache[d] = pmd[e].cache[d]  BY <1>1
    <3>2. QED  BY <1>3, <3>1 DEF SameCaches
  <2>2. QED  BY <1>0, <2>1, SharedFrame
<1>9. \A d \in Dev: Gone(d) => Gone(d)'  BY <1>3 DEF Gone
<1>10. \A a, e \in Polling': a # e => pmd'[a].tid # pmd'[e].tid
  <2>1. \A e \in Polling \ {c}: pmd'[e] = pmd[e]  BY <1>1, PollingThreads
  <2>2. QED  BY <1>0, <1>4, <2>1 DEF TidInv
<1>11. ASSUME NEW e \in Thread, NEW d \in PmdDev \cap (pmd'[e].tx \cup DOMAIN pmd'[e].cache),
              ~ port'[d].dynamic
       PROVE  pmd'[e].tid < netdev'[d].txq
  <2>1. e # c  BY <1>1, <1>2, <1>11
  <2>2. pmd'[e] = pmd[e]  BY <1>1, <2>1
  <2>3. QED  BY <1>0, <1>11, <2>2 DEF TidInv
<1>12. QED  BY <1>1, <1>4, <1>5, <1>6, <1>7, <1>8, <1>9, <1>10, <1>11

\* A thread that has ended: dp_netdev_del_pmd.
LEMMA EndedStep == ASSUME IndInv, ReloadNext, Ending PROVE IndInv'
<1>1. /\ main.pc = "woken" /\ pmd[main.on].pc = "ended" /\ pmd' = [pmd EXCEPT ![main.on] = NoPmd]
      /\ main' = [main EXCEPT !.pc = "reload", !.on = None] /\ UNCHANGED <<port, netdev, ref>>
  BY DEF ReloadNext
<1>2. /\ StateTypes /\ HandshakeInv /\ ThreadsInv /\ CopiesInv /\ GoneInv /\ NeedInv /\ ThreadsCounted
      /\ TidInv
  BY DEF IndInv
<1>3. main.next # "idle" /\ main.todo \subseteq Polling /\ main.on \in Running \ main.todo
  BY <1>1, <1>2 DEF HandshakeInv, HandshakePc
<1>c. PICK c \in Core: c = main.on  BY <1>3, PollingThreads
<1>4. c \in Running /\ c \in Thread /\ c \notin main.todo /\ c # NonPmd
  BY <1>3, <1>c, PollingThreads DEF Running
<1>5. main' = [pc |-> "reload", todo |-> main.todo, on |-> None, next |-> main.next, del |-> main.del, saved |-> main.saved]
  BY <1>1, <1>2, MainFields
<1>6. main' \in MainState  BY <1>2, <1>5, MainFields DEF MainState, HandshakePc
<1>7. Phase' = Phase /\ Phase = main.next /\ Ending'  BY <1>1, <1>5 DEF Phase, Ending, HandshakePc
<1>8. pmd[c].snap = {} /\ DOMAIN pmd[c].cache = {}
  BY <1>1, <1>2, <1>4, <1>c, EmptyTypes DEF HandshakeInv
<1>9. /\ pmd' \in [Thread -> PmdState] /\ pmd'[c] = NoPmd
      /\ \A e \in Thread: e # c => pmd'[e] = pmd[e]
      /\ Polling' = Polling \ {c} /\ Running' = Running \ {c} /\ Ports' = Ports
      /\ OwnerInv' /\ OnePoller' /\ OpenInv' /\ SharedInv' /\ TxqUsedCounts'
      /\ \A d \in Dev: Gone(d) => Gone(d)'
      /\ \A a, e \in Polling': a # e => pmd'[a].tid # pmd'[e].tid
      /\ \A e \in Thread: \A d \in PmdDev \cap (pmd'[e].tx \cup DOMAIN pmd'[e].cache):
            ~ port'[d].dynamic => pmd'[e].tid < netdev'[d].txq
  BY <1>1, <1>4, <1>8, <1>c, ThreadGone
<1>10. StateTypes'
  <2>1. PortTypes'  BY <1>1, <1>2, SameEverywhere
  <2>2. QED  BY <1>1, <1>2, <1>6, <1>9, <2>1 DEF StateTypes
<1>11. \A e \in Thread: ~ pmd[e].reload
  <2>1. \A e \in Thread: pmd[e].reload => main.pc \in {"set", "wait"}  BY <1>2 DEF HandshakeInv
  <2>2. QED  BY <1>1, <2>1
<1>12. HandshakeInv'
  <2>1. ASSUME NEW e \in Thread
        PROVE  /\ pmd'[e].pc = "none" => pmd'[e] = NoPmd
               /\ pmd'[e].pc = "ended" => pmd'[e].snap = {} /\ pmd'[e].cache = <<>>
               /\ ~ pmd'[e].reload /\ pmd'[e].pc # "loaded"
    <3>1. CASE e = c  BY <1>9, <3>1 DEF NoPmd
    <3>2. CASE e # c
      <4>1. pmd'[e] = pmd[e]  BY <1>9, <3>2
      <4>2. pmd[e].pc # "loaded"  BY <1>2, <1>11 DEF HandshakeInv
      <4>3. QED  BY <1>2, <1>11, <4>1, <4>2 DEF HandshakeInv
    <3>3. QED  BY <3>1, <3>2
  <2>2. pmd'[NonPmd] = pmd[NonPmd]  BY <1>4, <1>9, CoreThreads
  <2>3. main'.next # "idle" /\ main'.todo \subseteq Polling'  BY <1>3, <1>4, <1>5, <1>9
  <2>4. main'.pc = "reload"  BY <1>5
  <2>5. pmd'[NonPmd].pc \in {"none", "poll"} /\ pmd'[NonPmd].snap = {} /\ pmd'[NonPmd].tid = 0
    BY <1>2, <2>2 DEF HandshakeInv
  <2>6. QED  BY <2>1, <2>3, <2>4, <2>5 DEF HandshakeInv
<1>13. CopiesInv'
  <2>1. ASSUME NEW e \in Thread
        PROVE  Due(e)' \/ (pmd'[e].snap \subseteq pmd'[e].polls /\ DOMAIN pmd'[e].cache \subseteq pmd'[e].tx)
    <3>1. CASE e = c  BY <1>9, <3>1, EmptyTypes DEF NoPmd
    <3>2. CASE e # c
      <4>1. pmd'[e] = pmd[e]  BY <1>9, <3>2
      <4>2. Due(e) => Due(e)'  BY <1>1, <1>5 DEF Due, HandshakePc
      <4>3. QED  BY <1>2, <4>1, <4>2 DEF CopiesInv
    <3>3. QED  BY <3>1, <3>2
  <2>2. QED  BY <2>1 DEF CopiesInv
<1>14. GoneInv'
  <2>1. \A d \in Dev: port'[d].st = port[d].st /\ port'[d].need = port[d].need  BY <1>1
  <2>2. \A d \in Dev: \/ port[d].st = "none"
                      \/ port[d].st # "in" /\ Phase \in {"ports", "add", "end", "idle", "destroy"}
                      \/ port[d].need /\ Phase = "ports"
                      => Gone(d)
    BY <1>2 DEF GoneInv
  <2>3. \A d \in main'.del: port'[d].st # "in"  BY <1>1, <1>2, <1>5 DEF GoneInv
  <2>4. ASSUME NEW d \in Dev,
               \/ port'[d].st = "none"
               \/ port'[d].st # "in" /\ Phase' \in {"ports", "add", "end", "idle", "destroy"}
               \/ port'[d].need /\ Phase' = "ports"
        PROVE  Gone(d)'
    BY <1>7, <1>9, <2>1, <2>2, <2>4
  <2>5. QED  BY <2>3, <2>4 DEF GoneInv
<1>15. main.next \in {"create", "destroy"}  BY DEF Ending
<1>16. NeedInv'
  <2>1. Phase \in {"add", "end", "idle", "destroy"} => \A d \in Ports: ~ port[d].need
    BY <1>2 DEF NeedInv
  <2>2. Phase = "destroy" => Ports = {}  BY <1>2 DEF NeedInv
  <2>3. main'.pc # "ports" /\ Phase' # "add"  BY <1>5, <1>7, <1>15
  <2>4. QED  BY <1>1, <1>7, <1>9, <2>1, <2>2, <2>3 DEF NeedInv
<1>17. ThreadsCounted'
  <2>1. \A d \in Ports \cap PmdDev: ~ port[d].need => (port[d].dynamic <=> netdev[d].txq < netdev[d].want)
    BY <1>2 DEF ThreadsCounted
  <2>2. Phase = "destroy" => Ports = {}  BY <1>2 DEF NeedInv
  <2>3. QED  BY <1>1, <1>7, <1>9, <1>15, <2>1, <2>2 DEF ThreadsCounted
<1>18. ThreadsInv'
  <2>1. NonPmd \in Polling'  BY <1>1, <1>2, <1>4, <1>9 DEF ThreadsInv
  <2>2. Running \subseteq main.todo \cup {c}  BY <1>1, <1>2, <1>c DEF ThreadsInv, HandshakePc
  <2>3. Running' \subseteq main.todo  BY <1>9, <2>2
  <2>4. Phase' = "destroy" => ref'.handles = 0  BY <1>1, <1>2, <1>7 DEF ThreadsInv
  <2>5. QED  BY <1>5, <2>1, <2>3, <2>4 DEF ThreadsInv
<1>19. TidInv'  BY <1>7, <1>9, <1>15 DEF TidInv
<1>20. QED  BY <1>9, <1>10, <1>12, <1>13, <1>14, <1>16, <1>17, <1>18, <1>19 DEF IndInv

LEMMA ReloadNextStep == ASSUME IndInv, ReloadNext PROVE IndInv'
  BY ReloadedStep, EndedStep

LEMMA DestroyNonPmdStep == ASSUME IndInv, DestroyNonPmd PROVE IndInv'
<1>1. /\ main.pc = "destroy" /\ main' = Idle /\ pmd' = [pmd EXCEPT ![NonPmd] = NoPmd]
      /\ UNCHANGED <<port, netdev, ref>>
  BY DEF DestroyNonPmd
<1>2. /\ StateTypes /\ HandshakeInv /\ ThreadsInv /\ GoneInv /\ NeedInv /\ OpenInv
  BY DEF IndInv
<1>3. Phase = "destroy"  BY <1>1 DEF Phase, HandshakePc
<1>4. Running = {} /\ Ports = {} /\ ref.handles = 0  BY <1>1, <1>2, <1>3 DEF ThreadsInv, NeedInv
<1>5. \A e \in Thread: ~ pmd[e].reload /\ ~ Due(e) /\ pmd[e].snap \subseteq pmd[e].polls
                       /\ DOMAIN pmd[e].cache \subseteq pmd[e].tx
  BY <1>1, NoneDue DEF AtWork, HandshakePc
<1>6. \A d \in Dev: Gone(d)
  <2>1. \A d \in Dev: port[d].st # "in"  BY <1>4 DEF Ports
  <2>2. QED  BY <1>2, <1>3, <2>1 DEF GoneInv
<1>7. pmd[NonPmd].snap = {} /\ DOMAIN pmd[NonPmd].cache = {}
  <2>1. pmd[NonPmd].snap = {}  BY <1>2 DEF HandshakeInv
  <2>2. \A d \in Dev: d \notin pmd[NonPmd].tx  BY <1>6, CoreThreads DEF Gone
  <2>3. DOMAIN pmd[NonPmd].cache \subseteq pmd[NonPmd].tx /\ pmd[NonPmd].tx \subseteq Dev
    BY <1>2, <1>5, CoreThreads, PmdFields
  <2>4. QED  BY <2>1, <2>2, <2>3
<1>8. /\ pmd' \in [Thread -> PmdState] /\ pmd'[NonPmd] = NoPmd
      /\ \A e \in Thread: e # NonPmd => pmd'[e] = pmd[e]
      /\ Polling' = Polling \ {NonPmd} /\ Running' = Running \ {NonPmd} /\ Ports' = Ports
      /\ OwnerInv' /\ OnePoller' /\ OpenInv' /\ SharedInv' /\ TxqUsedCounts'
      /\ \A d \in Dev: Gone(d) => Gone(d)'
      /\ \A a, e \in Polling': a # e => pmd'[a].tid # pmd'[e].tid
      /\ \A e \in Thread: \A d \in PmdDev \cap (pmd'[e].tx \cup DOMAIN pmd'[e].cache):
            ~ port'[d].dynamic => pmd'[e].tid < netdev'[d].txq
  BY <1>1, <1>7, CoreThreads, ThreadGone
<1>9. Polling' = {}  BY <1>4, <1>8 DEF Running
<1>10. main' = [pc |-> "idle", todo |-> {}, on |-> None, next |-> "idle", del |-> {}, saved |-> None]
  BY <1>1 DEF Idle
<1>11. Phase' = "idle"  BY <1>10 DEF Phase, HandshakePc
<1>12. StateTypes'
  <2>1. PortTypes'  BY <1>1, <1>2, SameEverywhere
  <2>2. main' \in MainState  BY <1>10 DEF MainState
  <2>3. QED  BY <1>1, <1>2, <1>8, <2>1, <2>2 DEF StateTypes
<1>13. ASSUME NEW e \in Thread PROVE pmd'[e] = NoPmd
  <2>1. CASE e = NonPmd  BY <1>8, <2>1
  <2>2. CASE e # NonPmd
    <3>1. pmd'[e] = pmd[e]  BY <1>8, <2>2
    <3>2. pmd[e].pc = "none"  BY <1>4, <2>2 DEF Running, Polling
    <3>3. QED  BY <1>2, <3>1, <3>2 DEF HandshakeInv
  <2>3. QED  BY <2>1, <2>2
<1>14. HandshakeInv'
  <2>1. \A e \in Thread: pmd'[e].pc = "none" /\ ~ pmd'[e].reload  BY <1>13 DEF NoPmd
  <2>2. pmd'[NonPmd].pc = "none" /\ pmd'[NonPmd].snap = {} /\ pmd'[NonPmd].tid = 0
    BY <1>8 DEF NoPmd
  <2>3. QED  BY <1>10, <1>13, <2>1, <2>2 DEF HandshakeInv, HandshakePc
<1>15. CopiesInv'
  <2>1. NoPmd.snap \subseteq NoPmd.polls /\ DOMAIN NoPmd.cache \subseteq NoPmd.tx
    BY EmptyTypes DEF NoPmd
  <2>2. QED  BY <1>13, <2>1 DEF CopiesInv
<1>16. GoneInv'  BY <1>6, <1>8, <1>10 DEF GoneInv
<1>17. NeedInv' /\ ThreadsCounted' /\ ThreadsInv' /\ TidInv'
  <2>1. NeedInv'  BY <1>4, <1>8, <1>10, <1>11 DEF NeedInv
  <2>2. ThreadsCounted'  BY <1>4, <1>8 DEF ThreadsCounted
  <2>3. ThreadsInv'  BY <1>1, <1>4, <1>8, <1>9, <1>10, <1>11 DEF ThreadsInv, HandshakePc
  <2>4. TidInv'  BY <1>8, <1>9 DEF TidInv
  <2>5. QED  BY <2>1, <2>2, <2>3, <2>4
<1>18. QED  BY <1>8, <1>12, <1>14, <1>15, <1>16, <1>17 DEF IndInv

-----------------------------------------------------------------------------
(* The threads are made *)

LEMMA SetInOrder ==
  ASSUME NEW S, IsFiniteSet(S)
  PROVE  /\ Cardinality(S) \in Nat
         /\ SetToSeq(S) \in [1 .. Cardinality(S) -> S]
         /\ \A i, j \in 1 .. Cardinality(S): SetToSeq(S)[i] = SetToSeq(S)[j] => i = j
         /\ \A x \in S: \E i \in 1 .. Cardinality(S): SetToSeq(S)[i] = x
<1> DEFINE n == Cardinality(S)
<1>1. n \in Nat /\ ExistsBijection(1 .. n, S)  BY FS_CardinalityType
<1>2. PICK f \in Bijection(1 .. n, S): TRUE  BY <1>1 DEF ExistsBijection
<1>3. f \in [1 .. n -> S] /\ IsInjective(f)  BY <1>2 DEF Bijection, Injection
<1>4. SetToSeq(S) \in [1 .. n -> S] /\ IsInjective(SetToSeq(S))
  <2>1. \E g \in [1 .. n -> S]: IsInjective(g)  BY <1>3
  <2>2. QED  BY <2>1 DEF SetToSeq
<1>5. PICK g \in [1 .. n -> S]: g = SetToSeq(S) /\ IsInjective(g)  BY <1>4
<1>6. g \in Injection(1 .. n, S)  BY <1>5 DEF Injection
<1>7. Cardinality(1 .. n) = n  BY <1>1, FS_Interval
<1>8. g \in Surjection(1 .. n, S)
  <2> HIDE DEF n
  <2>1. IsFiniteSet(S) /\ Cardinality(S) = n  BY DEF n
  <2>2. QED  BY <1>6, <1>7, <2>1, FS_Injection
<1>9. \A i, j \in 1 .. n: g[i] = g[j] => i = j  BY <1>5 DEF IsInjective
<1>10. \A x \in S: \E i \in 1 .. n: g[i] = x  BY <1>8 DEF Surjection
<1>11. QED  BY <1>1, <1>5, <1>9, <1>10

MaskType == cmask \in Mask \cup {None}

LEMMA WantedAreCores == MaskType => WantedCores \subseteq Core
  BY NetdevPortsAssumption DEF MaskType, WantedCores

LEMMA CreateStep == ASSUME IndInv, MaskType, Create PROVE IndInv'
<1> DEFINE W == WantedCores
           order == SetToSeq(W)
           n == Cardinality(W)
<1>a. W \in SUBSET Core  BY WantedAreCores
<1>c. IsFiniteSet(W)  BY <1>a, NetdevPortsAssumption, FS_Subset
<1>d. /\ n \in Nat /\ order \in [1 .. n -> W]
      /\ \A i, j \in 1 .. n: order[i] = order[j] => i = j
      /\ \A x \in W: \E i \in 1 .. n: order[i] = x
  <2> HIDE DEF W
  <2>1. QED  BY <1>c, SetInOrder
<1> DEFINE tid(c) == CHOOSE i \in DOMAIN order: order[i] = c
           new(c) == [NoPmd EXCEPT !.pc = "start", !.tid = tid(c)]
<1>1. /\ main.pc = "create" /\ main' = [main EXCEPT !.pc = "stale"] /\ UNCHANGED <<port, netdev, ref>>
      /\ pmd' = [c \in Thread |-> IF c \in W THEN new(c) ELSE pmd[c]]
  BY DEF Create
<1>n. n = Cardinality(W)  OBVIOUS
<1> HIDE DEF W, order, n
<1>e. \A c \in W: tid(c) \in 1 .. n /\ order[tid(c)] = c
  <2>1. TAKE c \in W
  <2>2. DOMAIN order = 1 .. n  BY <1>d
  <2>3. \E i \in DOMAIN order: order[i] = c  BY <1>d, <2>2
  <2>4. QED  BY <2>2, <2>3
<1> HIDE DEF tid
<1>f. \A c \in W: /\ new(c).pc = "start" /\ new(c).tid = tid(c) /\ new(c).polls = {} /\ new(c).tx = {}
                  /\ new(c).snap = {} /\ new(c).cache = <<>> /\ new(c).reload = FALSE
                  /\ new(c) \in PmdState
  <2>1. TAKE c \in W
  <2>2. PICK i \in 1 .. n: i = tid(c)  BY <1>e
  <2>3. new(c) = [NoPmd EXCEPT !.pc = "start", !.tid = i]  BY <2>2
  <2> HIDE DEF new
  <2>4. new(c) = [pc |-> "start", tid |-> i, polls |-> {}, tx |-> {}, need |-> FALSE, seq |-> FALSE,
                  reload |-> FALSE, latch |-> FALSE, snap |-> {}, cache |-> <<>>]
    BY <2>3 DEF NoPmd
  <2>5. new(c) \in PmdState  BY <2>4, EmptyTypes DEF PmdState
  <2>6. QED  BY <2>2, <2>4, <2>5
<1> HIDE DEF new
<1>2. /\ StateTypes /\ HandshakeInv /\ ThreadsInv /\ OwnerInv /\ OnePoller /\ GoneInv /\ OpenInv
      /\ SharedInv /\ TxqUsedCounts /\ ThreadsCounted /\ TidInv
  BY DEF IndInv
<1>3. Running = {} /\ NonPmd \in Polling  BY <1>1, <1>2 DEF ThreadsInv
<1>4. /\ \A c \in W: c \in Thread /\ c # NonPmd /\ pmd'[c] = new(c)
      /\ \A c \in Thread \ W: pmd'[c] = pmd[c]
  BY <1>1, <1>a, CoreThreads
<1>5. \A c \in Thread: c # NonPmd => pmd[c] = NoPmd
  <2>1. \A c \in Thread: c # NonPmd => pmd[c].pc = "none"  BY <1>3 DEF Running, Polling
  <2>2. QED  BY <1>2, <2>1 DEF HandshakeInv
<1>6. \A c \in Thread: /\ pmd'[c].polls = pmd[c].polls /\ pmd'[c].tx = pmd[c].tx
                       /\ pmd'[c].snap = pmd[c].snap /\ pmd'[c].cache = pmd[c].cache
                       /\ ~ pmd[c].reload /\ ~ pmd'[c].reload
  <2>1. \A c \in Thread: ~ pmd[c].reload  BY <1>1, NoneDue DEF AtWork, HandshakePc
  <2>2. TAKE c \in Thread
  <2>3. CASE c \in W
    <3>1. pmd[c] = NoPmd  BY <1>4, <1>5, <2>3
    <3>2. QED  BY <1>4, <1>f, <2>1, <2>3, <3>1 DEF NoPmd
  <2>4. CASE c \notin W  BY <1>4, <2>1, <2>4
  <2>5. QED  BY <2>3, <2>4
<1>7. main' = [pc |-> "stale", todo |-> main.todo, on |-> main.on, next |-> main.next, del |-> main.del, saved |-> main.saved]
  BY <1>1, <1>2, MainFields
<1>8. Phase' = "stale" /\ Phase = "create"  BY <1>1, <1>7 DEF Phase, HandshakePc
<1>9. Polling' = W \cup {NonPmd} /\ Ports' = Ports
  <2>1. ASSUME NEW c \in Thread PROVE pmd'[c].pc # "none" <=> c \in W \/ c = NonPmd
    <3>1. CASE c \in W  BY <1>4, <1>f, <3>1
    <3>2. CASE c \notin W /\ c = NonPmd
      <4>1. pmd'[c] = pmd[c]  BY <1>4, <3>2
      <4>2. QED  BY <1>3, <3>2, <4>1 DEF Polling
    <3>3. CASE c \notin W /\ c # NonPmd
      <4>1. pmd'[c] = NoPmd  BY <1>4, <1>5, <3>3
      <4>2. QED  BY <3>3, <4>1 DEF NoPmd
    <3>4. QED  BY <3>1, <3>2, <3>3
  <2>2. W \subseteq Thread /\ NonPmd \in Thread  BY <1>a, CoreThreads
  <2>3. Polling' = W \cup {NonPmd}  BY <2>1, <2>2 DEF Polling
  <2>4. QED  BY <1>1, <2>3 DEF Ports
<1>10. Cardinality(Polling') = n + 1
  <2>1. NonPmd \notin W  BY <1>a, CoreThreads
  <2>2. QED  BY <1>9, <1>c, <1>n, <2>1, FS_AddElement
<1>11. StateTypes'
  <2>1. PortTypes'  BY <1>1, <1>2, SameEverywhere
  <2>2. main' \in MainState  BY <1>2, <1>7, MainFields DEF MainState
  <2>3. \A c \in Thread: pmd'[c] \in PmdState
    <3>1. \A c \in Thread: pmd[c] \in PmdState  BY <1>2 DEF StateTypes
    <3>2. QED  BY <1>4, <1>f, <3>1
  <2>4. pmd' \in [Thread -> PmdState]
    <3>1. pmd' = [c \in Thread |-> pmd'[c]]  BY <1>1
    <3>2. QED  BY <2>3, <3>1
  <2>5. QED  BY <1>1, <1>2, <2>1, <2>2, <2>4 DEF StateTypes
<1>12. pmd'[NonPmd] = pmd[NonPmd]  BY <1>4, <1>a, CoreThreads
<1>13. HandshakeInv'
  <2>1. ASSUME NEW c \in Thread
        PROVE  /\ pmd'[c].pc = "none" => pmd'[c] = NoPmd
               /\ pmd'[c].pc = "ended" => pmd'[c].snap = {} /\ pmd'[c].cache = <<>>
               /\ ~ pmd'[c].reload /\ pmd'[c].pc # "loaded"
    <3>1. CASE c \in W  BY <1>4, <1>f, <3>1
    <3>2. CASE c \notin W
      <4>1. pmd'[c] = pmd[c]  BY <1>4, <3>2
      <4>2. pmd[c].pc # "loaded"  BY <1>2, <1>6 DEF HandshakeInv
      <4>3. QED  BY <1>2, <1>6, <4>1, <4>2 DEF HandshakeInv
    <3>3. QED  BY <3>1, <3>2
  <2>2. pmd'[NonPmd].pc \in {"none", "poll"} /\ pmd'[NonPmd].snap = {} /\ pmd'[NonPmd].tid = 0
    BY <1>2, <1>12 DEF HandshakeInv
  <2>3. main'.pc = "stale"  BY <1>7
  <2>4. QED  BY <2>1, <2>2, <2>3 DEF HandshakeInv, HandshakePc
<1>14. CopiesInv'
  <2>1. \A c \in Thread: pmd[c].snap \subseteq pmd[c].polls /\ DOMAIN pmd[c].cache \subseteq pmd[c].tx
    BY <1>1, NoneDue DEF AtWork, HandshakePc
  <2>2. QED  BY <1>6, <2>1 DEF CopiesInv
<1>15. OwnerInv' /\ OnePoller'
  <2>1. \A c \in Thread: \A q \in pmd'[c].polls: port'[q[1]].pmd[q[2]] = c
    BY <1>1, <1>2, <1>6 DEF OwnerInv
  <2>2. \A c, e \in Core: c # e => pmd'[c].snap \cap pmd'[e].polls = {}
    BY <1>2, <1>6, CoreThreads DEF OwnerInv
  <2>3. \A c, e \in Core: c # e => pmd'[c].snap \cap pmd'[e].snap = {}
    BY <1>2, <1>6, CoreThreads DEF OnePoller
  <2>4. QED  BY <2>1, <2>2, <2>3 DEF OwnerInv, OnePoller
<1>16. GoneInv'
  <2>1. \A d \in Dev: Gone(d) => Gone(d)'  BY <1>6 DEF Gone
  <2>2. \A d \in Dev: port'[d].st = "none" => Gone(d)'  BY <1>1, <1>2, <2>1 DEF GoneInv
  <2>3. \A d \in main'.del: port'[d].st # "in"  BY <1>1, <1>2, <1>7 DEF GoneInv
  <2>4. QED  BY <1>8, <2>2, <2>3 DEF GoneInv
<1>17. OpenInv'
  <2>1. \A c \in Thread: \A q \in pmd'[c].polls \cup pmd'[c].snap: q[2] < port'[q[1]].rxq
    BY <1>1, <1>2, <1>6 DEF OpenInv
  <2>2. \A c \in Thread: \A d \in Dev: Uses(c, d)' => Uses(c, d)  BY <1>6 DEF Uses
  <2>3. QED  BY <1>1, <1>2, <2>1, <2>2 DEF OpenInv
<1>18. SharedInv' /\ TxqUsedCounts'
  <2>1. SameCaches  BY <1>6 DEF SameCaches
  <2>2. QED  BY <1>1, <1>2, <2>1, SharedFrame
<1>19. NeedInv'  BY <1>7, <1>8 DEF NeedInv
<1>20. ThreadsCounted'
  <2>1. \A d \in Ports \cap PmdDev: ~ port[d].need => (port[d].dynamic <=> netdev[d].txq < netdev[d].want)
    BY <1>2 DEF ThreadsCounted
  <2>2. QED  BY <1>1, <1>8, <1>9, <2>1 DEF ThreadsCounted
<1>21. ThreadsInv'  BY <1>7, <1>8, <1>9 DEF ThreadsInv, HandshakePc
<1>22. TidInv'
  <2>1. pmd'[NonPmd].tid = 0  BY <1>2, <1>12 DEF HandshakeInv
  <2>2. \A c \in W: pmd'[c].tid \in 1 .. n /\ order[pmd'[c].tid] = c  BY <1>4, <1>e, <1>f
  <2>3. \A c, e \in Polling': c # e => pmd'[c].tid # pmd'[e].tid
    <3>1. SUFFICES ASSUME NEW c \in Polling', NEW e \in Polling', c # e PROVE pmd'[c].tid # pmd'[e].tid
      OBVIOUS
    <3>2. CASE c \in W /\ e \in W  BY <2>2, <3>1, <3>2
    <3>3. CASE c \in W /\ e = NonPmd  BY <1>d, <2>1, <2>2, <3>3
    <3>4. CASE c = NonPmd /\ e \in W  BY <1>d, <2>1, <2>2, <3>4
    <3>5. QED  BY <1>9, <3>1, <3>2, <3>3, <3>4
  <2>4. \A c \in Polling': pmd'[c].tid < Cardinality(Polling')
    BY <1>9, <1>10, <1>d, <2>1, <2>2
  <2>5. ASSUME NEW c \in Thread, NEW d \in PmdDev \cap (pmd'[c].tx \cup DOMAIN pmd'[c].cache),
               ~ port'[d].dynamic
        PROVE  pmd'[c].tid < netdev'[d].txq
    <3>1. d \in pmd[c].tx \cup DOMAIN pmd[c].cache  BY <1>6, <2>5
    <3>2. c = NonPmd
      <4>1. NoPmd.tx = {} /\ DOMAIN NoPmd.cache = {}  BY EmptyTypes DEF NoPmd
      <4>2. QED  BY <1>5, <3>1, <4>1
    <3>3. QED  BY <1>1, <1>2, <1>12, <2>5, <3>1, <3>2 DEF TidInv
  <2>6. QED  BY <2>3, <2>4, <2>5 DEF TidInv
<1>23. QED
  BY <1>2, <1>11, <1>13, <1>14, <1>15, <1>16, <1>17, <1>18, <1>19, <1>20, <1>21, <1>22 DEF IndInv

-----------------------------------------------------------------------------
(* reconfigure_datapath changes the lists of the threads *)

\* p with the lists P and T, and need b, is r.
Relisted(p, P, T, b, r) ==
    /\ r \in PmdState /\ r.polls = P /\ r.tx = T /\ r.need = b
    /\ r.pc = p.pc /\ r.tid = p.tid /\ r.snap = p.snap /\ r.cache = p.cache
    /\ r.reload = p.reload /\ r.latch = p.latch
    /\ p = NoPmd /\ P = {} /\ T = {} /\ b = FALSE => r = NoPmd

LEMMA NewLists ==
  ASSUME NEW p \in PmdState, NEW P \in SUBSET Queue, NEW T \in SUBSET Dev, NEW b \in BOOLEAN
  PROVE  Relisted(p, P, T, b, [p EXCEPT !.polls = P, !.tx = T, !.need = b])
<1>0. PICK r: r = [p EXCEPT !.polls = P, !.tx = T, !.need = b]  OBVIOUS
<1>1. /\ r = [pc |-> p.pc, tid |-> p.tid, polls |-> P, tx |-> T, need |-> b, seq |-> p.seq,
              reload |-> p.reload, latch |-> p.latch, snap |-> p.snap, cache |-> p.cache]
  BY <1>0 DEF PmdState
<1>2. r \in PmdState  BY <1>1 DEF PmdState
<1>3. ASSUME p = NoPmd, P = {}, T = {}, b = FALSE PROVE r = NoPmd
  <2>1. /\ p.pc = "none" /\ p.tid = 0 /\ p.seq = FALSE /\ p.reload = FALSE /\ p.latch = FALSE
        /\ p.snap = {} /\ p.cache = <<>>
    BY <1>3 DEF NoPmd
  <2>2. r = [pc |-> "none", tid |-> 0, polls |-> {}, tx |-> {}, need |-> FALSE, seq |-> FALSE,
             reload |-> FALSE, latch |-> FALSE, snap |-> {}, cache |-> <<>>]
    BY <1>1, <1>3, <2>1
  <2>3. QED  BY <2>2 DEF NoPmd
<1>4. Relisted(p, P, T, b, r)  BY <1>1, <1>2, <1>3 DEF Relisted
<1>5. QED  BY <1>0, <1>4

LEMMA NewPolls ==
  ASSUME NEW p \in PmdState, NEW P \in SUBSET Queue, NEW b \in BOOLEAN
  PROVE  Relisted(p, P, p.tx, b, [p EXCEPT !.polls = P, !.need = b])
<1>1. p.tx \in SUBSET Dev  BY DEF PmdState
<1>2. Relisted(p, P, p.tx, b, [p EXCEPT !.polls = P, !.tx = p.tx, !.need = b])  BY <1>1, NewLists
<1>3. [p EXCEPT !.polls = P, !.tx = p.tx, !.need = b] = [p EXCEPT !.polls = P, !.need = b]
  BY DEF PmdState
<1>4. QED  BY <1>2, <1>3

LEMMA NewTx ==
  ASSUME NEW p \in PmdState, NEW T \in SUBSET Dev, NEW b \in BOOLEAN
  PROVE  Relisted(p, p.polls, T, b, [p EXCEPT !.tx = T, !.need = b])
<1>1. p.polls \in SUBSET Queue  BY DEF PmdState
<1>2. Relisted(p, p.polls, T, b, [p EXCEPT !.polls = p.polls, !.tx = T, !.need = b])  BY <1>1, NewLists
<1>3. [p EXCEPT !.polls = p.polls, !.tx = T, !.need = b] = [p EXCEPT !.tx = T, !.need = b]
  BY DEF PmdState
<1>4. QED  BY <1>2, <1>3

\* The lists change, and the copies do not.
OnlyLists ==
    \A c \in Thread: /\ pmd'[c] \in PmdState
                     /\ pmd'[c].pc = pmd[c].pc /\ pmd'[c].tid = pmd[c].tid
                     /\ pmd'[c].snap = pmd[c].snap /\ pmd'[c].cache = pmd[c].cache
                     /\ pmd'[c].reload = pmd[c].reload
                     /\ pmd[c] = NoPmd => pmd'[c] = NoPmd

LEMMA ListStep ==
  ASSUME IndInv, main.pc \in {"stale", "ports", "add"}, OnlyLists, DOMAIN pmd' = Thread,
         pmd' = [c \in Thread |-> pmd'[c]],
         main' \in MainState,
         \/ main'.pc = "reload" /\ main'.todo \subseteq Polling /\ main'.next \in {"ports", "add", "end"}
         \/ main'.pc = "add",
         \A c \in Thread: Due(c)' \/ /\ pmd[c].snap \subseteq pmd'[c].polls
                                     /\ DOMAIN pmd[c].cache \subseteq pmd'[c].tx,
         PortTypes', netdev' \in [Dev -> Device], ref' = ref,
         \A d \in Dev: /\ port'[d].st = port[d].st /\ port'[d].dynamic = port[d].dynamic
                       /\ port'[d].used = port[d].used
  PROVE  /\ StateTypes' /\ HandshakeInv' /\ CopiesInv' /\ OnePoller' /\ SharedInv' /\ TxqUsedCounts'
         /\ ThreadsInv'
         /\ Polling' = Polling /\ Running' = Running /\ Ports' = Ports /\ NonPmd \in Polling
<1>1. /\ StateTypes /\ HandshakeInv /\ ThreadsInv /\ OnePoller /\ SharedInv /\ TxqUsedCounts
  BY DEF IndInv
<1>2. \A c \in Thread: ~ pmd[c].reload  BY NoneDue DEF AtWork, HandshakePc
<1>3. Polling' = Polling /\ Running' = Running /\ Ports' = Ports  BY DEF OnlyLists, Polling, Running, Ports
<1>4. NonPmd \in Polling  BY <1>1 DEF ThreadsInv
<1>5. pmd' \in [Thread -> PmdState]
  <2>1. \A c \in Thread: pmd'[c] \in PmdState  BY DEF OnlyLists
  <2>2. QED  BY <2>1
<1>6. StateTypes'  BY <1>1, <1>5 DEF StateTypes
<1>7. HandshakeInv'
  <2>1. ASSUME NEW c \in Thread
        PROVE  /\ pmd'[c].pc = "none" => pmd'[c] = NoPmd
               /\ pmd'[c].pc = "ended" => pmd'[c].snap = {} /\ pmd'[c].cache = <<>>
               /\ ~ pmd'[c].reload /\ pmd'[c].pc # "loaded"
    <3>1. pmd[c].pc # "loaded"  BY <1>1, <1>2 DEF HandshakeInv
    <3>2. pmd[c].pc = "none" => pmd[c] = NoPmd  BY <1>1 DEF HandshakeInv
    <3>3. pmd[c].pc = "ended" => pmd[c].snap = {} /\ pmd[c].cache = <<>>  BY <1>1 DEF HandshakeInv
    <3>4. QED  BY <1>2, <3>1, <3>2, <3>3 DEF OnlyLists
  <2>2. pmd'[NonPmd].pc \in {"none", "poll"} /\ pmd'[NonPmd].snap = {} /\ pmd'[NonPmd].tid = 0
    BY <1>1, CoreThreads DEF HandshakeInv, OnlyLists
  <2>3. main'.pc \in HandshakePc => main'.next # "idle" /\ main'.todo \subseteq Polling'
    BY <1>3 DEF HandshakePc
  <2>4. main'.pc \notin {"signal", "set", "wait", "woken"}  OBVIOUS
  <2>5. QED  BY <2>1, <2>2, <2>3, <2>4 DEF HandshakeInv
<1>8. CopiesInv'
  <2>1. \A c \in Thread: Due(c)' \/ /\ pmd'[c].snap \subseteq pmd'[c].polls
                                    /\ DOMAIN pmd'[c].cache \subseteq pmd'[c].tx
    BY DEF OnlyLists
  <2>2. QED  BY <2>1 DEF CopiesInv
<1>9. OnePoller'  BY <1>1, CoreThreads DEF OnePoller, OnlyLists
<1>10. SharedInv' /\ TxqUsedCounts'
  <2>1. SameCaches  BY DEF SameCaches, OnlyLists
  <2>2. QED  BY <1>1, <2>1, SharedFrame
<1>11. ThreadsInv'
  <2>1. main'.pc \in HandshakePc => ~ Ending'  BY DEF Ending, HandshakePc
  <2>2. Phase' # "destroy"  BY DEF Phase, HandshakePc
  <2>3. main'.pc \notin {"create", "destroy"}  OBVIOUS
  <2>4. QED  BY <1>3, <1>4, <2>1, <2>2, <2>3 DEF ThreadsInv
<1>12. QED  BY <1>3, <1>4, <1>6, <1>7, <1>8, <1>9, <1>10, <1>11

\* Lists from which something is taken.
Fewer ==
    \A c \in Thread: pmd'[c].polls \subseteq pmd[c].polls /\ pmd'[c].tx \subseteq pmd[c].tx

LEMMA FewerFrame ==
  ASSUME IndInv, OnlyLists, Fewer, \A d \in Dev: port'[d].st = port[d].st /\ port'[d].rxq = port[d].rxq
                                              /\ port'[d].dynamic = port[d].dynamic,
         \A d \in Dev: netdev'[d].txq = netdev[d].txq, Polling' = Polling,
         Phase \notin {"create", "destroy"}
  PROVE  /\ OpenInv' /\ TidInv' /\ \A d \in Dev: Gone(d) => Gone(d)'
         /\ \A c, e \in Core: c # e => pmd'[c].snap \cap pmd'[e].polls = {}
<1>1. StateTypes /\ OwnerInv /\ OpenInv /\ TidInv  BY DEF IndInv
<1>2. \A c \in Thread: \A q \in pmd[c].polls \cup pmd[c].snap: q[1] \in Dev  BY <1>1, PmdFields, QueueDev
<1>3. \A c \in Thread: /\ pmd'[c].polls \subseteq pmd[c].polls /\ pmd'[c].tx \subseteq pmd[c].tx
                       /\ pmd'[c].snap = pmd[c].snap /\ pmd'[c].cache = pmd[c].cache
                       /\ pmd'[c].tid = pmd[c].tid
  BY DEF Fewer, OnlyLists
<1>4. OpenInv'
  <2>1. ASSUME NEW c \in Thread, NEW q \in pmd'[c].polls \cup pmd'[c].snap PROVE q[2] < port'[q[1]].rxq
    <3>1. q \in pmd[c].polls \cup pmd[c].snap  BY <1>3, <2>1
    <3>2. q[2] < port[q[1]].rxq /\ q[1] \in Dev  BY <1>1, <1>2, <3>1 DEF OpenInv
    <3>3. QED  BY <3>2
  <2>2. \A c \in Thread: \A d \in Dev: Uses(c, d)' => Uses(c, d)  BY <1>3 DEF Uses
  <2>3. \A c \in Thread: \A d \in Dev: Uses(c, d)' => port'[d].st # "none"  BY <1>1, <2>2 DEF OpenInv
  <2>4. QED  BY <2>1, <2>3 DEF OpenInv
<1>5. TidInv'
  <2>1. \A c, e \in Polling: c # e => pmd'[c].tid # pmd'[e].tid  BY <1>1, <1>3, PollingThreads DEF TidInv
  <2>2. \A c \in Polling: pmd'[c].tid < Cardinality(Polling)
    BY <1>1, <1>3, PollingThreads DEF TidInv
  <2>3. ASSUME NEW c \in Thread, NEW d \in PmdDev \cap (pmd'[c].tx \cup DOMAIN pmd'[c].cache),
               ~ port'[d].dynamic
        PROVE  pmd'[c].tid < netdev'[d].txq
    <3>1. d \in pmd[c].tx \cup DOMAIN pmd[c].cache /\ d \in Dev  BY <1>3, <2>3, NetdevPortsAssumption
    <3>2. pmd[c].tid < netdev[d].txq  BY <1>1, <2>3, <3>1 DEF TidInv
    <3>3. QED  BY <1>3, <3>1, <3>2
  <2>4. QED  BY <2>1, <2>2, <2>3 DEF TidInv
<1>6. \A d \in Dev: Gone(d) => Gone(d)'  BY <1>3 DEF Gone
<1>7. \A c, e \in Core: c # e => pmd'[c].snap \cap pmd'[e].polls = {}
  BY <1>1, <1>3, CoreThreads DEF OwnerInv
<1>8. QED  BY <1>4, <1>5, <1>6, <1>7

LEMMA MultiqFields ==
  ASSUME NEW d \in Dev, netdev[d] \in Device, NEW n \in Nat \ {0}
  PROVE  /\ Multiq(d, n) \in Device /\ Multiq(d, n).txq = netdev[d].txq
         /\ d \in PmdDev => Multiq(d, n).want = n
         /\ ~ Multiq(d, n).reconf => Multiq(d, n).want = netdev[d].want
<1>1. CASE d \in PmdDev /\ netdev[d].want # n
  <2>1. Multiq(d, n) = [netdev[d] EXCEPT !.want = n, !.reconf = TRUE]  BY <1>1 DEF Multiq
  <2>2. QED  BY <2>1 DEF Device
<1>2. CASE ~ (d \in PmdDev /\ netdev[d].want # n)
  <2>1. Multiq(d, n) = netdev[d]  BY <1>2 DEF Multiq
  <2>2. QED  BY <1>2, <2>1
<1>3. QED  BY <1>1, <1>2

\* One field of a port changes.
LEMMA PortFields ==
  ASSUME PortTypes, NEW d \in Dev
  PROVE  /\ port[d] = [st |-> port[d].st, no |-> port[d].no, need |-> port[d].need,
                       rxq |-> port[d].rxq, dynamic |-> port[d].dynamic, used |-> port[d].used,
                       aff |-> port[d].aff, pmd |-> port[d].pmd]
         /\ port[d].st \in {"none", "in", "removed"} /\ port[d].need \in BOOLEAN
         /\ port[d].dynamic \in BOOLEAN /\ port[d].rxq \in Nat /\ port[d].used \in Counts
         /\ DOMAIN port = Dev
BY DEF PortTypes

LEMMA StaleStep == ASSUME IndInv, Stale PROVE IndInv'
<1> DEFINE n == Cardinality(Polling)
           stale == {d \in Dev: port'[d].need \/ d \notin Ports}
           polls(c) == {q \in pmd[c].polls: q[1] \notin stale}
           tx(c) == pmd[c].tx \ stale
           need(c) == pmd[c].need \/ polls(c) # pmd[c].polls \/ tx(c) # pmd[c].tx
           todo == {c \in Polling: pmd'[c].need}
<1>1. /\ main.pc = "stale"
      /\ netdev' = [d \in Dev |-> IF d \in Ports THEN Multiq(d, n) ELSE netdev[d]]
      /\ port' = [d \in Dev |-> [port[d] EXCEPT !.need = @ \/ (d \in Ports /\ netdev'[d].reconf)]]
      /\ pmd' = [c \in Thread |-> WithoutStale(pmd[c], stale)]
      /\ main' = Reloading(todo, "ports") /\ ref' = ref
  BY DEF Stale
<1>2. /\ StateTypes /\ HandshakeInv /\ ThreadsInv /\ OwnerInv /\ GoneInv /\ ThreadsCounted /\ PortTypes
      /\ netdev \in [Dev -> Device]
  BY DEF IndInv, StateTypes
<1>3. Phase = "stale"  BY <1>1 DEF Phase, HandshakePc
<1>4. n \in Nat \ {0}
  <2>1. NonPmd \in Polling  BY <1>1, <1>2 DEF ThreadsInv
  <2>2. IsFiniteSet(Polling)  BY CoreThreads, PollingThreads, FS_Subset
  <2>3. n \in Nat /\ n # 0  BY <2>1, <2>2, FS_CardinalityType, FS_EmptySet
  <2>4. QED  BY <2>3
<1>5. \A d \in Dev: /\ netdev'[d] \in Device /\ netdev'[d].txq = netdev[d].txq
                    /\ d \in Ports \cap PmdDev => netdev'[d].want = n
                    /\ ~ netdev'[d].reconf => netdev'[d].want = netdev[d].want
  <2> HIDE DEF n
  <2>1. TAKE d \in Dev
  <2>2. netdev[d] \in Device  BY <1>2
  <2>3. CASE d \in Ports
    <3>1. netdev'[d] = Multiq(d, n)  BY <1>1, <2>3
    <3>2. QED  BY <1>4, <2>2, <3>1, MultiqFields
  <2>4. CASE d \notin Ports
    <3>1. netdev'[d] = netdev[d]  BY <1>1, <2>4
    <3>2. QED  BY <2>2, <2>4, <3>1
  <2>5. QED  BY <2>3, <2>4
<1>6. netdev' \in [Dev -> Device]  BY <1>1, <1>5
<1>7. ASSUME NEW d \in Dev
      PROVE  \E b \in BOOLEAN: /\ b <=> port[d].need \/ (d \in Ports /\ netdev'[d].reconf)
                /\ port'[d] = [st |-> port[d].st, no |-> port[d].no, need |-> b,
                               rxq |-> port[d].rxq, dynamic |-> port[d].dynamic, used |-> port[d].used,
                               aff |-> port[d].aff, pmd |-> port[d].pmd]
  <2>1. PICK b \in BOOLEAN: b = (port[d].need \/ (d \in Ports /\ netdev'[d].reconf))  OBVIOUS
  <2>2. port'[d] = [port[d] EXCEPT !.need = b]  BY <1>1, <2>1
  <2>3. PICK p: p = port[d]  OBVIOUS
  <2>4. p = [st |-> p.st, no |-> p.no, need |-> p.need, rxq |-> p.rxq, dynamic |-> p.dynamic,
             used |-> p.used, aff |-> p.aff, pmd |-> p.pmd]
    BY <1>2, <2>3, PortFields
  <2>5. [p EXCEPT !.need = b]
           = [st |-> p.st, no |-> p.no, need |-> b, rxq |-> p.rxq, dynamic |-> p.dynamic,
              used |-> p.used, aff |-> p.aff, pmd |-> p.pmd]
    BY ONLY <2>4
  <2>6. QED  BY <2>1, <2>2, <2>3, <2>5
<1>r. ASSUME NEW d \in Dev
      PROVE  /\ port'[d].st = port[d].st /\ port'[d].rxq = port[d].rxq
             /\ port'[d].dynamic = port[d].dynamic /\ port'[d].used = port[d].used
             /\ port'[d].pmd = port[d].pmd
             /\ port'[d].need <=> port[d].need \/ (d \in Ports /\ netdev'[d].reconf)
             /\ port'[d] = [st |-> port'[d].st, no |-> port'[d].no, need |-> port'[d].need,
                            rxq |-> port'[d].rxq, dynamic |-> port'[d].dynamic, used |-> port'[d].used,
                            aff |-> port'[d].aff, pmd |-> port'[d].pmd]
             /\ port'[d].need \in BOOLEAN
  <2>1. PICK p: p = port[d]  OBVIOUS
  <2>2. PICK r: r = port'[d]  OBVIOUS
  <2>3. PICK b \in BOOLEAN: /\ b <=> port[d].need \/ (d \in Ports /\ netdev'[d].reconf)
           /\ r = [st |-> p.st, no |-> p.no, need |-> b, rxq |-> p.rxq, dynamic |-> p.dynamic,
                   used |-> p.used, aff |-> p.aff, pmd |-> p.pmd]
    BY <1>7, <2>1, <2>2
  <2>4. /\ r.st = p.st /\ r.rxq = p.rxq /\ r.dynamic = p.dynamic /\ r.used = p.used
        /\ r.pmd = p.pmd /\ r.need = b
        /\ r = [st |-> r.st, no |-> r.no, need |-> r.need, rxq |-> r.rxq, dynamic |-> r.dynamic,
                used |-> r.used, aff |-> r.aff, pmd |-> r.pmd]
    BY ONLY <2>3
  <2>5. QED  BY <2>1, <2>2, <2>3, <2>4
<1>8. \A d \in Dev: /\ port'[d].st = port[d].st /\ port'[d].rxq = port[d].rxq
                    /\ port'[d].dynamic = port[d].dynamic /\ port'[d].used = port[d].used
                    /\ port'[d].pmd = port[d].pmd
                    /\ port'[d].need <=> port[d].need \/ (d \in Ports /\ netdev'[d].reconf)
  BY <1>r
<1>9. PortTypes'
  <2>1. port' = [d \in Dev |-> port'[d]]  BY <1>1
  <2>2. \A d \in Dev: /\ port'[d].st \in {"none", "in", "removed"}
                      /\ port'[d].need \in BOOLEAN /\ port'[d].dynamic \in BOOLEAN
                      /\ port'[d].rxq \in Nat /\ port'[d].used \in Counts
    BY <1>2, <1>r, <1>8, PortFields
  <2>3. port' = [d \in Dev |-> [st |-> port'[d].st, no |-> port'[d].no, need |-> port'[d].need,
                                rxq |-> port'[d].rxq, dynamic |-> port'[d].dynamic,
                                used |-> port'[d].used, aff |-> port'[d].aff, pmd |-> port'[d].pmd]]
    BY <1>r, <2>1
  <2>4. QED  BY <2>2, <2>3 DEF PortTypes
<1> HIDE DEF stale
<1>10. ASSUME NEW c \in Thread
       PROVE  /\ pmd'[c] \in PmdState
              /\ pmd'[c].pc = pmd[c].pc /\ pmd'[c].tid = pmd[c].tid
              /\ pmd'[c].snap = pmd[c].snap /\ pmd'[c].cache = pmd[c].cache
              /\ pmd'[c].reload = pmd[c].reload
              /\ pmd[c] = NoPmd => pmd'[c] = NoPmd
              /\ pmd'[c].polls = polls(c) /\ pmd'[c].tx = tx(c)
              /\ pmd'[c].need <=> need(c)
  <2>1. pmd[c] \in PmdState /\ pmd[c].polls \in SUBSET Queue /\ pmd[c].tx \in SUBSET Dev
    BY <1>2, PmdFields
  <2>2. polls(c) \in SUBSET Queue /\ tx(c) \in SUBSET Dev  BY <2>1
  <2>p. PICK P \in SUBSET Queue: P = polls(c)  BY <2>2
  <2>t. PICK T \in SUBSET Dev: T = tx(c)  BY <2>2
  <2>3. PICK b \in BOOLEAN: b = need(c)
    <3> HIDE DEF polls, tx
    <3>1. need(c) \in BOOLEAN  BY <2>1 DEF PmdState
    <3>2. QED  BY <3>1
  <2>4. pmd'[c] = [pmd[c] EXCEPT !.polls = P, !.tx = T, !.need = b]
    BY <1>1, <2>3, <2>p, <2>t DEF WithoutStale
  <2>5. pmd[c] = NoPmd => polls(c) = {} /\ tx(c) = {} /\ ~ need(c)  BY DEF NoPmd
  <2> HIDE DEF polls, tx, need
  <2>6. PICK p: p = pmd[c]  OBVIOUS
  <2>7. PICK r: r = pmd'[c]  OBVIOUS
  <2>8. p \in PmdState /\ r = [p EXCEPT !.polls = P, !.tx = T, !.need = b]  BY <2>1, <2>4, <2>6, <2>7
  <2>9. Relisted(p, P, T, b, r)  BY <2>8, NewLists
  <2>10. pmd[c] = NoPmd => r = NoPmd  BY <2>3, <2>5, <2>6, <2>9, <2>p, <2>t DEF Relisted
  <2>11. pmd'[c].need <=> need(c)  BY <2>3, <2>7, <2>9 DEF Relisted
  <2>12. QED  BY <2>6, <2>7, <2>9, <2>10, <2>11, <2>p, <2>t DEF Relisted
<1>11. OnlyLists /\ Fewer /\ DOMAIN pmd' = Thread /\ pmd' = [c \in Thread |-> pmd'[c]]
  <2>1. OnlyLists  BY <1>10 DEF OnlyLists
  <2>2. Fewer  BY <1>10 DEF Fewer
  <2>3. QED  BY <1>1, <2>1, <2>2
<1>12. todo \subseteq Polling /\ todo \in SUBSET (Dev \cup Thread)  BY PollingThreads
<1>t. \A c \in Thread: c \in todo <=> c \in Polling /\ pmd'[c].need  OBVIOUS
<1> HIDE DEF todo
<1>13. main' = [pc |-> "reload", todo |-> todo, on |-> main.on, next |-> "ports", del |-> main.del, saved |-> main.saved]
  BY <1>1, <1>2, MainFields DEF Reloading
<1>14. main' \in MainState  BY <1>2, <1>12, <1>13, MainFields DEF MainState, HandshakePc
<1>15. ASSUME NEW c \in Thread
       PROVE  Due(c)' \/ (pmd[c].snap \subseteq pmd'[c].polls /\ DOMAIN pmd[c].cache \subseteq pmd'[c].tx)
  <2>1. pmd[c].snap \subseteq pmd[c].polls /\ DOMAIN pmd[c].cache \subseteq pmd[c].tx
    BY <1>1, NoneDue DEF AtWork, HandshakePc
  <2>2. CASE c \notin Polling
    <3>1. pmd[c] = NoPmd  BY <1>2, <2>2 DEF HandshakeInv, Polling
    <3>2. pmd'[c] = pmd[c]  BY <1>10, <3>1
    <3>3. QED  BY <2>1, <3>2
  <2>3. CASE c \in Polling /\ pmd'[c].need
    <3>1. c \in todo  BY <1>t, <2>3
    <3>2. QED  BY <1>13, <3>1 DEF Due, HandshakePc
  <2>4. CASE ~ pmd'[c].need
    <3>1. pmd'[c].polls = pmd[c].polls /\ pmd'[c].tx = pmd[c].tx  BY <1>10, <2>4
    <3>2. QED  BY <2>1, <3>1
  <2>5. QED  BY <2>2, <2>3, <2>4
<1>m. main'.pc = "reload" /\ main'.todo \subseteq Polling /\ main'.next = "ports" /\ main'.del = main.del
  BY <1>12, <1>13
<1>16. /\ StateTypes' /\ HandshakeInv' /\ CopiesInv' /\ OnePoller' /\ SharedInv' /\ TxqUsedCounts'
       /\ ThreadsInv'
       /\ Polling' = Polling /\ Running' = Running /\ Ports' = Ports /\ NonPmd \in Polling
  BY <1>1, <1>6, <1>8, <1>9, <1>11, <1>m, <1>14, <1>15, ListStep
<1>17. /\ OpenInv' /\ TidInv' /\ \A d \in Dev: Gone(d) => Gone(d)'
       /\ \A c, e \in Core: c # e => pmd'[c].snap \cap pmd'[e].polls = {}
  BY <1>3, <1>5, <1>8, <1>11, <1>16, FewerFrame
<1>18. Phase' = "ports"  BY <1>13 DEF Phase, HandshakePc
<1>19. OwnerInv'
  <2>1. ASSUME NEW c \in Thread, NEW q \in pmd'[c].polls PROVE port'[q[1]].pmd[q[2]] = c
    <3>1. q \in pmd[c].polls  BY <1>11, <2>1 DEF Fewer
    <3>2. q[1] \in Dev  BY <1>2, <3>1, PmdFields, QueueDev
    <3>3. QED  BY <1>2, <1>8, <3>1, <3>2 DEF OwnerInv
  <2>2. QED  BY <1>17, <2>1 DEF OwnerInv
<1>20. GoneInv'
  <2>1. ASSUME NEW d \in Dev, port'[d].st # "in" \/ port'[d].need PROVE Gone(d)'
    <3>1. d \in stale  BY <1>8, <2>1 DEF stale, Ports
    <3>2. ASSUME NEW c \in Thread PROVE d \notin pmd'[c].tx /\ \A q \in pmd'[c].polls: q[1] # d
      BY <1>10, <3>1
    <3>3. QED  BY <3>2 DEF Gone
  <2>2. \A d \in Dev: port'[d].st = "none" => Gone(d)'  BY <2>1
  <2>3. \A d \in main'.del: port'[d].st # "in"
    <3>1. \A d \in main.del: d \in Dev /\ port[d].st # "in"  BY <1>2, MainFields DEF GoneInv
    <3>2. QED  BY <1>8, <1>13, <3>1
  <2>4. QED  BY <2>1, <2>2, <2>3 DEF GoneInv
<1>21. NeedInv'  BY <1>13, <1>18 DEF NeedInv
<1>22. ThreadsCounted'
  <2>1. ASSUME NEW d \in Ports \cap PmdDev, ~ port'[d].need
        PROVE  port'[d].dynamic <=> netdev'[d].txq < netdev'[d].want
    <3>1. d \in Dev /\ ~ port[d].need /\ ~ netdev'[d].reconf  BY <1>8, <2>1 DEF Ports
    <3>2. netdev'[d].txq = netdev[d].txq /\ netdev'[d].want = netdev[d].want  BY <1>5, <3>1
    <3>3. port[d].dynamic <=> netdev[d].txq < netdev[d].want  BY <1>2, <2>1, <3>1 DEF ThreadsCounted
    <3>4. QED  BY <1>8, <3>1, <3>2, <3>3
  <2>2. \A d \in Ports \cap PmdDev: netdev'[d].want = Cardinality(Polling)
    BY <1>5 DEF Ports
  <2>3. QED  BY <1>16, <2>1, <2>2 DEF ThreadsCounted
<1>23. QED  BY <1>16, <1>17, <1>19, <1>20, <1>21, <1>22 DEF IndInv

-----------------------------------------------------------------------------
(* The scheduling of the queues *)

LEMMA FewQueues == IsFiniteSet(Queue)
<1>1. IsFiniteSet(PmdDev)  BY NetdevPortsAssumption, FS_Subset
<1>2. IsFiniteSet(0 .. MaxRxq - 1)  BY NetdevPortsAssumption, FS_Interval
<1>3. QED  BY <1>1, <1>2, FS_Product DEF Queue

LEMMA ScheduledIn == ASSUME NEW q \in Queues PROVE Scheduled(q) \in Running \cup {None}
<1> DEFINE E == {c \in Running \ Isolated: Numa[c] = Numa[q[1]]}
           k == Cardinality(Before(q))
           n == Cardinality(E)
<1>1. IsFiniteSet(E)
  <2>1. E \subseteq Core  BY PollingThreads
  <2>2. QED  BY <2>1, NetdevPortsAssumption, FS_Subset
<1>2. n \in Nat /\ SetToSeq(E) \in [1 .. n -> E]
  <2> HIDE DEF E
  <2>1. QED  BY <1>1, SetInOrder
<1>3. k \in Nat
  <2>1. Before(q) \subseteq Queue  BY DEF Before, Queues
  <2>2. QED  BY <2>1, FewQueues, FS_Subset, FS_CardinalityType
<1>4. Eligible(Numa[q[1]]) = SetToSeq(E)  BY DEF Eligible
<1>5. CASE Pin(q) # None  BY <1>5 DEF Scheduled
<1>6. CASE Pin(q) = None
  <2>1. CASE SetToSeq(E) = <<>>  BY <1>4, <1>6, <2>1 DEF Scheduled
  <2>2. CASE SetToSeq(E) # <<>>
    <3>1. Scheduled(q) = SetToSeq(E)[(k % Len(SetToSeq(E))) + 1]  BY <1>4, <1>6, <2>2 DEF Scheduled
    <3> HIDE DEF E, k, n
    <3>2. PICK s: s = SetToSeq(E)  OBVIOUS
    <3>3. s \in Seq(E) /\ Len(s) = n /\ n # 0  BY <1>2, <2>2, <3>2
    <3>4. (k % n) + 1 \in 1 .. n  BY <1>2, <1>3, <3>3
    <3>5. Scheduled(q) \in E  BY <1>2, <3>1, <3>2, <3>3, <3>4
    <3>6. QED  BY <3>5 DEF E
  <2>3. QED  BY <2>1, <2>2
<1>7. QED  BY <1>5, <1>6

LEMMA ScheduleStep == ASSUME IndInv, Schedule PROVE IndInv'
<1> DEFINE given(d) == [i \in 0 .. MaxRxq - 1 |-> IF <<d, i>> \in Queues THEN Scheduled(<<d, i>>) ELSE None]
           polls(c) == {q \in pmd[c].polls: port'[q[1]].pmd[q[2]] = c}
           need(c) == pmd[c].need \/ polls(c) # pmd[c].polls
           todo == {c \in Polling: pmd'[c].need}
<1>1. /\ main.pc = "ports" /\ \A d \in main.todo: ~ port[d].need
      /\ port' = [d \in Dev |-> IF d \in Ports \cap PmdDev THEN [port[d] EXCEPT !.pmd = given(d)] ELSE port[d]]
      /\ pmd' = [c \in Thread |-> [pmd[c] EXCEPT !.polls = polls(c), !.need = need(c)]]
      /\ main' = Reloading(todo, "add") /\ UNCHANGED <<netdev, ref>>
  BY DEF Schedule
<1>2. /\ StateTypes /\ HandshakeInv /\ ThreadsInv /\ OwnerInv /\ GoneInv /\ NeedInv /\ ThreadsCounted
      /\ PortTypes
  BY DEF IndInv, StateTypes
<1>3. Phase = "ports"  BY <1>1 DEF Phase, HandshakePc
<1>4. \A d \in Ports: ~ port[d].need  BY <1>1, <1>2 DEF NeedInv
<1> HIDE DEF given
<1>r. ASSUME NEW d \in Dev
      PROVE  /\ port'[d].st = port[d].st /\ port'[d].rxq = port[d].rxq
             /\ port'[d].dynamic = port[d].dynamic /\ port'[d].used = port[d].used
             /\ port'[d].need = port[d].need
             /\ port'[d].pmd = IF d \in Ports \cap PmdDev THEN given(d) ELSE port[d].pmd
             /\ port'[d] = [st |-> port'[d].st, no |-> port'[d].no, need |-> port'[d].need,
                            rxq |-> port'[d].rxq, dynamic |-> port'[d].dynamic, used |-> port'[d].used,
                            aff |-> port'[d].aff, pmd |-> port'[d].pmd]
  <2>1. PICK p: p = port[d]  OBVIOUS
  <2>2. PICK r: r = port'[d]  OBVIOUS
  <2>3. PICK g: g = IF d \in Ports \cap PmdDev THEN given(d) ELSE port[d].pmd  OBVIOUS
  <2>4. p = [st |-> p.st, no |-> p.no, need |-> p.need, rxq |-> p.rxq, dynamic |-> p.dynamic,
             used |-> p.used, aff |-> p.aff, pmd |-> p.pmd]
    BY <1>2, <2>1, PortFields
  <2>5. r = [p EXCEPT !.pmd = g]
    <3>1. CASE d \in Ports \cap PmdDev  BY <1>1, <2>1, <2>2, <2>3, <3>1
    <3>2. CASE d \notin Ports \cap PmdDev
      <4>1. r = p /\ g = p.pmd  BY <1>1, <2>1, <2>2, <2>3, <3>2
      <4>2. QED  BY <2>4, <4>1
    <3>3. QED  BY <3>1, <3>2
  <2>6. r = [st |-> p.st, no |-> p.no, need |-> p.need, rxq |-> p.rxq, dynamic |-> p.dynamic,
             used |-> p.used, aff |-> p.aff, pmd |-> g]
    BY ONLY <2>4, <2>5
  <2>7. /\ r.st = p.st /\ r.rxq = p.rxq /\ r.dynamic = p.dynamic /\ r.used = p.used
        /\ r.need = p.need /\ r.pmd = g
        /\ r = [st |-> r.st, no |-> r.no, need |-> r.need, rxq |-> r.rxq, dynamic |-> r.dynamic,
                used |-> r.used, aff |-> r.aff, pmd |-> r.pmd]
    BY ONLY <2>6
  <2>8. QED  BY <2>1, <2>2, <2>3, <2>7
<1>5. PortTypes'
  <2>1. port' = [d \in Dev |-> port'[d]]  BY <1>1
  <2>2. \A d \in Dev: /\ port'[d].st \in {"none", "in", "removed"}
                      /\ port'[d].need \in BOOLEAN /\ port'[d].dynamic \in BOOLEAN
                      /\ port'[d].rxq \in Nat /\ port'[d].used \in Counts
    BY <1>2, <1>r, PortFields
  <2>3. port' = [d \in Dev |-> [st |-> port'[d].st, no |-> port'[d].no, need |-> port'[d].need,
                                rxq |-> port'[d].rxq, dynamic |-> port'[d].dynamic,
                                used |-> port'[d].used, aff |-> port'[d].aff, pmd |-> port'[d].pmd]]
    BY <1>r, <2>1
  <2>4. QED  BY <2>2, <2>3 DEF PortTypes
<1>6. ASSUME NEW c \in Thread
      PROVE  \E b \in BOOLEAN: /\ b <=> need(c)
                               /\ Relisted(pmd[c], polls(c), pmd[c].tx, b, pmd'[c])
  <2>1. pmd[c] \in PmdState /\ pmd[c].polls \in SUBSET Queue  BY <1>2, PmdFields
  <2>2. PICK P \in SUBSET Queue: P = polls(c)  BY <2>1
  <2>3. PICK b \in BOOLEAN: b = need(c)
    <3> HIDE DEF polls
    <3>1. need(c) \in BOOLEAN  BY <2>1 DEF PmdState
    <3>2. QED  BY <3>1
  <2>4. pmd'[c] = [pmd[c] EXCEPT !.polls = P, !.need = b]  BY <1>1, <2>2, <2>3
  <2> HIDE DEF polls, need
  <2>5. Relisted(pmd[c], P, pmd[c].tx, b, [pmd[c] EXCEPT !.polls = P, !.need = b])
    BY <2>1, NewPolls
  <2>6. QED  BY <2>2, <2>3, <2>4, <2>5
<1>7. ASSUME NEW c \in Thread
      PROVE  /\ pmd'[c] \in PmdState
             /\ pmd'[c].pc = pmd[c].pc /\ pmd'[c].tid = pmd[c].tid
             /\ pmd'[c].snap = pmd[c].snap /\ pmd'[c].cache = pmd[c].cache
             /\ pmd'[c].reload = pmd[c].reload
             /\ pmd[c] = NoPmd => pmd'[c] = NoPmd
             /\ pmd'[c].polls = polls(c) /\ pmd'[c].tx = pmd[c].tx
             /\ pmd'[c].need <=> need(c)
  <2>1. PICK b \in BOOLEAN: (b <=> need(c)) /\ Relisted(pmd[c], polls(c), pmd[c].tx, b, pmd'[c])
    BY <1>6
  <2>2. pmd[c] = NoPmd => polls(c) = {} /\ pmd[c].tx = {} /\ ~ need(c)  BY DEF NoPmd
  <2>3. b = FALSE <=> ~ need(c)  BY <2>1
  <2> HIDE DEF polls, need
  <2>4. QED  BY <2>1, <2>2, <2>3 DEF Relisted
<1>8. OnlyLists /\ Fewer /\ DOMAIN pmd' = Thread /\ pmd' = [c \in Thread |-> pmd'[c]]
  <2>1. OnlyLists  BY <1>7 DEF OnlyLists
  <2>2. Fewer  BY <1>7 DEF Fewer
  <2>3. QED  BY <1>1, <2>1, <2>2
<1>9. todo \subseteq Polling /\ todo \in SUBSET (Dev \cup Thread)  BY PollingThreads
<1>t. \A c \in Thread: c \in todo <=> c \in Polling /\ pmd'[c].need  OBVIOUS
<1> HIDE DEF todo
<1>10. main' = [pc |-> "reload", todo |-> todo, on |-> main.on, next |-> "add", del |-> main.del, saved |-> main.saved]
  BY <1>1, <1>2, MainFields DEF Reloading
<1>11. main' \in MainState  BY <1>2, <1>9, <1>10, MainFields DEF MainState, HandshakePc
<1>12. ASSUME NEW c \in Thread
       PROVE  Due(c)' \/ (pmd[c].snap \subseteq pmd'[c].polls /\ DOMAIN pmd[c].cache \subseteq pmd'[c].tx)
  <2>1. pmd[c].snap \subseteq pmd[c].polls /\ DOMAIN pmd[c].cache \subseteq pmd[c].tx
    BY <1>1, NoneDue DEF AtWork, HandshakePc
  <2>2. CASE c \notin Polling
    <3>1. pmd[c] = NoPmd  BY <1>2, <2>2 DEF HandshakeInv, Polling
    <3>2. pmd'[c] = pmd[c]  BY <1>7, <3>1
    <3>3. QED  BY <2>1, <3>2
  <2>3. CASE c \in Polling /\ pmd'[c].need
    <3>1. c \in todo  BY <1>t, <2>3
    <3>2. QED  BY <1>10, <3>1 DEF Due, HandshakePc
  <2>4. CASE ~ pmd'[c].need
    <3>1. pmd'[c].polls = pmd[c].polls /\ pmd'[c].tx = pmd[c].tx  BY <1>7, <2>4
    <3>2. QED  BY <2>1, <3>1
  <2>5. QED  BY <2>2, <2>3, <2>4
<1>m. main'.pc = "reload" /\ main'.todo \subseteq Polling /\ main'.next = "add" /\ main'.del = main.del
  BY <1>9, <1>10
<1>n. netdev' \in [Dev -> Device]  BY <1>1, <1>2 DEF StateTypes
<1>13. /\ StateTypes' /\ HandshakeInv' /\ CopiesInv' /\ OnePoller' /\ SharedInv' /\ TxqUsedCounts'
       /\ ThreadsInv'
       /\ Polling' = Polling /\ Running' = Running /\ Ports' = Ports /\ NonPmd \in Polling
  BY <1>1, <1>n, <1>5, <1>r, <1>8, <1>m, <1>11, <1>12, ListStep
<1>14. /\ OpenInv' /\ TidInv' /\ \A d \in Dev: Gone(d) => Gone(d)'
       /\ \A c, e \in Core: c # e => pmd'[c].snap \cap pmd'[e].polls = {}
  BY <1>1, <1>3, <1>r, <1>8, <1>13, FewerFrame
<1>15. Phase' = "add"  BY <1>10 DEF Phase, HandshakePc
<1>16. OwnerInv'
  <2>1. \A c \in Thread: \A q \in pmd'[c].polls: port'[q[1]].pmd[q[2]] = c  BY <1>7
  <2>2. QED  BY <1>14, <2>1 DEF OwnerInv
<1>17. GoneInv'
  <2>1. \A d \in Dev: port[d].st # "in" => Gone(d)  BY <1>2, <1>3 DEF GoneInv
  <2>2. \A d \in Dev: port'[d].st # "in" => Gone(d)'  BY <1>r, <1>14, <2>1
  <2>3. \A d \in main'.del: port'[d].st # "in"
    <3>1. \A d \in main.del: d \in Dev /\ port[d].st # "in"  BY <1>2, MainFields DEF GoneInv
    <3>2. QED  BY <1>r, <1>m, <3>1
  <2>4. QED  BY <1>15, <2>2, <2>3 DEF GoneInv
<1>18. NeedInv'
  <2>1. \A d \in Ports: ~ port'[d].need  BY <1>4, <1>r DEF Ports
  <2>2. ASSUME NEW q \in Queues' PROVE port'[q[1]].pmd[q[2]] \in Running' \cup {None}
    <3>1. q \in Queue /\ q[1] \in Ports' /\ q[2] < port'[q[1]].rxq  BY <2>2 DEF Queues
    <3>2. q[1] \in Dev /\ q[1] \in PmdDev /\ q[2] \in 0 .. MaxRxq - 1 /\ q = <<q[1], q[2]>>
      BY <3>1, NetdevPortsAssumption DEF Queue
    <3>3. q \in Queues  BY <1>r, <1>13, <3>1, <3>2 DEF Queues
    <3>4. port'[q[1]].pmd = given(q[1])  BY <1>r, <1>13, <3>1, <3>2
    <3>5. given(q[1])[q[2]] = Scheduled(q)  BY <3>2, <3>3 DEF given
    <3>6. QED  BY <1>13, <3>3, <3>4, <3>5, ScheduledIn
  <2>3. QED  BY <1>13, <1>15, <1>m, <2>1, <2>2 DEF NeedInv
<1>19. ThreadsCounted'
  <2>1. \A d \in Ports \cap PmdDev: port'[d].need = port[d].need /\ port'[d].dynamic = port[d].dynamic
    BY <1>r DEF Ports
  <2>2. QED  BY <1>1, <1>2, <1>3, <1>13, <1>15, <2>1 DEF ThreadsCounted
<1>20. QED  BY <1>13, <1>14, <1>16, <1>17, <1>18, <1>19 DEF IndInv

LEMMA AddQueuesStep == ASSUME IndInv, NEW d \in Dev, AddQueues(d) PROVE IndInv'
<1> DEFINE new(c) == {q \in Queues: q[1] = d /\ port[d].pmd[q[2]] = c}
           polls(c) == pmd[c].polls \cup new(c)
           need(c) == pmd[c].need \/ ~ (new(c) \subseteq pmd[c].polls)
<1>1. /\ main.pc = "add" /\ main' = [main EXCEPT !.todo = @ \ {d}]
      /\ pmd' = [c \in Thread |-> [pmd[c] EXCEPT !.polls = polls(c), !.need = need(c)]]
      /\ UNCHANGED <<port, netdev, ref>>
  BY DEF AddQueues
<1>2. /\ StateTypes /\ HandshakeInv /\ ThreadsInv /\ OwnerInv /\ GoneInv /\ OpenInv /\ NeedInv
      /\ ThreadsCounted /\ TidInv /\ PortTypes
  BY DEF IndInv, StateTypes
<1>3. Phase = "add" /\ NonPmd \in Polling  BY <1>1, <1>2 DEF Phase, HandshakePc, ThreadsInv
<1>4. \A c \in Thread: /\ pmd[c].snap \subseteq pmd[c].polls
                       /\ DOMAIN pmd[c].cache \subseteq pmd[c].tx
  BY <1>1, NoneDue DEF AtWork, HandshakePc
<1>5. \A c \in Thread: \A q \in new(c): /\ q \in Queue /\ q[1] \in Ports /\ q[2] < port[q[1]].rxq
                                        /\ port[q[1]].pmd[q[2]] = c
  BY DEF Queues
<1>6. \A c \in Thread: c \notin Polling => new(c) = {}
  <2>1. SUFFICES ASSUME NEW c \in Thread, c \notin Polling, NEW q \in new(c) PROVE FALSE  OBVIOUS
  <2>2. c \in Running \cup {None}  BY <1>2, <1>3 DEF NeedInv
  <2>3. c \in Core /\ c # None  BY <1>3, <2>1, NetdevPortsAssumption DEF Thread
  <2>4. QED  BY <2>1, <2>2, <2>3, PollingThreads
<1>7. ASSUME NEW c \in Thread
      PROVE  \E b \in BOOLEAN: /\ b <=> need(c)
                               /\ Relisted(pmd[c], polls(c), pmd[c].tx, b, pmd'[c])
  <2>1. pmd[c] \in PmdState /\ pmd[c].polls \in SUBSET Queue  BY <1>2, PmdFields
  <2>2. PICK P \in SUBSET Queue: P = polls(c)  BY <1>5, <2>1
  <2>3. PICK b \in BOOLEAN: b = need(c)
    <3> HIDE DEF new
    <3>1. need(c) \in BOOLEAN  BY <2>1 DEF PmdState
    <3>2. QED  BY <3>1
  <2>4. pmd'[c] = [pmd[c] EXCEPT !.polls = P, !.need = b]  BY <1>1, <2>2, <2>3
  <2> HIDE DEF polls, need, new
  <2>5. Relisted(pmd[c], P, pmd[c].tx, b, [pmd[c] EXCEPT !.polls = P, !.need = b])
    BY <2>1, NewPolls
  <2>6. QED  BY <2>2, <2>3, <2>4, <2>5
<1>8. ASSUME NEW c \in Thread
      PROVE  /\ pmd'[c] \in PmdState
             /\ pmd'[c].pc = pmd[c].pc /\ pmd'[c].tid = pmd[c].tid
             /\ pmd'[c].snap = pmd[c].snap /\ pmd'[c].cache = pmd[c].cache
             /\ pmd'[c].reload = pmd[c].reload
             /\ pmd[c] = NoPmd => pmd'[c] = NoPmd
             /\ pmd'[c].polls = polls(c) /\ pmd'[c].tx = pmd[c].tx
  <2>1. PICK b \in BOOLEAN: (b <=> need(c)) /\ Relisted(pmd[c], polls(c), pmd[c].tx, b, pmd'[c])
    BY <1>7
  <2>2. pmd[c] = NoPmd => polls(c) = {} /\ pmd[c].tx = {} /\ ~ need(c)
    <3>1. pmd[c] = NoPmd => c \notin Polling /\ pmd[c].polls = {} /\ pmd[c].tx = {} /\ ~ pmd[c].need
      BY DEF NoPmd, Polling
    <3>2. QED  BY <1>6, <3>1
  <2>3. b = FALSE <=> ~ need(c)  BY <2>1
  <2> HIDE DEF polls, need, new
  <2>4. QED  BY <2>1, <2>2, <2>3 DEF Relisted
<1>9. OnlyLists /\ DOMAIN pmd' = Thread /\ pmd' = [c \in Thread |-> pmd'[c]]
  <2>1. OnlyLists  BY <1>8 DEF OnlyLists
  <2>2. QED  BY <1>1, <2>1
<1>10. PICK t: t = main.todo \ {d}  OBVIOUS
<1>11. main' = [pc |-> "add", todo |-> t, on |-> main.on, next |-> main.next, del |-> main.del, saved |-> main.saved]
  BY <1>1, <1>2, <1>10, MainFields
<1>12. main' \in MainState
  <2>1. t \in SUBSET (Dev \cup Thread)  BY <1>2, <1>10, MainFields
  <2>2. QED  BY <1>2, <1>11, <2>1, MainFields DEF MainState
<1>13. \A c \in Thread: /\ pmd[c].snap \subseteq pmd'[c].polls
                        /\ DOMAIN pmd[c].cache \subseteq pmd'[c].tx
  BY <1>4, <1>8
<1>m. main'.pc = "add" /\ main'.del = main.del  BY <1>11
<1>n. netdev' \in [Dev -> Device] /\ PortTypes'  BY <1>1, <1>2, SameEverywhere DEF StateTypes
<1>14. /\ StateTypes' /\ HandshakeInv' /\ CopiesInv' /\ OnePoller' /\ SharedInv' /\ TxqUsedCounts'
       /\ ThreadsInv'
       /\ Polling' = Polling /\ Running' = Running /\ Ports' = Ports
  BY <1>1, <1>9, <1>12, <1>13, <1>m, <1>n, ListStep
<1>15. Phase' = "add"  BY <1>m DEF Phase, HandshakePc
<1> HIDE DEF new
<1>16. OwnerInv'
  <2>1. ASSUME NEW c \in Thread, NEW q \in pmd'[c].polls PROVE port[q[1]].pmd[q[2]] = c
    <3>1. q \in pmd[c].polls \/ q \in new(c)  BY <1>8, <2>1
    <3>2. QED  BY <1>2, <1>5, <3>1 DEF OwnerInv
  <2>2. \A c \in Thread: pmd'[c].snap \subseteq pmd'[c].polls  BY <1>8, <1>13
  <2>3. \A c, e \in Core: c # e => pmd'[c].snap \cap pmd'[e].polls = {}
    BY <2>1, <2>2, CoreThreads
  <2>4. QED  BY <1>1, <2>1, <2>3 DEF OwnerInv
<1>17. GoneInv'
  <2>1. ASSUME NEW e \in Dev, port[e].st # "in" PROVE Gone(e)'
    <3>1. Gone(e)  BY <1>2, <1>3, <2>1 DEF GoneInv
    <3>2. \A c \in Thread: \A q \in new(c): q[1] # e  BY <1>5, <2>1 DEF Ports
    <3>3. QED  BY <1>8, <3>1, <3>2 DEF Gone
  <2>2. \A e \in main.del: port[e].st # "in"  BY <1>2 DEF GoneInv
  <2>3. QED  BY <1>1, <1>15, <1>m, <2>1, <2>2 DEF GoneInv
<1>18. OpenInv'
  <2>1. ASSUME NEW c \in Thread, NEW q \in pmd'[c].polls \cup pmd'[c].snap PROVE q[2] < port[q[1]].rxq
    <3>1. q \in pmd[c].polls \cup pmd[c].snap \/ q \in new(c)  BY <1>8, <2>1
    <3>2. QED  BY <1>2, <1>5, <3>1 DEF OpenInv
  <2>2. \A c \in Thread: \A e \in Dev: Uses(c, e)' => Uses(c, e)  BY <1>8 DEF Uses
  <2>3. QED  BY <1>1, <1>2, <2>1, <2>2 DEF OpenInv
<1>19. NeedInv'
  <2>1. \A e \in Ports: ~ port[e].need  BY <1>2, <1>3 DEF NeedInv
  <2>2. \A q \in Queues: port[q[1]].pmd[q[2]] \in Running \cup {None}  BY <1>2, <1>3 DEF NeedInv
  <2>3. Queues' = Queues  BY <1>1, <1>14 DEF Queues
  <2>4. QED  BY <1>1, <1>14, <1>15, <1>m, <2>1, <2>2, <2>3 DEF NeedInv
<1>20. ThreadsCounted'  BY <1>1, <1>2, <1>3, <1>14, <1>15 DEF ThreadsCounted
<1>21. TidInv'
  <2>1. \A c, e \in Polling: c # e => pmd'[c].tid # pmd'[e].tid  BY <1>2, <1>8, PollingThreads DEF TidInv
  <2>2. \A c \in Polling: pmd'[c].tid < Cardinality(Polling)
    BY <1>2, <1>3, <1>8, PollingThreads DEF TidInv
  <2>3. \A c \in Thread: \A e \in PmdDev \cap (pmd'[c].tx \cup DOMAIN pmd'[c].cache):
           ~ port[e].dynamic => pmd'[c].tid < netdev[e].txq
    BY <1>2, <1>8 DEF TidInv
  <2>4. QED  BY <1>1, <1>14, <2>1, <2>2, <2>3 DEF TidInv
<1>22. QED  BY <1>14, <1>16, <1>17, <1>18, <1>19, <1>20, <1>21 DEF IndInv

LEMMA AddTxStep == ASSUME IndInv, AddTx PROVE IndInv'
<1> DEFINE new(c) == {d \in Ports: \A e \in pmd[c].tx: port[e].no # port[d].no}
           gets == {c \in Polling: c = NonPmd \/ pmd[c].polls # {}}
           todo == {c \in Polling: pmd'[c].need}
           tx(c) == pmd[c].tx \cup new(c)
           need(c) == pmd[c].need \/ new(c) # {}
<1>1. /\ main.pc = "add" /\ main' = Reloading(todo, "end")
      /\ pmd' = [c \in Thread |-> IF c \in gets THEN [pmd[c] EXCEPT !.tx = tx(c), !.need = need(c)]
                                  ELSE pmd[c]]
      /\ UNCHANGED <<port, netdev, ref>>
  BY DEF AddTx
<1>2. /\ StateTypes /\ HandshakeInv /\ ThreadsInv /\ OwnerInv /\ GoneInv /\ OpenInv /\ NeedInv
      /\ ThreadsCounted /\ TidInv /\ PortTypes
  BY DEF IndInv, StateTypes
<1>3. Phase = "add" /\ NonPmd \in Polling  BY <1>1, <1>2 DEF Phase, HandshakePc, ThreadsInv
<1>4. \A c \in Thread: /\ pmd[c].snap \subseteq pmd[c].polls
                       /\ DOMAIN pmd[c].cache \subseteq pmd[c].tx
  BY <1>1, NoneDue DEF AtWork, HandshakePc
<1>5. \A c \in Thread: new(c) \subseteq Ports /\ new(c) \in SUBSET Dev  BY DEF Ports
<1> HIDE DEF new
<1>6. ASSUME NEW c \in Thread
      PROVE  /\ pmd'[c] \in PmdState
             /\ pmd'[c].pc = pmd[c].pc /\ pmd'[c].tid = pmd[c].tid
             /\ pmd'[c].snap = pmd[c].snap /\ pmd'[c].cache = pmd[c].cache
             /\ pmd'[c].reload = pmd[c].reload
             /\ pmd[c] = NoPmd => pmd'[c] = NoPmd
             /\ pmd'[c].polls = pmd[c].polls /\ pmd[c].tx \subseteq pmd'[c].tx
             /\ \A d \in pmd'[c].tx \ pmd[c].tx: d \in Ports /\ c \in Polling
  <2>1. pmd[c] \in PmdState /\ pmd[c].tx \in SUBSET Dev  BY <1>2, PmdFields
  <2>2. CASE c \notin gets
    <3>1. pmd'[c] = pmd[c]  BY <1>1, <2>2
    <3>2. QED  BY <2>1, <3>1
  <2>3. CASE c \in gets
    <3>1. c \in Polling /\ pmd[c] # NoPmd  BY <2>3 DEF Polling, NoPmd
    <3>2. PICK T \in SUBSET Dev: T = tx(c)  BY <1>5, <2>1
    <3>3. PICK b \in BOOLEAN: b = need(c)
      <4>1. need(c) \in BOOLEAN  BY <2>1 DEF PmdState
      <4>2. QED  BY <4>1
    <3>4. pmd'[c] = [pmd[c] EXCEPT !.tx = T, !.need = b]  BY <1>1, <2>3, <3>2, <3>3
    <3>5. pmd[c].tx \subseteq T /\ \A d \in T \ pmd[c].tx: d \in Ports  BY <1>5, <3>2
    <3> HIDE DEF tx, need, gets
    <3>6. Relisted(pmd[c], pmd[c].polls, T, b, [pmd[c] EXCEPT !.tx = T, !.need = b])
      BY <2>1, NewTx
    <3>7. Relisted(pmd[c], pmd[c].polls, T, b, pmd'[c])  BY <3>4, <3>6
    <3>8. QED  BY <3>1, <3>5, <3>7 DEF Relisted
  <2>4. QED  BY <2>2, <2>3
<1>9. OnlyLists /\ DOMAIN pmd' = Thread /\ pmd' = [c \in Thread |-> pmd'[c]]
  <2>1. OnlyLists  BY <1>6 DEF OnlyLists
  <2>2. QED  BY <1>1, <2>1
<1>10. todo \subseteq Polling /\ todo \in SUBSET (Dev \cup Thread)  BY PollingThreads
<1> HIDE DEF todo, gets
<1>11. main' = [pc |-> "reload", todo |-> todo, on |-> main.on, next |-> "end", del |-> main.del, saved |-> main.saved]
  BY <1>1, <1>2, MainFields DEF Reloading
<1>12. main' \in MainState  BY <1>2, <1>10, <1>11, MainFields DEF MainState, HandshakePc
<1>13. \A c \in Thread: /\ pmd[c].snap \subseteq pmd'[c].polls
                        /\ DOMAIN pmd[c].cache \subseteq pmd'[c].tx
  BY <1>4, <1>6
<1>m. main'.pc = "reload" /\ main'.todo \subseteq Polling /\ main'.next = "end" /\ main'.del = main.del
  BY <1>10, <1>11
<1>n. netdev' \in [Dev -> Device] /\ PortTypes'  BY <1>1, <1>2, SameEverywhere DEF StateTypes
<1>14. /\ StateTypes' /\ HandshakeInv' /\ CopiesInv' /\ OnePoller' /\ SharedInv' /\ TxqUsedCounts'
       /\ ThreadsInv'
       /\ Polling' = Polling /\ Running' = Running /\ Ports' = Ports
  BY <1>1, <1>9, <1>12, <1>13, <1>m, <1>n, ListStep
<1>15. Phase' = "end"  BY <1>11 DEF Phase, HandshakePc
<1>16. OwnerInv'
  <2>1. \A c \in Thread: \A q \in pmd'[c].polls: port[q[1]].pmd[q[2]] = c
    BY <1>2, <1>6 DEF OwnerInv
  <2>2. \A c, e \in Core: c # e => pmd'[c].snap \cap pmd'[e].polls = {}
    BY <1>2, <1>6, CoreThreads DEF OwnerInv
  <2>3. QED  BY <1>1, <2>1, <2>2 DEF OwnerInv
<1>17. GoneInv'
  <2>1. ASSUME NEW e \in Dev, port[e].st # "in" PROVE Gone(e)'
    <3>1. Gone(e)  BY <1>2, <1>3, <2>1 DEF GoneInv
    <3>2. \A c \in Thread: e \notin pmd'[c].tx \ pmd[c].tx  BY <1>6, <2>1 DEF Ports
    <3>3. QED  BY <1>6, <3>1, <3>2 DEF Gone
  <2>2. \A e \in main.del: port[e].st # "in"  BY <1>2 DEF GoneInv
  <2>3. QED  BY <1>1, <1>15, <1>m, <2>1, <2>2 DEF GoneInv
<1>18. OpenInv'
  <2>1. \A c \in Thread: \A q \in pmd'[c].polls \cup pmd'[c].snap: q[2] < port[q[1]].rxq
    BY <1>2, <1>6 DEF OpenInv
  <2>2. \A c \in Thread: \A e \in Dev: Uses(c, e)' => Uses(c, e)  BY <1>6 DEF Uses
  <2>3. QED  BY <1>1, <1>2, <2>1, <2>2 DEF OpenInv
<1>19. NeedInv'
  <2>1. \A e \in Ports: ~ port[e].need  BY <1>2, <1>3 DEF NeedInv
  <2>2. QED  BY <1>1, <1>14, <1>15, <1>m, <2>1 DEF NeedInv
<1>20. ThreadsCounted'  BY <1>1, <1>2, <1>3, <1>14, <1>15 DEF ThreadsCounted
<1>21. TidInv'
  <2>1. \A c, e \in Polling: c # e => pmd'[c].tid # pmd'[e].tid  BY <1>2, <1>6, PollingThreads DEF TidInv
  <2>2. \A c \in Polling: pmd'[c].tid < Cardinality(Polling)
    BY <1>2, <1>3, <1>6, PollingThreads DEF TidInv
  <2>3. ASSUME NEW c \in Thread, NEW e \in PmdDev \cap (pmd'[c].tx \cup DOMAIN pmd'[c].cache),
               ~ port[e].dynamic
        PROVE  pmd'[c].tid < netdev[e].txq
    <3>1. CASE e \in pmd[c].tx \cup DOMAIN pmd[c].cache  BY <1>2, <1>6, <2>3, <3>1 DEF TidInv
    <3>2. CASE e \in pmd'[c].tx \ pmd[c].tx
      <4>1. e \in Ports \cap PmdDev /\ c \in Polling /\ e \in Dev  BY <1>6, <2>3, <3>2 DEF Ports
      <4>2. ~ port[e].need  BY <1>2, <1>3, <4>1 DEF NeedInv
      <4>3. ~ (netdev[e].txq < netdev[e].want)  BY <1>2, <2>3, <4>1, <4>2 DEF ThreadsCounted
      <4>4. netdev[e].want = Cardinality(Polling)  BY <1>2, <1>3, <4>1 DEF ThreadsCounted
      <4>5. pmd'[c].tid < netdev[e].want  BY <2>2, <4>1, <4>4
      <4>6. netdev[e].txq \in Nat /\ netdev[e].want \in Nat
        <5>1. netdev[e] \in Device  BY <1>2, <4>1 DEF StateTypes
        <5>2. QED  BY <5>1 DEF Device
      <4>7. pmd'[c].tid \in Nat
        <5>1. pmd'[c] \in PmdState  BY <1>6
        <5>2. QED  BY <5>1 DEF PmdState
      <4>8. QED  BY <4>3, <4>5, <4>6, <4>7
    <3>3. QED  BY <1>6, <2>3, <3>1, <3>2
  <2>4. QED  BY <1>1, <1>14, <2>1, <2>2, <2>3 DEF TidInv
<1>22. QED  BY <1>14, <1>16, <1>17, <1>18, <1>19, <1>20, <1>21 DEF IndInv

-----------------------------------------------------------------------------
(* Ports come, change and go *)

PortRecord(r) ==
    /\ r = [st |-> r.st, no |-> r.no, need |-> r.need, rxq |-> r.rxq, dynamic |-> r.dynamic,
            used |-> r.used, aff |-> r.aff, pmd |-> r.pmd]
    /\ r.st \in {"none", "in", "removed"} /\ r.need \in BOOLEAN /\ r.dynamic \in BOOLEAN
    /\ r.rxq \in Nat /\ r.used \in Counts

LEMMA PortRecords ==
  ASSUME PortTypes, port' = [d \in Dev |-> port'[d]],
         \A d \in Dev: port'[d] = port[d] \/ PortRecord(port'[d])
  PROVE  PortTypes'
<1>1. ASSUME NEW d \in Dev PROVE PortRecord(port'[d])
  <2>1. PortRecord(port[d])  BY PortFields DEF PortRecord
  <2>2. QED  BY <2>1
<1>2. port' = [d \in Dev |-> [st |-> port'[d].st, no |-> port'[d].no, need |-> port'[d].need,
                              rxq |-> port'[d].rxq, dynamic |-> port'[d].dynamic,
                              used |-> port'[d].used, aff |-> port'[d].aff, pmd |-> port'[d].pmd]]
  BY <1>1 DEF PortRecord
<1>3. \A d \in Dev: /\ port'[d].st \in {"none", "in", "removed"}
                    /\ port'[d].need \in BOOLEAN /\ port'[d].dynamic \in BOOLEAN
                    /\ port'[d].rxq \in Nat /\ port'[d].used \in Counts
  BY <1>1 DEF PortRecord
<1>4. QED  BY <1>2, <1>3 DEF PortTypes

LEMMA NoPortFields ==
  /\ PortRecord(NoPort) /\ NoPort.st = "none" /\ NoPort.need = FALSE /\ NoPort.dynamic = FALSE
  /\ DOMAIN NoPort.used = {}
  /\ NoPort.rxq = 0 /\ NoPort.used = <<>>
<1>1. PICK a: a = [q \in 0 .. MaxRxq - 1 |-> None]  OBVIOUS
<1>2. PICK u: u = <<>>  OBVIOUS
<1>3. PICK r: r = NoPort  OBVIOUS
<1>4. r = [st |-> "none", no |-> 0, need |-> FALSE, rxq |-> 0, dynamic |-> FALSE, used |-> u,
           aff |-> a, pmd |-> a]
  BY <1>1, <1>2, <1>3 DEF NoPort
<1>5. /\ r.st = "none" /\ r.need = FALSE /\ r.dynamic = FALSE /\ r.used = u /\ r.rxq = 0
  BY ONLY <1>4
<1>e. r = [st |-> r.st, no |-> r.no, need |-> r.need, rxq |-> r.rxq, dynamic |-> r.dynamic,
           used |-> r.used, aff |-> r.aff, pmd |-> r.pmd]
  BY ONLY <1>4
<1>6. u \in Counts /\ DOMAIN u = {}  BY <1>2, EmptyTypes
<1>7. PortRecord(r)
  <2>1. r.st \in {"none", "in", "removed"} /\ r.need \in BOOLEAN /\ r.dynamic \in BOOLEAN
    BY <1>5
  <2>2. r.rxq \in Nat /\ r.used \in Counts  BY <1>5, <1>6
  <2>3. QED  BY <1>e, <2>1, <2>2, Zenon DEF PortRecord
<1>8. QED  BY <1>2, <1>3, <1>5, <1>6, <1>7

\* A port that has just been added.
LEMMA NewPortFields ==
  ASSUME NEW no
  PROVE  LET r == [NoPort EXCEPT !.st = "in", !.no = no, !.need = TRUE] IN
         PortRecord(r) /\ r.st = "in" /\ r.need = TRUE /\ r.dynamic = FALSE /\ DOMAIN r.used = {}
<1> DEFINE r == [NoPort EXCEPT !.st = "in", !.no = no, !.need = TRUE]
<1>0. PICK p: p = NoPort  OBVIOUS
<1>p. p = [st |-> p.st, no |-> p.no, need |-> p.need, rxq |-> p.rxq, dynamic |-> p.dynamic,
           used |-> p.used, aff |-> p.aff, pmd |-> p.pmd]
  BY <1>0, NoPortFields DEF PortRecord
<1>r. r = [p EXCEPT !.st = "in", !.no = no, !.need = TRUE]  BY <1>0
<1> HIDE DEF r
<1>1. r = [st |-> "in", no |-> no, need |-> TRUE, rxq |-> p.rxq, dynamic |-> p.dynamic,
           used |-> p.used, aff |-> p.aff, pmd |-> p.pmd]
  BY ONLY <1>p, <1>r
<1>2. /\ r.st = "in" /\ r.need = TRUE /\ r.dynamic = p.dynamic /\ r.used = p.used
      /\ r.rxq = p.rxq
      /\ r = [st |-> r.st, no |-> r.no, need |-> r.need, rxq |-> r.rxq, dynamic |-> r.dynamic,
              used |-> r.used, aff |-> r.aff, pmd |-> r.pmd]
  BY ONLY <1>1
<1>3. PortRecord(r) /\ r.st = "in" /\ r.need = TRUE /\ r.dynamic = FALSE /\ DOMAIN r.used = {}
  BY <1>0, <1>2, NoPortFields DEF PortRecord
<1>4. QED  BY <1>3 DEF r

\* No thread goes by a port that is in no list, when none has still to reload.
LEMMA GoneUnused ==
  ASSUME IndInv, AtWork, NEW d \in Dev, Gone(d), NEW c \in Thread
  PROVE  ~ Uses(c, d)
BY NoneDue DEF Gone, Uses

SameEntries ==
    \A c \in Thread: /\ pmd'[c].polls = pmd[c].polls /\ pmd'[c].tx = pmd[c].tx
                     /\ pmd'[c].snap = pmd[c].snap /\ pmd'[c].cache = pmd[c].cache
                     /\ pmd'[c].tid = pmd[c].tid

\* The ports but D go on as they are.
Elsewhere(D) ==
    \A d \in Dev \ D: /\ port'[d].rxq = port[d].rxq /\ port'[d].dynamic = port[d].dynamic
                      /\ port'[d].used = port[d].used /\ port'[d].pmd = port[d].pmd
                      /\ netdev'[d].txq = netdev[d].txq
                      /\ port[d].st # "none" => port'[d].st # "none"

\* Nobody goes by the ports D, and nobody is counted.
Uncounted(D) ==
    /\ \A d \in D: Gone(d)
    /\ \A d \in D: /\ \A q \in DOMAIN port'[d].used: port'[d].used[q] = 0
                   /\ port'[d].dynamic => 0 \in DOMAIN port'[d].used

PortsKept ==
    /\ OwnerInv' /\ OnePoller' /\ OpenInv' /\ SharedInv' /\ TxqUsedCounts'
    /\ \A d \in Dev: Gone(d) => Gone(d)'
    /\ \A c \in Thread: \A d \in PmdDev \cap (pmd'[c].tx \cup DOMAIN pmd'[c].cache):
          ~ port'[d].dynamic => pmd'[c].tid < netdev'[d].txq

LEMMA PortsFrame ==
  ASSUME IndInv, AtWork, NEW D \in SUBSET Dev, SameEntries, Elsewhere(D), Uncounted(D)
  PROVE  PortsKept
<1>0. /\ StateTypes /\ OwnerInv /\ OnePoller /\ OpenInv /\ SharedInv /\ TxqUsedCounts /\ TidInv
  BY DEF IndInv
<1>1. \A c \in Thread: pmd[c].snap \subseteq pmd[c].polls /\ DOMAIN pmd[c].cache \subseteq pmd[c].tx
  BY NoneDue
<1>2. \A c \in Thread: \A q \in pmd[c].polls: q[1] \in Dev \ D
  <2>1. \A c \in Thread: \A q \in pmd[c].polls: q[1] \in Dev  BY <1>0, PmdFields, QueueDev
  <2>2. \A c \in Thread: \A q \in pmd[c].polls: q[1] \notin D  BY DEF Gone, Uncounted
  <2>3. QED  BY <2>1, <2>2
<1>3. \A c \in Thread: pmd[c].tx \subseteq Dev \ D
  <2>1. \A c \in Thread: pmd[c].tx \subseteq Dev  BY <1>0, PmdFields
  <2>2. QED  BY <2>1 DEF Gone, Uncounted
<1>4. OwnerInv'
  <2>1. \A c \in Thread: \A q \in pmd'[c].polls: port'[q[1]].pmd[q[2]] = c
    BY <1>0, <1>2 DEF OwnerInv, SameEntries, Elsewhere
  <2>2. \A c, e \in Core: c # e => pmd'[c].snap \cap pmd'[e].polls = {}
    BY <1>0, CoreThreads DEF OwnerInv, SameEntries
  <2>3. QED  BY <2>1, <2>2 DEF OwnerInv
<1>5. OnePoller'  BY <1>0, CoreThreads DEF OnePoller, SameEntries
<1>6. OpenInv'
  <2>1. ASSUME NEW c \in Thread, NEW q \in pmd'[c].polls \cup pmd'[c].snap PROVE q[2] < port'[q[1]].rxq
    <3>1. q \in pmd[c].polls  BY <1>1, <2>1 DEF SameEntries
    <3>2. q[2] < port[q[1]].rxq /\ q[1] \in Dev \ D  BY <1>0, <1>2, <3>1 DEF OpenInv
    <3>3. QED  BY <3>2 DEF Elsewhere
  <2>2. ASSUME NEW c \in Thread, NEW d \in Dev, Uses(c, d)' PROVE port'[d].st # "none"
    <3>1. Uses(c, d)  BY <2>2 DEF Uses, SameEntries
    <3>2. d \notin D  BY <3>1, GoneUnused DEF Uncounted
    <3>3. port[d].st # "none"  BY <1>0, <3>1 DEF OpenInv
    <3>4. QED  BY <3>2, <3>3 DEF Elsewhere
  <2>3. QED  BY <2>1, <2>2 DEF OpenInv
<1>7. SharedInv' /\ TxqUsedCounts'
  <2>1. SameCaches  BY DEF SameCaches, SameEntries
  <2>2. \A d \in D: \A c \in Thread: d \notin DOMAIN pmd[c].cache  BY <1>1, <1>3
  <2>3. \A d \in Dev: \/ port'[d].dynamic = port[d].dynamic /\ port'[d].used = port[d].used
                      \/ /\ \A c \in Thread: d \notin DOMAIN pmd[c].cache
                         /\ \A q \in DOMAIN port'[d].used: port'[d].used[q] = 0
                         /\ port'[d].dynamic => 0 \in DOMAIN port'[d].used
    BY <2>2 DEF Elsewhere, Uncounted
  <2>4. QED  BY <1>0, <2>1, <2>3, SharedFrame
<1>8. \A d \in Dev: Gone(d) => Gone(d)'  BY DEF Gone, SameEntries
<1>9. ASSUME NEW c \in Thread, NEW d \in PmdDev \cap (pmd'[c].tx \cup DOMAIN pmd'[c].cache),
             ~ port'[d].dynamic
      PROVE  pmd'[c].tid < netdev'[d].txq
  <2>1. d \in pmd[c].tx  BY <1>1, <1>9 DEF SameEntries
  <2>2. d \in Dev \ D  BY <1>3, <2>1
  <2>3. pmd[c].tid < netdev[d].txq  BY <1>0, <1>9, <2>1, <2>2 DEF TidInv, Elsewhere
  <2>4. QED  BY <2>2, <2>3 DEF SameEntries, Elsewhere
<1>10. QED  BY <1>4, <1>5, <1>6, <1>7, <1>8, <1>9 DEF PortsKept

\* The threads are left alone, and the main thread does not wait for one.
LEMMA PortsOnly ==
  ASSUME IndInv, AtWork, pmd' = pmd,
         \/ main'.pc \notin HandshakePc
         \/ main'.pc = "reload" /\ main'.next # "idle" /\ main'.todo \subseteq Polling
  PROVE  /\ HandshakeInv' /\ CopiesInv' /\ SameEntries
         /\ Polling' = Polling /\ Running' = Running
<1>1. HandshakeInv /\ CopiesInv  BY DEF IndInv
<1>2. \A c \in Thread: ~ pmd[c].reload /\ ~ Due(c)  BY NoneDue
<1>3. HandshakeInv' /\ CopiesInv'  BY <1>1, <1>2, SamePmdInv DEF HandshakePc
<1>4. QED  BY <1>3 DEF SameEntries, Polling, Running

\* Step 3 with port d.
LEMMA OnePortStep ==
  ASSUME IndInv, NEW d \in Dev, NEW r, NEW x \in Device,
         main.pc = "ports", port[d].need, main' = [main EXCEPT !.todo = @ \ {d}],
         port' = [port EXCEPT ![d] = r], netdev' = [netdev EXCEPT ![d] = x], pmd' = pmd, ref' = ref,
         PortRecord(r), r.need = FALSE, r.st \in {"none", port[d].st},
         \A q \in DOMAIN r.used: r.used[q] = 0, r.dynamic => 0 \in DOMAIN r.used,
         r.st = "in" /\ d \in PmdDev =>
            x.want = netdev[d].want /\ (r.dynamic <=> x.txq < Cardinality(Polling))
  PROVE  IndInv'
<1>1. /\ StateTypes /\ ThreadsInv /\ GoneInv /\ NeedInv /\ ThreadsCounted /\ TidInv /\ PortTypes
      /\ netdev \in [Dev -> Device]
  BY DEF IndInv, StateTypes
<1>2. Phase = "ports" /\ AtWork /\ NonPmd \in Polling
  BY <1>1 DEF Phase, AtWork, HandshakePc, ThreadsInv
<1>3. Gone(d)  BY <1>1, <1>2 DEF GoneInv
<1>4. DOMAIN port = Dev  BY <1>1 DEF PortTypes
<1>5. port'[d] = r /\ \A e \in Dev: e # d => port'[e] = port[e]  BY <1>4
<1>6. netdev'[d] = x /\ (\A e \in Dev: e # d => netdev'[e] = netdev[e]) /\ netdev' \in [Dev -> Device]
  BY <1>1
<1>7. PortTypes'
  <2>1. port' = [e \in Dev |-> port'[e]]  BY <1>4
  <2>2. QED  BY <1>1, <1>5, <2>1, PortRecords
<1>8. PICK t: t = main.todo \ {d}  OBVIOUS
<1>9. main' = [pc |-> "ports", todo |-> t, on |-> main.on, next |-> main.next, del |-> main.del, saved |-> main.saved]
  BY <1>1, <1>8, MainFields
<1>10. main' \in MainState
  <2>1. t \in SUBSET (Dev \cup Thread)  BY <1>1, <1>8, MainFields
  <2>2. QED  BY <1>1, <1>9, <2>1, MainFields DEF MainState
<1>m. main'.pc = "ports" /\ main'.del = main.del /\ main'.todo = main.todo \ {d}  BY <1>8, <1>9
<1>11. StateTypes'  BY <1>1, <1>6, <1>7, <1>10 DEF StateTypes
<1>12. /\ HandshakeInv' /\ CopiesInv' /\ SameEntries /\ Polling' = Polling /\ Running' = Running
  BY <1>2, <1>m, PortsOnly DEF HandshakePc
<1>13. PortsKept
  <2>1. PICK D \in SUBSET Dev: D = {d}  OBVIOUS
  <2>2. Elsewhere(D)  BY <1>5, <1>6, <2>1 DEF Elsewhere
  <2>3. Uncounted(D)  BY <1>3, <1>5, <2>1 DEF Uncounted
  <2>4. QED  BY <1>2, <1>12, <2>2, <2>3, PortsFrame
<1>14. Phase' = "ports"  BY <1>m DEF Phase, HandshakePc
<1>15. \A e \in Dev: port'[e].st = port[e].st \/ (e = d /\ port'[e].st = "none")  BY <1>5
<1>16. Ports' \subseteq Ports  BY <1>15 DEF Ports
<1>17. GoneInv'
  <2>1. ASSUME NEW e \in Dev, port'[e].st # "in" \/ port'[e].need PROVE Gone(e)'
    <3>1. CASE e = d  BY <1>3, <1>13, <3>1 DEF PortsKept
    <3>2. CASE e # d
      <4>1. port[e].st # "in" \/ port[e].need  BY <1>5, <2>1, <3>2
      <4>2. Gone(e)  BY <1>1, <1>2, <4>1 DEF GoneInv
      <4>3. QED  BY <1>13, <4>2 DEF PortsKept
    <3>3. QED  BY <3>1, <3>2
  <2>2. \A e \in main'.del: port'[e].st # "in"
    <3>1. \A e \in main.del: e \in Dev /\ port[e].st # "in"  BY <1>1, MainFields DEF GoneInv
    <3>2. QED  BY <1>15, <1>m, <3>1
  <2>3. \A e \in Dev: port'[e].st = "none" => port'[e].st # "in"  OBVIOUS
  <2>4. QED  BY <2>1, <2>2, <2>3 DEF GoneInv
<1>18. NeedInv'
  <2>1. ASSUME NEW e \in Ports', port'[e].need PROVE e \in main'.todo
    <3>1. e # d /\ e \in Ports /\ e \in Dev  BY <1>5, <1>16, <2>1 DEF Ports
    <3>2. port[e].need  BY <1>5, <2>1, <3>1
    <3>3. e \in main.todo  BY <1>1, <3>1, <3>2 DEF NeedInv
    <3>4. QED  BY <1>m, <3>1, <3>3
  <2>2. QED  BY <1>14, <2>1 DEF NeedInv
<1>19. ThreadsCounted'
  <2>1. ASSUME NEW e \in Ports' \cap PmdDev PROVE netdev'[e].want = Cardinality(Polling)
    <3>1. e \in Dev /\ e \in Ports /\ port'[e].st = "in"  BY <1>16, <2>1 DEF Ports
    <3>2. netdev[e].want = Cardinality(Polling)  BY <1>1, <1>2, <2>1, <3>1 DEF ThreadsCounted
    <3>3. netdev'[e].want = netdev[e].want  BY <1>5, <1>6, <2>1, <3>1
    <3>4. QED  BY <3>2, <3>3
  <2>2. ASSUME NEW e \in Ports' \cap PmdDev, ~ port'[e].need
        PROVE  port'[e].dynamic <=> netdev'[e].txq < netdev'[e].want
    <3>1. e \in Dev /\ e \in Ports /\ port'[e].st = "in"  BY <1>16, <2>2 DEF Ports
    <3>2. CASE e = d  BY <1>5, <1>6, <2>1, <2>2, <3>1, <3>2
    <3>3. CASE e # d  BY <1>1, <1>5, <1>6, <2>2, <3>1, <3>3 DEF ThreadsCounted
    <3>4. QED  BY <3>2, <3>3
  <2>3. QED  BY <1>12, <2>1, <2>2 DEF ThreadsCounted
<1>20. ThreadsInv'  BY <1>2, <1>12, <1>14, <1>m DEF ThreadsInv, HandshakePc
<1>21. TidInv'
  <2>1. (\A c, e \in Polling: c # e => pmd[c].tid # pmd[e].tid) /\ \A c \in Polling: pmd[c].tid < Cardinality(Polling)
    BY <1>1, <1>2 DEF TidInv
  <2>2. QED  BY <1>12, <1>13, <2>1 DEF TidInv, PortsKept
<1>22. QED  BY <1>11, <1>12, <1>13, <1>17, <1>18, <1>19, <1>20, <1>21 DEF IndInv, PortsKept

LEMMA AppliedFields ==
  ASSUME NEW d \in Dev, netdev[d] \in Device
  PROVE  Applied(d) \in Device /\ Applied(d).want = netdev[d].want
<1>1. PICK k: k = IF netdev[d].want > MaxTxq THEN MaxTxq ELSE netdev[d].want  OBVIOUS
<1>2. k \in Nat \ {0} /\ netdev[d].wantrx \in Nat  BY <1>1, NetdevPortsAssumption DEF Device
<1>3. CASE netdev[d].reconf
  <2>1. Applied(d) = [netdev[d] EXCEPT !.reconf = FALSE, !.rxq = netdev[d].wantrx, !.txq = k]
    BY <1>1, <1>3 DEF Applied
  <2>2. QED  BY <1>2, <2>1 DEF Device
<1>4. CASE ~ netdev[d].reconf  BY <1>4 DEF Applied
<1>5. QED  BY <1>3, <1>4

LEMMA PortReconfigureStep == ASSUME IndInv, NEW d \in Dev, PortReconfigure(d) PROVE IndInv'
<1>1. /\ main.pc = "ports" /\ port[d].need /\ netdev' = [netdev EXCEPT ![d] = Applied(d)]
      /\ main' = [main EXCEPT !.todo = @ \ {d}] /\ UNCHANGED <<pmd, ref>>
  BY DEF PortReconfigure
<1>2. PortTypes /\ netdev \in [Dev -> Device]  BY DEF IndInv, StateTypes
<1>3. netdev[d] \in Device  BY <1>2
<1>4. PICK x \in Device: x = Applied(d) /\ x.want = netdev[d].want  BY <1>3, AppliedFields
<1>5. netdev'[d] = x  BY <1>1, <1>2, <1>4
<1>6. x.rxq \in Nat /\ x.txq \in Nat \ {0}  BY <1>4 DEF Device
<1>7. PICK u: u = [q \in 0 .. x.txq - 1 |-> 0]  OBVIOUS
<1>n. PICK n \in Nat: n = Cardinality(Polling)
  <2>1. IsFiniteSet(Polling)  BY CoreThreads, PollingThreads, FS_Subset
  <2>2. QED  BY <2>1, FS_CardinalityType
<1>8. PICK y \in BOOLEAN: y = (x.txq < n)
  <2>1. CASE x.txq < n
    <3>1. TRUE = (x.txq < n)  BY <2>1
    <3>2. QED  BY <3>1
  <2>2. CASE ~ (x.txq < n)
    <3>1. FALSE = (x.txq < n)  BY <2>2
    <3>2. QED  BY <3>1
  <2>3. QED  BY <2>1, <2>2
<1>9. PICK p: p = port[d]  OBVIOUS
<1>10. PICK r: r = [p EXCEPT !.need = FALSE, !.rxq = x.rxq, !.used = u, !.dynamic = y]  OBVIOUS
<1>11. port' = [port EXCEPT ![d] = r]
  <2>1. port' = [port EXCEPT ![d].need = FALSE, ![d].rxq = x.rxq, ![d].used = u, ![d].dynamic = y]
    BY <1>5, <1>7, <1>8, <1>n DEF PortReconfigure
  <2>2. DOMAIN port = Dev  BY <1>2 DEF PortTypes
  <2>3. QED  BY <1>9, <1>10, <2>1, <2>2
<1>12. p = [st |-> p.st, no |-> p.no, need |-> p.need, rxq |-> p.rxq, dynamic |-> p.dynamic,
            used |-> p.used, aff |-> p.aff, pmd |-> p.pmd] /\ p.st \in {"none", "in", "removed"}
  BY <1>2, <1>9, PortFields
<1>13. r = [st |-> p.st, no |-> p.no, need |-> FALSE, rxq |-> x.rxq, dynamic |-> y,
            used |-> u, aff |-> p.aff, pmd |-> p.pmd]
  BY ONLY <1>10, <1>12
<1>14. /\ r = [st |-> r.st, no |-> r.no, need |-> r.need, rxq |-> r.rxq, dynamic |-> r.dynamic,
              used |-> r.used, aff |-> r.aff, pmd |-> r.pmd]
       /\ r.st = p.st /\ r.need = FALSE /\ r.rxq = x.rxq /\ r.dynamic = y /\ r.used = u
  BY ONLY <1>13
<1>15. u \in Counts /\ (\A q \in DOMAIN u: u[q] = 0) /\ 0 \in DOMAIN u
  <2>1. u \in [0 .. x.txq - 1 -> Int] /\ x.txq \in Nat  BY <1>6, <1>7
  <2>2. u \in Counts  BY <2>1 DEF Counts
  <2>3. (\A q \in DOMAIN u: u[q] = 0) /\ 0 \in DOMAIN u  BY <1>6, <1>7
  <2>4. QED  BY <2>2, <2>3
<1>16. PortRecord(r)  BY <1>6, <1>12, <1>14, <1>15 DEF PortRecord
<1>17. r.need = FALSE /\ r.st \in {"none", port[d].st}  BY <1>9, <1>14
<1>18. (\A q \in DOMAIN r.used: r.used[q] = 0) /\ (r.dynamic => 0 \in DOMAIN r.used)
  BY <1>14, <1>15
<1>19. x.want = netdev[d].want /\ (r.dynamic <=> x.txq < Cardinality(Polling))
  BY <1>4, <1>8, <1>14, <1>n
<1>20. netdev' = [netdev EXCEPT ![d] = x] /\ pmd' = pmd /\ ref' = ref  BY <1>1, <1>4
<1>21. QED  BY <1>1, <1>11, <1>16, <1>17, <1>18, <1>19, <1>20, OnePortStep

LEMMA PortFailsStep == ASSUME IndInv, NEW d \in Dev, PortFails(d) PROVE IndInv'
<1>1. /\ main.pc = "ports" /\ port[d].need /\ port' = [port EXCEPT ![d] = NoPort]
      /\ main' = [main EXCEPT !.todo = @ \ {d}] /\ UNCHANGED <<pmd, ref>>
      /\ netdev' = netdev \/ netdev' = [netdev EXCEPT ![d] = Applied(d)]
  BY DEF PortFails
<1>2. netdev \in [Dev -> Device]  BY DEF IndInv, StateTypes
<1>3. netdev[d] \in Device  BY <1>2
<1>4. \E x \in Device: netdev' = [netdev EXCEPT ![d] = x]
  <2>1. CASE netdev' = netdev
    <3>1. netdev' = [netdev EXCEPT ![d] = netdev[d]]  BY <1>2, <2>1
    <3>2. QED  BY <1>3, <3>1
  <2>2. CASE netdev' = [netdev EXCEPT ![d] = Applied(d)]  BY <1>3, <2>2, AppliedFields
  <2>3. QED  BY <1>1, <2>1, <2>2
<1>5. PICK x \in Device: netdev' = [netdev EXCEPT ![d] = x]  BY <1>4
<1>6. /\ PortRecord(NoPort) /\ NoPort.need = FALSE /\ NoPort.st \in {"none", port[d].st}
      /\ NoPort.st # "in" /\ NoPort.dynamic = FALSE
      /\ \A q \in DOMAIN NoPort.used: NoPort.used[q] = 0
  BY NoPortFields
<1>7. PICK r: r = NoPort  OBVIOUS
<1>8. QED  BY <1>1, <1>5, <1>6, <1>7, OnePortStep

\* Commands that find the datapath at rest: what is left to show.
LEMMA NewNetdevType ==
  ASSUME NEW d \in Dev, NEW n \in Nat
  PROVE  NewNetdev(d, n) \in Device
BY DEF NewNetdev, Device

\* Port d is added, with the number no.
LEMMA AddedFields ==
  ASSUME IndInv, NEW d \in Dev, NEW no, AddPort(d, no)
  PROVE  /\ PortTypes' /\ netdev' \in [Dev -> Device]
         /\ port'[d].st = "in" /\ port'[d].need = TRUE /\ port'[d].dynamic = FALSE
         /\ DOMAIN port'[d].used = {}
         /\ \A e \in Dev: e # d => port'[e] = port[e] /\ netdev'[e] = netdev[e]
         /\ main' \in MainState /\ main'.pc = "threads" /\ main'.del = {} /\ Phase' = "threads"
<1> DEFINE r == [NoPort EXCEPT !.st = "in", !.no = no, !.need = TRUE]
<1>1. /\ port' = [port EXCEPT ![d] = r] /\ netdev' = [netdev EXCEPT ![d] = NewNetdev(d, netdev[d].wantrx)]
      /\ main' = [Idle EXCEPT !.pc = "threads"]
  <2>1. netdev \in [Dev -> Device]  BY DEF IndInv, StateTypes
  <2>2. QED  BY <2>1 DEF AddPort
<1>2. PortRecord(r) /\ r.st = "in" /\ r.need = TRUE /\ r.dynamic = FALSE /\ DOMAIN r.used = {}
  BY NewPortFields
<1> HIDE DEF r
<1>3. PortTypes /\ netdev \in [Dev -> Device] /\ DOMAIN port = Dev  BY DEF IndInv, StateTypes, PortTypes
<1>4. netdev[d] \in Device /\ netdev[d].wantrx \in Nat  BY <1>3 DEF Device
<1>5. NewNetdev(d, netdev[d].wantrx) \in Device  BY <1>4, NewNetdevType
<1>6. port'[d] = r /\ \A e \in Dev: e # d => port'[e] = port[e]  BY <1>1, <1>3
<1>7. netdev' \in [Dev -> Device] /\ \A e \in Dev: e # d => netdev'[e] = netdev[e]
  BY <1>1, <1>3, <1>5
<1>8. PortTypes'
  <2>1. port' = [e \in Dev |-> port'[e]]  BY <1>1, <1>3
  <2>2. QED  BY <1>2, <1>3, <1>6, <2>1, PortRecords
<1>9. main' = [pc |-> "threads", todo |-> {}, on |-> None, next |-> "idle", del |-> {}, saved |-> None]
  BY <1>1 DEF Idle
<1>10. main' \in MainState  BY <1>9 DEF MainState
<1>11. Phase' = "threads"  BY <1>9 DEF Phase, HandshakePc
<1>12. QED  BY <1>2, <1>6, <1>7, <1>8, <1>9, <1>10, <1>11

\* The datapath is at rest, and a port that was not in it is added.
LEMMA AddedFrame ==
  ASSUME IndInv, NEW d \in Dev \ Ports, NEW no, AddPort(d, no), main.pc = "idle", SameEntries
  PROVE  PortsKept /\ Ports' = Ports \cup {d} /\ GoneInv' /\ NeedInv'
         /\ \A e \in Ports' \cap PmdDev: ~ port'[e].need =>
               (port'[e].dynamic <=> netdev'[e].txq < netdev'[e].want)
<1>1. GoneInv /\ ThreadsCounted  BY DEF IndInv
<1>2. Phase = "idle" /\ AtWork  BY DEF Phase, AtWork, HandshakePc
<1>3. /\ port'[d].st = "in" /\ port'[d].need = TRUE /\ port'[d].dynamic = FALSE
      /\ DOMAIN port'[d].used = {}
      /\ \A e \in Dev: e # d => port'[e] = port[e] /\ netdev'[e] = netdev[e]
      /\ main'.pc = "threads" /\ main'.del = {} /\ Phase' = "threads"
  BY AddedFields
<1>4. Gone(d)  BY <1>1, <1>2 DEF GoneInv, Ports
<1>5. PortsKept
  <2>1. PICK D \in SUBSET Dev: D = {d}  OBVIOUS
  <2>2. Elsewhere(D)  BY <1>3, <2>1 DEF Elsewhere
  <2>3. Uncounted(D)  BY <1>3, <1>4, <2>1 DEF Uncounted
  <2>4. QED  BY <1>2, <2>2, <2>3, PortsFrame
<1>6. Ports' = Ports \cup {d}  BY <1>3 DEF Ports
<1>7. GoneInv'
  <2>1. ASSUME NEW e \in Dev, port'[e].st = "none" PROVE Gone(e)'
    <3>1. e # d /\ port[e].st = "none"  BY <1>3, <2>1
    <3>2. Gone(e)  BY <1>1, <3>1 DEF GoneInv
    <3>3. QED  BY <1>5, <3>2 DEF PortsKept
  <2>2. QED  BY <1>3, <2>1 DEF GoneInv
<1>8. NeedInv'  BY <1>3 DEF NeedInv
<1>9. ASSUME NEW e \in Ports' \cap PmdDev, ~ port'[e].need
      PROVE  port'[e].dynamic <=> netdev'[e].txq < netdev'[e].want
  <2>1. e # d /\ e \in Ports /\ e \in Dev  BY <1>3, <1>6, <1>9 DEF Ports
  <2>2. ~ port[e].need  BY <1>3, <1>9, <2>1
  <2>3. port[e].dynamic <=> netdev[e].txq < netdev[e].want  BY <1>1, <1>9, <2>1, <2>2 DEF ThreadsCounted
  <2>4. QED  BY <1>3, <2>1, <2>3
<1>10. QED  BY <1>5, <1>6, <1>7, <1>8, <1>9

LEMMA PortAddStep == ASSUME IndInv, PortAdd PROVE IndInv'
<1>1. main.pc = "idle" /\ ref.handles > 0 /\ pmd' = pmd /\ ref' = ref  BY DEF PortAdd, Open
<1>2. PICK d \in Dev \ Ports: \E no: AddPort(d, no)  BY DEF PortAdd
<1>3. PICK no: AddPort(d, no)  BY <1>2
<1>4. StateTypes /\ ThreadsInv /\ TidInv  BY DEF IndInv
<1>5. AtWork /\ Phase = "idle" /\ NonPmd \in Polling
  <2>1. ref.handles # 0  BY <1>1
  <2>2. QED  BY <1>1, <1>4, <2>1 DEF AtWork, Phase, HandshakePc, ThreadsInv
<1>6. /\ PortTypes' /\ netdev' \in [Dev -> Device] /\ main' \in MainState
      /\ main'.pc = "threads" /\ Phase' = "threads"
  BY <1>3, AddedFields
<1>7. /\ HandshakeInv' /\ CopiesInv' /\ SameEntries /\ Polling' = Polling /\ Running' = Running
  BY <1>1, <1>5, <1>6, PortsOnly DEF HandshakePc
<1>8. PortsKept /\ GoneInv' /\ NeedInv'
      /\ \A e \in Ports' \cap PmdDev: ~ port'[e].need =>
            (port'[e].dynamic <=> netdev'[e].txq < netdev'[e].want)
  BY <1>1, <1>3, <1>7, AddedFrame
<1>9. StateTypes'  BY <1>1, <1>4, <1>6 DEF StateTypes
<1>10. ThreadsCounted'  BY <1>6, <1>8 DEF ThreadsCounted
<1>11. ThreadsInv'  BY <1>5, <1>6, <1>7 DEF ThreadsInv, HandshakePc
<1>12. TidInv'
  <2>1. (\A c, e \in Polling: c # e => pmd[c].tid # pmd[e].tid) /\ \A c \in Polling: pmd[c].tid < Cardinality(Polling)
    BY <1>4, <1>5 DEF TidInv
  <2>2. QED  BY <1>1, <1>7, <1>8, <2>1 DEF TidInv, PortsKept
<1>13. QED  BY <1>7, <1>8, <1>9, <1>10, <1>11, <1>12 DEF IndInv, PortsKept

LEMMA CreateDpStep == ASSUME IndInv, CreateDp PROVE IndInv'
<1>1. /\ main.pc = "idle" /\ Polling = {} /\ pmd' = [pmd EXCEPT ![NonPmd].pc = "poll"]
      /\ AddPort(Local, LOCAL_NO) /\ ref' = [handles |-> 1, destroyed |-> FALSE]
  BY DEF CreateDp
<1>2. StateTypes /\ HandshakeInv /\ ThreadsInv  BY DEF IndInv
<1>3. Ports = {}  BY <1>1, <1>2 DEF ThreadsInv
<1>4. PICK d \in Dev \ Ports: d = Local  BY <1>3, NetdevPortsAssumption
<1>5. \A c \in Thread: pmd[c] = NoPmd
  <2>1. \A c \in Thread: pmd[c].pc = "none"  BY <1>1 DEF Polling
  <2>2. QED  BY <1>2, <2>1 DEF HandshakeInv
<1>6. PICK p: p = pmd[NonPmd]  OBVIOUS
<1>k. PICK k: k = <<>>  OBVIOUS
<1>p. p = [pc |-> "none", tid |-> 0, polls |-> {}, tx |-> {}, need |-> FALSE, seq |-> FALSE,
           reload |-> FALSE, latch |-> FALSE, snap |-> {}, cache |-> k]
  BY <1>5, <1>6, <1>k, CoreThreads DEF NoPmd
<1>r. PICK r: r = [p EXCEPT !.pc = "poll"]  OBVIOUS
<1>7. r = [pc |-> "poll", tid |-> 0, polls |-> {}, tx |-> {}, need |-> FALSE, seq |-> FALSE,
           reload |-> FALSE, latch |-> FALSE, snap |-> {}, cache |-> k]
  BY ONLY <1>p, <1>r
<1>8. r \in PmdState  BY <1>7, <1>k, EmptyTypes DEF PmdState
<1>9. /\ r.pc = "poll" /\ r.tid = 0 /\ r.polls = {} /\ r.tx = {} /\ r.snap = {} /\ r.cache = <<>>
      /\ r.reload = FALSE
  BY ONLY <1>7, <1>k
<1>10. pmd' = [pmd EXCEPT ![NonPmd] = r]  BY <1>1, <1>6, <1>r
<1>11. /\ pmd' \in [Thread -> PmdState] /\ pmd'[NonPmd] = r
       /\ \A e \in Thread: e # NonPmd => pmd'[e] = NoPmd
  BY <1>2, <1>5, <1>8, <1>10, CoreThreads, OtherPmds
<1>12. /\ NoPmd.pc = "none" /\ NoPmd.tid = 0 /\ NoPmd.polls = {} /\ NoPmd.tx = {} /\ NoPmd.snap = {}
       /\ NoPmd.cache = <<>> /\ NoPmd.reload = FALSE
  BY DEF NoPmd
<1>13. \A c \in Thread: /\ pmd'[c].polls = {} /\ pmd'[c].tx = {} /\ pmd'[c].snap = {}
                        /\ pmd'[c].cache = <<>> /\ pmd'[c].tid = 0 /\ ~ pmd'[c].reload
  BY <1>9, <1>11, <1>12
<1>14. SameEntries  BY <1>5, <1>12, <1>13 DEF SameEntries
<1>15. /\ PortTypes' /\ netdev' \in [Dev -> Device] /\ main' \in MainState
       /\ main'.pc = "threads" /\ Phase' = "threads"
  BY <1>1, <1>4, AddedFields
<1>16. PortsKept /\ GoneInv' /\ NeedInv'
       /\ \A e \in Ports' \cap PmdDev: ~ port'[e].need =>
             (port'[e].dynamic <=> netdev'[e].txq < netdev'[e].want)
  BY <1>1, <1>4, <1>14, AddedFrame
<1>17. StateTypes'
  <2>1. ref' \in Handles  BY <1>1 DEF Handles
  <2>2. QED  BY <1>11, <1>15, <2>1 DEF StateTypes
<1>18. Polling' = {NonPmd}
  <2>1. \A c \in Thread: pmd'[c].pc # "none" <=> c = NonPmd  BY <1>9, <1>11, <1>12
  <2>2. QED  BY <2>1, CoreThreads DEF Polling
<1>19. HandshakeInv'
  <2>1. \A c \in Thread: /\ pmd'[c].pc = "none" => pmd'[c] = NoPmd
                         /\ pmd'[c].pc \notin {"ended", "loaded"}
    BY <1>9, <1>11, <1>12
  <2>2. pmd'[NonPmd].pc \in {"none", "poll"} /\ pmd'[NonPmd].snap = {} /\ pmd'[NonPmd].tid = 0
    BY <1>9, <1>11
  <2>3. QED  BY <1>13, <1>15, <2>1, <2>2 DEF HandshakeInv, HandshakePc
<1>20. CopiesInv'
  <2>1. \A c \in Thread: pmd'[c].snap \subseteq pmd'[c].polls /\ DOMAIN pmd'[c].cache \subseteq pmd'[c].tx
    BY <1>13, EmptyTypes
  <2>2. QED  BY <2>1 DEF CopiesInv
<1>21. ThreadsCounted'  BY <1>15, <1>16 DEF ThreadsCounted
<1>22. ThreadsInv'  BY <1>15, <1>18 DEF ThreadsInv, HandshakePc
<1>23. TidInv'
  <2>1. Cardinality({NonPmd}) = 1  BY FS_Singleton
  <2>2. \A c \in Polling': pmd'[c].tid < Cardinality(Polling')  BY <1>9, <1>11, <1>18, <2>1
  <2>3. \A c, e \in Polling': c = e  BY <1>18
  <2>4. QED  BY <1>16, <2>2, <2>3 DEF TidInv, PortsKept
<1>24. QED  BY <1>16, <1>17, <1>19, <1>20, <1>21, <1>22, <1>23 DEF IndInv, PortsKept

\* A port that is taken from the datapath.
Removed(p, r) ==
    /\ PortRecord(r) /\ r.st = "removed" /\ r.need = p.need /\ r.rxq = p.rxq
    /\ r.dynamic = p.dynamic /\ r.used = p.used /\ r.pmd = p.pmd

LEMMA RemovedFields ==
  ASSUME PortTypes, NEW d \in Dev
  PROVE  Removed(port[d], [port[d] EXCEPT !.st = "removed"])
<1>6. PICK p: p = port[d]  OBVIOUS
<1>7. PICK r: r = [p EXCEPT !.st = "removed"]  OBVIOUS
<1>9. p = [st |-> p.st, no |-> p.no, need |-> p.need, rxq |-> p.rxq, dynamic |-> p.dynamic,
           used |-> p.used, aff |-> p.aff, pmd |-> p.pmd]
  BY <1>6, PortFields
<1>10. r = [st |-> "removed", no |-> p.no, need |-> p.need, rxq |-> p.rxq, dynamic |-> p.dynamic,
            used |-> p.used, aff |-> p.aff, pmd |-> p.pmd]
  BY ONLY <1>7, <1>9
<1>11. /\ r.st = "removed" /\ r.need = p.need /\ r.rxq = p.rxq /\ r.dynamic = p.dynamic
       /\ r.used = p.used /\ r.pmd = p.pmd
  BY ONLY <1>10
<1>12. r = [st |-> r.st, no |-> r.no, need |-> r.need, rxq |-> r.rxq, dynamic |-> r.dynamic,
            used |-> r.used, aff |-> r.aff, pmd |-> r.pmd]
  BY ONLY <1>10
<1>13. PortRecord(r)
  <2>1. /\ p.need \in BOOLEAN /\ p.dynamic \in BOOLEAN /\ p.rxq \in Nat /\ p.used \in Counts
    BY <1>6, PortFields
  <2>2. r.st \in {"none", "in", "removed"} /\ r.need \in BOOLEAN /\ r.dynamic \in BOOLEAN
    BY <1>11, <2>1
  <2>3. r.rxq \in Nat /\ r.used \in Counts  BY <1>11, <2>1
  <2>4. QED  BY <1>12, <2>2, <2>3, Zenon DEF PortRecord
<1>14. QED  BY <1>6, <1>7, <1>11, <1>13 DEF Removed

LEMMA PortDelStep == ASSUME IndInv, PortDel PROVE IndInv'
<1>1. main.pc = "idle" /\ ref.handles > 0 /\ UNCHANGED <<netdev, pmd, ref>>  BY DEF PortDel, Open
<1>2. PICK d \in Ports: /\ port' = [port EXCEPT ![d].st = "removed"]
                        /\ main' = [Idle EXCEPT !.pc = "threads", !.del = {d}]
  BY DEF PortDel
<1>3. /\ StateTypes /\ ThreadsInv /\ TidInv /\ GoneInv /\ ThreadsCounted /\ PortTypes
  BY DEF IndInv, StateTypes
<1>4. AtWork /\ Phase = "idle" /\ NonPmd \in Polling
  <2>1. ref.handles # 0  BY <1>1
  <2>2. QED  BY <1>1, <1>3, <2>1 DEF AtWork, Phase, HandshakePc, ThreadsInv
<1>5. d \in Dev /\ DOMAIN port = Dev  BY <1>3 DEF Ports, PortTypes
<1>6. PICK r: r = [port[d] EXCEPT !.st = "removed"]  OBVIOUS
<1>7. Removed(port[d], r)  BY <1>3, <1>5, <1>6, RemovedFields
<1>8. port' = [port EXCEPT ![d] = r]  BY <1>2, <1>5, <1>6
<1>14. port'[d] = r /\ \A e \in Dev: e # d => port'[e] = port[e]  BY <1>5, <1>8
<1>15. PortTypes'
  <2>1. port' = [e \in Dev |-> port'[e]]  BY <1>5, <1>8
  <2>2. QED  BY <1>3, <1>7, <1>14, <2>1, PortRecords DEF Removed
<1>16. main' = [pc |-> "threads", todo |-> {}, on |-> None, next |-> "idle", del |-> {d}, saved |-> None]
  BY <1>2 DEF Idle
<1>17. main' \in MainState  BY <1>5, <1>16 DEF MainState
<1>18. Phase' = "threads" /\ main'.pc = "threads" /\ main'.del = {d}  BY <1>16 DEF Phase, HandshakePc
<1>19. StateTypes'  BY <1>1, <1>3, <1>15, <1>17 DEF StateTypes
<1>20. /\ HandshakeInv' /\ CopiesInv' /\ SameEntries /\ Polling' = Polling /\ Running' = Running
  BY <1>1, <1>4, <1>18, PortsOnly DEF HandshakePc
<1>21. PortsKept
  <2>1. PICK D \in SUBSET Dev: D = {}  OBVIOUS
  <2>2. Elsewhere(D)
    <3>1. \A e \in Dev: /\ port'[e].rxq = port[e].rxq /\ port'[e].dynamic = port[e].dynamic
                        /\ port'[e].used = port[e].used /\ port'[e].pmd = port[e].pmd
                        /\ port[e].st # "none" => port'[e].st # "none"
      BY <1>7, <1>14 DEF Removed
    <3>2. QED  BY <1>1, <3>1 DEF Elsewhere
  <2>3. Uncounted(D)  BY <2>1 DEF Uncounted
  <2>4. QED  BY <1>4, <1>20, <2>2, <2>3, PortsFrame
<1>22. GoneInv'
  <2>1. ASSUME NEW e \in Dev, port'[e].st = "none" PROVE Gone(e)'
    <3>1. e # d /\ port[e].st = "none"  BY <1>7, <1>14, <2>1 DEF Removed
    <3>2. Gone(e)  BY <1>3, <3>1 DEF GoneInv
    <3>3. QED  BY <1>21, <3>2 DEF PortsKept
  <2>2. \A e \in main'.del: port'[e].st # "in"  BY <1>7, <1>14, <1>18 DEF Removed
  <2>3. QED  BY <1>18, <2>1, <2>2 DEF GoneInv
<1>23. NeedInv'  BY <1>18 DEF NeedInv
<1>24. ThreadsCounted'
  <2>1. \A e \in Ports': e \in Ports /\ e \in Dev /\ e # d  BY <1>7, <1>14 DEF Ports, Removed
  <2>2. \A e \in Ports' \cap PmdDev: ~ port'[e].need =>
           (port'[e].dynamic <=> netdev'[e].txq < netdev'[e].want)
    BY <1>1, <1>3, <1>14, <2>1 DEF ThreadsCounted
  <2>3. QED  BY <1>18, <2>2 DEF ThreadsCounted
<1>25. ThreadsInv'  BY <1>4, <1>18, <1>20 DEF ThreadsInv, HandshakePc
<1>26. TidInv'
  <2>1. (\A c, e \in Polling: c # e => pmd[c].tid # pmd[e].tid) /\ \A c \in Polling: pmd[c].tid < Cardinality(Polling)
    BY <1>3, <1>4 DEF TidInv
  <2>2. QED  BY <1>1, <1>20, <1>21, <2>1 DEF TidInv, PortsKept
<1>27. QED  BY <1>19, <1>20, <1>21, <1>22, <1>23, <1>24, <1>25, <1>26 DEF IndInv, PortsKept

\* The ports that were removed are freed, and those of R are taken from the datapath.
Freed(R) ==
    /\ port' = [e \in Dev |-> port'[e]]
    /\ \A e \in Dev: \/ e \in main.del /\ port'[e] = NoPort
                     \/ e \notin main.del \cup R /\ port'[e] = port[e]
                     \/ e \in R /\ Removed(port[e], port'[e])

LEMMA FreedFrame ==
  ASSUME IndInv, main.pc = "end", UNCHANGED <<netdev, pmd, ref>>,
         NEW R \in SUBSET Ports, Freed(R),
         \/ main'.pc \notin HandshakePc
         \/ main'.pc = "reload" /\ main'.next # "idle" /\ main'.todo \subseteq Polling
  PROVE  /\ PortTypes' /\ HandshakeInv' /\ CopiesInv' /\ PortsKept
         /\ Polling' = Polling /\ Running' = Running /\ NonPmd \in Polling
         /\ Ports' = Ports \ R /\ \A e \in Ports': port'[e] = port[e]
         /\ \A e \in Dev: /\ port'[e].st = "none" => Gone(e)'
                          /\ port'[e].st # "in" /\ e \notin R => Gone(e)'
                          /\ e \in R => port'[e].st = "removed"
<1>1. /\ StateTypes /\ ThreadsInv /\ GoneInv /\ PortTypes /\ main.del \in SUBSET Dev
  BY MainFields DEF IndInv, StateTypes
<1>2. AtWork /\ Phase = "end" /\ NonPmd \in Polling
  BY <1>1 DEF AtWork, Phase, HandshakePc, ThreadsInv
<1>3. \A e \in Dev: port[e].st # "in" => Gone(e)  BY <1>1, <1>2 DEF GoneInv
<1>4. \A e \in main.del: e \in Dev /\ port[e].st # "in" /\ port'[e] = NoPort
  BY <1>1 DEF GoneInv, Freed, Ports
<1>5. PortTypes'
  <2>1. \A e \in Dev: port'[e] = port[e] \/ PortRecord(port'[e])  BY NoPortFields DEF Freed, Removed
  <2>2. QED  BY <1>1, <2>1, PortRecords DEF Freed
<1>6. HandshakeInv' /\ CopiesInv' /\ SameEntries /\ Polling' = Polling /\ Running' = Running
  BY <1>2, PortsOnly
<1>7. PortsKept
  <2>1. PICK D \in SUBSET Dev: D = main.del  BY <1>1
  <2>2. Elsewhere(D)
    <3>1. \A e \in Dev \ D: port'[e] = port[e] \/ Removed(port[e], port'[e])  BY <2>1 DEF Freed
    <3>2. \A e \in Dev \ D: /\ port'[e].rxq = port[e].rxq /\ port'[e].dynamic = port[e].dynamic
                            /\ port'[e].used = port[e].used /\ port'[e].pmd = port[e].pmd
                            /\ port[e].st # "none" => port'[e].st # "none"
      BY <3>1 DEF Removed
    <3>3. QED  BY <3>2 DEF Elsewhere
  <2>3. Uncounted(D)  BY <1>3, <1>4, <2>1, NoPortFields DEF Uncounted
  <2>4. QED  BY <1>2, <1>6, <2>2, <2>3, PortsFrame
<1>8. \A e \in R: port'[e].st = "removed"  BY <1>4 DEF Freed, Removed, Ports
<1>9. \A e \in Dev: port'[e].st = "in" <=> port[e].st = "in" /\ e \notin R
  BY <1>4, <1>8, NoPortFields DEF Freed, Removed, Ports
<1>10. Ports' = Ports \ R  BY <1>9 DEF Ports
<1>11. \A e \in Ports': port'[e] = port[e]
  <2>1. \A e \in Ports': e \in Dev /\ e \notin R /\ e \notin main.del  BY <1>4, <1>10 DEF Ports
  <2>2. QED  BY <2>1 DEF Freed
<1>12. ASSUME NEW e \in Dev, port'[e].st # "in", e \notin R PROVE Gone(e)'
  <2>1. port[e].st # "in"  BY <1>9, <1>12
  <2>2. QED  BY <1>3, <1>7, <2>1 DEF PortsKept
<1>13. \A e \in Dev: port'[e].st = "none" => Gone(e)'  BY <1>8, <1>12
<1>14. QED  BY <1>2, <1>5, <1>6, <1>7, <1>8, <1>10, <1>11, <1>12, <1>13

\* End of a command on a datapath that is still open.
LEMMA EndIdleStep ==
  ASSUME IndInv, main.pc = "end", UNCHANGED <<netdev, pmd, ref>>, Freed({}), main' = Idle
  PROVE  IndInv'
<1>1. main' = [pc |-> "idle", todo |-> {}, on |-> None, next |-> "idle", del |-> {}, saved |-> None]
  BY DEF Idle
<1>2. main' \in MainState  BY <1>1 DEF MainState
<1>3. Phase' = "idle" /\ main'.pc = "idle" /\ main'.del = {}  BY <1>1 DEF Phase, HandshakePc
<1>4. PICK R \in SUBSET Ports: R = {}  OBVIOUS
<1>5. /\ PortTypes' /\ HandshakeInv' /\ CopiesInv' /\ PortsKept
      /\ Polling' = Polling /\ Running' = Running /\ NonPmd \in Polling
      /\ Ports' = Ports /\ \A e \in Ports: port'[e] = port[e]
      /\ \A e \in Dev: port'[e].st # "in" => Gone(e)'
  <2>1. Freed(R)  BY <1>4
  <2>2. main'.pc \notin HandshakePc  BY <1>3 DEF HandshakePc
  <2>3. /\ PortTypes' /\ HandshakeInv' /\ CopiesInv' /\ PortsKept
        /\ Polling' = Polling /\ Running' = Running /\ NonPmd \in Polling
        /\ Ports' = Ports \ R /\ \A e \in Ports': port'[e] = port[e]
        /\ \A e \in Dev: port'[e].st # "in" /\ e \notin R => Gone(e)'
    BY <2>1, <2>2, FreedFrame
  <2>4. QED  BY <1>4, <2>3
<1>6. /\ StateTypes /\ TidInv /\ NeedInv /\ ThreadsCounted /\ Phase = "end"
  BY DEF IndInv, Phase, HandshakePc
<1>7. StateTypes'  BY <1>2, <1>5, <1>6 DEF StateTypes
<1>8. GoneInv'  BY <1>3, <1>5 DEF GoneInv
<1>9. NeedInv'  BY <1>3, <1>5, <1>6 DEF NeedInv
<1>10. ThreadsCounted'  BY <1>3, <1>5, <1>6 DEF ThreadsCounted
<1>11. ThreadsInv'  BY <1>3, <1>5 DEF ThreadsInv, HandshakePc
<1>12. TidInv'
  <2>1. (\A c, e \in Polling: c # e => pmd[c].tid # pmd[e].tid) /\ \A c \in Polling: pmd[c].tid < Cardinality(Polling)
    BY <1>6 DEF TidInv
  <2>2. QED  BY <1>5, <2>1 DEF TidInv, PortsKept
<1>13. QED  BY <1>5, <1>7, <1>8, <1>9, <1>10, <1>11, <1>12 DEF IndInv, PortsKept

\* dp_netdev_free has removed all ports: the threads are to end.
LEMMA EndLastStep ==
  ASSUME IndInv, main.pc = "end", UNCHANGED <<netdev, pmd, ref>>, Freed({}), Ports = {},
         ~ (ref.handles > 0), main' = [Reloading(Running, "destroy") EXCEPT !.del = {}]
  PROVE  IndInv'
<1>0. /\ StateTypes /\ TidInv /\ NeedInv /\ ThreadsCounted /\ Phase = "end" /\ ref \in Handles
  BY DEF IndInv, Phase, HandshakePc, StateTypes
<1>1. main' = [pc |-> "reload", todo |-> Running, on |-> main.on, next |-> "destroy", del |-> {}, saved |-> main.saved]
  <2>1. PICK m: m = Reloading(Running, "destroy")  OBVIOUS
  <2>2. m = [pc |-> "reload", todo |-> Running, on |-> main.on, next |-> "destroy", del |-> main.del, saved |-> main.saved]
    BY <1>0, <2>1, MainFields DEF Reloading
  <2>3. main' = [m EXCEPT !.del = {}]  BY <2>1
  <2>4. QED  BY ONLY <2>2, <2>3
<1>2. main' \in MainState
  <2>1. Running \in SUBSET (Dev \cup Thread)  BY PollingThreads
  <2>2. QED  BY <1>0, <1>1, <2>1, MainFields DEF MainState, HandshakePc
<1>3. Phase' = "destroy" /\ main'.pc = "reload" /\ main'.del = {} /\ main'.next = "destroy"
      /\ main'.todo = Running
  BY <1>1 DEF Phase, HandshakePc
<1>4. PICK R \in SUBSET Ports: R = {}  OBVIOUS
<1>5. /\ PortTypes' /\ HandshakeInv' /\ CopiesInv' /\ PortsKept
      /\ Polling' = Polling /\ Running' = Running /\ NonPmd \in Polling
      /\ Ports' = {} /\ \A e \in Dev: port'[e].st # "in" => Gone(e)'
  <2>1. Freed(R)  BY <1>4
  <2>2. main'.todo \subseteq Polling /\ main'.next # "idle"  BY <1>3, PollingThreads
  <2>3. /\ PortTypes' /\ HandshakeInv' /\ CopiesInv' /\ PortsKept
        /\ Polling' = Polling /\ Running' = Running /\ NonPmd \in Polling
        /\ Ports' = Ports \ R
        /\ \A e \in Dev: port'[e].st # "in" /\ e \notin R => Gone(e)'
    BY <1>3, <2>1, <2>2, FreedFrame
  <2>4. QED  BY <1>4, <2>3
<1>7. StateTypes'  BY <1>0, <1>2, <1>5 DEF StateTypes
<1>8. GoneInv'  BY <1>3, <1>5 DEF GoneInv
<1>9. NeedInv'  BY <1>3, <1>5 DEF NeedInv
<1>10. ThreadsCounted'  BY <1>5 DEF ThreadsCounted
<1>11. ThreadsInv'
  <2>1. ref'.handles = 0  BY <1>0 DEF Handles
  <2>2. QED  BY <1>3, <1>5, <2>1 DEF ThreadsInv
<1>12. TidInv'
  <2>1. \A c, e \in Polling: c # e => pmd[c].tid # pmd[e].tid  BY <1>0 DEF TidInv
  <2>2. QED  BY <1>3, <1>5, <2>1 DEF TidInv, PortsKept
<1>13. QED  BY <1>5, <1>7, <1>8, <1>9, <1>10, <1>11, <1>12 DEF IndInv, PortsKept

\* dp_netdev_free removes the next port.
LEMMA EndPortStep ==
  ASSUME IndInv, main.pc = "end", UNCHANGED <<netdev, pmd, ref>>, NEW d \in Ports, Freed({d}),
         NEW n \in Dev \cup {None}, main' = [Idle EXCEPT !.pc = "threads", !.del = {d}, !.saved = n]
  PROVE  IndInv'
<1>0. /\ StateTypes /\ TidInv /\ ThreadsCounted /\ Phase = "end" /\ d \in Dev
  BY DEF IndInv, Phase, HandshakePc, Ports
<1>1. main' = [pc |-> "threads", todo |-> {}, on |-> None, next |-> "idle", del |-> {d}, saved |-> n]
  BY DEF Idle
<1>2. main' \in MainState  BY <1>0, <1>1 DEF MainState
<1>3. Phase' = "threads" /\ main'.pc = "threads" /\ main'.del = {d}  BY <1>1 DEF Phase, HandshakePc
<1>4. PICK R \in SUBSET Ports: R = {d}  OBVIOUS
<1>5. /\ PortTypes' /\ HandshakeInv' /\ CopiesInv' /\ PortsKept
      /\ Polling' = Polling /\ Running' = Running /\ NonPmd \in Polling
      /\ Ports' \subseteq Ports /\ \A e \in Ports': port'[e] = port[e]
      /\ \A e \in Dev: port'[e].st = "none" => Gone(e)'
      /\ port'[d].st = "removed"
  <2>1. Freed(R)  BY <1>4
  <2>2. main'.pc \notin HandshakePc  BY <1>3 DEF HandshakePc
  <2>3. /\ PortTypes' /\ HandshakeInv' /\ CopiesInv' /\ PortsKept
        /\ Polling' = Polling /\ Running' = Running /\ NonPmd \in Polling
        /\ Ports' = Ports \ R /\ \A e \in Ports': port'[e] = port[e]
        /\ \A e \in Dev: port'[e].st = "none" => Gone(e)'
        /\ \A e \in Dev: e \in R => port'[e].st = "removed"
    BY <2>1, <2>2, FreedFrame
  <2>4. QED  BY <1>0, <1>4, <2>3
<1>7. StateTypes'  BY <1>0, <1>2, <1>5 DEF StateTypes
<1>8. GoneInv'  BY <1>3, <1>5 DEF GoneInv
<1>9. NeedInv'  BY <1>3 DEF NeedInv
<1>10. ThreadsCounted'  BY <1>0, <1>3, <1>5 DEF ThreadsCounted
<1>11. ThreadsInv'  BY <1>3, <1>5 DEF ThreadsInv, HandshakePc
<1>12. TidInv'
  <2>1. (\A c, e \in Polling: c # e => pmd[c].tid # pmd[e].tid) /\ \A c \in Polling: pmd[c].tid < Cardinality(Polling)
    BY <1>0 DEF TidInv
  <2>2. QED  BY <1>5, <2>1 DEF TidInv, PortsKept
<1>13. QED  BY <1>5, <1>7, <1>8, <1>9, <1>10, <1>11, <1>12 DEF IndInv, PortsKept

LEMMA EndStep == ASSUME IndInv, FreeInv, End PROVE IndInv'
<1> DEFINE freed == [d \in Dev |-> IF d \in main.del THEN NoPort ELSE port[d]]
<1>1. main.pc = "end" /\ UNCHANGED <<netdev, pmd, ref>>  BY DEF End
<1>2. PortTypes /\ \A e \in main.del: e \in Dev /\ e \notin Ports
  BY MainFields DEF IndInv, StateTypes, GoneInv, Ports
<1>3. ASSUME port' = freed PROVE Freed({})  BY <1>3 DEF Freed
<1>4. CASE ref.handles > 0 /\ main' = Idle /\ port' = freed  BY <1>1, <1>3, <1>4, EndIdleStep
<1>5. CASE /\ ref.handles = 0 /\ main.saved = None /\ port' = freed
           /\ main' = [Reloading(Running, "destroy") EXCEPT !.del = {}]
  <2>1. Ports = {} /\ ~ (ref.handles > 0)  BY <1>1, <1>5 DEF FreeInv
  <2>2. QED  BY <1>1, <1>3, <1>5, <2>1, EndLastStep
<1>6. ASSUME NEW d \in Ports, NEW n \in Following(Ports \ {d}),
             main' = [Idle EXCEPT !.pc = "threads", !.del = {d}, !.saved = n],
             port' = [freed EXCEPT ![d].st = "removed"]
      PROVE  IndInv'
  <2>1. d \in Dev /\ d \notin main.del  BY <1>2 DEF Ports
  <2>2. port' = [freed EXCEPT ![d] = [port[d] EXCEPT !.st = "removed"]]  BY <1>6, <2>1
  <2>3. Removed(port[d], [port[d] EXCEPT !.st = "removed"])  BY <1>2, <2>1, RemovedFields
  <2>4. PICK r: r = [port[d] EXCEPT !.st = "removed"]  OBVIOUS
  <2>5. port' = [freed EXCEPT ![d] = r] /\ Removed(port[d], r)  BY <2>2, <2>3, <2>4
  <2>6. /\ port' = [e \in Dev |-> port'[e]] /\ port'[d] = r
        /\ \A e \in Dev: e # d => port'[e] = IF e \in main.del THEN NoPort ELSE port[e]
    BY <2>1, <2>5
  <2>7. Freed({d})  BY <2>1, <2>5, <2>6 DEF Freed
  <2>8. n \in Dev \cup {None}  BY FollowingIn DEF Ports
  <2>9. QED  BY <1>1, <1>6, <2>7, <2>8, EndPortStep
<1>7. QED  BY <1>4, <1>5, <1>6 DEF End

-----------------------------------------------------------------------------
(* The invariant holds always *)

LEMMA InitInv == Init => IndInv /\ MaskType
<1> SUFFICES ASSUME Init PROVE IndInv /\ MaskType  OBVIOUS
<1>1. /\ port = [d \in Dev |-> NoPort] /\ netdev = [d \in Dev |-> NewNetdev(d, 1)]
      /\ pmd = [c \in Thread |-> NoPmd] /\ cmask = None /\ main = Idle
      /\ ref = [handles |-> 0, destroyed |-> FALSE]
  BY DEF Init
<1>2. /\ \A d \in Dev: PortRecord(port[d]) /\ port[d].st = "none" /\ port[d].need = FALSE
                       /\ port[d].dynamic = FALSE /\ DOMAIN port[d].used = {}
      /\ DOMAIN port = Dev
  BY <1>1, NoPortFields
<1>3. \A c \in Thread: /\ pmd[c] = NoPmd /\ pmd[c].pc = "none" /\ pmd[c].tid = 0 /\ pmd[c].polls = {}
                       /\ pmd[c].tx = {} /\ pmd[c].snap = {} /\ DOMAIN pmd[c].cache = {}
                       /\ ~ pmd[c].reload
  <2>1. /\ NoPmd.pc = "none" /\ NoPmd.tid = 0 /\ NoPmd.polls = {}
        /\ NoPmd.tx = {} /\ NoPmd.snap = {} /\ NoPmd.cache = <<>> /\ ~ NoPmd.reload
    BY DEF NoPmd
  <2>2. \A c \in Thread: pmd[c] = NoPmd  BY <1>1
  <2>3. QED  BY <2>1, <2>2, EmptyTypes
<1>4. /\ main.pc = "idle" /\ main.todo = {} /\ main.on = None /\ main.next = "idle" /\ main.del = {}
      /\ main \in MainState /\ ref \in Handles /\ ref.handles = 0
  BY <1>1 DEF Idle, MainState, Handles
<1>5. Ports = {} /\ Polling = {} /\ Running = {} /\ Phase = "idle"
  BY <1>2, <1>3, <1>4 DEF Ports, Polling, Running, Phase, HandshakePc
<1>6. StateTypes
  <2>1. PortTypes
    <3>1. port = [d \in Dev |-> [st |-> port[d].st, no |-> port[d].no, need |-> port[d].need,
                                 rxq |-> port[d].rxq, dynamic |-> port[d].dynamic,
                                 used |-> port[d].used, aff |-> port[d].aff, pmd |-> port[d].pmd]]
      <4>1. port = [d \in Dev |-> port[d]]  BY <1>1
      <4>2. QED  BY <1>2, <4>1 DEF PortRecord
    <3>2. \A d \in Dev: /\ port[d].st \in {"none", "in", "removed"}
                        /\ port[d].need \in BOOLEAN /\ port[d].dynamic \in BOOLEAN
                        /\ port[d].rxq \in Nat /\ port[d].used \in Counts
      BY <1>2 DEF PortRecord
    <3>3. QED  BY <3>1, <3>2 DEF PortTypes
  <2>2. pmd \in [Thread -> PmdState]  BY <1>1, EmptyTypes
  <2>3. netdev \in [Dev -> Device]  BY <1>1, NewNetdevType
  <2>4. QED  BY <1>4, <2>1, <2>2, <2>3 DEF StateTypes
<1>7. HandshakeInv  BY <1>3, <1>4, CoreThreads DEF HandshakeInv, HandshakePc
<1>8. CopiesInv  BY <1>3 DEF CopiesInv
<1>9. OwnerInv /\ OnePoller  BY <1>3, CoreThreads DEF OwnerInv, OnePoller
<1>10. GoneInv  BY <1>3, <1>4 DEF GoneInv, Gone
<1>11. OpenInv  BY <1>3 DEF OpenInv, Uses
<1>12. SharedInv /\ TxqUsedCounts  BY <1>2, <1>3 DEF SharedInv, TxqUsedCounts
<1>13. NeedInv /\ ThreadsCounted  BY <1>4, <1>5 DEF NeedInv, ThreadsCounted
<1>14. ThreadsInv  BY <1>4, <1>5 DEF ThreadsInv, HandshakePc
<1>15. TidInv  BY <1>3, <1>5 DEF TidInv
<1>16. MaskType  BY <1>1 DEF MaskType
<1>17. QED
  BY <1>6, <1>7, <1>8, <1>9, <1>10, <1>11, <1>12, <1>13, <1>14, <1>15, <1>16 DEF IndInv

LEMMA MaskStep == ASSUME MaskType, [Next]_vars PROVE MaskType'
<1>1. CASE Command
  <2>1. cmask' \in Mask \cup {None} \cup {cmask}
    BY <1>1 DEF Command, CreateDp, OpenAgain, Destroy, Close, PortAdd, PortDel, PmdSet, SetAffinity
  <2>2. QED  BY <2>1 DEF MaskType
<1>2. CASE Run \/ DeviceChanges  BY <1>2 DEF Run, DeviceChanges, MaskType
<1>3. CASE Reconfigure
  <2>1. cmask' = cmask
    BY <1>3 DEF Reconfigure, Threads, Create, Stale, PortReconfigure, PortFails, AddQueues, Schedule,
                AddTx, End, DestroyNonPmd
  <2>2. QED  BY <2>1 DEF MaskType
<1>4. CASE Handshake
  <2>1. cmask' = cmask
    BY <1>4 DEF Handshake, ReloadNonPmd, ReloadSeq, ReloadSet, ReloadWait, ReloadNext, ReloadEnd
  <2>2. QED  BY <2>1 DEF MaskType
<1>5. ASSUME NEW c \in Core, PmdThread(c) PROVE MaskType'
  BY <1>5 DEF PmdThread, Start, Unblock, Reload, ReloadDone, Exit, MaskType
<1>6. ASSUME NEW c \in Thread, Send(c) PROVE MaskType'  BY <1>6 DEF Send, MaskType
<1>7. CASE UNCHANGED vars  BY <1>7 DEF vars, MaskType
<1>8. QED  BY <1>1, <1>2, <1>3, <1>4, <1>5, <1>6, <1>7 DEF Next

LEMMA NextStep == ASSUME IndInv, FreeInv, MaskType, [Next]_vars PROVE IndInv'
<1>1. CASE Command
  BY <1>1, CreateDpStep, OpenAgainStep, DestroyStep, CloseStep, PortAddStep, PortDelStep, PmdSetStep,
     SetAffinityStep DEF Command
<1>2. CASE Run  BY <1>2, RunStep
<1>3. CASE Reconfigure
  <2>1. ASSUME NEW d \in Dev, PortReconfigure(d) \/ PortFails(d) \/ AddQueues(d) PROVE IndInv'
    BY <2>1, PortReconfigureStep, PortFailsStep, AddQueuesStep
  <2>2. QED
    BY <1>3, <2>1, ThreadsStep, CreateStep, StaleStep, ScheduleStep, AddTxStep, EndStep,
       DestroyNonPmdStep DEF Reconfigure
<1>4. CASE Handshake
  BY <1>4, ReloadNonPmdStep, ReloadSeqStep, ReloadSetStep, ReloadWaitStep, ReloadNextStep, ReloadEndStep
     DEF Handshake
<1>5. CASE DeviceChanges  BY <1>5, DeviceChangesStep
<1>6. ASSUME NEW c \in Core, PmdThread(c) PROVE IndInv'
  BY <1>6, StartStep, UnblockStep, ReloadStep, ReloadDoneStep, ExitStep DEF PmdThread
<1>7. ASSUME NEW c \in Thread, Send(c) PROVE IndInv'  BY <1>7, SendStep
<1>8. CASE UNCHANGED vars
  <2>1. UNCHANGED <<port, netdev, pmd, main, ref>>  BY <1>8 DEF vars
  <2>2. StateTypes /\ ref' \in Handles  BY <2>1 DEF IndInv, StateTypes
  <2>3. QED  BY <2>1, <2>2, SameEverywhere, QuietStep
<1>9. QED  BY <1>1, <1>2, <1>3, <1>4, <1>5, <1>6, <1>7, <1>8 DEF Next

\* A step of a command or reconfiguration under way, and of the threads: no port comes
\* to be, and what dp_netdev_free has saved stays.
LEMMA FreeFrame ==
  ASSUME FreeInv, Ports' \subseteq Ports, ref' = ref,
         main'.pc # "idle" => main.pc # "idle" /\ main'.saved = main.saved
  PROVE  FreeInv'
BY DEF FreeInv

LEMMA KeptPorts == ASSUME port' = port PROVE Ports' = Ports
  BY DEF Ports

\* What PortReconfigure, Stale and Schedule do to a port.
LEMMA KeptState ==
  ASSUME PortTypes, NEW d \in Dev, NEW p, p = port[d]
  PROVE  /\ \A b, x, u, y: [p EXCEPT !.need = b, !.rxq = x, !.used = u, !.dynamic = y].st = p.st
         /\ \A b: [p EXCEPT !.need = b].st = p.st
         /\ \A q: [p EXCEPT !.pmd = q].st = p.st
<1>1. p = [st |-> p.st, no |-> p.no, need |-> p.need, rxq |-> p.rxq, dynamic |-> p.dynamic,
           used |-> p.used, aff |-> p.aff, pmd |-> p.pmd]
  BY PortFields
<1>2. QED  BY ONLY <1>1

LEMMA ThreadFree ==
  ASSUME IndInv, FreeInv, NEW c \in Core, PmdThread(c)
  PROVE  FreeInv'
<1>1. StateTypes /\ SharedInv /\ c \in Thread /\ DOMAIN pmd[c].cache \in SUBSET Dev
  BY CoreThreads, PmdFields DEF IndInv
<1>2. port' = port \/ port' = Released(c, DOMAIN pmd[c].cache)
  BY DEF PmdThread, Start, Unblock, Reload, ReloadDone, Exit, LoadQueues
<1>3. Ports' = Ports
  <2>1. CASE port' = port  BY <2>1, KeptPorts
  <2>2. CASE port' = Released(c, DOMAIN pmd[c].cache)
    <3>1. PICK ds \in SUBSET Dev: ds = DOMAIN pmd[c].cache  BY <1>1
    <3>2. port' = Released(c, ds)  BY <2>2, <3>1
    <3>3. QED  BY <1>1, <3>2, ReleasedFrame, SamePortSet
  <2>3. QED  BY <1>2, <2>1, <2>2
<1>4. ref' = ref /\ (main' = main \/ (main.pc = "wait" /\ main' = [main EXCEPT !.pc = "woken"]))
  BY DEF PmdThread, Start, Unblock, Reload, ReloadDone, Exit
<1>5. main'.pc # "idle" => main.pc # "idle" /\ main'.saved = main.saved
  BY <1>1, <1>4, MainFields
<1>6. QED  BY <1>3, <1>4, <1>5, FreeFrame

LEMMA SendFree ==
  ASSUME IndInv, FreeInv, NEW c \in Thread, Send(c)
  PROVE  FreeInv'
<1>1. PICK d \in DOMAIN pmd[c].cache, late \in SUBSET DOMAIN pmd[c].cache:
         port[d].dynamic /\ SendXps(c, d, late)
  BY DEF Send
<1>2. Ports' = Ports
  <2>1. CASE pmd[c].cache[d] >= 0 /\ d \notin late
    <3>1. port' = port  BY <1>1, <2>1 DEF SendXps
    <3>2. QED  BY <3>1, KeptPorts
  <2>2. CASE ~ (pmd[c].cache[d] >= 0 /\ d \notin late)
    <3>1. SamePorts(port')  BY <1>1, <2>2, SendSharing DEF IndInv
    <3>2. QED  BY <3>1, SamePortSet
  <2>3. QED  BY <2>1, <2>2
<1>3. ref' = ref /\ main' = main  BY DEF Send
<1>4. QED  BY <1>2, <1>3, FreeFrame

LEMMA HandshakeFree ==
  ASSUME IndInv, FreeInv, Handshake
  PROVE  FreeInv'
<1>1. StateTypes /\ SharedInv /\ NonPmd \in Thread /\ DOMAIN pmd[NonPmd].cache \in SUBSET Dev
  BY CoreThreads, PmdFields DEF IndInv
<1>2. port' = port \/ port' = Released(NonPmd, DOMAIN pmd[NonPmd].cache)
  BY DEF Handshake, ReloadNonPmd, ReloadSeq, ReloadSet, ReloadWait, ReloadNext, ReloadEnd
<1>3. Ports' = Ports
  <2>1. CASE port' = port  BY <2>1, KeptPorts
  <2>2. CASE port' = Released(NonPmd, DOMAIN pmd[NonPmd].cache)
    <3>1. PICK ds \in SUBSET Dev: ds = DOMAIN pmd[NonPmd].cache  BY <1>1
    <3>2. port' = Released(NonPmd, ds)  BY <2>2, <3>1
    <3>3. QED  BY <1>1, <3>2, ReleasedFrame, SamePortSet
  <2>3. QED  BY <1>2, <2>1, <2>2
<1>4. ref' = ref
  BY DEF Handshake, ReloadNonPmd, ReloadSeq, ReloadSet, ReloadWait, ReloadNext, ReloadEnd
<1>5. main.pc # "idle" /\ main'.saved = main.saved
  <2>1. CASE ReloadNonPmd  BY <1>1, <2>1, MainFields DEF ReloadNonPmd
  <2>2. CASE ReloadSeq  BY <1>1, <2>2, MainFields DEF ReloadSeq
  <2>3. CASE ReloadSet  BY <1>1, <2>3, MainFields DEF ReloadSet
  <2>4. CASE ReloadWait  BY <1>1, <2>4, MainFields DEF ReloadWait
  <2>5. CASE ReloadNext  BY <1>1, <2>5, MainFields DEF ReloadNext
  <2>6. CASE ReloadEnd
    <3>1. PICK t: t = IF main.next \in {"ports", "add"} THEN Ports ELSE {}  OBVIOUS
    <3>2. main.pc = "reload" /\ main' = [main EXCEPT !.pc = main.next, !.todo = t]
      BY <2>6, <3>1 DEF ReloadEnd
    <3>3. QED  BY <1>1, <3>2, MainFields
  <2>7. QED  BY <2>1, <2>2, <2>3, <2>4, <2>5, <2>6 DEF Handshake
<1>6. QED  BY <1>3, <1>4, <1>5, FreeFrame

\* One port is reconfigured, fails, or has its queues given to threads.
LEMMA PortFree ==
  ASSUME IndInv, FreeInv, NEW d \in Dev, PortReconfigure(d) \/ PortFails(d) \/ AddQueues(d)
  PROVE  FreeInv'
<1>1. StateTypes /\ PortTypes /\ DOMAIN port = Dev  BY DEF IndInv, StateTypes, PortTypes
<1>2. ref' = ref /\ main.pc # "idle" /\ main' = [main EXCEPT !.todo = @ \ {d}]
  BY DEF PortReconfigure, PortFails, AddQueues
<1>3. main'.saved = main.saved  BY <1>1, <1>2, MainFields
<1>4. Ports' \subseteq Ports
  <2>1. CASE PortReconfigure(d)
    <3>1. PICK x: x = netdev'[d].rxq  OBVIOUS
    <3>2. PICK u: u = [q \in 0 .. netdev'[d].txq - 1 |-> 0]  OBVIOUS
    <3>3. PICK y: y = (netdev'[d].txq < Cardinality(Polling))  OBVIOUS
    <3>4. PICK p: p = port[d]  OBVIOUS
    <3>5. PICK r: r = [p EXCEPT !.need = FALSE, !.rxq = x, !.used = u, !.dynamic = y]  OBVIOUS
    <3>6. port' = [port EXCEPT ![d] = r]
      <4>1. port' = [port EXCEPT ![d].need = FALSE, ![d].rxq = x, ![d].used = u, ![d].dynamic = y]
        BY <2>1, <3>1, <3>2, <3>3 DEF PortReconfigure
      <4>2. QED  BY <1>1, <3>4, <3>5, <4>1
    <3>7. r.st = p.st  BY <1>1, <3>4, <3>5, KeptState
    <3>8. QED  BY <1>1, <3>4, <3>6, <3>7 DEF Ports
  <2>2. CASE PortFails(d)
    <3>1. port' = [port EXCEPT ![d] = NoPort]  BY <2>2 DEF PortFails
    <3>2. QED  BY <1>1, <3>1, NoPortFields DEF Ports
  <2>3. CASE AddQueues(d)
    <3>1. port' = port  BY <2>3 DEF AddQueues
    <3>2. QED  BY <3>1, KeptPorts
  <2>4. QED  BY <2>1, <2>2, <2>3
<1>5. QED  BY <1>2, <1>3, <1>4, FreeFrame

\* The other steps of reconfigure_datapath.
LEMMA ReconfigureFree ==
  ASSUME IndInv, FreeInv, Threads \/ Create \/ Stale \/ Schedule \/ AddTx
  PROVE  FreeInv'
<1>1. StateTypes /\ PortTypes  BY DEF IndInv, StateTypes
<1>2. ref' = ref /\ main.pc # "idle"  BY DEF Threads, Create, Stale, Schedule, AddTx
<1>3. main'.saved = main.saved
  <2>1. \/ main' = [main EXCEPT !.pc = "stale"]
        \/ \E t, n: main' = Reloading(t, n)
    BY DEF Threads, Create, Stale, Schedule, AddTx
  <2>2. ASSUME NEW t, NEW n, main' = Reloading(t, n) PROVE main'.saved = main.saved
    BY <1>1, <2>2, MainFields DEF Reloading
  <2>3. QED  BY <1>1, <2>1, <2>2, MainFields
<1>4. Ports' = Ports
  <2>1. CASE Threads \/ Create \/ AddTx
    <3>1. port' = port  BY <2>1 DEF Threads, Create, AddTx
    <3>2. QED  BY <3>1, KeptPorts
  <2>2. CASE Stale
    <3>1. ASSUME NEW d \in Dev PROVE port'[d].st = port[d].st
      <4>1. PICK b: b = (port[d].need \/ (d \in Ports /\ netdev'[d].reconf))  OBVIOUS
      <4>2. PICK p: p = port[d]  OBVIOUS
      <4>3. port'[d] = [p EXCEPT !.need = b]
        <5>1. port' = [e \in Dev |-> [port[e] EXCEPT !.need = @ \/ (e \in Ports /\ netdev'[e].reconf)]]
          BY <2>2 DEF Stale
        <5>2. QED  BY <4>1, <4>2, <5>1
      <4>4. QED  BY <1>1, <4>2, <4>3, KeptState
    <3>2. QED  BY <3>1 DEF Ports
  <2>3. CASE Schedule
    <3> DEFINE given(d) == [i \in 0 .. MaxRxq - 1 |-> IF <<d, i>> \in Queues THEN Scheduled(<<d, i>>) ELSE None]
    <3>1. port' = [d \in Dev |-> IF d \in Ports \cap PmdDev THEN [port[d] EXCEPT !.pmd = given(d)] ELSE port[d]]
      BY <2>3 DEF Schedule
    <3> HIDE DEF given
    <3>2. ASSUME NEW d \in Dev PROVE port'[d].st = port[d].st
      <4>1. PICK q: q = given(d)  OBVIOUS
      <4>2. PICK p: p = port[d]  OBVIOUS
      <4>3. port'[d] = p \/ port'[d] = [p EXCEPT !.pmd = q]  BY <3>1, <4>1, <4>2
      <4>4. [p EXCEPT !.pmd = q].st = p.st  BY <1>1, <4>2, KeptState
      <4>5. QED  BY <4>2, <4>3, <4>4
    <3>3. QED  BY <3>2 DEF Ports
  <2>4. QED  BY <2>1, <2>2, <2>3
<1>5. QED  BY <1>2, <1>3, <1>4, FreeFrame

\* dp_netdev_free goes on: what it saves is a port that stays, if one does.
LEMMA EndFree ==
  ASSUME IndInv, FreeInv, End
  PROVE  FreeInv'
<1> DEFINE freed == [e \in Dev |-> IF e \in main.del THEN NoPort ELSE port[e]]
<1>1. main.pc = "end" /\ ref' = ref /\ PortTypes /\ StateTypes  BY DEF End, IndInv, StateTypes
<1>2. CASE main' = Idle
  <2>1. main'.pc = "idle"  BY <1>2 DEF Idle
  <2>2. QED  BY <2>1 DEF FreeInv
<1>3. ASSUME port' = freed PROVE Ports' \subseteq Ports
  BY <1>3, NoPortFields DEF Ports
<1>4. CASE main' = [Reloading(Running, "destroy") EXCEPT !.del = {}] /\ port' = freed
  <2>1. main'.saved = main.saved
    <3>1. PICK m: m = Reloading(Running, "destroy")  OBVIOUS
    <3>2. m = [pc |-> "reload", todo |-> Running, on |-> main.on, next |-> "destroy", del |-> main.del,
               saved |-> main.saved]
      BY <1>1, <3>1, MainFields DEF Reloading
    <3>3. main' = [m EXCEPT !.del = {}]  BY <1>4, <3>1
    <3>4. QED  BY ONLY <3>2, <3>3
  <2>2. QED  BY <1>1, <1>3, <1>4, <2>1, FreeFrame
<1>5. ASSUME NEW d \in Ports, NEW n \in Following(Ports \ {d}),
             main' = [Idle EXCEPT !.pc = "threads", !.del = {d}, !.saved = n],
             port' = [freed EXCEPT ![d].st = "removed"]
      PROVE  FreeInv'
  <2>1. main'.saved = n  BY <1>5 DEF Idle
  <2>2. n = None => Ports \ {d} = {}
    <3>1. Ports \ {d} \in SUBSET Dev  BY DEF Ports
    <3>2. QED  BY <3>1, FollowingIn
  <2>3. Ports' \subseteq Ports \ {d}
    <3>1. d \in Dev /\ port[d].st = "in" /\ d \notin main.del  BY DEF Ports, IndInv, GoneInv
    <3>2. PICK r: r = [port[d] EXCEPT !.st = "removed"]  OBVIOUS
    <3>3. r.st = "removed"  BY <1>1, <3>1, <3>2, RemovedFields DEF Removed
    <3>4. port' = [freed EXCEPT ![d] = r]  BY <1>5, <3>1, <3>2
    <3>5. port'[d] = r /\ \A e \in Dev: e # d => port'[e] = IF e \in main.del THEN NoPort ELSE port[e]
      BY <3>1, <3>4
    <3>6. QED  BY <3>3, <3>5, NoPortFields DEF Ports
  <2>4. QED  BY <2>1, <2>2, <2>3 DEF FreeInv
<1>6. QED  BY <1>2, <1>4, <1>5 DEF End

\* The commands leave a datapath that is open, or begin to free it.
LEMMA CommandFree ==
  ASSUME IndInv, FreeInv, Command \/ Run
  PROVE  FreeInv'
<1>1. ref \in Handles  BY DEF IndInv, StateTypes
<1>2. CASE CreateDp
  <2>1. ref'.handles = 1  BY <1>2 DEF CreateDp
  <2>2. QED  BY <2>1 DEF FreeInv
<1>3. CASE Run \/ PortAdd \/ PortDel
  <2>1. ref' = ref /\ ref.handles > 0  BY <1>3 DEF Run, PortAdd, PortDel, Open
  <2>2. QED  BY <2>1 DEF FreeInv
<1>4. CASE OpenAgain \/ Destroy \/ PmdSet \/ SetAffinity
  <2>1. main.pc = "idle" /\ main' = main
    BY <1>4 DEF OpenAgain, Destroy, PmdSet, SetAffinity, Open
  <2>2. QED  BY <2>1 DEF FreeInv
<1>5. CASE Close
  <2>1. CASE main' = main
    <3>1. main.pc = "idle"  BY <1>5 DEF Close, Open
    <3>2. QED  BY <2>1, <3>1 DEF FreeInv
  <2>2. ASSUME NEW n \in Following(Ports), main' = [Idle EXCEPT !.pc = "end", !.saved = n]
        PROVE  FreeInv'
    <3>1. main'.saved = n  BY <2>2 DEF Idle
    <3>2. n = None => Ports = {}
      <4>1. Ports \in SUBSET Dev  BY DEF Ports
      <4>2. QED  BY <4>1, FollowingIn
    <3>3. Ports' = Ports
      <4>1. port' = port  BY <1>5 DEF Close
      <4>2. QED  BY <4>1, KeptPorts
    <3>4. QED  BY <3>1, <3>2, <3>3 DEF FreeInv
  <2>3. QED  BY <1>5, <2>1, <2>2 DEF Close
<1>6. QED  BY <1>2, <1>3, <1>4, <1>5 DEF Command

LEMMA FreeStep == ASSUME IndInv, FreeInv, [Next]_vars PROVE FreeInv'
<1>1. CASE DeviceChanges \/ UNCHANGED vars
  <2>1. UNCHANGED <<port, main, ref>>  BY <1>1 DEF DeviceChanges, vars
  <2>2. QED  BY <2>1, KeptPorts, FreeFrame
<1>2. CASE Reconfigure
  <2>1. CASE DestroyNonPmd
    <3>1. main'.pc = "idle"  BY <2>1 DEF DestroyNonPmd, Idle
    <3>2. QED  BY <3>1 DEF FreeInv
  <2>2. QED  BY <1>2, <2>1, ReconfigureFree, PortFree, EndFree DEF Reconfigure
<1>3. QED
  BY <1>1, <1>2, CommandFree, HandshakeFree, ThreadFree, SendFree DEF Next

LEMMA InitFree == Init => FreeInv
  BY DEF Init, FreeInv, Idle

\* Types, the handshake of main and threads, lists and copies, transmit queues and
\* static_tx_qid are as the parts of IndInv say, in every reachable state, and
\* dp_netdev_free has a port saved to go on with as long as one is left.
THEOREM Invariance == Spec => [](IndInv /\ FreeInv /\ MaskType)
<1>1. Init => IndInv /\ FreeInv /\ MaskType  BY InitInv, InitFree
<1>2. IndInv /\ FreeInv /\ MaskType /\ [Next]_vars => (IndInv /\ FreeInv /\ MaskType)'
  BY NextStep, FreeStep, MaskStep
<1>3. QED  BY <1>1, <1>2, PTL DEF Spec

-----------------------------------------------------------------------------
(* What follows *)

\* No receive queue is polled by two threads, while queues move between them
\* (dpif-netdev.c:3300-3345, 3491-3515).
THEOREM OnePollerHolds == Spec => []OnePoller
<1>1. IndInv => OnePoller  BY DEF IndInv
<1>2. QED  BY Invariance, <1>1, PTL

\* Whatever a thread goes by is there and open, and no thread goes by a port that is
\* being reconfigured (dpif-netdev.c:3191-3217, 3236-3288, 1503-1512).
THEOREM InUseIsOpenHolds == Spec => []InUseIsOpen
<1>1. ASSUME IndInv PROVE InUseIsOpen
  <2>1. \A c \in Thread: /\ \A q \in pmd[c].snap: q[2] < port[q[1]].rxq
                         /\ \A d \in Dev: Uses(c, d) => port[d].st # "none"
    BY <1>1 DEF IndInv, OpenInv
  <2>2. ASSUME main.pc = "ports", NEW d \in main.todo, port[d].need, NEW c \in Thread
        PROVE  ~ Uses(c, d)
    <3>1. AtWork /\ Phase = "ports"  BY <2>2 DEF AtWork, Phase, HandshakePc
    <3>2. CASE d \in Dev
      <4>1. Gone(d)  BY <1>1, <2>2, <3>1, <3>2 DEF IndInv, GoneInv
      <4>2. QED  BY <1>1, <3>1, <3>2, <4>1, GoneUnused
    <3>3. CASE d \notin Dev
      <4>1. StateTypes  BY <1>1 DEF IndInv
      <4>2. pmd[c].snap \subseteq Queue /\ DOMAIN pmd[c].cache \subseteq Dev  BY <4>1, PmdFields
      <4>3. QED  BY <3>3, <4>2, QueueDev DEF Uses
    <3>4. QED  BY <3>2, <3>3
  <2>3. QED  BY <2>1, <2>2 DEF InUseIsOpen
<1>2. QED  BY Invariance, <1>1, PTL

\* txq_used is the number of threads that use each transmit queue, whenever the
\* queues are chosen, given up or changed (dpif-netdev.c:4405-4473, 3466-3488).
THEOREM TxqUsedCountsHolds == Spec => []TxqUsedCounts
<1>1. IndInv => TxqUsedCounts  BY DEF IndInv
<1>2. QED  BY Invariance, <1>1, PTL

\* Without XPS a thread sends to a polled device on a queue that the device has and
\* that no other thread uses (dpif-netdev.c:3701-3734, 3236-3242, 4551-4568).
THEOREM OwnTxqHolds == Spec => []OwnTxq
<1>1. ASSUME IndInv PROVE OwnTxq
  <2>1. HandshakeInv /\ TidInv  BY <1>1 DEF IndInv
  <2>2. ASSUME NEW d \in PmdDev, ~ port[d].dynamic, NEW c \in Thread, d \in DOMAIN pmd[c].cache
        PROVE  pmd[c].tid < netdev[d].txq
    BY <2>1, <2>2 DEF TidInv
  <2>3. \A c \in Thread: DOMAIN pmd[c].cache # {} => c \in Polling
    BY <2>1, EmptyTypes DEF HandshakeInv, Polling, NoPmd
  <2>4. ASSUME NEW d \in PmdDev, NEW c \in Thread, NEW e \in Thread \ {c},
               d \in DOMAIN pmd[c].cache, d \in DOMAIN pmd[e].cache
        PROVE  pmd[c].tid # pmd[e].tid
    BY <2>1, <2>3, <2>4 DEF TidInv
  <2>5. QED  BY <2>2, <2>4 DEF OwnTxq
<1>2. QED  BY Invariance, <1>1, PTL
-----------------------------------------------------------------------------
(* At rest: the copies of the threads *)

\* The copies of thread c are its lists.
Exact(c) == DOMAIN pmd[c].cache = pmd[c].tx /\ (c # NonPmd => pmd[c].snap = pmd[c].polls)

\* The main thread is at work with thread c.
Told(c) == main.pc \in {"signal", "set", "wait", "woken"} /\ main.on = c

Waits(c) == main.pc = "add" \/ (main.pc \in HandshakePc /\ (c \in main.todo \/ Told(c)))

\* Thread c has exact copies, unless it is marked to reload; if it is marked it will
\* be told, and if it is told to end, or has ended, the main thread waits for that.
Synced(c) ==
    /\ \/ Exact(c)
       \/ pmd[c].pc = "ended"
       \/ pmd[c].need /\ ~ (main.pc = "woken" /\ main.on = c)
    /\ pmd[c].pc = "loaded" => Exact(c)
    /\ pmd[c].need => Waits(c)
    /\ pmd[c].latch \/ pmd[c].pc \in {"exit", "ended"} => Told(c) /\ Ending

SyncedInv == \A c \in Thread: Synced(c)

\* When the main thread does not wait all copies are exact and nothing is marked.
LEMMA AllSynced ==
  ASSUME IndInv, SyncedInv, AtWork, NEW c \in Thread
  PROVE  /\ main.pc # "add" => Exact(c) /\ ~ pmd[c].need
         /\ Exact(c) \/ pmd[c].need
         /\ ~ pmd[c].latch /\ pmd[c].pc \notin {"exit", "ended", "loaded"}
<1>1. Synced(c) /\ ~ pmd[c].reload  BY NoneDue DEF SyncedInv
<1>2. pmd[c].pc # "loaded"  BY <1>1 DEF IndInv, HandshakeInv
<1>3. ~ Told(c) /\ (main.pc # "add" => ~ Waits(c))  BY DEF Told, Waits, AtWork, HandshakePc
<1>4. QED  BY <1>1, <1>2, <1>3 DEF Synced

\* What of thread c matters here.
SameThread(c) ==
    /\ pmd'[c].pc = pmd[c].pc /\ pmd'[c].need = pmd[c].need /\ pmd'[c].latch = pmd[c].latch
    /\ pmd'[c].snap = pmd[c].snap /\ pmd'[c].polls = pmd[c].polls /\ pmd'[c].tx = pmd[c].tx
    /\ DOMAIN pmd'[c].cache = DOMAIN pmd[c].cache

\* The main thread goes on with thread c, or leaves it where it is.
MainKeeps(c) ==
    /\ main'.pc = "woken" /\ main'.on = c => main.pc = "woken" /\ main.on = c
    /\ Waits(c) => Waits(c)'
    /\ Told(c) /\ Ending => Told(c)' /\ Ending'

LEMMA SyncedKept ==
  ASSUME NEW c \in Thread, Synced(c), SameThread(c), MainKeeps(c)
  PROVE  Synced(c)'
<1>1. Exact(c)' <=> Exact(c)  BY DEF Exact, SameThread
<1>2. QED  BY <1>1 DEF Synced, SameThread, MainKeeps

LEMMA SameMainKeeps ==
  ASSUME main' = main, NEW c \in Thread
  PROVE  MainKeeps(c)
BY DEF MainKeeps, Waits, Told, Ending

\* Steps of the main thread while no thread is to reload.
LEMMA AtWorkSynced ==
  ASSUME IndInv, SyncedInv, AtWork, main.pc # "add", pmd' = pmd
  PROVE  SyncedInv'
<1>1. ASSUME NEW c \in Thread PROVE Synced(c)'
  <2>1. /\ Exact(c) /\ ~ pmd[c].need /\ ~ pmd[c].latch
        /\ pmd[c].pc \notin {"exit", "ended", "loaded"}
    BY AllSynced
  <2>2. Exact(c)'  BY <2>1 DEF Exact
  <2>3. QED  BY <2>1, <2>2 DEF Synced
<1>2. QED  BY <1>1 DEF SyncedInv

\* Thread c moves, and the others stay.
LEMMA OneSynced ==
  ASSUME SyncedInv, NEW c \in Thread, Synced(c)',
         \A e \in Thread: e # c => pmd'[e] = pmd[e] /\ MainKeeps(e)
  PROVE  SyncedInv'
<1>1. ASSUME NEW e \in Thread, e # c PROVE Synced(e)'
  <2>1. SameThread(e)  BY <1>1 DEF SameThread
  <2>2. QED  BY <1>1, <2>1, SyncedKept DEF SyncedInv
<1>2. QED  BY <1>1 DEF SyncedInv

LEMMA NoPmdSynced ==
  ASSUME NEW c \in Thread, pmd'[c] = NoPmd
  PROVE  Synced(c)'
<1>1. /\ pmd'[c].pc = "none" /\ ~ pmd'[c].need /\ ~ pmd'[c].latch
      /\ pmd'[c].snap = {} /\ pmd'[c].polls = {} /\ pmd'[c].tx = {} /\ DOMAIN pmd'[c].cache = {}
  BY EmptyTypes DEF NoPmd
<1>2. Exact(c)'  BY <1>1 DEF Exact
<1>3. QED  BY <1>1, <1>2 DEF Synced

\* A device has at least one transmit queue, so that every port is copied.
LEMMA CopiedAll ==
  ASSUME StateTypes, NEW c \in Thread
  PROVE  DOMAIN Copied(c) = pmd[c].tx
<1>1. pmd[c].tx \in SUBSET Dev  BY PmdFields
<1>2. \A e \in Dev: netdev[e].txq > 0
  <2>1. \A e \in Dev: netdev[e] \in Device  BY DEF StateTypes
  <2>2. QED  BY <2>1 DEF Device
<1>3. {e \in pmd[c].tx: netdev[e].txq > 0} = pmd[c].tx  BY <1>1, <1>2
<1>4. QED  BY <1>3 DEF Copied

\* pmd_load_queues_and_ports, by a thread that goes on at pc.
LEMMA LoadSynced ==
  ASSUME IndInv, SyncedInv, NEW c \in Core, NEW pc \in {"block", "poll", "loaded"},
         pmd[c].pc \in {"start", "poll"}, LoadQueues(c, pc), main' = main
  PROVE  SyncedInv'
<1>0. c \in Thread /\ c # NonPmd /\ StateTypes /\ Synced(c)
  BY CoreThreads DEF IndInv, SyncedInv
<1>1. pmd[c] \in PmdState  BY <1>0, PmdFields
<1>2. pmd' = [pmd EXCEPT ![c] = [pmd[c] EXCEPT !.snap = pmd[c].polls, !.cache = Copied(c), !.pc = pc]]
  BY DEF LoadQueues
<1>3. /\ pmd'[c] = [pmd[c] EXCEPT !.snap = pmd[c].polls, !.cache = Copied(c), !.pc = pc]
      /\ \A e \in Thread: e # c => pmd'[e] = pmd[e]
  BY <1>0, <1>2 DEF StateTypes
<1>4. /\ pmd'[c].snap = pmd[c].polls /\ pmd'[c].polls = pmd[c].polls /\ pmd'[c].tx = pmd[c].tx
      /\ pmd'[c].cache = Copied(c) /\ pmd'[c].pc = pc /\ pmd'[c].need = pmd[c].need
      /\ pmd'[c].latch = pmd[c].latch
  BY <1>1, <1>3 DEF PmdState
<1>5. Exact(c)'  BY <1>0, <1>4, CopiedAll DEF Exact
<1>6. \A e \in Thread: MainKeeps(e)  BY SameMainKeeps
<1>7. Synced(c)'  BY <1>0, <1>4, <1>5, <1>6 DEF Synced, MainKeeps
<1>8. QED  BY <1>0, <1>3, <1>6, <1>7, OneSynced

LEMMA StartSynced == ASSUME IndInv, SyncedInv, NEW c \in Core, Start(c) PROVE SyncedInv'
<1>1. CASE pmd[c].polls = {}  BY <1>1, LoadSynced DEF Start
<1>2. CASE pmd[c].polls # {}  BY <1>2, LoadSynced DEF Start
<1>3. QED  BY <1>1, <1>2

LEMMA ReloadSynced == ASSUME IndInv, SyncedInv, NEW c \in Core, Reload(c) PROVE SyncedInv'
  BY LoadSynced DEF Reload

LEMMA UnblockSynced == ASSUME IndInv, SyncedInv, NEW c \in Core, Unblock(c) PROVE SyncedInv'
<1>0. c \in Thread /\ StateTypes /\ Synced(c)  BY CoreThreads DEF IndInv, SyncedInv
<1>1. pmd[c] \in PmdState  BY <1>0, PmdFields
<1>2. pmd' = [pmd EXCEPT ![c] = [pmd[c] EXCEPT !.pc = "poll"]] /\ main' = main /\ pmd[c].pc = "block"
  BY DEF Unblock
<1>3. /\ pmd'[c] = [pmd[c] EXCEPT !.pc = "poll"]
      /\ \A e \in Thread: e # c => pmd'[e] = pmd[e]
  BY <1>0, <1>2 DEF StateTypes
<1>4. /\ pmd'[c].snap = pmd[c].snap /\ pmd'[c].polls = pmd[c].polls /\ pmd'[c].tx = pmd[c].tx
      /\ pmd'[c].cache = pmd[c].cache /\ pmd'[c].pc = "poll" /\ pmd'[c].need = pmd[c].need
      /\ pmd'[c].latch = pmd[c].latch
  BY <1>1, <1>3 DEF PmdState
<1>5. Exact(c)' <=> Exact(c)  BY <1>4 DEF Exact
<1>6. \A e \in Thread: MainKeeps(e)  BY <1>2, SameMainKeeps
<1>7. Synced(c)'  BY <1>0, <1>2, <1>4, <1>5, <1>6 DEF Synced, MainKeeps
<1>8. QED  BY <1>0, <1>3, <1>6, <1>7, OneSynced

\* A thread tells the main thread that it has reloaded only with exact copies.
LEMMA ReloadDoneSynced == ASSUME IndInv, SyncedInv, NEW c \in Core, ReloadDone(c) PROVE SyncedInv'
<1>0. c \in Thread /\ StateTypes /\ HandshakeInv /\ Synced(c)
  BY CoreThreads DEF IndInv, SyncedInv
<1>1. pmd[c] \in PmdState  BY <1>0, PmdFields
<1>p. PICK pc \in {"exit", "block", "poll"}:
         pc = IF pmd[c].latch THEN "exit" ELSE IF pmd[c].snap = {} THEN "block" ELSE "poll"
  OBVIOUS
<1>2. /\ pmd' = [pmd EXCEPT ![c] = [pmd[c] EXCEPT !.reload = FALSE, !.seq = FALSE, !.pc = pc]]
      /\ pmd[c].pc = "loaded"
  BY <1>p DEF ReloadDone
<1>3. /\ pmd'[c] = [pmd[c] EXCEPT !.reload = FALSE, !.seq = FALSE, !.pc = pc]
      /\ \A e \in Thread: e # c => pmd'[e] = pmd[e]
  BY <1>0, <1>2 DEF StateTypes
<1>4. /\ pmd'[c].snap = pmd[c].snap /\ pmd'[c].polls = pmd[c].polls /\ pmd'[c].tx = pmd[c].tx
      /\ pmd'[c].cache = pmd[c].cache /\ pmd'[c].pc = pc /\ pmd'[c].need = pmd[c].need
      /\ pmd'[c].latch = pmd[c].latch
  BY <1>1, <1>3 DEF PmdState
<1>5. Exact(c)'
  <2>1. Exact(c)  BY <1>0, <1>2 DEF Synced
  <2>2. QED  BY <1>4, <2>1 DEF Exact
<1>6. main.pc = "wait" /\ main.on = c /\ main' = [main EXCEPT !.pc = "woken"]
  BY <1>0, <1>2 DEF HandshakeInv, ReloadDone, Locked
<1>7. main' = [pc |-> "woken", todo |-> main.todo, on |-> c, next |-> main.next, del |-> main.del, saved |-> main.saved]
  BY <1>0, <1>6, MainFields
<1>8. Told(c)' /\ (Ending' <=> Ending) /\ Waits(c)'
  BY <1>7 DEF Told, Ending, Waits, HandshakePc
<1>9. pc = "exit" => pmd[c].latch  BY <1>p
<1>10. Synced(c)'
  <2>1. pmd[c].latch => Ending  BY <1>0 DEF Synced
  <2>2. pmd'[c].latch \/ pmd'[c].pc \in {"exit", "ended"} => Ending'
    BY <1>4, <1>8, <1>9, <2>1
  <2>3. pmd'[c].pc # "loaded"  BY <1>4
  <2>4. QED  BY <1>5, <1>8, <2>2, <2>3 DEF Synced
<1>11. \A e \in Thread: e # c => MainKeeps(e)
  BY <1>6, <1>7 DEF MainKeeps, Waits, Told, Ending, HandshakePc
<1>12. QED  BY <1>0, <1>3, <1>10, <1>11, OneSynced

LEMMA ExitSynced == ASSUME IndInv, SyncedInv, NEW c \in Core, Exit(c) PROVE SyncedInv'
<1>0. c \in Thread /\ StateTypes /\ Synced(c)  BY CoreThreads DEF IndInv, SyncedInv
<1>1. pmd[c] \in PmdState  BY <1>0, PmdFields
<1>2. /\ pmd' = [pmd EXCEPT ![c] = [pmd[c] EXCEPT !.pc = "ended", !.cache = <<>>, !.snap = {}]]
      /\ main' = main /\ pmd[c].pc = "exit"
  BY DEF Exit
<1>3. /\ pmd'[c] = [pmd[c] EXCEPT !.pc = "ended", !.cache = <<>>, !.snap = {}]
      /\ \A e \in Thread: e # c => pmd'[e] = pmd[e]
  BY <1>0, <1>2 DEF StateTypes
<1>4. /\ pmd'[c].pc = "ended" /\ pmd'[c].need = pmd[c].need /\ pmd'[c].latch = pmd[c].latch
  BY <1>1, <1>3 DEF PmdState
<1>6. \A e \in Thread: MainKeeps(e)  BY <1>2, SameMainKeeps
<1>7. Synced(c)'  BY <1>0, <1>2, <1>4, <1>6 DEF Synced, MainKeeps
<1>8. QED  BY <1>0, <1>3, <1>6, <1>7, OneSynced

\* Sending changes the queues in use, not for which ports.
LEMMA SendPmd ==
  ASSUME IndInv, NEW c \in Thread, Send(c)
  PROVE  /\ SamePorts(port') /\ \A d \in Dev: port'[d].no = port[d].no /\ port'[d].aff = port[d].aff
         /\ \E k \in Caches: DOMAIN k = DOMAIN pmd[c].cache /\ pmd' = [pmd EXCEPT ![c].cache = k]
<1>0. StateTypes /\ SharedInv /\ TxqUsedCounts /\ pmd[c] \in PmdState /\ pmd[c].cache \in Caches
  BY PmdFields DEF IndInv
<1>1. PICK d \in DOMAIN pmd[c].cache, late \in SUBSET DOMAIN pmd[c].cache:
         port[d].dynamic /\ SendXps(c, d, late)
  BY DEF Send
<1>2. CASE pmd[c].cache[d] >= 0 /\ d \notin late
  <2>1. port' = port /\ pmd' = pmd  BY <1>1, <1>2 DEF SendXps
  <2>2. pmd' = [pmd EXCEPT ![c].cache = pmd[c].cache]  BY <1>0, <2>1 DEF StateTypes, PmdState
  <2>3. QED  BY <1>0, <2>1, <2>2 DEF SamePorts
<1>3. CASE ~ (pmd[c].cache[d] >= 0 /\ d \notin late)
  <2>1. /\ SamePorts(port')
        /\ \E k \in Caches: DOMAIN k = DOMAIN pmd[c].cache /\ pmd' = [pmd EXCEPT ![c].cache = k]
    BY <1>0, <1>1, <1>3, SendSharing
  <2>2. late \in SUBSET Dev  BY <1>0, PmdFields
  <2>a. PICK after: after = Released(c, late)  OBVIOUS
  <2>3. after = [e \in Dev |-> [st |-> port[e].st, no |-> port[e].no, need |-> port[e].need,
                                rxq |-> port[e].rxq, dynamic |-> port[e].dynamic,
                                used |-> after[e].used, aff |-> port[e].aff, pmd |-> port[e].pmd]]
    BY <1>0, <2>2, <2>a, ReleasedFields
  <2>4. PICK u: port' = [after EXCEPT ![d].used = u]
    <3>1. PICK q: port' = [after EXCEPT ![d].used[q] = @ + 1]  BY <1>1, <1>3, <2>a DEF SendXps
    <3>2. port' = [after EXCEPT ![d].used = [after[d].used EXCEPT ![q] = @ + 1]]  BY <3>1
    <3>3. QED  BY <3>2
  <2>5. \A e \in Dev: port'[e].no = port[e].no /\ port'[e].aff = port[e].aff
    <3>1. TAKE e \in Dev
    <3>2. after[e].no = port[e].no /\ after[e].aff = port[e].aff  BY <2>3
    <3>3. port'[e].no = after[e].no /\ port'[e].aff = after[e].aff  BY <2>3, <2>4
    <3>4. QED  BY <3>2, <3>3
  <2>6. QED  BY <2>1, <2>5
<1>4. QED  BY <1>2, <1>3

LEMMA SendSynced == ASSUME IndInv, SyncedInv, NEW c \in Thread, Send(c) PROVE SyncedInv'
<1>0. StateTypes /\ Synced(c) /\ pmd[c] \in PmdState  BY PmdFields DEF IndInv, SyncedInv
<1>1. PICK k \in Caches: DOMAIN k = DOMAIN pmd[c].cache /\ pmd' = [pmd EXCEPT ![c].cache = k]
  BY SendPmd
<1>2. main' = main  BY DEF Send
<1>3. /\ pmd'[c] = [pmd[c] EXCEPT !.cache = k]
      /\ \A e \in Thread: e # c => pmd'[e] = pmd[e]
  BY <1>0, <1>1 DEF StateTypes
<1>4. SameThread(c)  BY <1>0, <1>1, <1>3 DEF PmdState, SameThread
<1>5. \A e \in Thread: MainKeeps(e)  BY <1>2, SameMainKeeps
<1>6. Synced(c)'  BY <1>0, <1>4, <1>5, SyncedKept
<1>7. QED  BY <1>3, <1>5, <1>6, OneSynced

LEMMA ReloadNonPmdSynced == ASSUME IndInv, SyncedInv, ReloadNonPmd PROVE SyncedInv'
<1> DEFINE c == NonPmd
<1>0. c \in Thread /\ StateTypes /\ Synced(c) /\ HandshakeInv
  BY CoreThreads DEF IndInv, SyncedInv
<1>1. pmd[c] \in PmdState  BY <1>0, PmdFields
<1>2. /\ pmd' = [pmd EXCEPT ![c] = [pmd[c] EXCEPT !.cache = Copied(c), !.need = FALSE]]
      /\ main.pc = "reload" /\ main' = [main EXCEPT !.todo = @ \ {c}]
  BY DEF ReloadNonPmd
<1>3. /\ pmd'[c] = [pmd[c] EXCEPT !.cache = Copied(c), !.need = FALSE]
      /\ \A e \in Thread: e # c => pmd'[e] = pmd[e]
  BY <1>0, <1>2 DEF StateTypes
<1>4. /\ pmd'[c].tx = pmd[c].tx /\ pmd'[c].cache = Copied(c) /\ pmd'[c].need = FALSE
      /\ pmd'[c].pc = pmd[c].pc /\ pmd'[c].latch = pmd[c].latch
  BY <1>1, <1>3 DEF PmdState
<1>5. Exact(c)'  BY <1>0, <1>4, CopiedAll DEF Exact
<1>t. PICK t: t = main.todo \ {c}  OBVIOUS
<1>6. main' = [pc |-> "reload", todo |-> t, on |-> main.on, next |-> main.next, del |-> main.del, saved |-> main.saved]
  BY <1>0, <1>2, <1>t, MainFields
<1>7. ~ Told(c)  BY <1>2 DEF Told
<1>8. Synced(c)'  BY <1>0, <1>4, <1>5, <1>7 DEF Synced
<1>9. \A e \in Thread: e # c => MainKeeps(e)
  BY <1>2, <1>6, <1>t DEF MainKeeps, Waits, Told, Ending, HandshakePc
<1>10. QED  BY <1>0, <1>3, <1>8, <1>9, OneSynced

LEMMA ReloadSeqSynced == ASSUME IndInv, SyncedInv, ReloadSeq PROVE SyncedInv'
<1>1. PICK c \in main.todo \ {NonPmd}:
         /\ pmd' = [pmd EXCEPT ![c].seq = TRUE, ![c].latch = Ending]
         /\ main' = [main EXCEPT !.pc = "signal", !.on = c, !.todo = @ \ {c}]
  BY DEF ReloadSeq
<1>2. main.pc = "reload"  BY DEF ReloadSeq
<1>3. StateTypes /\ HandshakeInv  BY DEF IndInv
<1>4. c \in Thread /\ Synced(c)
  BY <1>1, <1>2, <1>3, PollingThreads DEF HandshakeInv, HandshakePc, SyncedInv
<1>t. PICK t: t = main.todo \ {c}  OBVIOUS
<1>6. main' = [pc |-> "signal", todo |-> t, on |-> c, next |-> main.next, del |-> main.del, saved |-> main.saved]
  BY <1>1, <1>3, <1>t, MainFields
<1>7. pmd[c] \in PmdState  BY <1>3, <1>4, PmdFields
<1>b. PICK latch: latch = Ending  OBVIOUS
<1>8. /\ pmd'[c] = [pmd[c] EXCEPT !.seq = TRUE, !.latch = latch]
      /\ \A e \in Thread: e # c => pmd'[e] = pmd[e]
  BY <1>1, <1>3, <1>4, <1>b DEF StateTypes
<1>9. /\ pmd'[c].snap = pmd[c].snap /\ pmd'[c].polls = pmd[c].polls /\ pmd'[c].tx = pmd[c].tx
      /\ pmd'[c].cache = pmd[c].cache /\ pmd'[c].pc = pmd[c].pc /\ pmd'[c].need = pmd[c].need
      /\ pmd'[c].latch = latch
  BY <1>7, <1>8 DEF PmdState
<1>10. Exact(c)' <=> Exact(c)  BY <1>9 DEF Exact
<1>11. Told(c)' /\ Waits(c)' /\ (Ending' <=> Ending) /\ ~ Told(c)
  BY <1>2, <1>6 DEF Told, Waits, Ending, HandshakePc
<1>12. Synced(c)'
  <2>1. pmd[c].pc \notin {"exit", "ended"}  BY <1>4, <1>11 DEF Synced
  <2>2. pmd'[c].latch => Ending'  BY <1>9, <1>11, <1>b
  <2>3. main'.pc # "woken"  BY <1>6
  <2>4. QED  BY <1>4, <1>9, <1>10, <1>11, <2>1, <2>2, <2>3 DEF Synced
<1>13. \A e \in Thread: e # c => MainKeeps(e)
  BY <1>2, <1>6, <1>t DEF MainKeeps, Waits, Told, HandshakePc
<1>14. QED  BY <1>4, <1>8, <1>12, <1>13, OneSynced

LEMMA ReloadSetSynced == ASSUME IndInv, SyncedInv, ReloadSet PROVE SyncedInv'
<1>1. /\ main.pc = "signal" /\ pmd' = [pmd EXCEPT ![main.on].reload = TRUE]
      /\ main' = [main EXCEPT !.pc = "set"]
  BY DEF ReloadSet
<1>2. StateTypes /\ HandshakeInv  BY DEF IndInv
<1>c. PICK c \in Thread: c = main.on  BY <1>1, <1>2, PollingThreads DEF HandshakeInv
<1>3. pmd[c] \in PmdState /\ Synced(c)  BY <1>2, PmdFields DEF SyncedInv
<1>4. /\ pmd'[c] = [pmd[c] EXCEPT !.reload = TRUE]
      /\ \A e \in Thread: e # c => pmd'[e] = pmd[e]
  BY <1>1, <1>2, <1>c DEF StateTypes
<1>5. SameThread(c)  BY <1>3, <1>4 DEF PmdState, SameThread
<1>6. main' = [pc |-> "set", todo |-> main.todo, on |-> c, next |-> main.next, del |-> main.del, saved |-> main.saved]
  BY <1>1, <1>2, <1>c, MainFields
<1>7. \A e \in Thread: MainKeeps(e)
  BY <1>1, <1>6, <1>c DEF MainKeeps, Waits, Told, Ending, HandshakePc
<1>8. Synced(c)'  BY <1>3, <1>5, <1>7, SyncedKept
<1>9. QED  BY <1>4, <1>7, <1>8, OneSynced

LEMMA ReloadWaitSynced == ASSUME IndInv, SyncedInv, ReloadWait PROVE SyncedInv'
<1>1. main.pc = "set" /\ main' = [main EXCEPT !.pc = "wait"] /\ pmd' = pmd  BY DEF ReloadWait
<1>2. StateTypes  BY DEF IndInv
<1>3. main' = [pc |-> "wait", todo |-> main.todo, on |-> main.on, next |-> main.next, del |-> main.del, saved |-> main.saved]
  BY <1>1, <1>2, MainFields
<1>4. \A e \in Thread: MainKeeps(e)
  BY <1>1, <1>3 DEF MainKeeps, Waits, Told, Ending, HandshakePc
<1>5. \A e \in Thread: SameThread(e)  BY <1>1 DEF SameThread
<1>6. QED  BY <1>4, <1>5, SyncedKept DEF SyncedInv

\* The thread that was waited for has reloaded, and has exact copies, or has ended.
LEMMA ReloadNextSynced == ASSUME IndInv, SyncedInv, ReloadNext PROVE SyncedInv'
<1>1. main.pc = "woken" /\ main' = [main EXCEPT !.pc = "reload", !.on = None]  BY DEF ReloadNext
<1>2. StateTypes /\ HandshakeInv  BY DEF IndInv
<1>c. PICK c \in Thread: c = main.on  BY <1>1, <1>2, PollingThreads DEF HandshakeInv
<1>3. pmd[c] \in PmdState /\ Synced(c)  BY <1>2, PmdFields DEF SyncedInv
<1>4. main' = [pc |-> "reload", todo |-> main.todo, on |-> None, next |-> main.next, del |-> main.del, saved |-> main.saved]
  BY <1>1, <1>2, MainFields
<1>5. \A e \in Thread: e # c => MainKeeps(e)
  BY <1>1, <1>4, <1>c DEF MainKeeps, Waits, Told, Ending, HandshakePc
<1>6. CASE Ending
  <2>1. pmd' = [pmd EXCEPT ![c] = NoPmd]  BY <1>6, <1>c DEF ReloadNext
  <2>2. pmd'[c] = NoPmd /\ \A e \in Thread: e # c => pmd'[e] = pmd[e]
    BY <1>2, <2>1 DEF StateTypes
  <2>3. Synced(c)'  BY <2>2, NoPmdSynced
  <2>4. QED  BY <1>5, <2>2, <2>3, OneSynced
<1>7. CASE ~ Ending
  <2>1. pmd' = [pmd EXCEPT ![c] = [pmd[c] EXCEPT !.need = FALSE]]  BY <1>7, <1>c DEF ReloadNext
  <2>2. /\ pmd'[c] = [pmd[c] EXCEPT !.need = FALSE]
        /\ \A e \in Thread: e # c => pmd'[e] = pmd[e]
    BY <1>2, <2>1 DEF StateTypes
  <2>3. /\ pmd'[c].snap = pmd[c].snap /\ pmd'[c].polls = pmd[c].polls /\ pmd'[c].tx = pmd[c].tx
        /\ pmd'[c].cache = pmd[c].cache /\ pmd'[c].pc = pmd[c].pc /\ pmd'[c].need = FALSE
        /\ pmd'[c].latch = pmd[c].latch
    BY <1>3, <2>2 DEF PmdState
  <2>4. ~ pmd[c].latch /\ pmd[c].pc \notin {"exit", "ended"}  BY <1>3, <1>7 DEF Synced
  <2>5. Exact(c)  BY <1>1, <1>3, <1>c, <2>4 DEF Synced
  <2>6. Exact(c)'  BY <2>3, <2>5 DEF Exact
  <2>7. Synced(c)'  BY <2>3, <2>4, <2>6 DEF Synced
  <2>8. QED  BY <1>5, <2>2, <2>7, OneSynced
<1>8. QED  BY <1>6, <1>7

\* The lists of thread c change, and it is marked to reload if they do.
Relists(c) ==
    /\ pmd'[c].pc = pmd[c].pc /\ pmd'[c].latch = pmd[c].latch
    /\ pmd'[c].snap = pmd[c].snap /\ pmd'[c].cache = pmd[c].cache
    /\ pmd'[c].need <=> pmd[c].need \/ pmd'[c].polls # pmd[c].polls \/ pmd'[c].tx # pmd[c].tx

LEMMA StaleLists ==
  ASSUME IndInv, Stale, NEW c \in Thread
  PROVE  /\ Relists(c)
         /\ pmd[c] = NoPmd => pmd'[c].polls = {} /\ pmd'[c].tx = {}
<1> DEFINE stale == {d \in Dev: port'[d].need \/ d \notin Ports}
<1>1. /\ pmd[c] \in PmdState /\ pmd[c].polls \in SUBSET Queue /\ pmd[c].tx \in SUBSET Dev
      /\ pmd[c].need \in BOOLEAN
  BY PmdFields DEF IndInv
<1>2. PICK P: P = {q \in pmd[c].polls: q[1] \notin stale}  OBVIOUS
<1>3. PICK T: T = pmd[c].tx \ stale  OBVIOUS
<1>4. PICK b: b = (pmd[c].need \/ P # pmd[c].polls \/ T # pmd[c].tx)  OBVIOUS
<1>5. pmd'[c] = WithoutStale(pmd[c], stale)  BY DEF Stale
<1> HIDE DEF stale
<1>6. pmd'[c] = [pmd[c] EXCEPT !.polls = P, !.tx = T, !.need = b]
  BY <1>2, <1>3, <1>4, <1>5 DEF WithoutStale
<1>7. /\ pmd'[c].polls = P /\ pmd'[c].tx = T /\ pmd'[c].need = b
      /\ pmd'[c].pc = pmd[c].pc /\ pmd'[c].latch = pmd[c].latch
      /\ pmd'[c].snap = pmd[c].snap /\ pmd'[c].cache = pmd[c].cache
  <2>1. P \in SUBSET Queue /\ T \in SUBSET Dev /\ b \in BOOLEAN  BY <1>1, <1>2, <1>3, <1>4
  <2>2. PICK p \in PmdState: p = pmd[c]  BY <1>1
  <2>3. Relisted(p, P, T, b, [p EXCEPT !.polls = P, !.tx = T, !.need = b])  BY <2>1, NewLists
  <2>4. Relisted(p, P, T, b, pmd'[c])  BY <1>6, <2>2, <2>3
  <2>5. QED  BY <2>2, <2>4 DEF Relisted
<1>8. Relists(c)  BY <1>4, <1>7 DEF Relists
<1>9. pmd[c] = NoPmd => P = {} /\ T = {}  BY <1>2, <1>3 DEF NoPmd
<1>10. QED  BY <1>7, <1>8, <1>9

LEMMA ScheduleLists ==
  ASSUME IndInv, Schedule, NEW c \in Thread
  PROVE  /\ Relists(c)
         /\ pmd[c] = NoPmd => pmd'[c].polls = {} /\ pmd'[c].tx = {}
<1>1. /\ pmd[c] \in PmdState /\ pmd[c].polls \in SUBSET Queue /\ pmd[c].tx \in SUBSET Dev
      /\ pmd[c].need \in BOOLEAN
  BY PmdFields DEF IndInv
<1>2. PICK P: P = {q \in pmd[c].polls: port'[q[1]].pmd[q[2]] = c}  OBVIOUS
<1>4. PICK b: b = (pmd[c].need \/ P # pmd[c].polls)  OBVIOUS
<1>6. pmd'[c] = [pmd[c] EXCEPT !.polls = P, !.need = b]
  <2>1. pmd' = [e \in Thread |->
                  LET polls == {q \in pmd[e].polls: port'[q[1]].pmd[q[2]] = e} IN
                  [pmd[e] EXCEPT !.polls = polls, !.need = @ \/ polls # pmd[e].polls]]
    BY DEF Schedule
  <2>2. QED  BY <1>2, <1>4, <2>1
<1>7. /\ pmd'[c].polls = P /\ pmd'[c].tx = pmd[c].tx /\ pmd'[c].need = b
      /\ pmd'[c].pc = pmd[c].pc /\ pmd'[c].latch = pmd[c].latch
      /\ pmd'[c].snap = pmd[c].snap /\ pmd'[c].cache = pmd[c].cache
  <2>1. P \in SUBSET Queue /\ b \in BOOLEAN  BY <1>1, <1>2, <1>4
  <2>2. PICK p \in PmdState: p = pmd[c]  BY <1>1
  <2>3. Relisted(p, P, p.tx, b, [p EXCEPT !.polls = P, !.need = b])  BY <2>1, NewPolls
  <2>4. Relisted(p, P, p.tx, b, pmd'[c])  BY <1>6, <2>2, <2>3
  <2>5. QED  BY <2>2, <2>4 DEF Relisted
<1>8. Relists(c)  BY <1>4, <1>7 DEF Relists
<1>9. pmd[c] = NoPmd => P = {} /\ pmd[c].tx = {}  BY <1>2 DEF NoPmd
<1>10. QED  BY <1>7, <1>8, <1>9

\* The queues of port d that are for thread c.
NewQueues(d, c) == {q \in Queues: q[1] = d /\ port[d].pmd[q[2]] = c}

LEMMA AddQueuesLists ==
  ASSUME IndInv, NEW d \in Dev, AddQueues(d), NEW c \in Thread
  PROVE  Relists(c) /\ pmd'[c].polls = pmd[c].polls \cup NewQueues(d, c) /\ pmd'[c].tx = pmd[c].tx
<1>1. /\ pmd[c] \in PmdState /\ pmd[c].polls \in SUBSET Queue /\ pmd[c].tx \in SUBSET Dev
      /\ pmd[c].need \in BOOLEAN
  BY PmdFields DEF IndInv
<1>2. PICK P: P = pmd[c].polls \cup NewQueues(d, c)  OBVIOUS
<1>4. PICK b: b = (pmd[c].need \/ ~ (NewQueues(d, c) \subseteq pmd[c].polls))  OBVIOUS
<1>6. pmd'[c] = [pmd[c] EXCEPT !.polls = P, !.need = b]
  <2>1. pmd' = [e \in Thread |-> [pmd[e] EXCEPT !.polls = @ \cup NewQueues(d, e),
                                                !.need = @ \/ ~ (NewQueues(d, e) \subseteq pmd[e].polls)]]
    BY DEF AddQueues, NewQueues
  <2>2. QED  BY <1>2, <1>4, <2>1
<1>7. /\ pmd'[c].polls = P /\ pmd'[c].tx = pmd[c].tx /\ pmd'[c].need = b
      /\ pmd'[c].pc = pmd[c].pc /\ pmd'[c].latch = pmd[c].latch
      /\ pmd'[c].snap = pmd[c].snap /\ pmd'[c].cache = pmd[c].cache
  <2>1. P \in SUBSET Queue /\ b \in BOOLEAN  BY <1>1, <1>2, <1>4 DEF NewQueues, Queues
  <2>2. PICK p \in PmdState: p = pmd[c]  BY <1>1
  <2>3. Relisted(p, P, p.tx, b, [p EXCEPT !.polls = P, !.need = b])  BY <2>1, NewPolls
  <2>4. Relisted(p, P, p.tx, b, pmd'[c])  BY <1>6, <2>2, <2>3
  <2>5. QED  BY <2>2, <2>4 DEF Relisted
<1>8. Relists(c)  BY <1>2, <1>4, <1>7 DEF Relists
<1>9. QED  BY <1>2, <1>7, <1>8

\* The ports that the list of thread c does not have, by their numbers.
NewPorts(c) == {d \in Ports: \A e \in pmd[c].tx: port[e].no # port[d].no}

LEMMA AddTxLists ==
  ASSUME IndInv, AddTx, NEW c \in Thread
  PROVE  /\ Relists(c) /\ pmd'[c].polls = pmd[c].polls
         /\ pmd'[c].tx = pmd[c].tx \cup (IF c \in Polling /\ (c = NonPmd \/ pmd[c].polls # {})
                                           THEN NewPorts(c) ELSE {})
         /\ c \notin Polling => pmd'[c] = pmd[c]
<1> DEFINE gets == {e \in Polling: e = NonPmd \/ pmd[e].polls # {}}
<1>1. /\ pmd[c] \in PmdState /\ pmd[c].polls \in SUBSET Queue /\ pmd[c].tx \in SUBSET Dev
      /\ pmd[c].need \in BOOLEAN
  BY PmdFields DEF IndInv
<1>2. pmd'[c] = IF c \in gets
                  THEN [pmd[c] EXCEPT !.tx = @ \cup NewPorts(c), !.need = @ \/ NewPorts(c) # {}]
                  ELSE pmd[c]
  <2>1. pmd' = [e \in Thread |-> IF e \in gets
                  THEN [pmd[e] EXCEPT !.tx = @ \cup NewPorts(e), !.need = @ \/ NewPorts(e) # {}]
                  ELSE pmd[e]]
    BY DEF AddTx, NewPorts
  <2>2. QED  BY <2>1
<1>3. CASE c \notin gets
  <2>1. pmd'[c] = pmd[c]  BY <1>2, <1>3
  <2>2. Relists(c)  BY <1>1, <2>1 DEF Relists
  <2>3. QED  BY <1>3, <2>1, <2>2
<1>4. CASE c \in gets
  <2>1. PICK T: T = pmd[c].tx \cup NewPorts(c)  OBVIOUS
  <2>2. PICK b: b = (pmd[c].need \/ NewPorts(c) # {})  OBVIOUS
  <2>3. pmd'[c] = [pmd[c] EXCEPT !.tx = T, !.need = b]  BY <1>2, <1>4, <2>1, <2>2
  <2>4. /\ pmd'[c].polls = pmd[c].polls /\ pmd'[c].tx = T /\ pmd'[c].need = b
        /\ pmd'[c].pc = pmd[c].pc /\ pmd'[c].latch = pmd[c].latch
        /\ pmd'[c].snap = pmd[c].snap /\ pmd'[c].cache = pmd[c].cache
    <3>1. T \in SUBSET Dev /\ b \in BOOLEAN  BY <1>1, <2>1, <2>2 DEF NewPorts, Ports
    <3>2. PICK p \in PmdState: p = pmd[c]  BY <1>1
    <3>3. Relisted(p, p.polls, T, b, [p EXCEPT !.tx = T, !.need = b])  BY <3>1, NewTx
    <3>4. Relisted(p, p.polls, T, b, pmd'[c])  BY <2>3, <3>2, <3>3
    <3>5. QED  BY <3>2, <3>4 DEF Relisted
  <2>5. NewPorts(c) = {} <=> T = pmd[c].tx
    <3>1. ASSUME NEW d \in NewPorts(c) PROVE d \notin pmd[c].tx  BY DEF NewPorts
    <3>2. QED  BY <2>1, <3>1
  <2>6. Relists(c)  BY <2>2, <2>4, <2>5 DEF Relists
  <2>7. QED  BY <1>4, <2>1, <2>4, <2>6
<1>5. QED  BY <1>3, <1>4

LEMMA RelistedSynced ==
  ASSUME IndInv, SyncedInv, AtWork, main'.pc # "woken",
         \A c \in Thread: Relists(c) /\ (pmd'[c].need => Waits(c)')
  PROVE  SyncedInv'
<1>1. ASSUME NEW c \in Thread PROVE Synced(c)'
  <2>1. /\ Exact(c) \/ pmd[c].need
        /\ ~ pmd[c].latch /\ pmd[c].pc \notin {"exit", "ended", "loaded"}
    BY AllSynced
  <2>2. pmd'[c].need \/ Exact(c)'  BY <2>1 DEF Relists, Exact
  <2>3. QED  BY <2>1, <2>2 DEF Relists, Synced
<1>2. QED  BY <1>1 DEF SyncedInv

\* The threads that are marked are made to reload.
LEMMA ReloadingSynced ==
  ASSUME IndInv, SyncedInv, AtWork, NEW next,
         main' = Reloading({c \in Polling: pmd'[c].need}, next),
         \A c \in Thread: /\ Relists(c)
                          /\ pmd[c] = NoPmd => pmd'[c].polls = {} /\ pmd'[c].tx = {}
  PROVE  SyncedInv'
<1>t. PICK t: t = {c \in Polling: pmd'[c].need}  OBVIOUS
<1>1. main' = [pc |-> "reload", todo |-> t, on |-> main.on, next |-> next, del |-> main.del, saved |-> main.saved]
  <2>1. StateTypes  BY DEF IndInv
  <2>2. QED  BY <1>t, <2>1, MainFields DEF Reloading
<1>2. ASSUME NEW c \in Thread, pmd'[c].need PROVE Waits(c)'
  <2>1. c \in Polling
    <3>1. SUFFICES ASSUME c \notin Polling PROVE FALSE  OBVIOUS
    <3>2. pmd[c] = NoPmd  BY <3>1 DEF IndInv, HandshakeInv, Polling
    <3>3. pmd[c].polls = {} /\ pmd[c].tx = {} /\ ~ pmd[c].need  BY <3>2 DEF NoPmd
    <3>4. QED  BY <1>2, <3>2, <3>3 DEF Relists
  <2>2. QED  BY <1>1, <1>2, <1>t, <2>1 DEF Waits, HandshakePc
<1>3. QED  BY <1>1, <1>2, RelistedSynced

LEMMA StaleSynced == ASSUME IndInv, SyncedInv, Stale PROVE SyncedInv'
<1>1. AtWork /\ main' = Reloading({c \in Polling: pmd'[c].need}, "ports")
  BY DEF Stale, AtWork, HandshakePc
<1>2. QED  BY <1>1, StaleLists, ReloadingSynced

LEMMA ScheduleSynced == ASSUME IndInv, SyncedInv, Schedule PROVE SyncedInv'
<1>1. AtWork /\ main' = Reloading({c \in Polling: pmd'[c].need}, "add")
  BY DEF Schedule, AtWork, HandshakePc
<1>2. QED  BY <1>1, ScheduleLists, ReloadingSynced

LEMMA AddTxSynced == ASSUME IndInv, SyncedInv, AddTx PROVE SyncedInv'
<1>1. AtWork /\ main' = Reloading({c \in Polling: pmd'[c].need}, "end")
  BY DEF AddTx, AtWork, HandshakePc
<1>2. ASSUME NEW c \in Thread, pmd[c] = NoPmd PROVE pmd'[c].polls = {} /\ pmd'[c].tx = {}
  <2>1. pmd[c].pc = "none" /\ pmd[c].polls = {} /\ pmd[c].tx = {}  BY <1>2 DEF NoPmd
  <2>2. QED  BY <2>1, AddTxLists DEF Polling
<1>3. QED  BY <1>1, <1>2, AddTxLists, ReloadingSynced

LEMMA AddQueuesSynced == ASSUME IndInv, SyncedInv, NEW d \in Dev, AddQueues(d) PROVE SyncedInv'
<1>1. main.pc = "add" /\ main' = [main EXCEPT !.todo = @ \ {d}] /\ AtWork
  BY DEF AddQueues, AtWork, HandshakePc
<1>2. main'.pc = "add"  BY <1>1, MainFields DEF IndInv
<1>3. \A c \in Thread: Waits(c)'  BY <1>2 DEF Waits
<1>4. QED  BY <1>1, <1>2, <1>3, AddQueuesLists, RelistedSynced


\* New threads have nothing in their lists and copies.
LEMMA CreateSynced == ASSUME IndInv, SyncedInv, Create PROVE SyncedInv'
<1>1. AtWork /\ main.pc # "add"  BY DEF Create, AtWork, HandshakePc
<1>2. ASSUME NEW c \in Thread PROVE Synced(c)'
  <2>1. CASE pmd'[c] = pmd[c]
    <3>1. /\ Exact(c) /\ ~ pmd[c].need /\ ~ pmd[c].latch
          /\ pmd[c].pc \notin {"exit", "ended", "loaded"}
      BY <1>1, AllSynced
    <3>2. Exact(c)'  BY <2>1, <3>1 DEF Exact
    <3>3. QED  BY <2>1, <3>1, <3>2 DEF Synced
  <2>2. CASE pmd'[c] # pmd[c]
    <3>1. PICK i: pmd'[c] = [NoPmd EXCEPT !.pc = "start", !.tid = i]
      BY <2>2 DEF Create
    <3>2. /\ pmd'[c].pc = "start" /\ ~ pmd'[c].need /\ ~ pmd'[c].latch
          /\ pmd'[c].snap = {} /\ pmd'[c].polls = {} /\ pmd'[c].tx = {} /\ pmd'[c].cache = <<>>
      BY <3>1 DEF NoPmd
    <3>3. DOMAIN pmd'[c].cache = {}  BY <3>2, EmptyTypes
    <3>4. Exact(c)'  BY <3>2, <3>3 DEF Exact
    <3>5. QED  BY <3>2, <3>4 DEF Synced
  <2>3. QED  BY <2>1, <2>2
<1>3. QED  BY <1>2 DEF SyncedInv

\* Only the instance for all other threads changes, and has nothing.
LEMMA NonPmdSynced ==
  ASSUME IndInv, SyncedInv, AtWork, main.pc # "add", Synced(NonPmd)',
         \A c \in Thread: c # NonPmd => pmd'[c] = pmd[c]
  PROVE  SyncedInv'
<1>1. ASSUME NEW c \in Thread, c # NonPmd PROVE Synced(c)'
  <2>1. /\ Exact(c) /\ ~ pmd[c].need /\ ~ pmd[c].latch
        /\ pmd[c].pc \notin {"exit", "ended", "loaded"}
    BY AllSynced
  <2>2. pmd'[c] = pmd[c]  BY <1>1
  <2>3. Exact(c)'  BY <2>1, <2>2 DEF Exact
  <2>4. QED  BY <2>1, <2>2, <2>3 DEF Synced
<1>2. QED  BY <1>1 DEF SyncedInv

LEMMA DestroyNonPmdSynced == ASSUME IndInv, SyncedInv, DestroyNonPmd PROVE SyncedInv'
<1>1. AtWork /\ main.pc # "add"  BY DEF DestroyNonPmd, AtWork, HandshakePc
<1>2. pmd' = [pmd EXCEPT ![NonPmd] = NoPmd]  BY DEF DestroyNonPmd
<1>3. pmd'[NonPmd] = NoPmd /\ \A c \in Thread: c # NonPmd => pmd'[c] = pmd[c]
  BY <1>2, CoreThreads DEF IndInv, StateTypes
<1>4. Synced(NonPmd)'  BY <1>3, CoreThreads, NoPmdSynced
<1>5. QED  BY <1>1, <1>3, <1>4, NonPmdSynced

LEMMA CreateDpSynced == ASSUME IndInv, SyncedInv, CreateDp PROVE SyncedInv'
<1>1. AtWork /\ main.pc # "add"  BY DEF CreateDp, AtWork, HandshakePc
<1>2. pmd' = [pmd EXCEPT ![NonPmd] = [pmd[NonPmd] EXCEPT !.pc = "poll"]]  BY DEF CreateDp
<1>3. /\ pmd'[NonPmd] = [pmd[NonPmd] EXCEPT !.pc = "poll"]
      /\ \A c \in Thread: c # NonPmd => pmd'[c] = pmd[c]
  BY <1>2, CoreThreads DEF IndInv, StateTypes
<1>4. pmd[NonPmd] = NoPmd
  <2>1. pmd[NonPmd].pc = "none"  BY CoreThreads DEF CreateDp, Polling
  <2>2. QED  BY <2>1, CoreThreads DEF IndInv, HandshakeInv
<1>5. /\ pmd'[NonPmd].pc = "poll" /\ ~ pmd'[NonPmd].need /\ ~ pmd'[NonPmd].latch
      /\ pmd'[NonPmd].tx = {} /\ pmd'[NonPmd].cache = <<>>
  BY <1>3, <1>4 DEF NoPmd
<1>6. DOMAIN pmd'[NonPmd].cache = {}  BY <1>5, EmptyTypes
<1>7. Exact(NonPmd)'  BY <1>5, <1>6 DEF Exact
<1>8. Synced(NonPmd)'  BY <1>5, <1>7 DEF Synced
<1>9. QED  BY <1>1, <1>3, <1>8, NonPmdSynced

\* What neither a thread nor the main thread does.
LEMMA QuietSynced == ASSUME SyncedInv, pmd' = pmd, main' = main PROVE SyncedInv'
<1>1. ASSUME NEW c \in Thread PROVE Synced(c)'
  <2>1. SameThread(c) /\ MainKeeps(c)  BY SameMainKeeps DEF SameThread
  <2>2. QED  BY <2>1, SyncedKept DEF SyncedInv
<1>2. QED  BY <1>1 DEF SyncedInv

LEMMA NextSynced == ASSUME IndInv, SyncedInv, [Next]_vars PROVE SyncedInv'
<1>1. CASE UNCHANGED vars  BY <1>1, QuietSynced DEF vars
<1>2. CASE DeviceChanges  BY <1>2, QuietSynced DEF DeviceChanges
<1>3. CASE \E c \in Core: PmdThread(c)
  BY <1>3, StartSynced, UnblockSynced, ReloadSynced, ReloadDoneSynced, ExitSynced DEF PmdThread
<1>4. CASE \E c \in Thread: Send(c)  BY <1>4, SendSynced
<1>5. CASE Handshake
  <2>1. CASE ReloadEnd
    <3>1. AtWork /\ main.pc # "add" /\ pmd' = pmd  BY <2>1 DEF ReloadEnd, AtWork
    <3>2. QED  BY <3>1, AtWorkSynced
  <2>2. QED
    BY <1>5, <2>1, ReloadNonPmdSynced, ReloadSeqSynced, ReloadSetSynced, ReloadWaitSynced,
       ReloadNextSynced DEF Handshake
<1>6. CASE Reconfigure
  <2>1. CASE Threads \/ End \/ \E d \in Dev: PortReconfigure(d) \/ PortFails(d)
    <3>1. AtWork /\ main.pc # "add" /\ pmd' = pmd
      BY <2>1 DEF Threads, End, PortReconfigure, PortFails, AtWork, HandshakePc
    <3>2. QED  BY <3>1, AtWorkSynced
  <2>2. QED
    BY <1>6, <2>1, CreateSynced, StaleSynced, ScheduleSynced, AddTxSynced, AddQueuesSynced,
       DestroyNonPmdSynced DEF Reconfigure
<1>7. CASE Run
  <2>1. AtWork /\ main.pc # "add" /\ pmd' = pmd  BY <1>7 DEF Run, Open, AtWork, HandshakePc
  <2>2. QED  BY <2>1, AtWorkSynced
<1>8. CASE Command
  <2>1. CASE CreateDp  BY <2>1, CreateDpSynced
  <2>2. CASE OpenAgain \/ Destroy \/ Close \/ PortAdd \/ PortDel \/ PmdSet \/ SetAffinity
    <3>1. AtWork /\ main.pc # "add" /\ pmd' = pmd
      BY <2>2 DEF OpenAgain, Destroy, Close, PortAdd, PortDel, PmdSet, SetAffinity, Open, AtWork,
                  HandshakePc
    <3>2. QED  BY <3>1, AtWorkSynced
  <2>3. QED  BY <1>8, <2>1, <2>2 DEF Command
<1>9. QED  BY <1>1, <1>2, <1>3, <1>4, <1>5, <1>6, <1>7, <1>8 DEF Next

-----------------------------------------------------------------------------
(* At rest: the lists of the threads *)

\* Port numbers tell ports apart.
NumbersInv == \A d, e \in Ports: port[d].no = port[e].no => d = e

\* Every queue that has a thread is in the list of that thread, once its port has
\* been through step 6.
PollsInv ==
    /\ main.pc = "add" => \A q \in Queues: port[q[1]].pmd[q[2]] # None =>
          q[1] \in main.todo \/ q \in pmd[port[q[1]].pmd[q[2]]].polls
    /\ Phase \in {"end", "idle"} => \A q \in Queues: port[q[1]].pmd[q[2]] # None =>
          q \in pmd[port[q[1]].pmd[q[2]]].polls

\* Every thread with a queue has all ports in its list, from step 6 on.
TxInv ==
    Phase \in {"end", "idle"} =>
        \A c \in Polling: c = NonPmd \/ pmd[c].polls # {} => Ports \subseteq pmd[c].tx

\* A queue has no thread only if there is none for it.
ScheduleInv ==
    Phase \in {"add", "end", "idle"} =>
        request \/ \A q \in Queues: port[q[1]].pmd[q[2]] = None =>
                       Pin(q) # None \/ Eligible(Numa[q[1]]) = <<>>

\* Queues are given to threads.
GivenInv ==
    Phase \in {"add", "end", "idle"} =>
        \A q \in Queues: port[q[1]].pmd[q[2]] \in Thread \cup {None}

RestInv == NumbersInv /\ PollsInv /\ TxInv /\ ScheduleInv /\ GivenInv

\* Before step 5 of reconfigure_datapath there is nothing to say about lists.
LEMMA EarlyRest ==
  ASSUME NumbersInv, Phase' \notin {"add", "end", "idle"}, Ports' \subseteq Ports,
         \A d \in Ports': port'[d].no = port[d].no
  PROVE  RestInv'
<1>1. NumbersInv'  BY DEF NumbersInv
<1>2. main'.pc # "add"  BY DEF Phase, HandshakePc
<1>3. PollsInv' /\ TxInv' /\ ScheduleInv' /\ GivenInv'
  BY <1>2 DEF PollsInv, TxInv, ScheduleInv, GivenInv
<1>4. QED  BY <1>1, <1>3 DEF RestInv

\* The ports, with their queues, are those that there were, and the queues are pinned
\* as before, unless there is a request to schedule them again.
KeepPorts ==
    /\ Ports' = Ports
    /\ \A d \in Ports: /\ port'[d].no = port[d].no /\ port'[d].rxq = port[d].rxq
                       /\ port'[d].pmd = port[d].pmd
                       /\ request' \/ port'[d].aff = port[d].aff

LEMMA SameQueues ==
  ASSUME KeepPorts
  PROVE  /\ Queues' = Queues
         /\ \A q \in Queues: /\ port'[q[1]].pmd[q[2]] = port[q[1]].pmd[q[2]]
                             /\ request' \/ port'[q[1]].aff[q[2]] = port[q[1]].aff[q[2]]
BY DEF KeepPorts, Queues

\* The threads for the queues that are not pinned.
LEMMA SameEligible ==
  ASSUME Queues' = Queues, Running' = Running,
         \A q \in Queues: port'[q[1]].aff[q[2]] = port[q[1]].aff[q[2]], NEW n
  PROVE  Eligible(n)' = Eligible(n)
<1>1. \A q \in Queues: Pin(q)' = Pin(q)  BY DEF Pin
<1>2. Isolated' = Isolated  BY <1>1 DEF Isolated
<1>3. QED  BY <1>2 DEF Eligible

PhaseKept ==
    \/ Phase' \notin {"add", "end", "idle"}
    \/ Phase' = "add" /\ Phase = "add"
        /\ (main'.pc = "add" => main'.todo = Ports \/ (main.pc = "add" /\ main'.todo = main.todo))
    \/ Phase' \in {"end", "idle"} /\ Phase \in {"end", "idle"}

\* Steps that leave ports, lists and requests alone.
LEMMA RestFrame ==
  ASSUME RestInv, KeepPorts, SameLists, PhaseKept, request => request'
  PROVE  RestInv'
<1>1. CASE Phase' \notin {"add", "end", "idle"}  BY <1>1, EarlyRest DEF RestInv, KeepPorts
<1>2. CASE Phase' \in {"add", "end", "idle"}
  <2>1. /\ Queues' = Queues /\ Ports' = Ports /\ Polling' = Polling /\ Running' = Running
        /\ \A q \in Queues: /\ port'[q[1]].pmd[q[2]] = port[q[1]].pmd[q[2]]
                            /\ request' \/ port'[q[1]].aff[q[2]] = port[q[1]].aff[q[2]]
    BY SameQueues, SamePolling DEF KeepPorts
  <2>2. NumbersInv'  BY DEF RestInv, NumbersInv, KeepPorts
  <2>3. \A c \in Thread: pmd'[c].polls = pmd[c].polls /\ pmd'[c].tx = pmd[c].tx
    BY DEF SameLists
  <2>o. \A q \in Queues: port[q[1]].pmd[q[2]] \in Thread \cup {None}
    <3>1. Phase \in {"add", "end", "idle"}  BY <1>2 DEF PhaseKept
    <3>2. QED  BY <3>1 DEF RestInv, GivenInv
  <2>4. \A q \in Queues: port[q[1]].pmd[q[2]] # None =>
           pmd'[port[q[1]].pmd[q[2]]].polls = pmd[port[q[1]].pmd[q[2]]].polls
    BY <2>3, <2>o
  <2>5. PollsInv'
    <3>1. ASSUME main'.pc = "add", NEW q \in Queues, port[q[1]].pmd[q[2]] # None
          PROVE  q[1] \in main'.todo \/ q \in pmd[port[q[1]].pmd[q[2]]].polls
      <4>1. Phase' = "add"  BY <3>1 DEF Phase, HandshakePc
      <4>2. main'.todo = Ports \/ (main.pc = "add" /\ main'.todo = main.todo)
        BY <3>1, <4>1 DEF PhaseKept
      <4>3. q[1] \in Ports  BY DEF Queues
      <4>4. QED  BY <3>1, <4>2, <4>3 DEF RestInv, PollsInv
    <3>2. ASSUME Phase' \in {"end", "idle"}, NEW q \in Queues, port[q[1]].pmd[q[2]] # None
          PROVE  q \in pmd[port[q[1]].pmd[q[2]]].polls
      <4>1. Phase \in {"end", "idle"}  BY <3>2 DEF PhaseKept
      <4>2. QED  BY <3>2, <4>1 DEF RestInv, PollsInv
    <3>3. QED  BY <2>1, <2>4, <3>1, <3>2 DEF PollsInv
  <2>6. TxInv'
    <3>1. Phase' \in {"end", "idle"} => Phase \in {"end", "idle"}  BY DEF PhaseKept
    <3>2. QED  BY <2>1, <2>3, <3>1, PollingThreads DEF RestInv, TxInv
  <2>7. ScheduleInv'
    <3>1. Phase \in {"add", "end", "idle"}  BY <1>2 DEF PhaseKept
    <3>2. SUFFICES ASSUME ~ request' PROVE
             \A q \in Queues': port'[q[1]].pmd[q[2]] = None =>
                       Pin(q)' # None \/ Eligible(Numa[q[1]])' = <<>>
      BY DEF ScheduleInv
    <3>3. TAKE q \in Queues'
    <3>4. port[q[1]].pmd[q[2]] = None => Pin(q) # None \/ Eligible(Numa[q[1]]) = <<>>
      BY <2>1, <3>1, <3>2, <3>3 DEF RestInv, ScheduleInv
    <3>5. Pin(q)' = Pin(q)  BY <2>1, <3>2, <3>3 DEF Pin
    <3>6. PICK n: n = Numa[q[1]]  OBVIOUS
    <3>7. Eligible(n)' = Eligible(n)  BY <2>1, <3>2, SameEligible
    <3>8. QED  BY <2>1, <3>3, <3>4, <3>5, <3>6, <3>7
  <2>8. GivenInv'  BY <2>1, <2>o DEF GivenInv
  <2>9. QED  BY <2>2, <2>5, <2>6, <2>7, <2>8 DEF RestInv
<1>3. QED  BY <1>1, <1>2

LEMMA UnchangedPorts == ASSUME port' = port PROVE KeepPorts
  BY DEF KeepPorts, Ports

\* pmd_load_queues_and_ports and pmd_free_cached_ports change only what is in use.
LEMMA ReleasedPorts ==
  ASSUME IndInv, NEW c \in Thread, port' = Released(c, DOMAIN pmd[c].cache)
  PROVE  KeepPorts
<1>1. StateTypes /\ SharedInv /\ DOMAIN pmd[c].cache \in SUBSET Dev  BY PmdFields DEF IndInv
<1>2. PICK ds \in SUBSET Dev: ds = DOMAIN pmd[c].cache  BY <1>1
<1>3. PICK rel: rel = Released(c, ds)  OBVIOUS
<1>4. rel = [d \in Dev |-> [st |-> port[d].st, no |-> port[d].no, need |-> port[d].need,
                            rxq |-> port[d].rxq, dynamic |-> port[d].dynamic, used |-> rel[d].used,
                            aff |-> port[d].aff, pmd |-> port[d].pmd]]
  BY <1>1, <1>3, ReleasedFields
<1>5. port' = rel  BY <1>2, <1>3
<1>6. \A d \in Dev: /\ port'[d].st = port[d].st /\ port'[d].no = port[d].no
                    /\ port'[d].aff = port[d].aff /\ port'[d].rxq = port[d].rxq
                    /\ port'[d].pmd = port[d].pmd
  BY <1>4, <1>5
<1>7. QED  BY <1>6 DEF KeepPorts, Ports

\* A thread moves, and its lists stay.
LEMMA OneRest ==
  ASSUME IndInv, RestInv, NEW c \in Thread, NEW r, pmd' = [pmd EXCEPT ![c] = r],
         r.polls = pmd[c].polls, r.tx = pmd[c].tx, r.tid = pmd[c].tid,
         r.pc = "none" <=> pmd[c].pc = "none",
         KeepPorts, PhaseKept, request' = request
  PROVE  RestInv'
<1>1. StateTypes  BY DEF IndInv
<1>2. pmd'[c] = r /\ \A e \in Thread: e # c => pmd'[e] = pmd[e]  BY <1>1 DEF StateTypes
<1>3. SameLists  BY <1>2 DEF SameLists
<1>4. QED  BY <1>3, RestFrame

LEMMA SameMainPhase == ASSUME main' = main PROVE PhaseKept
<1>1. Phase' = Phase  BY DEF Phase
<1>2. QED  BY <1>1 DEF PhaseKept

LEMMA LoadRest ==
  ASSUME IndInv, RestInv, NEW c \in Core, NEW pc \in {"block", "poll", "loaded"},
         pmd[c].pc \in {"start", "poll"}, LoadQueues(c, pc), main' = main, request' = request
  PROVE  RestInv'
<1>0. c \in Thread /\ pmd[c] \in PmdState  BY CoreThreads, PmdFields DEF IndInv
<1>1. PICK r: r = [pmd[c] EXCEPT !.snap = pmd[c].polls, !.cache = Copied(c), !.pc = pc]  OBVIOUS
<1>2. pmd' = [pmd EXCEPT ![c] = r] /\ port' = Released(c, DOMAIN pmd[c].cache)
  BY <1>1 DEF LoadQueues
<1>3. r.polls = pmd[c].polls /\ r.tx = pmd[c].tx /\ r.tid = pmd[c].tid /\ r.pc = pc
  BY <1>0, <1>1 DEF PmdState
<1>4. KeepPorts  BY <1>0, <1>2, ReleasedPorts
<1>5. PhaseKept  BY SameMainPhase
<1>6. QED  BY <1>0, <1>2, <1>3, <1>4, <1>5, OneRest

LEMMA ThreadRest == ASSUME IndInv, RestInv, NEW c \in Core, PmdThread(c) PROVE RestInv'
<1>0. c \in Thread /\ pmd[c] \in PmdState  BY CoreThreads, PmdFields DEF IndInv
<1>1. CASE Start(c)
  <2>1. CASE pmd[c].polls = {}  BY <1>1, <2>1, LoadRest DEF Start
  <2>2. CASE pmd[c].polls # {}  BY <1>1, <2>2, LoadRest DEF Start
  <2>3. QED  BY <2>1, <2>2
<1>2. CASE Unblock(c)
  <2>1. PICK r: r = [pmd[c] EXCEPT !.pc = "poll"]  OBVIOUS
  <2>2. /\ pmd' = [pmd EXCEPT ![c] = r] /\ port' = port /\ main' = main /\ request' = request
        /\ pmd[c].pc = "block"
    BY <1>2, <2>1 DEF Unblock
  <2>3. r.polls = pmd[c].polls /\ r.tx = pmd[c].tx /\ r.tid = pmd[c].tid /\ r.pc = "poll"
    BY <1>0, <2>1 DEF PmdState
  <2>4. QED  BY <1>0, <2>2, <2>3, UnchangedPorts, SameMainPhase, OneRest
<1>3. CASE Reload(c)  BY <1>3, LoadRest DEF Reload
<1>4. CASE ReloadDone(c)
  <2>1. PICK pc \in {"exit", "block", "poll"}:
           pc = IF pmd[c].latch THEN "exit" ELSE IF pmd[c].snap = {} THEN "block" ELSE "poll"
    OBVIOUS
  <2>2. PICK r: r = [pmd[c] EXCEPT !.reload = FALSE, !.seq = FALSE, !.pc = pc]  OBVIOUS
  <2>3. /\ pmd' = [pmd EXCEPT ![c] = r] /\ port' = port /\ request' = request
        /\ pmd[c].pc = "loaded"
        /\ main' = main \/ (main.pc = "wait" /\ main' = [main EXCEPT !.pc = "woken"])
    BY <1>4, <2>1, <2>2 DEF ReloadDone
  <2>4. r.polls = pmd[c].polls /\ r.tx = pmd[c].tx /\ r.tid = pmd[c].tid /\ r.pc = pc
    BY <1>0, <2>2 DEF PmdState
  <2>5. PhaseKept
    <3>1. CASE main' = main  BY <3>1, SameMainPhase
    <3>2. CASE main.pc = "wait" /\ main' = [main EXCEPT !.pc = "woken"]
      <4>1. main'.pc = "woken" /\ main'.next = main.next  BY <3>2, MainFields DEF IndInv
      <4>2. Phase' = Phase  BY <3>2, <4>1 DEF Phase, HandshakePc
      <4>3. QED  BY <4>1, <4>2 DEF PhaseKept
    <3>3. QED  BY <2>3, <3>1, <3>2
  <2>6. QED  BY <1>0, <2>3, <2>4, <2>5, UnchangedPorts, OneRest
<1>5. CASE Exit(c)
  <2>1. PICK r: r = [pmd[c] EXCEPT !.pc = "ended", !.cache = <<>>, !.snap = {}]  OBVIOUS
  <2>2. /\ pmd' = [pmd EXCEPT ![c] = r] /\ main' = main /\ request' = request
        /\ port' = Released(c, DOMAIN pmd[c].cache) /\ pmd[c].pc = "exit"
    BY <1>5, <2>1 DEF Exit
  <2>3. r.polls = pmd[c].polls /\ r.tx = pmd[c].tx /\ r.tid = pmd[c].tid /\ r.pc = "ended"
    BY <1>0, <2>1 DEF PmdState
  <2>4. QED  BY <1>0, <2>2, <2>3, ReleasedPorts, SameMainPhase, OneRest
<1>6. QED  BY <1>1, <1>2, <1>3, <1>4, <1>5 DEF PmdThread

LEMMA SendRest == ASSUME IndInv, RestInv, NEW c \in Thread, Send(c) PROVE RestInv'
<1>0. pmd[c] \in PmdState  BY PmdFields DEF IndInv
<1>1. /\ SamePorts(port') /\ \A d \in Dev: port'[d].no = port[d].no /\ port'[d].aff = port[d].aff
      /\ \E k \in Caches: DOMAIN k = DOMAIN pmd[c].cache /\ pmd' = [pmd EXCEPT ![c].cache = k]
  BY SendPmd
<1>2. PICK k \in Caches: pmd' = [pmd EXCEPT ![c].cache = k]  BY <1>1
<1>3. PICK r: r = [pmd[c] EXCEPT !.cache = k]  OBVIOUS
<1>4. pmd' = [pmd EXCEPT ![c] = r]  BY <1>2, <1>3
<1>5. /\ r.polls = pmd[c].polls /\ r.tx = pmd[c].tx /\ r.tid = pmd[c].tid /\ r.pc = pmd[c].pc
  BY <1>0, <1>3 DEF PmdState
<1>6. KeepPorts  BY <1>1 DEF SamePorts, KeepPorts, Ports
<1>7. main' = main /\ request' = request  BY DEF Send
<1>8. QED  BY <1>4, <1>5, <1>6, <1>7, SameMainPhase, OneRest

\* The main thread goes on with the threads that are to reload.
LEMMA HandshakePhase ==
  ASSUME main.pc \in HandshakePc, main'.pc \in HandshakePc, main'.next = main.next
  PROVE  PhaseKept /\ Phase' = main.next /\ Phase = main.next
<1>1. Phase' = main.next /\ Phase = main.next  BY DEF Phase
<1>2. main'.pc # "add"  BY DEF HandshakePc
<1>3. QED  BY <1>1, <1>2 DEF PhaseKept

LEMMA ReloadNonPmdRest == ASSUME IndInv, RestInv, ReloadNonPmd PROVE RestInv'
<1>0. NonPmd \in Thread /\ pmd[NonPmd] \in PmdState  BY CoreThreads, PmdFields DEF IndInv
<1>1. PICK r: r = [pmd[NonPmd] EXCEPT !.cache = Copied(NonPmd), !.need = FALSE]  OBVIOUS
<1>2. /\ main.pc = "reload" /\ port' = Released(NonPmd, DOMAIN pmd[NonPmd].cache)
      /\ pmd' = [pmd EXCEPT ![NonPmd] = r] /\ request' = request
      /\ main' = [main EXCEPT !.todo = @ \ {NonPmd}]
  BY <1>1 DEF ReloadNonPmd
<1>3. /\ r.polls = pmd[NonPmd].polls /\ r.tx = pmd[NonPmd].tx /\ r.tid = pmd[NonPmd].tid
      /\ r.pc = pmd[NonPmd].pc
  BY <1>0, <1>1 DEF PmdState
<1>4. main'.pc = "reload" /\ main'.next = main.next  BY <1>2, MainFields DEF IndInv
<1>5. PhaseKept  BY <1>2, <1>4, HandshakePhase DEF HandshakePc
<1>6. QED  BY <1>0, <1>2, <1>3, <1>5, ReleasedPorts, OneRest

LEMMA ReloadSeqRest == ASSUME IndInv, RestInv, ReloadSeq PROVE RestInv'
<1>1. PICK c \in main.todo \ {NonPmd}:
         /\ pmd' = [pmd EXCEPT ![c].seq = TRUE, ![c].latch = Ending]
         /\ main' = [main EXCEPT !.pc = "signal", !.on = c, !.todo = @ \ {c}]
  BY DEF ReloadSeq
<1>2. main.pc = "reload" /\ port' = port /\ request' = request  BY DEF ReloadSeq
<1>3. c \in Thread
  <2>1. main.todo \subseteq Polling  BY <1>2 DEF IndInv, HandshakeInv, HandshakePc
  <2>2. QED  BY <2>1, PollingThreads
<1>4. pmd[c] \in PmdState /\ StateTypes  BY <1>3, PmdFields DEF IndInv
<1>5. PICK r: r = [pmd[c] EXCEPT !.seq = TRUE, !.latch = Ending]  OBVIOUS
<1>6. pmd' = [pmd EXCEPT ![c] = r]  BY <1>1, <1>3, <1>4, <1>5 DEF StateTypes
<1>7. r.polls = pmd[c].polls /\ r.tx = pmd[c].tx /\ r.tid = pmd[c].tid /\ r.pc = pmd[c].pc
  BY <1>4, <1>5 DEF PmdState
<1>8. main'.pc = "signal" /\ main'.next = main.next  BY <1>1, MainFields DEF IndInv
<1>9. PhaseKept  BY <1>2, <1>8, HandshakePhase DEF HandshakePc
<1>10. QED  BY <1>2, <1>3, <1>6, <1>7, <1>9, UnchangedPorts, OneRest

LEMMA ReloadSetRest == ASSUME IndInv, RestInv, ReloadSet PROVE RestInv'
<1>1. PICK c: c = main.on  OBVIOUS
<1>2. /\ main.pc = "signal" /\ port' = port /\ request' = request
      /\ pmd' = [pmd EXCEPT ![c].reload = TRUE] /\ main' = [main EXCEPT !.pc = "set"]
  BY <1>1 DEF ReloadSet
<1>3. c \in Thread
  <2>1. main.on \in Running  BY <1>2 DEF IndInv, HandshakeInv
  <2>2. QED  BY <1>1, <2>1, PollingThreads
<1>4. pmd[c] \in PmdState  BY <1>3, PmdFields DEF IndInv
<1>5. PICK r: r = [pmd[c] EXCEPT !.reload = TRUE]  OBVIOUS
<1>6. pmd' = [pmd EXCEPT ![c] = r]  BY <1>2, <1>5
<1>7. r.polls = pmd[c].polls /\ r.tx = pmd[c].tx /\ r.tid = pmd[c].tid /\ r.pc = pmd[c].pc
  BY <1>4, <1>5 DEF PmdState
<1>8. main'.pc = "set" /\ main'.next = main.next  BY <1>2, MainFields DEF IndInv
<1>9. PhaseKept  BY <1>2, <1>8, HandshakePhase DEF HandshakePc
<1>10. QED  BY <1>2, <1>3, <1>6, <1>7, <1>9, UnchangedPorts, OneRest

LEMMA QuietRest ==
  ASSUME IndInv, RestInv, pmd' = pmd, KeepPorts, PhaseKept, request => request'
  PROVE  RestInv'
<1>1. SameLists  BY DEF SameLists
<1>2. QED  BY <1>1, RestFrame

LEMMA ReloadWaitRest == ASSUME IndInv, RestInv, ReloadWait PROVE RestInv'
<1>1. /\ main.pc = "set" /\ main' = [main EXCEPT !.pc = "wait"]
      /\ port' = port /\ pmd' = pmd /\ request' = request
  BY DEF ReloadWait
<1>2. main'.pc = "wait" /\ main'.next = main.next  BY <1>1, MainFields DEF IndInv
<1>3. PhaseKept  BY <1>1, <1>2, HandshakePhase DEF HandshakePc
<1>4. QED  BY <1>1, <1>3, UnchangedPorts, QuietRest

LEMMA ReloadNextRest == ASSUME IndInv, RestInv, ReloadNext PROVE RestInv'
<1>1. PICK c: c = main.on  OBVIOUS
<1>2. /\ main.pc = "woken" /\ port' = port /\ request' = request
      /\ main' = [main EXCEPT !.pc = "reload", !.on = None]
      /\ ~ Ending => pmd' = [pmd EXCEPT ![c].need = FALSE]
  BY <1>1 DEF ReloadNext
<1>3. main'.pc = "reload" /\ main'.next = main.next  BY <1>2, MainFields DEF IndInv
<1>4. PhaseKept /\ Phase' = main.next  BY <1>2, <1>3, HandshakePhase DEF HandshakePc
<1>5. CASE Ending
  <2>1. Phase' \notin {"add", "end", "idle"}  BY <1>4, <1>5 DEF Ending
  <2>2. QED  BY <1>2, <2>1, UnchangedPorts, EarlyRest DEF RestInv, KeepPorts
<1>6. CASE ~ Ending
  <2>1. c \in Thread
    <3>1. main.on \in Running  BY <1>2 DEF IndInv, HandshakeInv
    <3>2. QED  BY <1>1, <3>1, PollingThreads
  <2>2. pmd[c] \in PmdState  BY <2>1, PmdFields DEF IndInv
  <2>3. PICK r: r = [pmd[c] EXCEPT !.need = FALSE]  OBVIOUS
  <2>4. pmd' = [pmd EXCEPT ![c] = r]  BY <1>2, <1>6, <2>3
  <2>5. r.polls = pmd[c].polls /\ r.tx = pmd[c].tx /\ r.tid = pmd[c].tid /\ r.pc = pmd[c].pc
    BY <2>2, <2>3 DEF PmdState
  <2>6. QED  BY <1>2, <1>4, <2>1, <2>4, <2>5, UnchangedPorts, OneRest
<1>7. QED  BY <1>5, <1>6

LEMMA ReloadEndRest == ASSUME IndInv, RestInv, ReloadEnd PROVE RestInv'
<1>1. PICK t: t = IF main.next \in {"ports", "add"} THEN Ports ELSE {}  OBVIOUS
<1>2. /\ main.pc = "reload" /\ main' = [main EXCEPT !.pc = main.next, !.todo = t]
      /\ port' = port /\ pmd' = pmd /\ request' = request
  BY <1>1 DEF ReloadEnd
<1>3. main'.pc = main.next /\ main'.todo = t  BY <1>2, MainFields DEF IndInv
<1>4. main.next \notin HandshakePc  BY MainFields DEF IndInv, HandshakePc
<1>5. Phase' = main.next /\ Phase = main.next  BY <1>2, <1>3, <1>4 DEF Phase, HandshakePc
<1>6. PhaseKept
  <2>1. main.next = "add" => main'.todo = Ports  BY <1>1, <1>3
  <2>2. QED  BY <1>3, <1>5, <2>1 DEF PhaseKept
<1>7. QED  BY <1>2, <1>6, UnchangedPorts, QuietRest

LEMMA NumbersRest ==
  ASSUME NumbersInv', Phase' \notin {"add", "end", "idle"}
  PROVE  RestInv'
<1>1. main'.pc # "add"  BY DEF Phase, HandshakePc
<1>2. PollsInv' /\ TxInv' /\ ScheduleInv' /\ GivenInv'
  BY <1>1 DEF PollsInv, TxInv, ScheduleInv, GivenInv
<1>3. QED  BY <1>2 DEF RestInv

\* A command finds the ports as they are, or some of them go.
LEMMA FewerPorts ==
  ASSUME RestInv, Phase' \notin {"add", "end", "idle"},
         \A d \in Dev: port'[d].st = "in" => port[d].st = "in" /\ port'[d].no = port[d].no
  PROVE  RestInv'
<1>1. Ports' \subseteq Ports /\ \A d \in Ports': port'[d].no = port[d].no  BY DEF Ports
<1>2. QED  BY <1>1, EarlyRest DEF RestInv

LEMMA RunRest == ASSUME RestInv, Run PROVE RestInv'
<1>1. port' = port /\ main'.pc = "threads"  BY DEF Run, Idle
<1>2. Phase' = "threads"  BY <1>1 DEF Phase, HandshakePc
<1>3. QED  BY <1>1, <1>2, FewerPorts

LEMMA ThreadsRest == ASSUME IndInv, RestInv, Threads PROVE RestInv'
<1>1. port' = port /\ (main' = [main EXCEPT !.pc = "stale"] \/ main' = Reloading(Running, "create"))
  BY DEF Threads
<1>2. Phase' \in {"stale", "create"}
  <2>1. CASE main' = [main EXCEPT !.pc = "stale"]
    <3>1. main'.pc = "stale"  BY <2>1, MainFields DEF IndInv
    <3>2. QED  BY <3>1 DEF Phase, HandshakePc
  <2>2. CASE main' = Reloading(Running, "create")
    <3>1. main'.pc = "reload" /\ main'.next = "create"  BY <2>2, MainFields DEF IndInv, Reloading
    <3>2. QED  BY <3>1 DEF Phase, HandshakePc
  <2>3. QED  BY <1>1, <2>1, <2>2
<1>3. QED  BY <1>1, <1>2, FewerPorts

LEMMA CreateRest == ASSUME IndInv, RestInv, Create PROVE RestInv'
<1>1. port' = port /\ main' = [main EXCEPT !.pc = "stale"]  BY DEF Create
<1>2. main'.pc = "stale"  BY <1>1, MainFields DEF IndInv
<1>3. Phase' = "stale"  BY <1>2 DEF Phase, HandshakePc
<1>4. QED  BY <1>1, <1>3, FewerPorts

LEMMA StaleRest == ASSUME IndInv, RestInv, Stale PROVE RestInv'
<1>1. \A d \in Dev: port'[d].st = port[d].st /\ port'[d].no = port[d].no
  <2>1. TAKE d \in Dev
  <2>2. PICK b: b = (port[d].need \/ (d \in Ports /\ netdev'[d].reconf))  OBVIOUS
  <2>3. PICK p: p = port[d]  OBVIOUS
  <2>4. PICK r: r = port'[d]  OBVIOUS
  <2>5. r = [p EXCEPT !.need = b]
    <3>1. port' = [e \in Dev |-> [port[e] EXCEPT !.need = @ \/ (e \in Ports /\ netdev'[e].reconf)]]
      BY DEF Stale
    <3>2. QED  BY <2>2, <2>3, <2>4, <3>1
  <2>6. p = [st |-> p.st, no |-> p.no, need |-> p.need, rxq |-> p.rxq, dynamic |-> p.dynamic,
             used |-> p.used, aff |-> p.aff, pmd |-> p.pmd]
    BY <2>3, PortFields DEF IndInv, StateTypes
  <2>7. r.st = p.st /\ r.no = p.no  BY ONLY <2>5, <2>6
  <2>8. QED  BY <2>3, <2>4, <2>7
<1>2. main' = Reloading({c \in Polling: pmd'[c].need}, "ports")  BY DEF Stale
<1>3. main'.pc = "reload" /\ main'.next = "ports"  BY <1>2, MainFields DEF IndInv, Reloading
<1>4. Phase' = "ports"  BY <1>3 DEF Phase, HandshakePc
<1>5. QED  BY <1>1, <1>4, FewerPorts

\* One port changes, and is not another.
LEMMA OneFewer ==
  ASSUME IndInv, RestInv, NEW d \in Dev, NEW r, port' = [port EXCEPT ![d] = r],
         r.st = "in" => port[d].st = "in" /\ r.no = port[d].no,
         Phase' \notin {"add", "end", "idle"}
  PROVE  RestInv'
<1>1. DOMAIN port = Dev  BY DEF IndInv, StateTypes, PortTypes
<1>2. port'[d] = r /\ \A e \in Dev: e # d => port'[e] = port[e]  BY <1>1
<1>3. QED  BY <1>2, FewerPorts

LEMMA PortReconfigureRest == ASSUME IndInv, RestInv, NEW d \in Dev, PortReconfigure(d) PROVE RestInv'
<1>1. PICK x: x = netdev'[d]  OBVIOUS
<1>2. PICK u: u = [q \in 0 .. x.txq - 1 |-> 0]  OBVIOUS
<1>3. PICK y: y = (x.txq < Cardinality(Polling))  OBVIOUS
<1>4. PICK p: p = port[d]  OBVIOUS
<1>5. PICK r: r = [p EXCEPT !.need = FALSE, !.rxq = x.rxq, !.used = u, !.dynamic = y]  OBVIOUS
<1>6. PortTypes /\ DOMAIN port = Dev  BY DEF IndInv, StateTypes, PortTypes
<1>7. port' = [port EXCEPT ![d] = r]
  <2>1. port' = [port EXCEPT ![d].need = FALSE, ![d].rxq = x.rxq, ![d].used = u, ![d].dynamic = y]
    BY <1>1, <1>2, <1>3 DEF PortReconfigure
  <2>2. QED  BY <1>4, <1>5, <1>6, <2>1
<1>8. p = [st |-> p.st, no |-> p.no, need |-> p.need, rxq |-> p.rxq, dynamic |-> p.dynamic,
           used |-> p.used, aff |-> p.aff, pmd |-> p.pmd]
  BY <1>4, <1>6, PortFields
<1>9. r.st = p.st /\ r.no = p.no  BY ONLY <1>5, <1>8
<1>10. main.pc = "ports" /\ main' = [main EXCEPT !.todo = @ \ {d}]  BY DEF PortReconfigure
<1>11. main'.pc = "ports"  BY <1>10, MainFields DEF IndInv
<1>12. Phase' = "ports"  BY <1>11 DEF Phase, HandshakePc
<1>13. QED  BY <1>4, <1>7, <1>9, <1>12, OneFewer

LEMMA PortFailsRest == ASSUME IndInv, RestInv, NEW d \in Dev, PortFails(d) PROVE RestInv'
<1>1. /\ main.pc = "ports" /\ main' = [main EXCEPT !.todo = @ \ {d}]
      /\ port' = [port EXCEPT ![d] = NoPort]
  BY DEF PortFails
<1>2. main'.pc = "ports"  BY <1>1, MainFields DEF IndInv
<1>3. Phase' = "ports"  BY <1>2 DEF Phase, HandshakePc
<1>4. NoPort.st = "none"  BY NoPortFields
<1>5. QED  BY <1>1, <1>3, <1>4, OneFewer

LEMMA PortDelRest == ASSUME IndInv, RestInv, PortDel PROVE RestInv'
<1>1. PICK d \in Ports: /\ port' = [port EXCEPT ![d].st = "removed"]
                        /\ main' = [Idle EXCEPT !.pc = "threads", !.del = {d}]
  BY DEF PortDel
<1>2. main'.pc = "threads"  BY <1>1 DEF Idle
<1>3. Phase' = "threads"  BY <1>2 DEF Phase, HandshakePc
<1>4. d \in Dev /\ PortTypes  BY DEF Ports, IndInv, StateTypes
<1>5. PICK r: r = [port[d] EXCEPT !.st = "removed"]  OBVIOUS
<1>6. r.st = "removed"  BY <1>4, <1>5, RemovedFields DEF Removed
<1>7. port' = [port EXCEPT ![d] = r]  BY <1>1, <1>5
<1>8. QED  BY <1>3, <1>4, <1>6, <1>7, OneFewer

LEMMA NewPortNo ==
  ASSUME NEW no
  PROVE  [NoPort EXCEPT !.st = "in", !.no = no, !.need = TRUE].no = no
BY DEF NoPort

\* A port with a new number is added.
LEMMA AddedRest ==
  ASSUME IndInv, RestInv, NEW d \in Dev \ Ports, NEW no, AddPort(d, no),
         \A e \in Ports: port[e].no # no
  PROVE  RestInv'
<1>1. /\ port'[d].st = "in" /\ Phase' = "threads"
      /\ \A e \in Dev: e # d => port'[e] = port[e]
  BY AddedFields
<1>2. port'[d].no = no
  <2>1. DOMAIN port = Dev  BY DEF IndInv, StateTypes, PortTypes
  <2>2. PICK r: r = [NoPort EXCEPT !.st = "in", !.no = no, !.need = TRUE]  OBVIOUS
  <2>3. port' = [port EXCEPT ![d] = r]  BY <2>2 DEF AddPort
  <2>4. r.no = no  BY <2>2, NewPortNo
  <2>5. QED  BY <2>1, <2>3, <2>4
<1>3. \A e \in Ports': e = d \/ (e \in Ports /\ port'[e].no = port[e].no /\ port[e].no # no)
  BY <1>1 DEF Ports
<1>4. NumbersInv'
  <2>1. ASSUME NEW e \in Ports', NEW f \in Ports', port'[e].no = port'[f].no PROVE e = f
    BY <1>2, <1>3, <2>1 DEF RestInv, NumbersInv
  <2>2. QED  BY <2>1 DEF NumbersInv
<1>5. QED  BY <1>1, <1>4, NumbersRest

LEMMA PortAddRest == ASSUME IndInv, RestInv, PortAdd PROVE RestInv'
<1>1. PICK d \in Dev \ Ports, m \in {None} \cup 1 .. MaxNo:
         /\ ChoosePort # {} /\ (m = None \/ m \in ChoosePort)
         /\ AddPort(d, IF m = None THEN Min(ChoosePort) ELSE m)
  BY DEF PortAdd
<1>2. PICK no: no = IF m = None THEN Min(ChoosePort) ELSE m  OBVIOUS
<1>3. no \in ChoosePort
  <2>1. ChoosePort \in SUBSET Nat  BY NetdevPortsAssumption DEF ChoosePort
  <2>2. PICK S \in SUBSET Nat: S = ChoosePort  BY <2>1
  <2>3. S # {}  BY <1>1, <2>2
  <2>4. Min(S) \in S  BY <2>3, MinIn
  <2>5. QED  BY <1>1, <1>2, <2>2, <2>4
<1>4. \A e \in Ports: port[e].no # no  BY <1>3 DEF ChoosePort
<1>5. AddPort(d, no)  BY <1>1, <1>2
<1>6. QED  BY <1>4, <1>5, AddedRest

LEMMA CreateDpRest == ASSUME IndInv, RestInv, CreateDp PROVE RestInv'
<1>1. Polling = {} /\ AddPort(Local, LOCAL_NO)  BY DEF CreateDp
<1>2. Ports = {}  BY <1>1 DEF IndInv, ThreadsInv
<1>3. PICK d \in Dev \ Ports: d = Local  BY <1>2, NetdevPortsAssumption
<1>4. PICK no: no = LOCAL_NO  OBVIOUS
<1>5. AddPort(d, no)  BY <1>1, <1>3, <1>4
<1>6. \A e \in Ports: port[e].no # no  BY <1>2
<1>7. QED  BY <1>5, <1>6, AddedRest

LEMMA ToIdle ==
  ASSUME main' = Idle
  PROVE  main'.pc = "idle" /\ Phase' = "idle"
<1>1. main'.pc = "idle"  BY DEF Idle
<1>2. QED  BY <1>1 DEF Phase, HandshakePc

\* The ports that go with End are not in the datapath, but for the next one.
LEMMA EndRest == ASSUME IndInv, RestInv, End PROVE RestInv'
<1> DEFINE freed == [d \in Dev |-> IF d \in main.del THEN NoPort ELSE port[d]]
<1>1. main.pc = "end" /\ pmd' = pmd /\ request' = request  BY DEF End
<1>2. PortTypes /\ DOMAIN port = Dev /\ Phase = "end"
  BY <1>1 DEF IndInv, StateTypes, PortTypes, Phase, HandshakePc
<1>3. \A d \in main.del: d \in Dev /\ d \notin Ports
  BY MainFields DEF IndInv, StateTypes, GoneInv, Ports
<1>4. ASSUME port' = freed
      PROVE  /\ \A d \in Dev: port'[d].st = "in" <=> port[d].st = "in"
             /\ \A d \in Ports: port'[d] = port[d]
  <2>1. ASSUME NEW d \in Dev PROVE port'[d] = IF d \in main.del THEN NoPort ELSE port[d]
    BY <1>4
  <2>2. QED  BY <1>3, <2>1, NoPortFields DEF Ports
<1>5. CASE main' = Idle /\ port' = freed
  <2>1. KeepPorts  BY <1>4, <1>5 DEF KeepPorts, Ports
  <2>2. PhaseKept  BY <1>2, <1>5, ToIdle DEF PhaseKept
  <2>3. QED  BY <1>1, <2>1, <2>2, QuietRest
<1>6. CASE main' = [Reloading(Running, "destroy") EXCEPT !.del = {}] /\ port' = freed
  <2>1. main'.pc = "reload" /\ main'.next = "destroy"
    <3>1. PICK m: m = Reloading(Running, "destroy")  OBVIOUS
    <3>2. m = [pc |-> "reload", todo |-> Running, on |-> main.on, next |-> "destroy", del |-> main.del, saved |-> main.saved]
      BY <3>1, MainFields DEF Reloading, IndInv
    <3>3. main' = [m EXCEPT !.del = {}]  BY <1>6, <3>1
    <3>4. QED  BY ONLY <3>2, <3>3
  <2>2. Phase' = "destroy"  BY <2>1 DEF Phase, HandshakePc
  <2>3. \A d \in Dev: port'[d].st = "in" => port[d].st = "in" /\ port'[d].no = port[d].no
    BY <1>4, <1>6 DEF Ports
  <2>4. QED  BY <2>2, <2>3, FewerPorts
<1>7. ASSUME NEW d \in Ports, NEW n, main' = [Idle EXCEPT !.pc = "threads", !.del = {d}, !.saved = n],
             port' = [freed EXCEPT ![d].st = "removed"]
      PROVE  RestInv'
  <2>1. d \in Dev /\ d \notin main.del  BY <1>3 DEF Ports
  <2>2. PICK r: r = [port[d] EXCEPT !.st = "removed"]  OBVIOUS
  <2>3. r.st = "removed"  BY <1>2, <2>1, <2>2, RemovedFields DEF Removed
  <2>4. port' = [freed EXCEPT ![d] = r]  BY <1>7, <2>1, <2>2
  <2>5. /\ port'[d] = r
        /\ \A e \in Dev: e # d => port'[e] = IF e \in main.del THEN NoPort ELSE port[e]
    BY <2>1, <2>4
  <2>6. \A e \in Dev: port'[e].st = "in" => port[e].st = "in" /\ port'[e].no = port[e].no
    BY <2>3, <2>5, NoPortFields
  <2>7. main'.pc = "threads"  BY <1>7 DEF Idle
  <2>8. Phase' = "threads"  BY <2>7 DEF Phase, HandshakePc
  <2>9. QED  BY <2>6, <2>8, FewerPorts
<1>8. QED  BY <1>5, <1>6, <1>7 DEF End

\* Without ports there is nothing to say.
LEMMA DestroyNonPmdRest == ASSUME IndInv, RestInv, DestroyNonPmd PROVE RestInv'
<1>1. main.pc = "destroy" /\ main' = Idle /\ port' = port  BY DEF DestroyNonPmd
<1>2. Ports = {}
  <2>1. Phase = "destroy"  BY <1>1 DEF Phase, HandshakePc
  <2>2. QED  BY <2>1 DEF IndInv, NeedInv
<1>3. Ports' = {} /\ main'.pc # "add"  BY <1>1, <1>2, ToIdle DEF Ports
<1>4. Queues' = {}  BY <1>3 DEF Queues
<1>5. NumbersInv' /\ PollsInv' /\ TxInv' /\ ScheduleInv' /\ GivenInv'
  BY <1>3, <1>4 DEF NumbersInv, PollsInv, TxInv, ScheduleInv, GivenInv
<1>6. QED  BY <1>5 DEF RestInv

\* Commands that find the datapath at rest and leave it there, and devices.
LEMMA CommandRest ==
  ASSUME IndInv, RestInv, OpenAgain \/ Destroy \/ Close \/ PmdSet \/ DeviceChanges \/ UNCHANGED vars
  PROVE  RestInv'
<1>1. port' = port /\ pmd' = pmd /\ (request => request')
  <2>1. CASE Close  BY <2>1, Zenon DEF Close
  <2>2. CASE OpenAgain \/ Destroy \/ PmdSet \/ DeviceChanges \/ UNCHANGED vars
    BY <2>2 DEF OpenAgain, Destroy, PmdSet, DeviceChanges, vars
  <2>3. QED  BY <2>1, <2>2
<1>2. PhaseKept
  <2>1. CASE main' = main  BY <2>1, SameMainPhase
  <2>2. CASE main' # main
    <3>1. main.pc = "idle" /\ \E n \in Following(Ports): main' = [Idle EXCEPT !.pc = "end", !.saved = n]
      BY <2>2 DEF OpenAgain, Destroy, Close, Open, PmdSet, DeviceChanges, vars
    <3>2. main'.pc = "end"  BY <3>1 DEF Idle
    <3>3. Phase' = "end" /\ Phase = "idle"  BY <3>1, <3>2 DEF Phase, HandshakePc
    <3>4. QED  BY <3>3 DEF PhaseKept
  <2>3. QED  BY <2>1, <2>2
<1>3. QED  BY <1>1, <1>2, UnchangedPorts, QuietRest

LEMMA SetAffinityRest == ASSUME IndInv, RestInv, SetAffinity PROVE RestInv'
<1>1. PICK d \in Ports \cap PmdDev: \E a: port' = [port EXCEPT ![d].aff = a]  BY DEF SetAffinity
<1>2. PICK a: port' = [port EXCEPT ![d].aff = a]  BY <1>1
<1>3. PICK p: p = port[d]  OBVIOUS
<1>4. PICK r: r = [p EXCEPT !.aff = a]  OBVIOUS
<1>5. d \in Dev /\ PortTypes /\ DOMAIN port = Dev  BY DEF Ports, IndInv, StateTypes, PortTypes
<1>6. p = [st |-> p.st, no |-> p.no, need |-> p.need, rxq |-> p.rxq, dynamic |-> p.dynamic,
           used |-> p.used, aff |-> p.aff, pmd |-> p.pmd]
  BY <1>3, <1>5, PortFields
<1>7. r.st = p.st /\ r.no = p.no /\ r.rxq = p.rxq /\ r.pmd = p.pmd  BY ONLY <1>4, <1>6
<1>8. port'[d] = r /\ \A e \in Dev: e # d => port'[e] = port[e]  BY <1>2, <1>3, <1>4, <1>5
<1>9. request' = TRUE /\ pmd' = pmd /\ main' = main  BY DEF SetAffinity
<1>10. KeepPorts  BY <1>3, <1>7, <1>8, <1>9 DEF KeepPorts, Ports
<1>11. QED  BY <1>9, <1>10, SameMainPhase, QuietRest

\* Step 5: the queue of a port that is polled has the thread it is scheduled for.
LEMMA ScheduledPorts ==
  ASSUME IndInv, Schedule
  PROVE  /\ \A d \in Dev: /\ port'[d].st = port[d].st /\ port'[d].no = port[d].no
                          /\ port'[d].rxq = port[d].rxq /\ port'[d].aff = port[d].aff
         /\ Ports' = Ports /\ Queues' = Queues
         /\ \A q \in Queues: port'[q[1]].pmd[q[2]] = Scheduled(q)
<1> DEFINE given(d) == [i \in 0 .. MaxRxq - 1 |-> IF <<d, i>> \in Queues THEN Scheduled(<<d, i>>) ELSE None]
<1>1. port' = [d \in Dev |-> IF d \in Ports \cap PmdDev THEN [port[d] EXCEPT !.pmd = given(d)] ELSE port[d]]
  BY DEF Schedule
<1> HIDE DEF given
<1>2. ASSUME NEW d \in Dev
      PROVE  /\ port'[d].st = port[d].st /\ port'[d].no = port[d].no
             /\ port'[d].rxq = port[d].rxq /\ port'[d].aff = port[d].aff
             /\ port'[d].pmd = IF d \in Ports \cap PmdDev THEN given(d) ELSE port[d].pmd
  <2>1. PICK p: p = port[d]  OBVIOUS
  <2>2. PICK r: r = port'[d]  OBVIOUS
  <2>3. PICK g: g = given(d)  OBVIOUS
  <2>4. p = [st |-> p.st, no |-> p.no, need |-> p.need, rxq |-> p.rxq, dynamic |-> p.dynamic,
             used |-> p.used, aff |-> p.aff, pmd |-> p.pmd]
    BY <2>1, PortFields DEF IndInv, StateTypes
  <2>5. CASE d \in Ports \cap PmdDev
    <3>1. r = [p EXCEPT !.pmd = g]  BY <1>1, <2>1, <2>2, <2>3, <2>5
    <3>2. r.st = p.st /\ r.no = p.no /\ r.rxq = p.rxq /\ r.aff = p.aff /\ r.pmd = g
      BY ONLY <2>4, <3>1
    <3>3. QED  BY <2>1, <2>2, <2>3, <2>5, <3>2
  <2>6. CASE d \notin Ports \cap PmdDev  BY <1>1, <2>6
  <2>7. QED  BY <2>5, <2>6
<1>3. Ports' = Ports  BY <1>2 DEF Ports
<1>4. \A q \in Queue: q[1] \in PmdDev /\ q[1] \in Dev /\ q[2] \in 0 .. MaxRxq - 1 /\ q = <<q[1], q[2]>>
  BY NetdevPortsAssumption DEF Queue
<1>5. Queues' = Queues
  <2>1. \A q \in Queue: port'[q[1]].rxq = port[q[1]].rxq  BY <1>2, <1>4
  <2>2. QED  BY <1>3, <2>1 DEF Queues
<1>6. ASSUME NEW q \in Queues PROVE port'[q[1]].pmd[q[2]] = Scheduled(q)
  <2>1. q \in Queue /\ q[1] \in Ports  BY DEF Queues
  <2>2. port'[q[1]].pmd = given(q[1])  BY <1>2, <1>4, <2>1
  <2>3. given(q[1])[q[2]] = Scheduled(q)
    <3>1. q[2] \in 0 .. MaxRxq - 1 /\ <<q[1], q[2]>> = q  BY <1>4, <2>1
    <3>2. QED  BY <3>1 DEF given
  <2>4. QED  BY <2>2, <2>3
<1>7. QED  BY <1>2, <1>3, <1>5, <1>6

\* A queue that is not pinned gets a thread if there is one for it.
LEMMA ScheduledNone ==
  ASSUME NEW q \in Queues, Scheduled(q) = None, Pin(q) = None
  PROVE  Eligible(Numa[q[1]]) = <<>>
<1> DEFINE E == {c \in Running \ Isolated: Numa[c] = Numa[q[1]]}
           k == Cardinality(Before(q))
           n == Cardinality(E)
<1>1. SUFFICES ASSUME Eligible(Numa[q[1]]) # <<>> PROVE FALSE  OBVIOUS
<1>2. IsFiniteSet(E) /\ E \subseteq Core
  <2>1. E \subseteq Core  BY PollingThreads
  <2>2. QED  BY <2>1, NetdevPortsAssumption, FS_Subset
<1>3. n \in Nat /\ SetToSeq(E) \in [1 .. n -> E]
  <2> HIDE DEF E
  <2>1. QED  BY <1>2, SetInOrder
<1>4. k \in Nat
  <2>1. Before(q) \subseteq Queue  BY DEF Before, Queues
  <2>2. QED  BY <2>1, FewQueues, FS_Subset, FS_CardinalityType
<1>5. Eligible(Numa[q[1]]) = SetToSeq(E)  BY DEF Eligible
<1>6. Scheduled(q) = SetToSeq(E)[(k % Len(SetToSeq(E))) + 1]  BY <1>1, <1>5 DEF Scheduled
<1> HIDE DEF E, k, n
<1>7. PICK s: s = SetToSeq(E)  OBVIOUS
<1>8. s \in Seq(E) /\ Len(s) = n /\ n # 0  BY <1>1, <1>3, <1>5, <1>7
<1>9. (k % n) + 1 \in 1 .. n  BY <1>3, <1>4, <1>8
<1>10. Scheduled(q) \in E  BY <1>3, <1>6, <1>7, <1>8, <1>9
<1>11. QED  BY <1>2, <1>10, NetdevPortsAssumption

LEMMA ScheduleRest == ASSUME IndInv, IndInv', RestInv, Schedule PROVE RestInv'
<1>1. /\ \A d \in Dev: /\ port'[d].st = port[d].st /\ port'[d].no = port[d].no
                       /\ port'[d].rxq = port[d].rxq /\ port'[d].aff = port[d].aff
      /\ Ports' = Ports /\ Queues' = Queues
      /\ \A q \in Queues: port'[q[1]].pmd[q[2]] = Scheduled(q)
  BY ScheduledPorts
<1>2. main' = Reloading({c \in Polling: pmd'[c].need}, "add")  BY DEF Schedule
<1>3. main'.pc = "reload" /\ main'.next = "add"  BY <1>2, MainFields DEF IndInv, Reloading
<1>4. Phase' = "add"  BY <1>3 DEF Phase, HandshakePc
<1>5. NumbersInv'  BY <1>1 DEF RestInv, NumbersInv, Ports
<1>6. PollsInv' /\ TxInv'  BY <1>3, <1>4 DEF PollsInv, TxInv
<1>7. \A q \in Queues: q[1] \in Dev  BY DEF Queues, Ports
<1>8. ScheduleInv'
  <2>1. Running' = Running
    <3>1. \A c \in Thread: pmd'[c].pc = pmd[c].pc  BY ScheduleLists DEF Relists
    <3>2. QED  BY <3>1 DEF Running, Polling
  <2>2. \A q \in Queues: port'[q[1]].aff[q[2]] = port[q[1]].aff[q[2]]  BY <1>1, <1>7
  <2>3. ASSUME NEW q \in Queues', port'[q[1]].pmd[q[2]] = None
        PROVE  Pin(q)' # None \/ Eligible(Numa[q[1]])' = <<>>
    <3>1. q \in Queues /\ Scheduled(q) = None  BY <1>1, <2>3
    <3>2. Pin(q)' = Pin(q)  BY <2>2, <3>1 DEF Pin
    <3>3. PICK n: n = Numa[q[1]]  OBVIOUS
    <3>4. Eligible(n)' = Eligible(n)  BY <1>1, <2>1, <2>2, SameEligible
    <3>5. Pin(q) # None \/ Eligible(n) = <<>>  BY <3>1, <3>3, ScheduledNone
    <3>6. QED  BY <3>2, <3>3, <3>4, <3>5
  <2>4. QED  BY <2>3 DEF ScheduleInv
<1>9. GivenInv'
  <2>1. \A q \in Queues': port'[q[1]].pmd[q[2]] \in Running' \cup {None}  BY <1>4 DEF IndInv, NeedInv
  <2>2. Running' \subseteq Thread  BY DEF Running, Polling
  <2>3. QED  BY <2>1, <2>2 DEF GivenInv
<1>10. QED  BY <1>5, <1>6, <1>8, <1>9 DEF RestInv

LEMMA AddQueuesRest == ASSUME IndInv, RestInv, NEW d \in Dev, AddQueues(d) PROVE RestInv'
<1>1. /\ main.pc = "add" /\ main' = [main EXCEPT !.todo = @ \ {d}]
      /\ port' = port /\ request' = request
  BY DEF AddQueues
<1>2. main'.pc = "add" /\ main'.todo = main.todo \ {d}  BY <1>1, MainFields DEF IndInv
<1>3. Phase = "add" /\ Phase' = "add"  BY <1>1, <1>2 DEF Phase, HandshakePc
<1>4. \A c \in Thread: /\ pmd'[c].polls = pmd[c].polls \cup NewQueues(d, c)
                       /\ pmd'[c].pc = pmd[c].pc
  BY AddQueuesLists DEF Relists
<1>5. Running' = Running  BY <1>4 DEF Running, Polling
<1>6. Ports' = Ports  BY <1>1 DEF Ports
<1>7. Queues' = Queues  BY <1>1, <1>6 DEF Queues
<1>8. NumbersInv'  BY <1>1, <1>6 DEF RestInv, NumbersInv
<1>9. GivenInv'  BY <1>1, <1>3, <1>7 DEF RestInv, GivenInv
<1>10. PollsInv'
  <2>1. ASSUME NEW q \in Queues, port[q[1]].pmd[q[2]] # None
        PROVE  q[1] \in main'.todo \/ q \in pmd'[port[q[1]].pmd[q[2]]].polls
    <3>1. PICK c \in Thread: c = port[q[1]].pmd[q[2]]  BY <1>3, <2>1 DEF RestInv, GivenInv
    <3>2. q[1] \in main.todo \/ q \in pmd[c].polls  BY <1>1, <2>1, <3>1 DEF RestInv, PollsInv
    <3>3. q[1] = d => q \in NewQueues(d, c)  BY <3>1 DEF NewQueues
    <3>4. QED  BY <1>2, <1>4, <3>1, <3>2, <3>3
  <2>2. QED  BY <1>1, <1>3, <1>7, <2>1 DEF PollsInv
<1>11. TxInv'  BY <1>3 DEF TxInv
<1>12. ScheduleInv'
  <2>1. SUFFICES ASSUME ~ request', NEW q \in Queues', port'[q[1]].pmd[q[2]] = None
                 PROVE  Pin(q)' # None \/ Eligible(Numa[q[1]])' = <<>>
    BY DEF ScheduleInv
  <2>2. Pin(q) # None \/ Eligible(Numa[q[1]]) = <<>>
    BY <1>1, <1>3, <1>7, <2>1 DEF RestInv, ScheduleInv
  <2>3. PICK n: n = Numa[q[1]]  OBVIOUS
  <2>4. Eligible(n)' = Eligible(n)  BY <1>1, <1>5, <1>7, SameEligible
  <2>5. Pin(q)' = Pin(q)  BY <1>1 DEF Pin
  <2>6. QED  BY <2>2, <2>3, <2>4, <2>5
<1>13. QED  BY <1>8, <1>9, <1>10, <1>11, <1>12 DEF RestInv

LEMMA AddTxRest == ASSUME IndInv, RestInv, AddTx PROVE RestInv'
<1>1. /\ main.pc = "add" /\ main.todo = {} /\ port' = port /\ request' = request
      /\ main' = Reloading({c \in Polling: pmd'[c].need}, "end")
  BY DEF AddTx
<1>2. main'.pc = "reload" /\ main'.next = "end"  BY <1>1, MainFields DEF IndInv, Reloading
<1>3. Phase = "add" /\ Phase' = "end"  BY <1>1, <1>2 DEF Phase, HandshakePc
<1>4. \A c \in Thread:
         /\ pmd'[c].polls = pmd[c].polls /\ pmd'[c].pc = pmd[c].pc
         /\ c \in Polling /\ (c = NonPmd \/ pmd[c].polls # {}) =>
               pmd'[c].tx = pmd[c].tx \cup NewPorts(c)
  BY AddTxLists DEF Relists
<1>5. Running' = Running /\ Polling' = Polling  BY <1>4 DEF Running, Polling
<1>6. Ports' = Ports  BY <1>1 DEF Ports
<1>7. Queues' = Queues  BY <1>1, <1>6 DEF Queues
<1>8. NumbersInv'  BY <1>1, <1>6 DEF RestInv, NumbersInv
<1>9. GivenInv'  BY <1>1, <1>3, <1>7 DEF RestInv, GivenInv
<1>10. PollsInv'
  <2>1. ASSUME NEW q \in Queues, port[q[1]].pmd[q[2]] # None
        PROVE  q \in pmd'[port[q[1]].pmd[q[2]]].polls
    <3>1. PICK c \in Thread: c = port[q[1]].pmd[q[2]]  BY <1>3, <2>1 DEF RestInv, GivenInv
    <3>2. q \in pmd[c].polls  BY <1>1, <2>1, <3>1 DEF RestInv, PollsInv
    <3>3. QED  BY <1>4, <3>1, <3>2
  <2>2. QED  BY <1>1, <1>2, <1>7, <2>1 DEF PollsInv
<1>11. TxInv'
  <2>1. ASSUME NEW c \in Polling, c = NonPmd \/ pmd[c].polls # {}, NEW e \in Ports
        PROVE  e \in pmd'[c].tx
    <3>1. c \in Thread  BY PollingThreads
    <3>2. pmd'[c].tx = pmd[c].tx \cup NewPorts(c)  BY <1>4, <2>1, <3>1
    <3>3. CASE e \in NewPorts(c)  BY <3>2, <3>3
    <3>4. CASE e \notin NewPorts(c)
      <4>1. PICK f \in pmd[c].tx: port[f].no = port[e].no  BY <2>1, <3>4 DEF NewPorts
      <4>2. f \in Dev  BY <3>1, <4>1, PmdFields DEF IndInv
      <4>3. ~ Gone(f)  BY <3>1, <4>1 DEF Gone
      <4>4. f \in Ports  BY <1>3, <4>2, <4>3 DEF IndInv, GoneInv, Ports
      <4>5. f = e  BY <4>1, <4>4 DEF RestInv, NumbersInv
      <4>6. QED  BY <3>2, <4>1, <4>5
    <3>5. QED  BY <3>3, <3>4
  <2>2. ASSUME NEW c \in Polling, c = NonPmd \/ pmd'[c].polls # {} PROVE Ports \subseteq pmd'[c].tx
    <3>1. c = NonPmd \/ pmd[c].polls # {}  BY <1>4, <2>2, PollingThreads
    <3>2. QED  BY <2>1, <3>1
  <2>3. QED  BY <1>5, <1>6, <2>2 DEF TxInv
<1>12. ScheduleInv'
  <2>1. SUFFICES ASSUME ~ request', NEW q \in Queues', port'[q[1]].pmd[q[2]] = None
                 PROVE  Pin(q)' # None \/ Eligible(Numa[q[1]])' = <<>>
    BY DEF ScheduleInv
  <2>2. Pin(q) # None \/ Eligible(Numa[q[1]]) = <<>>
    BY <1>1, <1>3, <1>7, <2>1 DEF RestInv, ScheduleInv
  <2>3. PICK n: n = Numa[q[1]]  OBVIOUS
  <2>4. Eligible(n)' = Eligible(n)  BY <1>1, <1>5, <1>7, SameEligible
  <2>5. Pin(q)' = Pin(q)  BY <1>1 DEF Pin
  <2>6. QED  BY <2>2, <2>3, <2>4, <2>5
<1>13. QED  BY <1>8, <1>9, <1>10, <1>11, <1>12 DEF RestInv

LEMMA NextRest == ASSUME IndInv, IndInv', RestInv, [Next]_vars PROVE RestInv'
<1>1. CASE UNCHANGED vars  BY <1>1, CommandRest
<1>2. CASE DeviceChanges  BY <1>2, CommandRest
<1>3. CASE \E c \in Core: PmdThread(c)  BY <1>3, ThreadRest
<1>4. CASE \E c \in Thread: Send(c)  BY <1>4, SendRest
<1>5. CASE Handshake
  BY <1>5, ReloadNonPmdRest, ReloadSeqRest, ReloadSetRest, ReloadWaitRest, ReloadNextRest, ReloadEndRest
     DEF Handshake
<1>6. CASE Reconfigure
  <2>1. ASSUME NEW d \in Dev, PortReconfigure(d) \/ PortFails(d) \/ AddQueues(d) PROVE RestInv'
    BY <2>1, PortReconfigureRest, PortFailsRest, AddQueuesRest
  <2>2. QED
    BY <1>6, <2>1, ThreadsRest, CreateRest, StaleRest, ScheduleRest, AddTxRest, EndRest,
       DestroyNonPmdRest DEF Reconfigure
<1>7. CASE Run  BY <1>7, RunRest
<1>8. CASE Command
  BY <1>8, CreateDpRest, CommandRest, PortAddRest, PortDelRest, SetAffinityRest DEF Command
<1>9. QED  BY <1>1, <1>2, <1>3, <1>4, <1>5, <1>6, <1>7, <1>8 DEF Next

LEMMA InitRest == Init => SyncedInv /\ RestInv
<1> SUFFICES ASSUME Init PROVE SyncedInv /\ RestInv  OBVIOUS
<1>1. /\ port = [d \in Dev |-> NoPort] /\ pmd = [c \in Thread |-> NoPmd] /\ main = Idle
  BY DEF Init
<1>2. main.pc = "idle" /\ Phase = "idle"  BY <1>1 DEF Idle, Phase, HandshakePc
<1>3. Ports = {} /\ Queues = {}
  <2>1. \A d \in Dev: port[d].st = "none"  BY <1>1, NoPortFields
  <2>2. Ports = {}  BY <2>1 DEF Ports
  <2>3. QED  BY <2>2 DEF Queues
<1>4. \A c \in Thread: /\ pmd[c].pc = "none" /\ ~ pmd[c].need /\ ~ pmd[c].latch /\ pmd[c].polls = {}
                       /\ pmd[c].tx = {} /\ pmd[c].snap = {} /\ DOMAIN pmd[c].cache = {}
  <2>1. /\ NoPmd.pc = "none" /\ ~ NoPmd.need /\ ~ NoPmd.latch /\ NoPmd.polls = {}
        /\ NoPmd.tx = {} /\ NoPmd.snap = {} /\ NoPmd.cache = <<>>
    BY DEF NoPmd
  <2>2. \A c \in Thread: pmd[c] = NoPmd  BY <1>1
  <2>3. QED  BY <2>1, <2>2, EmptyTypes
<1>5. SyncedInv  BY <1>4 DEF SyncedInv, Synced, Exact
<1>6. RestInv
  BY <1>2, <1>3 DEF RestInv, NumbersInv, PollsInv, TxInv, ScheduleInv, GivenInv
<1>7. QED  BY <1>5, <1>6

LEMMA IdleRest == ASSUME IndInv, SyncedInv, RestInv PROVE AtRest
<1> SUFFICES ASSUME main.pc = "idle"
             PROVE  /\ \A c \in Running: pmd[c].snap = {q \in Queues: port[q[1]].pmd[q[2]] = c}
                    /\ \A c \in Polling: c = NonPmd \/ pmd[c].snap # {} => DOMAIN pmd[c].cache = Ports
                    /\ request \/ \A q \in Queues: port[q[1]].pmd[q[2]] = None =>
                                    Pin(q) # None \/ Eligible(Numa[q[1]]) = <<>>
  BY DEF AtRest
<1>1. AtWork /\ Phase = "idle"  BY DEF AtWork, Phase, HandshakePc
<1>2. \A c \in Thread: Exact(c)  BY <1>1, AllSynced
<1>3. \A c \in Thread: pmd[c].polls \in SUBSET Queue /\ pmd[c].tx \in SUBSET Dev
  BY PmdFields DEF IndInv
\* No list names a port that is not there.
<1>4. \A c \in Thread: pmd[c].tx \subseteq Ports /\ \A q \in pmd[c].polls: q[1] \in Ports
  <2>1. \A d \in Dev: port[d].st = "in" \/ Gone(d)  BY <1>1 DEF IndInv, GoneInv
  <2>2. \A c \in Thread: /\ \A d \in pmd[c].tx: d \in Dev /\ ~ Gone(d)
                         /\ \A q \in pmd[c].polls: q[1] \in Dev /\ ~ Gone(q[1])
    BY <1>3, QueueDev DEF Gone
  <2>3. QED  BY <2>1, <2>2 DEF Ports
<1>5. \A c \in Running: pmd[c].snap = {q \in Queues: port[q[1]].pmd[q[2]] = c}
  <2>1. TAKE c \in Running
  <2>2. c \in Core /\ c \in Thread /\ c # NonPmd /\ c # None
    BY PollingThreads, CoreThreads, NetdevPortsAssumption
  <2>3. pmd[c].snap = pmd[c].polls  BY <1>2, <2>2 DEF Exact
  <2>4. ASSUME NEW q \in pmd[c].polls PROVE q \in Queues /\ port[q[1]].pmd[q[2]] = c
    <3>1. q \in Queue /\ q[1] \in Ports  BY <1>3, <1>4, <2>2
    <3>2. q[2] < port[q[1]].rxq  BY <2>2 DEF IndInv, OpenInv
    <3>3. port[q[1]].pmd[q[2]] = c  BY <2>2 DEF IndInv, OwnerInv
    <3>4. QED  BY <3>1, <3>2, <3>3 DEF Queues
  <2>5. ASSUME NEW q \in Queues, port[q[1]].pmd[q[2]] = c PROVE q \in pmd[c].polls
    BY <1>1, <2>2, <2>5 DEF RestInv, PollsInv
  <2>6. QED  BY <2>3, <2>4, <2>5
<1>6. ASSUME NEW c \in Polling, c = NonPmd \/ pmd[c].snap # {}
      PROVE  DOMAIN pmd[c].cache = Ports
  <2>1. c \in Thread  BY PollingThreads
  <2>2. DOMAIN pmd[c].cache = pmd[c].tx /\ (c # NonPmd => pmd[c].snap = pmd[c].polls)
    BY <1>2, <2>1 DEF Exact
  <2>3. Ports \subseteq pmd[c].tx  BY <1>1, <1>6, <2>2 DEF RestInv, TxInv
  <2>4. QED  BY <1>4, <2>1, <2>2, <2>3
<1>7. request \/ \A q \in Queues: port[q[1]].pmd[q[2]] = None =>
                     Pin(q) # None \/ Eligible(Numa[q[1]]) = <<>>
  BY <1>1 DEF RestInv, ScheduleInv
<1>8. QED  BY <1>5, <1>6, <1>7

\* When the main thread is at rest, each thread polls what has been scheduled for it
\* and sends to the ports of the datapath, and a queue is without a thread only if it
\* is pinned to a core without one or there is none for it: reconfigure_datapath has
\* left no thread with copies of lists that it has changed since, and no list short
\* of what belongs in it (dpif-netdev.c:3223-3360, 3491-3515).
THEOREM AtRestHolds == Spec => []AtRest
<1>1. Init => IndInv /\ FreeInv /\ MaskType /\ SyncedInv /\ RestInv  BY InitInv, InitFree, InitRest
<1>2. ASSUME IndInv /\ FreeInv /\ MaskType /\ SyncedInv /\ RestInv, [Next]_vars
      PROVE  (IndInv /\ FreeInv /\ MaskType /\ SyncedInv /\ RestInv)'
  <2>1. IndInv'  BY <1>2, NextStep
  <2>2. QED  BY <1>2, <2>1, FreeStep, MaskStep, NextSynced, NextRest
<1>3. IndInv /\ SyncedInv /\ RestInv => AtRest  BY IdleRest
<1>4. QED  BY <1>1, <1>2, <1>3, PTL DEF Spec
=============================================================================
