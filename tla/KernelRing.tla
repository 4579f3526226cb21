----------------------------- MODULE KernelRing -----------------------------
(***************************************************************************)
(* The part of openvswitch/datapath/datapath.c this project added: a       *)
(* character device with which a user process maps the ring and starts     *)
(* and stops a measurement, and a hook at the end of                       *)
(* ovs_dp_process_packet that writes a tuple for every IPv4 packet.  The   *)
(* ring is RingBuffer at its full grain; datapath/ringbuffer.c has the     *)
(* same write_ringbuffer and flush_ringbuffer.  vars are its variables.    *)
(*                                                                         *)
(* One processor handles packets here.  The user process polls the ring,   *)
(* as dp_ovs does, and calls start_ringbuffer_kshm and                     *)
(* stop_ringbuffer_kshm in turn.                                           *)
(*                                                                         *)
(* The slots are the kernel's.  The process moves the indexes as here, but  *)
(* computes the place of a slot without struct RBAppro (ringbuffer.c:165   *)
(* and datapath/ringbuffer.c:12-14), so that what it copies is not what    *)
(* out is: out stands for the tuple it believes it has read.               *)
(***************************************************************************)
EXTENDS RingBuffer, Sequences

CONSTANTS
    MaxPackets,        \* a bound: the packets that arrive
    MaxStarts          \* a bound: the calls of start_ringbuffer_kshm

ASSUME KernelAssumption ==
    /\ MaxPackets \in Nat /\ MaxStarts \in Nat

VARIABLES
    \* the kernel
    start_measurement,
    hpc,               \* where the hook is
    tuple,             \* the hook's tuple, on the stack
    \* the user process
    upc,               \* whether it has started or stopped a measurement
    \* auxiliary
    packets,           \* the packets that have arrived
    starts, stops,     \* the calls of start_ and stop_ringbuffer_kshm
    terms              \* the TUPLE_TERM written

userVars == <<upc, starts, stops>>
kernelVars == <<vars, start_measurement, hpc, tuple, packets, terms, userVars>>

\* A tuple is what the hook means by it, and the measurement it was made in.
\* The flag of a packet is not set and may be any (see PacketFlags of DpOvs).
KernelTuple == [kind: {"none", "packet", "term"}, run: 0 .. MaxStarts]
KernelZero == [kind |-> "none", run |-> 0]

\* What the hook puts in its ring.
KernelTuples == Tuple = KernelTuple /\ Zero = KernelZero

InitKernel ==
    /\ Init
    /\ start_measurement = "OFF" /\ hpc = "idle" /\ tuple = KernelZero
    /\ upc = "stopped"
    /\ packets = 0 /\ starts = 0 /\ stops = 0 /\ terms = 0

-----------------------------------------------------------------------------
(* The hook *)

\* A packet, IPv4 or not, and the first load of start_measurement.
PacketComes(isIp) ==
    /\ hpc = "idle"
    /\ packets < MaxPackets
    /\ packets' = packets + 1
    /\ \/ /\ isIp /\ start_measurement = "START"
          /\ tuple' = [kind |-> "packet", run |-> starts]
          /\ hpc' = "record"
       \/ /\ ~ (isIp /\ start_measurement = "START")
          /\ hpc' = "tail"
          /\ UNCHANGED tuple
    /\ UNCHANGED <<vars, start_measurement, terms, userVars>>

\* One call of write_ringbuffer: when it fails the packet is not recorded.
OfferPacket ==
    /\ hpc = "record"
    /\ \/ WriteFails /\ hpc' = "idle"
       \/ (WriteBegin(tuple) \/ WriteReload) /\ UNCHANGED hpc
       \/ /\ WriteStore \/ WritePublish
          /\ hpc' = IF wpc' = "idle" THEN "idle" ELSE hpc
    /\ UNCHANGED <<start_measurement, tuple, packets, terms, userVars>>

\* Wrong: the hook waits for the stop command.
TestTailSpin ==
    /\ hpc = "tail"
    /\ hpc' = IF start_measurement = "TAIL" THEN "stop" ELSE "tail"
    /\ UNCHANGED <<vars, start_measurement, tuple, packets, terms, userVars>>

\* The second load of start_measurement.
TestTail ==
    /\ hpc = "tail"
    /\ hpc' = IF start_measurement = "TAIL" THEN "stop" ELSE "idle"
    /\ UNCHANGED <<vars, start_measurement, tuple, packets, terms, userVars>>

\* Wrong: the hook goes back to recording.
SetStopStart ==
    /\ hpc = "stop"
    /\ start_measurement' = "START"
    /\ tuple' = [kind |-> "term", run |-> starts]
    /\ hpc' = "term"
    /\ UNCHANGED <<vars, packets, terms, userVars>>

SetStop ==
    /\ hpc = "stop"
    /\ start_measurement' = "STOP"
    /\ tuple' = [kind |-> "term", run |-> starts]
    /\ hpc' = "term"
    /\ UNCHANGED <<vars, packets, terms, userVars>>

\* Wrong: TUPLE_TERM is written once, and lost when the ring is full.
WriteTermOnce ==
    /\ hpc = "term"
    /\ \/ WriteFails /\ hpc' = "flush" /\ UNCHANGED terms
       \/ (WriteBegin(tuple) \/ WriteReload) /\ UNCHANGED <<hpc, terms>>
       \/ /\ WriteStore \/ WritePublish
          /\ IF wpc' = "idle" THEN hpc' = "flush" /\ terms' = terms + 1
             ELSE UNCHANGED <<hpc, terms>>
    /\ UNCHANGED <<start_measurement, tuple, packets, userVars>>

\* while (write_ringbuffer(rb, &tuple, sizeof(tuple_t)) < 0) {}
WriteTerm ==
    /\ hpc = "term"
    /\ \/ /\ WriteFails \/ WriteBegin(tuple) \/ WriteReload
          /\ UNCHANGED <<hpc, terms>>
       \/ /\ WriteStore \/ WritePublish
          /\ IF wpc' = "idle" THEN hpc' = "flush" /\ terms' = terms + 1
             ELSE UNCHANGED <<hpc, terms>>
    /\ UNCHANGED <<start_measurement, tuple, packets, userVars>>

FlushTerm ==
    /\ hpc = "flush"
    /\ \/ (FlushPublish \/ FlushLoad) /\ UNCHANGED hpc
       \/ FlushStore /\ hpc' = "idle"
    /\ UNCHANGED <<start_measurement, tuple, packets, terms, userVars>>

Hook ==
    \/ OfferPacket
    \/ TestTail
    \/ SetStop
    \/ WriteTerm
    \/ FlushTerm

-----------------------------------------------------------------------------
(* The user process *)

\* start_ringbuffer_kshm: ioctl START
Start ==
    /\ upc = "stopped"
    /\ starts < MaxStarts
    /\ starts' = starts + 1
    /\ start_measurement' = "START"
    /\ upc' = "started"
    /\ UNCHANGED <<vars, hpc, tuple, packets, terms, stops>>

\* stop_ringbuffer_kshm: ioctl STOP
Stop ==
    /\ upc = "started"
    /\ stops' = stops + 1
    /\ start_measurement' = "TAIL"
    /\ upc' = "stopped"
    /\ UNCHANGED <<vars, hpc, tuple, packets, terms, starts>>

\* read_ringbuffer
UserReads ==
    /\ Reader
    /\ UNCHANGED <<start_measurement, hpc, tuple, packets, terms, upc, starts, stops>>

-----------------------------------------------------------------------------
NextKernel ==
    \/ \E isIp \in BOOLEAN: PacketComes(isIp)
    \/ Hook
    \/ Start
    \/ Stop
    \/ UserReads

SpecKernel == InitKernel /\ [][NextKernel]_kernelVars

\* The hook runs until it returns, and the process polls on a thread of its
\* own (dp_ovs.c:171); packets need not come and measurements need not stop.
FairKernel == SpecKernel /\ WF_kernelVars(Hook) /\ WF_kernelVars(UserReads)

-----------------------------------------------------------------------------
\* No packet of a measurement comes out of the ring behind the TUPLE_TERM that
\* ends it, and a call of stop_ringbuffer_kshm is answered by one TUPLE_TERM at
\* most, although the process stops and starts measurements while the hook is
\* under way (datapath.c:142-157, 402-417).
TermIsLast ==
    LET contents == Contents IN
    /\ \A j, k \in DOMAIN contents:
          j < k /\ contents[j].kind = "term" /\ contents[k].kind = "packet" =>
              contents[k].run > contents[j].run
    /\ terms + (IF hpc = "term" THEN 1 ELSE 0) <= stops

\* A TUPLE_TERM is never dropped, unlike packets: when the hook that took the
\* stop command returns it is the last tuple in the ring and the reader can see
\* it, or it is the one the reader has read last (datapath.c:413-417).
TermIsPublished ==
    [][hpc = "flush" /\ hpc' = "idle" =>
         LET contents == Contents' IN
         IF contents = <<>> THEN out'.kind = "term"
         ELSE /\ contents[Len(contents)].kind = "term"
              /\ Dist(nextReadIndex, writeIndex)' = Len(contents)]_kernelVars

\* The hook and the process are out of step for good: see DpSimulate.
HookWedged ==
    /\ hpc = "term" /\ wpc = "idle" /\ LooksFull
    /\ rpc = "idle" /\ LooksEmpty

\* The hook, which spins in the kernel until TUPLE_TERM finds room, returns,
\* unless the race in flush_ringbuffer has left the two waiting for each other
\* (datapath.c:416).
HookReturns == [](hpc # "idle" => <>(hpc = "idle" \/ []HookWedged))
=============================================================================
