----------------------------- MODULE TrueFlows ------------------------------
(***************************************************************************)
(* true_flows.c: what dp_simulate.c does, with a table of the true flows   *)
(* in the place of the sketch.  main is the same program; the worker keeps *)
(* a key table, which it prints and resets at the end of each interval,    *)
(* and the least and the largest interval by packets, bytes and flows.     *)
(* DpSimulate's sketch and files say from which packets the table and its  *)
(* files were made.  The table is the map KeyTable implements, as long as  *)
(* no list is exhausted: key_tbl_record then ends the process              *)
(* (alg_keytbl.c:143), which the model leaves out.                         *)
(***************************************************************************)
EXTENDS DpSimulate, FiniteSetsExt, Totals

CONSTANTS
    FlowOf,            \* the key of each packet, by its place in the trace
    SizeOf             \* its size in bytes

ASSUME TrueFlowsAssumption ==
    /\ 1 .. MaxPacket \subseteq DOMAIN FlowOf
    /\ \A i \in 1 .. MaxPacket: SizeOf[i] \in Nat \ {0}

VARIABLES
    table,             \* tbl_104: the bytes of every key in it
    count,             \* cnt_pkt and cnt_byte
    least, largest,    \* min_pkt, min_byte, min_flow; max_pkt, max_byte, max_flow
    trueFiles          \* the files true_0, true_1, ...

flowVars == <<table, count, least, largest, trueFiles>>
allVars == <<replayVars, flowVars>>

Measures == {"pkt", "byte", "flow"}

InitFlows ==
    /\ InitReplay
    /\ table = <<>>
    /\ count = [pkt |-> 0, byte |-> 0]
    /\ least = [m \in Measures |-> 0]
    /\ largest = [m \in Measures |-> 0]
    /\ trueFiles = <<>>

\* main, and the worker when it starts and waits for a tuple.
MainSteps == Main /\ UNCHANGED flowVars
WorkerWaits == (WorkerReady \/ WorkerReads) /\ UNCHANGED flowVars

\* key_tbl_record, and the size added to the record it returns.
RecordFlow ==
    /\ RecordPacket
    /\ LET k == FlowOf[out.pkt]
           size == SizeOf[out.pkt]
           old == IF k \in DOMAIN table THEN table[k] ELSE 0 IN
       /\ table' = [j \in DOMAIN table \cup {k} |-> IF j = k THEN old + size ELSE table[j]]
       /\ count' = [pkt |-> count.pkt + 1, byte |-> count.byte + size]
    /\ UNCHANGED <<least, largest, trueFiles>>

\* key_tbl_print to the file of number cur_interval.
PrintTable ==
    trueFiles' = [n \in 1 .. Len(files') |-> IF n = cur_interval + 1 THEN table ELSE trueFiles[n]]

\* Wrong: 0 is taken for a count.
LessCounted(m, n) == IF n < m THEN n ELSE m

\* The lesser of two counts, of which 0 stands for none.
Less(m, n) == IF m = 0 \/ n < m THEN n ELSE m

\* Wrong: the table is not reset.
EndFlowsNoReset ==
    /\ EndInterval
    /\ PrintTable
    /\ LET now == [pkt |-> count.pkt, byte |-> count.byte, flow |-> Cardinality(DOMAIN table)] IN
       /\ least' = [m \in Measures |-> Less(least[m], now[m])]
       /\ largest' = [m \in Measures |-> IF now[m] > largest[m] THEN now[m] ELSE largest[m]]
    /\ table' = table
    /\ count' = [pkt |-> 0, byte |-> 0]

\* TUPLE_PUNC
EndFlows ==
    /\ EndInterval
    /\ PrintTable
    /\ LET now == [pkt |-> count.pkt, byte |-> count.byte, flow |-> Cardinality(DOMAIN table)] IN
       /\ least' = [m \in Measures |-> Less(least[m], now[m])]
       /\ largest' = [m \in Measures |-> IF now[m] > largest[m] THEN now[m] ELSE largest[m]]
    /\ table' = <<>>
    /\ count' = [pkt |-> 0, byte |-> 0]

\* TUPLE_TERM: the last file.  The last interval is not compared.
FinishFlows ==
    /\ Finish
    /\ PrintTable
    /\ table' = <<>>
    /\ UNCHANGED <<count, least, largest>>

WorkerSteps == WorkerWaits \/ RecordFlow \/ EndFlows \/ FinishFlows

NextFlows == MainSteps \/ WorkerSteps

\* DpSimulate's fairness
SpecFlows == InitFlows /\ [][NextFlows]_allVars /\ WF_allVars(MainSteps) /\ WF_allVars(WorkerSteps)

-----------------------------------------------------------------------------
(* Properties *)

\* The bytes of packets ps, by key.
BytesOf(ps) ==
    [k \in {FlowOf[i]: i \in ps} |-> Total(SizeOf, {i \in ps: FlowOf[i] = k})]

\* Every file of true flows lists the keys of its interval's packets, with all
\* their bytes, and nothing of another interval (true_flows.c:103-144): it is
\* what the estimates from the sketch of that interval are compared with.
TrueFilesAreIntervals == \A k \in DOMAIN trueFiles: trueFiles[k] = BytesOf(PacketsOf(k))

\* The least and largest counts are those of the intervals that have ended,
\* although 0 stands for none yet (true_flows.c:112-131).
ExtremesAreOfIntervals ==
    LET flows(k) == BytesOf(PacketsOf(k))
        of(k) == [pkt |-> Cardinality(PacketsOf(k)), flow |-> Cardinality(DOMAIN flows(k)),
                  byte |-> Total(flows(k), DOMAIN flows(k))] IN
    cur_interval > 0 => \A m \in Measures:
        LET counts == {of(k)[m]: k \in 1 .. cur_interval} IN
        least[m] = Min(counts) /\ largest[m] = Max(counts)
=============================================================================
