----------------------------- MODULE Controller -----------------------------
(***************************************************************************)
(* controller.c: for every interval, read the sketch that was printed for  *)
(* it and extract its large flows.  The outer loop (do_inference) lowers   *)
(* the threshold; the inner loop (detect_with_thresh) works on a copy of   *)
(* the sketch, finds candidates, estimates them, removes the accepted ones *)
(* from the copy and goes on until none is accepted.  Then do_inference    *)
(* records what was accepted and removes it from the sketch itself.        *)
(*                                                                         *)
(* Estimates and confidences are floating-point statistics: an estimate is *)
(* any value up to the smallest counter of the key, to which               *)
(* skl_est_bucket_size cuts it.  A key table is the set of its keys        *)
(* (KeyTable shows that it is one), and lists do not reach max_ret.        *)
(***************************************************************************)
EXTENDS Counters, SequencesExt

CONSTANTS
    Traffic,       \* the flows of an interval: functions from Key to sizes
    NumInterval    \* n_interval

ASSUME TrafficAssumption ==
    /\ \A tr \in Traffic: tr \in [Key -> Nat]
    /\ NumInterval \in Nat

VARIABLES
    pc,           \* where the program is
    interval,     \* the interval at hand
    skl,          \* the sketch
    skl_new,      \* detect_with_thresh's copy
    d,            \* the threshold is 1/d
    found,        \* the keys in detect_with_thresh's key table
    list_tmp,     \* the candidates at hand
    list_ret,     \* the flows detect_with_thresh has accepted
    detected,     \* list_detect, which list_all_detect repeats
    traffic,      \* auxiliary: the flows of the interval
    taken         \* auxiliary: the size removed from skl for each key

aux == <<traffic, taken>>
inferenceVars == <<pc, interval, skl, skl_new, d, found, list_tmp, list_ret, detected, aux>>

NoFlows == [k \in Key |-> 0]

\* What dp_simulate prints for these flows.
SketchOf(tr) == Completed(FoldSet(LAMBDA k, f: Counted(f, k, tr[k]), Empty, Key))

InitInference ==
    /\ pc = "interval" /\ interval = 0
    /\ skl = Empty /\ skl_new = Empty
    /\ d = 2 /\ found = {} /\ list_tmp = {} /\ list_ret = <<>>
    /\ detected = <<>>
    /\ traffic = NoFlows /\ taken = NoFlows

\* remove_large
RemoveLarge(f, list) ==
    Completed(FoldLeft(LAMBDA g, x: Counted(g, x.key, - x.size), f, list))

-----------------------------------------------------------------------------
(* main *)

\* SKL_ReadFile, which assigns every counter, and the start of do_inference.
ReadInterval ==
    /\ pc = "interval"
    /\ interval < NumInterval
    /\ \E tr \in Traffic: traffic' = tr /\ skl' = SketchOf(tr)
    /\ taken' = NoFlows
    /\ detected' = <<>>
    /\ d' = 2
    /\ pc' = "threshold"
    /\ UNCHANGED <<interval, skl_new, found, list_tmp, list_ret>>

AllRead ==
    /\ pc = "interval"
    /\ interval = NumInterval
    /\ pc' = "done"
    /\ UNCHANGED <<interval, skl, skl_new, d, found, list_tmp, list_ret, detected, aux>>

-----------------------------------------------------------------------------
(* do_inference *)

\* 1/d < min_thresh, which is 0.3
TooLow == 10 < 3 * d

\* The call of detect_with_thresh, up to its loop.
StartDetect ==
    /\ pc = "threshold"
    /\ ~ TooLow
    /\ skl_new' = skl
    /\ found' = {}
    /\ list_ret' = <<>>
    /\ pc' = "identify"
    /\ UNCHANGED <<interval, skl, d, list_tmp, detected, aux>>

StopLow ==
    /\ pc = "threshold"
    /\ TooLow
    /\ pc' = "report"
    /\ UNCHANGED <<interval, skl, skl_new, d, found, list_tmp, list_ret, detected, aux>>

\* Wrong: a flow that was recorded before is recorded again.
RecordOneTwice(list, x) == Append(list, x)

\* A flow is recorded unless its key has been.
RecordOne(list, x) ==
    IF \E i \in DOMAIN list: list[i].key = x.key THEN list ELSE Append(list, x)

RecordFlows ==
    /\ pc = "record"
    /\ list_ret # <<>>
    /\ detected' = FoldLeft(RecordOne, detected, list_ret)
    /\ skl' = RemoveLarge(skl, list_ret)
    /\ taken' = FoldLeft(LAMBDA m, x: [m EXCEPT ![x.key] = @ + x.size], taken, list_ret)
    /\ d' = d + 1
    /\ pc' = "threshold"
    /\ UNCHANGED <<interval, skl_new, found, list_tmp, list_ret, traffic>>

NoFlowFound ==
    /\ pc = "record"
    /\ list_ret = <<>>
    /\ pc' = "report"
    /\ UNCHANGED <<interval, skl, skl_new, d, found, list_tmp, list_ret, detected, aux>>

\* The results are printed, with what is left of the sketch.
Report ==
    /\ pc = "report"
    /\ interval' = interval + 1
    /\ pc' = "interval"
    /\ UNCHANGED <<skl, skl_new, d, found, list_tmp, list_ret, detected, aux>>

-----------------------------------------------------------------------------
(* The loop of detect_with_thresh *)

\* SKL_Identify_Thresh, less the flows that were candidates before.
Identify ==
    /\ pc = "identify"
    /\ \E C \in SUBSET Possible(skl_new, d):
          /\ Sure(skl_new, d) \subseteq C
          /\ list_tmp' = C \ found
          /\ found' = found \cup C
    /\ pc' = "estimate"
    /\ UNCHANGED <<interval, skl, skl_new, d, list_ret, detected, aux>>

\* Wrong: a dropped flow keeps the size SKL_Identify_Thresh gave it.
SizeToRemoveRough(est, k) == IF est[k] > 0 THEN est[k] ELSE Estimate(skl_new, k)

\* The size a candidate is removed with: 0 when it was dropped.
SizeToRemove(est, k) == est[k]

Accepted(est) == {k \in list_tmp: est[k] > 0}

\* Wrong: the loop goes on whether or not a flow was accepted.
AgainAlways(est) == TRUE

\* new_ret != 0
Again(est) == Accepted(est) # {}

\* The cut skl_est_bucket_size makes, over the rows.
Largest(k) == Max({0, Estimate(skl_new, k)})

\* SKL_Est_Size for every candidate, 0 standing for every estimate that is not
\* positive and for a confidence that is too low.
Estimates ==
    LET largest == [k \in list_tmp |-> Largest(k)]
    IN {est \in [list_tmp -> 0 .. Max({0} \cup {largest[k]: k \in list_tmp})]:
            \A k \in list_tmp: est[k] <= largest[k]}

EstimateFlows ==
    /\ pc = "estimate"
    /\ \E est \in Estimates:
          /\ list_ret' = list_ret \o SetToSeq({[key |-> k, size |-> est[k]]: k \in Accepted(est)})
          /\ skl_new' = RemoveLarge(skl_new,
                          SetToSeq({[key |-> k, size |-> SizeToRemove(est, k)]: k \in list_tmp}))
          /\ pc' = IF Again(est) THEN "identify" ELSE "record"
    /\ list_tmp' = {}
    /\ UNCHANGED <<interval, skl, d, found, detected, aux>>

-----------------------------------------------------------------------------
NextInference ==
    \/ ReadInterval
    \/ AllRead
    \/ StartDetect
    \/ StopLow
    \/ RecordFlows
    \/ NoFlowFound
    \/ Report
    \/ Identify
    \/ EstimateFlows

SpecInference == InitInference /\ [][NextInference]_inferenceVars

\* A sequential program that goes on while it can.
FairInference == SpecInference /\ WF_inferenceVars(NextInference)

-----------------------------------------------------------------------------
\* At every threshold the sketch is the completed sketch of the traffic less
\* what has been taken from it, so that SKL_Identify_Thresh reads counters that
\* belong together (controller.c:37-42, 64-67); and it is what
\* detect_with_thresh's copy of it has become, although flows are removed from
\* the one all at once and from the other loop by loop, where some candidates
\* are dropped (controller.c:88-112, 183).
SketchIsRemainder ==
    /\ pc \in {"threshold", "identify", "estimate", "record", "report"} =>
          skl = SketchOf([k \in Key |-> traffic[k] - taken[k]])
    /\ pc = "threshold" /\ d > 2 => skl = skl_new

\* The flows recorded are those taken from the sketch, each once, and none is
\* recorded with more than was taken for it (controller.c:158-183).
RecordedWereTaken ==
    /\ {detected[i].key: i \in DOMAIN detected} = {k \in Key: taken[k] > 0}
    /\ \A i, j \in DOMAIN detected: detected[i].key = detected[j].key => i = j
    /\ \A i \in DOMAIN detected: detected[i].size <= taken[detected[i].key]

\* "record extracted flows" (controller.c:160): what is reported for a flow is
\* what was extracted for it.  The code does not keep this: a flow that is
\* extracted again with the lower threshold is removed again and not recorded.
RecordedIsTaken ==
    \A i \in DOMAIN detected: detected[i].size = taken[detected[i].key]

\* The extraction ends, whatever the estimates are (controller.c:64, 145).
Terminates == <>(pc = "done")
=============================================================================
