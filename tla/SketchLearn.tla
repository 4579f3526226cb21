---------------------------- MODULE SketchLearn ----------------------------
(***************************************************************************)
(* Sketches (alg_sketchlearn.c) and the operations that change them; the   *)
(* counters and what is computed from them are in Counters.                *)
(*                                                                         *)
(* net and zeroNet are what the counters should say.  They are not in the  *)
(* code: net[s] is the size counted for each key, zeroNet[s] the same as   *)
(* it was when the clear-bit counters were computed.                       *)
(***************************************************************************)
EXTENDS Counters, Totals

CONSTANTS
    Sketch,      \* the sketches
    Size,        \* the sizes counted
    MaxOps       \* bound on the number of operations

ASSUME SketchAssumption == Size \subseteq Int32 /\ MaxOps \in Nat

VARIABLES
    counts,          \* counts[s][b]: total, set and clear
    file,            \* what SKL_Print wrote last
    buf,             \* what SKL_Serialize wrote last: the counters that are not 0
    aborted,         \* SKL_ReadFile has found an inconsistent file and exited
    net, zeroNet,    \* for each sketch, what its counters should say
    known,           \* FALSE for a sketch whose counters mix two sketches
    written,         \* net and zeroNet of the sketch in file and in buf
    ops              \* the operations done

ghosts == <<net, zeroNet, known, written, ops>>
vars == <<counts, file, buf, aborted, ghosts>>

NoSize == [k \in Key |-> 0]

\* Fresh sketches; a fresh one has been printed and serialised.
Init ==
    /\ counts = [s \in Sketch |-> Empty]
    /\ file = Empty /\ buf = [x \in {} |-> 0] /\ aborted = FALSE
    /\ net = [s \in Sketch |-> NoSize] /\ zeroNet = [s \in Sketch |-> NoSize]
    /\ known = [s \in Sketch |-> TRUE]
    /\ written = [file |-> <<NoSize, NoSize, TRUE>>, buf |-> <<NoSize, NoSize, TRUE>>]
    /\ ops = 0

Another == ~ aborted /\ ops < MaxOps /\ ops' = ops + 1

-----------------------------------------------------------------------------
Update(s, k, diff) ==
    /\ Another
    /\ counts' = [counts EXCEPT ![s] = Counted(@, k, diff)]
    /\ net' = [net EXCEPT ![s][k] = Wrap(@ + diff)]
    /\ UNCHANGED <<file, buf, aborted, zeroNet, known, written>>

CompleteZeroes(s) ==
    /\ Another
    /\ counts' = [counts EXCEPT ![s] = Completed(@)]
    /\ zeroNet' = [zeroNet EXCEPT ![s] = net[s]]
    /\ UNCHANGED <<file, buf, aborted, net, known, written>>

\* Wrong: the clear-bit counters, the second half of the array, are kept.
ResetHalf(s) ==
    /\ Another
    /\ counts' = [counts EXCEPT ![s] = [b \in Bucket |-> [c \in Counter |->
            IF c[1] = "clear" THEN @[b][c] ELSE 0]]]
    /\ net' = [net EXCEPT ![s] = NoSize]
    /\ zeroNet' = [zeroNet EXCEPT ![s] = NoSize]
    /\ known' = [known EXCEPT ![s] = TRUE]
    /\ UNCHANGED <<file, buf, aborted, written>>

Reset(s) ==
    /\ Another
    /\ counts' = [counts EXCEPT ![s] = Empty]
    /\ net' = [net EXCEPT ![s] = NoSize]
    /\ zeroNet' = [zeroNet EXCEPT ![s] = NoSize]
    /\ known' = [known EXCEPT ![s] = TRUE]
    /\ UNCHANGED <<file, buf, aborted, written>>

Copy(dst, src) ==
    /\ Another
    /\ counts' = [counts EXCEPT ![dst] = counts[src]]
    /\ net' = [net EXCEPT ![dst] = net[src]]
    /\ zeroNet' = [zeroNet EXCEPT ![dst] = zeroNet[src]]
    /\ known' = [known EXCEPT ![dst] = known[src]]
    /\ UNCHANGED <<file, buf, aborted, written>>

\* SKL_Merge and SKL_Diff: sign is 1 or -1.
Combine(dst, src, sign) ==
    /\ Another
    /\ counts' = [counts EXCEPT ![dst] = [b \in Bucket |-> Plus(counts[dst][b], sign, counts[src][b])]]
    /\ net' = [net EXCEPT ![dst] = Plus(net[dst], sign, net[src])]
    /\ zeroNet' = [zeroNet EXCEPT ![dst] = Plus(zeroNet[dst], sign, zeroNet[src])]
    /\ known' = [known EXCEPT ![dst] = known[dst] /\ known[src]]
    /\ UNCHANGED <<file, buf, aborted, written>>

Merge(dst, src) == Combine(dst, src, 1)

Diff(dst, src) == Combine(dst, src, -1)

PrintSketch(s) ==
    /\ Another
    /\ file' = counts[s]
    /\ written' = [written EXCEPT !.file = <<net[s], zeroNet[s], known[s]>>]
    /\ UNCHANGED <<counts, buf, aborted, net, zeroNet, known>>

\* Every counter is assigned, unless LOG_ERR ends the process first.
ReadFile(s) ==
    /\ Another
    /\ \/ /\ Consistent(file)
          /\ counts' = [counts EXCEPT ![s] = file]
          /\ net' = [net EXCEPT ![s] = written.file[1]]
          /\ zeroNet' = [zeroNet EXCEPT ![s] = written.file[2]]
          /\ known' = [known EXCEPT ![s] = written.file[3]]
          /\ UNCHANGED aborted
       \/ /\ ~ Consistent(file)
          /\ aborted' = TRUE
          /\ UNCHANGED <<counts, net, zeroNet, known>>
    /\ UNCHANGED <<file, buf, written>>

\* Only the counters that are not 0 are put in the buffer.
Serialize(s) ==
    /\ Another
    /\ buf' = [x \in {y \in Bucket \X Counter: counts[s][y[1]][y[2]] # 0} |->
                  counts[s][x[1]][x[2]]]
    /\ written' = [written EXCEPT !.buf = <<net[s], zeroNet[s], known[s]>>]
    /\ UNCHANGED <<counts, file, aborted, net, zeroNet, known>>

\* The counters in the buffer are assigned and the others keep their value.
Deserialize(s) ==
    /\ Another
    /\ counts' = [counts EXCEPT ![s] = [b \in Bucket |-> [c \in Counter |->
            IF <<b, c>> \in DOMAIN buf THEN buf[<<b, c>>] ELSE @[b][c]]]]
    /\ net' = [net EXCEPT ![s] = written.buf[1]]
    /\ zeroNet' = [zeroNet EXCEPT ![s] = written.buf[2]]
    /\ known' = [known EXCEPT ![s] = written.buf[3] /\ counts[s] = Empty]
    /\ UNCHANGED <<file, buf, aborted, written>>

Next ==
    \/ \E s \in Sketch:
          \/ \E k \in Key, diff \in Size: Update(s, k, diff)
          \/ CompleteZeroes(s)
          \/ Reset(s)
          \/ PrintSketch(s)
          \/ ReadFile(s)
          \/ Serialize(s)
          \/ Deserialize(s)
    \/ \E dst, src \in Sketch:
          \/ Copy(dst, src)
          \/ Merge(dst, src)
          \/ Diff(dst, src)

Spec == Init /\ [][Next]_vars

-----------------------------------------------------------------------------
SumOf(sizes, keys) == Wrap(Total(sizes, keys))

InBucket(b) == {k \in Key: Hash[b[1]][k] = b[2]}

\* Whatever operations led to a sketch, in whatever order, each counter is the
\* sum, modulo 2^32, of the sizes of the keys that belong to it: copying,
\* merging, printing and reading back, serialising into an empty sketch and
\* removing a flow by counting it negatively lose and mix nothing
\* (alg_sketchlearn.c:514-533, 602-610, 764-832, 878-882, 1052-1155).
CountersAreSums ==
    \A s \in Sketch: known[s] => \A b \in Bucket:
        /\ counts[s][b][<<"total", 0>>] = SumOf(net[s], InBucket(b))
        /\ \A i \in Bit:
              /\ counts[s][b][<<"set", i>>]
                   = SumOf(net[s], {k \in InBucket(b): i \in BitsOf[k]})
              /\ counts[s][b][<<"clear", i>>]
                   = SumOf(zeroNet[s], {k \in InBucket(b): i \notin BitsOf[k]})

\* SKL_ReadFile never rejects the file of a sketch that was completed after
\* its last operation, not even when counters have wrapped: the controller
\* does not stop on what dp_simulate.c:72-75 writes (alg_sketchlearn.c:824-826).
AcceptsCompleted == aborted => written.file[1] # written.file[2] \/ ~ written.file[3]

\* Nothing overflows in sketch s and nothing is negative.
Plain(s) ==
    /\ \A k \in Key: net[s][k] >= 0
    /\ Total(net[s], Key) < Limit

\* The estimate of a completed sketch is never below the size that was
\* counted, so a flow that is large enough passes the threshold whatever
\* shares its buckets (alg_sketchlearn.c:704-736).
NeverUnderestimates ==
    \A s \in Sketch: known[s] /\ zeroNet[s] = net[s] /\ Plain(s) =>
        \A k \in Key: Estimate(counts[s], k) >= net[s][k]

\* A flow that has more than all but 1/d of one of its buckets is found by
\* SKL_Identify_Thresh with a threshold of 1/d, for both thresholds the
\* controller uses, whatever the other flows are and whatever the bit
\* distributions say (alg_sketchlearn.c:195-207, 667-756).
MajorityFound ==
    \A s \in Sketch: known[s] /\ zeroNet[s] = net[s] /\ Plain(s) =>
        \A k \in Key, r \in Row, d \in {2, 3}:
            d * net[s][k] > (d - 1) * counts[s][<<r, Hash[r][k]>>][<<"total", 0>>]
                => k \in Sure(counts[s], d)
=============================================================================
