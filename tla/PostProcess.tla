---------------------------- MODULE PostProcess ----------------------------
(***************************************************************************)
(* src/postprocess.cc: from the quantised outputs of the network to named  *)
(* detections.  The inference threads call post_process concurrently; they *)
(* share the table of labels, which the first of them loads, and main      *)
(* frees it at the end.                                                    *)
(*                                                                         *)
(* A frame gives for every grid cell of every output the int8 scores of    *)
(* the classes and the four distances DFL decodes (taken as numbers: exp   *)
(* and softmax are not represented), and for every output its zero point.  *)
(* sigmoid is increasing, so a probability is the score minus the zero     *)
(* point, in steps of the scale.  Comparisons of floats are exact.         *)
(***************************************************************************)
EXTENDS Integers, Sequences, FiniteSets

CONSTANTS
  Threads,              \* the inference threads
  Frames,               \* for each thread the frames it may be given
  OBJ_CLASS_NUM,        \* 1 in the code
  OBJ_NUMB_MAX_SIZE,    \* detections of a frame (64 in the code)
  TOP_K,                \* candidates that are considered (200 in the code)
  Strides,              \* of the outputs (8, 16 and 32 in the code)
  model_in,             \* height and width of the model's input
  Upscale,              \* 1 / scale_w, from the model's input to the display
  ThresMilli,           \* unsigmoid(conf_threshold) in thousandths of the scale
  LabelsMayFail         \* may the label file be missing or too short?

Classes == 0 .. (OBJ_CLASS_NUM - 1)

\* A cell of an output: <<output, row, column>>.
Cells ==
  {c \in (DOMAIN Strides) \X (0 .. model_in) \X (0 .. model_in) :
     c[2] < model_in \div Strides[c[1]] /\ c[3] < model_in \div Strides[c[1]]}

Int8 == -128 .. 127

ASSUME PostProcessAssumption ==
  /\ {OBJ_CLASS_NUM, OBJ_NUMB_MAX_SIZE, TOP_K} \subseteq Nat \ {0}
  /\ {model_in, Upscale} \subseteq Nat
  /\ Strides \in Seq(Nat \ {0}) /\ \A o \in DOMAIN Strides : Strides[o] % 2 = 0
  /\ ThresMilli \in Int
  /\ LabelsMayFail \in BOOLEAN

\* The outputs are quantised to int8, DFL decodes distances from 0 to 15.
ASSUME FramesAssumption ==
  \A t \in Threads : \A f \in Frames[t] :
    /\ f.zp \in [DOMAIN Strides -> Int8]
    /\ f.cell \in [Cells -> [scores : [Classes -> Int8], dfl : [1 .. 4 -> 0 .. 15]]]

VARIABLES
  init,        \* the static flag: -1 until the labels have been loaded
  labels,      \* for each class: is there a name?
  incomplete,  \* some thread could not read all labels
  stopping,    \* main gives no more frames
  pc, call     \* per thread: its place in post_process, its local variables

shared == <<init, labels, incomplete, stopping>>
vars == <<shared, pc, call>>

----------------------------------------------------------------------------
(* process: the cells whose score passes the threshold become candidates.  *)

\* The loops visit cell a before cell b.
Before(a, b) ==
  \/ a[1] < b[1]
  \/ a[1] = b[1] /\ a[2] < b[2]
  \/ a[1] = b[1] /\ a[2] = b[2] /\ a[3] < b[3]

\* The n-th of the cells K that the loops come to.
Visited(K, n) == CHOOSE c \in K : Cardinality({d \in K : Before(d, c)}) = n - 1

\* Conversion to an integer cuts the fraction off.
Truncate(milli) == IF milli >= 0 THEN milli \div 1000 ELSE -((-milli) \div 1000)

clip(x) == IF x <= -128 THEN -128 ELSE IF x >= 127 THEN 127 ELSE x

\* Mutant of qnt_f32_to_affine: the zero point is forgotten.
qnt_f32_to_affineNoZp(milli, zp) == clip(Truncate(milli))

qnt_f32_to_affine(milli, zp) == clip(Truncate(milli + 1000 * zp))

\* The classes the loop over k can choose; it starts from a maximum of 0.
Passing(f, c) ==
  {k \in Classes : /\ f.cell[c].scores[k] >= qnt_f32_to_affine(ThresMilli, f.zp[c[1]])
                   /\ f.cell[c].scores[k] > 0}

\* The first class with the highest score is k.
maxClassId(f, c, k) ==
  /\ k \in Passing(f, c)
  /\ \A l \in Passing(f, c) : \/ f.cell[c].scores[l] < f.cell[c].scores[k]
                              \/ f.cell[c].scores[l] = f.cell[c].scores[k] /\ k <= l

\* The box around the centre of the cell.
Box(f, c) ==
  LET d == f.cell[c].dfl
      s == Strides[c[1]]
      centre(n) == n * s + s \div 2
  IN  [x1 |-> centre(c[3]) - d[1] * s, y1 |-> centre(c[2]) - d[2] * s,
       x2 |-> centre(c[3]) + d[3] * s, y2 |-> centre(c[2]) + d[4] * s]

Found(f) == {c \in Cells : Passing(f, c) # {}}

Candidate(f, c, k) ==
  [cell |-> c, box |-> Box(f, c), class |-> k, prob |-> f.cell[c].scores[k] - f.zp[c[1]]]

----------------------------------------------------------------------------
(* quick_sort_indice_inverse: array pairs probabilities with indices.      *)

\* The calls that do something: two elements at least.
Segment(left, right) == IF left < right THEN {<<left, right>>} ELSE {}

\* The first inner loop comes from high and stops at h, the second comes from low
\* and stops at l.
HighStops(a, low, high, key, h) ==
  /\ h = low \/ a[h].prob > key
  /\ \A x \in (h + 1) .. high : a[x].prob <= key

LowStops(a, low, high, key, l) ==
  /\ l = high \/ a[l].prob < key
  /\ \A x \in low .. (l - 1) : a[x].prob >= key

----------------------------------------------------------------------------
(* nms, and the collection of the results.                                 *)

Lesser(x, y) == IF x < y THEN x ELSE y
Greater(x, y) == IF x < y THEN y ELSE x

Side(lo, hi) == hi - lo + 1

\* CalculateOverlap(a, b) > nms_threshold, which is 0.45.
Overlapping(a, b) ==
  LET w == Greater(0, Side(Greater(a.x1, b.x1), Lesser(a.x2, b.x2)))
      h == Greater(0, Side(Greater(a.y1, b.y1), Lesser(a.y2, b.y2)))
      u == Side(a.x1, a.x2) * Side(a.y1, a.y2) + Side(b.x1, b.x2) * Side(b.y1, b.y2) - w * h
  IN  u > 0 /\ 100 * w * h > 45 * u

\* Mutant of Suppress: the inner loop starts one place too far.
SuppressFromNext(cands, order, i, c) ==
  [j \in DOMAIN order |->
     IF /\ j > i + 1
        /\ order[i] # -1
        /\ cands[i].class = c
        /\ order[j] # -1
        /\ Overlapping(cands[order[i]].box, cands[order[j]].box)
     THEN -1 ELSE order[j]]

\* One iteration of the loop over i for class c; -1 marks what is suppressed.  The
\* class is looked up by the position in the order, not by the candidate.
Suppress(cands, order, i, c) ==
  [j \in DOMAIN order |->
     IF /\ j > i
        /\ order[i] # -1
        /\ cands[i].class = c
        /\ order[j] # -1
        /\ Overlapping(cands[order[i]].box, cands[order[j]].box)
     THEN -1 ELSE order[j]]

clamp(x, max) == IF x < 0 THEN 0 ELSE IF x > max THEN max ELSE x

Scaled(x) == clamp(x, model_in) * Upscale

\* The box and the class are found by the candidate, the score by the position.
Detection(cands, n, prob) ==
  [n |-> n, class |-> cands[n].class, prop |-> prob,
   left |-> Scaled(cands[n].box.x1), top |-> Scaled(cands[n].box.y1),
   right |-> Scaled(cands[n].box.x2), bottom |-> Scaled(cands[n].box.y2)]

\* The positions of the order that survive, and the r-th that the loop comes to.
Surviving(order) == {i \in DOMAIN order : order[i] # -1}

Survivor(order, r) ==
  CHOOSE i \in Surviving(order) : Cardinality({j \in Surviving(order) : j < i}) = r - 1

----------------------------------------------------------------------------
(* post_process in the inference threads.                                  *)

NoSegment == [left |-> 0, right |-> 0, low |-> 0, high |-> 0,
              pivot |-> [prob |-> 0, n |-> 0]]

\* The locals: the inputs and the vectors of candidates, objProbs with the indices it
\* is sorted with, the calls of the sort that are still to come and the one that
\* runs, the indices that nms marks and the places of its loops, and the result.
NoCall ==
  [frame |-> [zp |-> <<>>, cell |-> <<>>], cands |-> <<>>, array |-> <<>>,
   todo |-> {}, seg |-> NoSegment, order |-> <<>>, c |-> 0, i |-> 1, group |-> <<>>]

Init ==
  /\ init = -1
  /\ labels = [k \in Classes |-> FALSE]
  /\ incomplete = FALSE
  /\ stopping = FALSE
  /\ pc = [t \in Threads |-> "idle"]
  /\ call = [t \in Threads |-> NoCall]

Goto(t, from, to) ==
  /\ pc[t] = from
  /\ pc' = [pc EXCEPT ![t] = to]

\* A step that only concerns the locals of the call.
Local(t, from, to, locals) ==
  /\ Goto(t, from, to)
  /\ call' = [call EXCEPT ![t] = locals]
  /\ UNCHANGED shared

Call(t) ==
  /\ ~stopping
  /\ Goto(t, "idle", "init")
  /\ UNCHANGED <<shared, call>>

\* Mutant of TestInit: the flag is cleared before the labels are loaded.
TestInitClaims(t) ==
  /\ Goto(t, "init", IF init = -1 THEN "load" ELSE "decode")
  /\ init' = 0
  /\ UNCHANGED <<labels, incomplete, stopping, call>>

TestInit(t) ==
  /\ Goto(t, "init", IF init = -1 THEN "load" ELSE "decode")
  /\ UNCHANGED <<shared, call>>

\* loadLabelName: readLines stores the lines it finds, none without a file, and
\* its result is not looked at.  A second thread stores its own copies.
LoadLabels(t) ==
  /\ Goto(t, "load", "loaded")
  /\ \E lines \in IF LabelsMayFail THEN 0 .. OBJ_CLASS_NUM ELSE {OBJ_CLASS_NUM} :
       /\ labels' = [k \in Classes |-> labels[k] \/ k < lines]
       /\ incomplete' = (incomplete \/ lines < OBJ_CLASS_NUM)
  /\ UNCHANGED <<init, stopping, call>>

SetInit(t) ==
  /\ Goto(t, "loaded", "decode")
  /\ init' = 0
  /\ UNCHANGED <<labels, incomplete, stopping, call>>

\* process for the outputs f; without a candidate that is all.
Decode(t, f) ==
  /\ pc[t] = "decode"
  /\ LET cells == [n \in 1 .. Cardinality(Found(f)) |-> Visited(Found(f), n)]
     IN  \E class \in [DOMAIN cells -> Classes] :
           LET cands == [n \in DOMAIN cells |-> Candidate(f, cells[n], class[n])]
           IN  /\ \A n \in DOMAIN cells : maxClassId(f, cells[n], class[n])
               /\ IF cands = <<>> THEN Local(t, "decode", "idle", NoCall)
                  ELSE Local(t, "decode", "sort",
                         [NoCall EXCEPT !.frame = f, !.cands = cands,
                            !.array = [n \in DOMAIN cands |-> [prob |-> cands[n].prob, n |-> n]],
                            !.todo = Segment(1, Len(cands))])

\* The sort is depth first, the left part before the right one: what comes next is
\* always the leftmost of what is to come.
BeginSegment(t) ==
  \E s \in call[t].todo :
    /\ \A u \in call[t].todo : s[1] <= u[1]
    /\ Local(t, "sort", "partition",
         [call[t] EXCEPT !.todo = @ \ {s},
                         !.seg = [left |-> s[1], right |-> s[2], low |-> s[1], high |-> s[2],
                                  pivot |-> call[t].array[s[1]]]])

\* The body of the loop that partitions: low is a hole, then h, then l.
Partition(t) ==
  LET s == call[t].seg
      a == call[t].array
  IN  /\ s.low < s.high
      /\ \E h \in s.low .. s.high :
           /\ HighStops(a, s.low, s.high, s.pivot.prob, h)
           /\ LET b == [a EXCEPT ![s.low] = a[h]]
              IN  \E l \in s.low .. h :
                    /\ LowStops(b, s.low, h, s.pivot.prob, l)
                    /\ Local(t, "partition", "partition",
                         [call[t] EXCEPT !.array = [b EXCEPT ![h] = b[l]],
                                         !.seg = [s EXCEPT !.low = l, !.high = h]])

\* The pivot goes into the hole, and the two sides are sorted.
EndSegment(t) ==
  LET s == call[t].seg
  IN  /\ s.low >= s.high
      /\ Local(t, "partition", "sort",
           [call[t] EXCEPT !.array = [call[t].array EXCEPT ![s.low] = s.pivot],
                           !.todo = @ \cup Segment(s.left, s.low - 1)
                                      \cup Segment(s.low + 1, s.right),
                           !.seg = NoSegment])

\* Only the best TOP_K go on.
EndSort(t) ==
  LET validCount == Lesser(TOP_K, Len(call[t].cands))
  IN  /\ call[t].todo = {}
      /\ Local(t, "sort", "nms",
           [call[t] EXCEPT !.order = [i \in 1 .. validCount |-> call[t].array[i].n]])

\* One iteration of the loops over c and i.
Nms(t) ==
  LET l == call[t]
      again == l.i < Len(l.order)
  IN  /\ l.c \in Classes
      /\ Local(t, "nms", "nms",
           [l EXCEPT !.order = Suppress(l.cands, l.order, l.i, l.c),
                     !.i = IF again THEN l.i + 1 ELSE 1,
                     !.c = IF again THEN l.c ELSE l.c + 1])

\* The survivors become detections, as many as there is room for.
Collect(t) ==
  LET l == call[t]
      Shown(r) == LET i == Survivor(l.order, r)
                  IN  Detection(l.cands, l.order[i], l.array[i].prob)
      last_count == Lesser(OBJ_NUMB_MAX_SIZE, Cardinality(Surviving(l.order)))
  IN  /\ l.c \notin Classes
      /\ Local(t, "nms", "name", [l EXCEPT !.group = [r \in 1 .. last_count |-> Shown(r)]])

\* strncpy of the labels, and the return.  A missing label is a null pointer: the
\* process does not survive the copy.
Name(t) ==
  /\ \A r \in DOMAIN call[t].group : labels[call[t].group[r].class]
  /\ Local(t, "name", "idle", NoCall)

\* The teardown begins: the sentinels follow the last job.
Stop ==
  /\ ~stopping
  /\ stopping' = TRUE
  /\ UNCHANGED <<init, labels, incomplete, pc, call>>

\* Called by main when it has joined the threads.
deinitPostProcess ==
  /\ stopping
  /\ \A t \in Threads : pc[t] = "idle"
  /\ labels' = [k \in Classes |-> FALSE]
  /\ UNCHANGED <<init, incomplete, stopping, pc, call>>

post_process(t) ==
  \/ Call(t) \/ TestInit(t) \/ LoadLabels(t) \/ SetInit(t)
  \/ \E f \in Frames[t] : Decode(t, f)
  \/ BeginSegment(t) \/ Partition(t) \/ EndSegment(t) \/ EndSort(t)
  \/ Nms(t) \/ Collect(t) \/ Name(t)

Next ==
  \/ \E t \in Threads : post_process(t)
  \/ Stop
  \/ deinitPostProcess

Spec == Init /\ [][Next]_vars

----------------------------------------------------------------------------
\* A thread that copies a label finds one, whichever thread loaded the table and
\* however the first frames interleave, until the threads are joined; unless the
\* label file was missing or too short, which post_process does not notice.
LabelsNamed ==
  \A t \in Threads : (pc[t] = "name" /\ ~incomplete) =>
    \A r \in DOMAIN call[t].group : labels[call[t].group[r].class]

\* What the detections of a group owe to the candidates.
Justified(cands, group) ==
  LET shown == {group[r].n : r \in DOMAIN group}
      NoWorse(n) == {m \in DOMAIN cands \ {n} : cands[m].prob >= cands[n].prob}
  IN  /\ Len(group) = Cardinality(shown) /\ Len(group) <= OBJ_NUMB_MAX_SIZE
      /\ \A r \in DOMAIN group :
           /\ group[r].prop = cands[group[r].n].prob
           /\ r > 1 => group[r].prop <= group[r - 1].prop
      /\ \A m, n \in shown : m # n => ~Overlapping(cands[m].box, cands[n].box)
      /\ \A n \in DOMAIN cands \ shown :
           \/ \E m \in shown \cap NoWorse(n) : Overlapping(cands[m].box, cands[n].box)
           \/ Cardinality(shown \cap NoWorse(n)) = OBJ_NUMB_MAX_SIZE
           \/ Cardinality(NoWorse(n)) >= TOP_K

\* Sorting, suppression and the two limits keep the best of every cluster and nothing
\* else: there are no more detections than there is room for, each carries its own
\* score (the sort moves scores and indices in two arrays), none is better than the
\* one before it and no two overlap; and a candidate is left out only for a detection
\* that overlaps it and is no worse, or because others that are no worse reach a limit.
SuppressionJustified ==
  \A t \in Threads : pc[t] = "name" => Justified(call[t].cands, call[t].group)

\* What the candidates owe to the outputs f.
Honoured(f, cands) ==
  LET found == {cands[n].cell : n \in DOMAIN cands}
  IN  \A c \in Cells, k \in Classes :
        LET q == f.cell[c].scores[k]
            milli == 1000 * (q - f.zp[c[1]])
        IN  /\ (milli >= ThresMilli /\ q > 0) => c \in found
            /\ (OBJ_CLASS_NUM = 1 /\ c \in found) => milli > ThresMilli - 1000

\* The confidence threshold, compared in int8, means what it says up to one step of
\* the quantisation: a cell that reaches it becomes a candidate, unless its raw
\* score is not positive (the maximum starts at 0), and no cell below it does.
ThresholdHonoured ==
  \A t \in Threads : pc[t] = "name" => Honoured(call[t].frame, call[t].cands)

=============================================================================
