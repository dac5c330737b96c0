--------------------------- MODULE MCPostProcess ---------------------------
(* Outputs of stride 8 (four cells) and 16 (one cell).  The boxes of cells  *)
(* of stride 8 overlap when the cells are neighbours, not when they are     *)
(* diagonal: suppression is not transitive.  The first thread is given      *)
(* every frame, the second one without detections: the threads share        *)
(* nothing but the labels.                                                  *)
EXTENDS PostProcess, TLC

CONSTANTS Scores, Zps, t1, t2

\* The logit of the code's threshold, 0.45, in steps of 0.1.
MCThresMilli == -2007

MCStrides == <<8, 16>>

\* One zero point for each frame, the same distances in every cell.
MCFramesOf(scores, zps) ==
  {[zp |-> [o \in DOMAIN Strides |-> z],
    cell |-> [c \in Cells |-> [scores |-> [k \in Classes |-> q[c]],
                               dfl |-> [side \in 1 .. 4 |-> 2]]]] :
     z \in zps, q \in [Cells -> scores]}

\* With the zero point 1 a score of 0 reaches the threshold.
MCFrames ==
  (t1 :> MCFramesOf(Scores, Zps) \cup MCFramesOf({0, 127}, {1})) @@ (t2 :> MCFramesOf({0}, {1}))
=============================================================================
