------------------------- MODULE MCByteTrackService -------------------------
(* ByteTrackService on boxes of one size that overlap like beads on a       *)
(* string: IOU 3/5 between neighbours, 1/3 between the outer two.  The      *)
(* middle one also appears with the other class.                            *)
EXTENDS ByteTrackService

CONSTANTS UAV, Bird

MCBox(x, c) == [class_name |-> c, left |-> x, top |-> 0, right |-> x + 4, bottom |-> 2]

MCDetections == {MCBox(x, UAV) : x \in {0, 1, 2}} \cup {MCBox(1, Bird)}
=============================================================================
