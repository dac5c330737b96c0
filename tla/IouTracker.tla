----------------------------- MODULE IouTracker -----------------------------
(***************************************************************************)
(* The tracker of bytetrack_service: class IouTracker of                   *)
(* tracker/src/iou_tracker.cc.  One frame of detections is matched with    *)
(* the tracks by greedy intersection-over-union; what is left over becomes *)
(* new tracks; tracks that stay unmatched too long are dropped.            *)
(*                                                                         *)
(* IOU is kept as the pair of integers Inter and Union, so comparisons are *)
(* exact where the code compares floats.  last_seen_frame and confidence   *)
(* are carried along by the code and read by nobody.                       *)
(***************************************************************************)
EXTENDS Integers, Sequences, FiniteSets

CONSTANTS
  kMaxAge,     \* frames a track can be missed before it is deleted (30)
  MaxId        \* identifiers given in this instance (2^32 in the code)

ASSUME TrackerAssumption == kMaxAge \in Nat /\ MaxId \in Nat

VARIABLES
  tracks_,         \* sequence of [id, det, frames_unseen]
  next_id_,        \* 0 is reserved for "no track"
  dets,            \* the frame being processed, a sequence of detections
  det_to_track,    \* for each of them the index of its track, 0 when it has none
  outputs          \* what the last update returned: sequence of [id, det]

tracker == <<tracks_, next_id_, dets, det_to_track, outputs>>

TrackerInit ==
  /\ tracks_ = <<>>
  /\ next_id_ = 1
  /\ dets = <<>>
  /\ det_to_track = <<>>
  /\ outputs = <<>>

----------------------------------------------------------------------------
(* iou.  A detection has a class_name and the corners of its box.          *)

Inter(a, b) ==
  LET Lower(x, y) == IF x < y THEN x ELSE y
      Upper(x, y) == IF x < y THEN y ELSE x
      w == Lower(a.right, b.right) - Upper(a.left, b.left)
      h == Lower(a.bottom, b.bottom) - Upper(a.top, b.top)
  IN  IF w <= 0 \/ h <= 0 THEN 0 ELSE w * h

Area(a) == (a.right - a.left) * (a.bottom - a.top)

Union(a, b) == Area(a) + Area(b) - Inter(a, b)

\* iou(a, b) > kIouThreshold, which is 0.3.
Overlapping(a, b) == 10 * Inter(a, b) > 3 * Union(a, b)

\* iou(a, b) > iou(c, d), for pairs that overlap.
HigherIou(a, b, c, d) == Inter(a, b) * Union(c, d) > Inter(c, d) * Union(a, b)

Eligible(d, t) == d.class_name = t.class_name /\ Overlapping(d, t)

----------------------------------------------------------------------------
(* update: one step per round of the matching loop, one for what follows.  *)

BeginUpdate(frame) ==
  /\ next_id_ + Len(frame) <= MaxId
  /\ dets' = frame
  /\ det_to_track' = [d \in DOMAIN frame |-> 0]
  /\ UNCHANGED <<tracks_, next_id_, outputs>>

\* The pairs (detection, track) the loop may still match.
Open ==
  {p \in (DOMAIN dets) \X (DOMAIN tracks_) :
     /\ det_to_track[p[1]] = 0
     /\ \A d \in DOMAIN dets : det_to_track[d] # p[2]
     /\ Eligible(dets[p[1]], tracks_[p[2]].det)}

HigherPair(p, q) ==
  HigherIou(dets[p[1]], tracks_[p[2]].det, dets[q[1]], tracks_[q[2]].det)

\* The loops over d and t meet p before q.
Earlier(p, q) == p[1] < q[1] \/ (p[1] = q[1] /\ p[2] < q[2])

\* Mutant of Best: the first open pair, whatever its IOU.
BestIsFirst(p) == \A q \in Open \ {p} : Earlier(p, q)

\* best_d and best_t: the highest IOU and, of equals, the first pair.
Best(p) == \A q \in Open \ {p} :
             HigherPair(p, q) \/ (~HigherPair(q, p) /\ Earlier(p, q))

\* Mutant of MatchRound: the pair is not taken out of the race.
MatchRoundForgets ==
  /\ Open # {}
  /\ UNCHANGED <<tracks_, next_id_, dets, det_to_track, outputs>>

MatchRound ==
  /\ \E p \in Open : Best(p) /\ det_to_track' = [det_to_track EXCEPT ![p[1]] = p[2]]
  /\ UNCHANGED <<tracks_, next_id_, dets, outputs>>

Age(t, matched) == IF matched THEN 0 ELSE t.frames_unseen + 1

Stale(t) == t.frames_unseen > kMaxAge

\* Mutants of NewId: identifiers start again from the number of tracks; one
\* identifier for all the new tracks of a frame.
NewIdByCount(k) == Len(tracks_) + k
NewIdNotAdvanced(k) == next_id_

\* The identifier of the k-th new track of a frame.
NewId(k) == next_id_ + k - 1

\* The unmatched detections up to a position.
Unmatched(upto) == {d \in 1 .. upto : det_to_track[d] = 0}

\* The positions K of a sequence in their order: what a loop over it, or an erase,
\* leaves when it passes over the other positions.
InOrder(K) ==
  {f \in [1 .. Cardinality(K) -> K] : \A i, j \in DOMAIN f : i < j => f[i] < f[j]}

\* What update returns for detection d.
OutTrack(d) ==
  [id  |-> IF det_to_track[d] # 0 THEN tracks_[det_to_track[d]].id
           ELSE NewId(Cardinality(Unmatched(d))),
   det |-> dets[d]]

\* A track that was there before the frame: matched, or one frame older.
OldTrack(t) ==
  LET mine == {d \in DOMAIN dets : det_to_track[d] = t}
  IN  [id  |-> tracks_[t].id,
       det |-> IF mine = {} THEN tracks_[t].det ELSE dets[CHOOSE d \in mine : TRUE],
       frames_unseen |-> Age(tracks_[t], mine # {})]

\* The track that an unmatched detection becomes.
NewTrack(d) == [id |-> OutTrack(d).id, det |-> dets[d], frames_unseen |-> 0]

\* The old tracks and then the new ones; those that have been missing too long are
\* erased.
EndUpdate ==
  /\ Open = {}
  /\ outputs' = [d \in DOMAIN dets |-> OutTrack(d)]
  /\ \E new \in InOrder(Unmatched(Len(dets))) :
       LET all == [t \in DOMAIN tracks_ |-> OldTrack(t)]
                    \o [k \in DOMAIN new |-> NewTrack(new[k])]
       IN  \E kept \in InOrder({k \in DOMAIN all : ~Stale(all[k])}) :
             tracks_' = [k \in DOMAIN kept |-> all[kept[k]]]
  /\ next_id_' = next_id_ + Cardinality(Unmatched(Len(dets)))
  /\ dets' = <<>>
  /\ det_to_track' = <<>>
=============================================================================
