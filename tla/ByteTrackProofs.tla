-------------------------- MODULE ByteTrackProofs --------------------------
(***************************************************************************)
(* Proofs about the tracker and its service, for any detections, any       *)
(* number of them per frame and any age limit.                             *)
(*                                                                         *)
(* The invariant says what the vectors of IouTracker::update hold between  *)
(* two rounds of its loop: identifiers below next_id_ that name one track  *)
(* each, an assignment that gives a track to one detection at most, and    *)
(* for every pair the loop has passed over a pair it preferred.            *)
(*                                                                         *)
(* What EndUpdate makes of the tracks is stated once, in UpdateEffect,     *)
(* without sequences: which identifiers are followed afterwards and for    *)
(* how many frames they have been unseen.                                  *)
(***************************************************************************)
EXTENDS ByteTrackService, FiniteSetTheorems, SequenceTheorems, TLAPS

Boxes == Detections \cup {Blank}

TrackRecs == [id : Nat, det : Boxes, frames_unseen : Nat]

----------------------------------------------------------------------------
(* The inductive invariant.                                                *)

ShapeInv ==
  /\ tracks_ \in Seq(TrackRecs)
  /\ next_id_ \in Nat \ {0}
  /\ dets \in Seq(Boxes)
  /\ det_to_track \in [DOMAIN dets -> 0 .. Len(tracks_)]

\* What BeginUpdate has checked holds until the frame is done.
FrameInv ==
  pc = "update" => Len(dets) <= MaxDets /\ next_id_ + Len(dets) <= MaxId

\* A track is given to one detection at most.
MatchInv ==
  \A d, e \in DOMAIN dets : det_to_track[d] = det_to_track[e] /\ det_to_track[d] # 0 => d = e

\* An identifier below next_id_ names one track, which is young enough.
IdsInv ==
  /\ \A k \in DOMAIN tracks_ : /\ tracks_[k].id \in 1 .. (next_id_ - 1)
                               /\ tracks_[k].frames_unseen <= kMaxAge
  /\ \A j, k \in DOMAIN tracks_ : tracks_[j].id = tracks_[k].id => j = k

\* A pair that was passed over has a member with a partner that fits no worse.
Preferred(d, t) ==
  \E e \in DOMAIN dets :
    /\ det_to_track[e] # 0
    /\ e = d \/ det_to_track[e] = t
    /\ ~HigherPair(<<d, t>>, <<e, det_to_track[e]>>)

StableInv ==
  \A d \in DOMAIN dets, t \in DOMAIN tracks_ :
    Eligible(dets[d], tracks_[t].det) => <<d, t>> \in Open \/ Preferred(d, t)

OutputsInv ==
  /\ \A j, k \in DOMAIN outputs : outputs[j].id = outputs[k].id => j = k
  /\ pc = "send" => {outputs[k].id : k \in DOMAIN outputs} = Promise!Output

TrackInv == ShapeInv /\ FrameInv /\ MatchInv /\ IdsInv

----------------------------------------------------------------------------
(* IOU compares integers.                                                  *)

\* The corners of every box the service meets are integers.
LEMMA BoxCorners ==
  \A a \in Boxes : a.left \in Int /\ a.top \in Int /\ a.right \in Int /\ a.bottom \in Int
BY ServiceAssumption DEF Boxes, Blank

\* The intersection and the union of two boxes are integers.
LEMMA IouTyped ==
  ASSUME NEW a \in Boxes, NEW b \in Boxes
  PROVE  Inter(a, b) \in Int /\ Union(a, b) \in Int
<1>1. /\ a.left \in Int /\ a.top \in Int /\ a.right \in Int /\ a.bottom \in Int
      /\ b.left \in Int /\ b.top \in Int /\ b.right \in Int /\ b.bottom \in Int
  BY BoxCorners
<1>2. Inter(a, b) \in Int
  <2> DEFINE Lower(x, y) == IF x < y THEN x ELSE y
             Upper(x, y) == IF x < y THEN y ELSE x
             w == Lower(a.right, b.right) - Upper(a.left, b.left)
             h == Lower(a.bottom, b.bottom) - Upper(a.top, b.top)
  <2>1. w \in Int /\ h \in Int
    BY <1>1
  <2>2. Inter(a, b) = IF w <= 0 \/ h <= 0 THEN 0 ELSE w * h
    BY DEF Inter
  <2> HIDE DEF w, h
  <2>3. w * h \in Int
    BY <2>1
  <2> QED
    BY <2>2, <2>3
<1>3. Area(a) \in Int /\ Area(b) \in Int
  <2>1. ASSUME NEW w \in Int, NEW h \in Int PROVE w * h \in Int
    OBVIOUS
  <2>2. a.right - a.left \in Int /\ a.bottom - a.top \in Int
    BY <1>1
  <2>3. b.right - b.left \in Int /\ b.bottom - b.top \in Int
    BY <1>1
  <2> QED
    BY <2>1, <2>2, <2>3 DEF Area
<1> QED
  BY <1>2, <1>3 DEF Union

\* Of two pairs at most one has the higher IOU.
LEMMA HigherIouAsymmetric ==
  ASSUME NEW a \in Boxes, NEW b \in Boxes, NEW c \in Boxes, NEW d \in Boxes,
         HigherIou(a, b, c, d)
  PROVE  ~HigherIou(c, d, a, b)
<1>1. /\ Inter(a, b) \in Int /\ Union(c, d) \in Int
      /\ Inter(c, d) \in Int /\ Union(a, b) \in Int
  BY IouTyped
<1>2. ASSUME NEW w \in Int, NEW h \in Int PROVE w * h \in Int
  OBVIOUS
<1>3. Inter(a, b) * Union(c, d) \in Int /\ Inter(c, d) * Union(a, b) \in Int
  BY <1>1, <1>2
<1> QED
  BY <1>3 DEF HigherIou

----------------------------------------------------------------------------
(* The matching loop.                                                      *)

\* No pair of the loop has a higher IOU than the one that was picked.
LEMMA BestIsHighest ==
  ASSUME ShapeInv, NEW p \in Open, Best(p), NEW q \in Open
  PROVE  ~HigherPair(q, p)
<1>1. /\ \A d \in DOMAIN dets : dets[d] \in Boxes
      /\ \A t \in DOMAIN tracks_ : tracks_[t].det \in Boxes
  <2>1. dets \in [DOMAIN dets -> Boxes] /\ tracks_ \in [DOMAIN tracks_ -> TrackRecs]
    BY LenProperties DEF ShapeInv
  <2> QED
    BY <2>1 DEF TrackRecs
<1>2. /\ p[1] \in DOMAIN dets /\ p[2] \in DOMAIN tracks_
      /\ q[1] \in DOMAIN dets /\ q[2] \in DOMAIN tracks_
  BY DEF Open
<1>3. HigherPair(p, q) => ~HigherPair(q, p)
  BY <1>1, <1>2, HigherIouAsymmetric DEF HigherPair
<1>4. CASE q = p
  BY <1>3, <1>4
<1>5. CASE q # p
  BY <1>3, <1>5 DEF Best
<1> QED
  BY <1>4, <1>5

\* A round keeps the assignment typed and one to one.
LEMMA RoundKeepsMatch ==
  ASSUME ShapeInv, MatchInv, MatchRound
  PROVE  ShapeInv' /\ MatchInv'
<1>1. PICK p \in Open : det_to_track' = [det_to_track EXCEPT ![p[1]] = p[2]]
  BY DEF MatchRound
<1>2. UNCHANGED <<tracks_, next_id_, dets, outputs>>
  BY DEF MatchRound
<1>3. /\ p[1] \in DOMAIN dets /\ p[2] \in DOMAIN tracks_
      /\ \A d \in DOMAIN dets : det_to_track[d] # p[2]
  BY DEF Open
<1>4. Len(tracks_) \in Nat /\ p[2] \in 1 .. Len(tracks_)
  BY <1>3, LenProperties DEF ShapeInv
<1>5. p[2] \in 0 .. Len(tracks_)
  BY <1>4
<1>6. ShapeInv'
  BY <1>1, <1>2, <1>5 DEF ShapeInv
<1>7. MatchInv'
  BY <1>1, <1>2, <1>3 DEF ShapeInv, MatchInv
<1> QED
  BY <1>6, <1>7

\* After a round every pair that has just left the race was not preferred to the
\* pair that was picked.
LEMMA RoundKeepsStable ==
  ASSUME ShapeInv, StableInv, MatchRound
  PROVE  StableInv'
<1>1. PICK p \in Open : Best(p) /\ det_to_track' = [det_to_track EXCEPT ![p[1]] = p[2]]
  BY DEF MatchRound
<1>2. UNCHANGED <<tracks_, next_id_, dets, outputs>>
  BY DEF MatchRound
<1>3. /\ p = <<p[1], p[2]>> /\ p[1] \in DOMAIN dets /\ p[2] \in DOMAIN tracks_
      /\ det_to_track[p[1]] = 0
  BY DEF Open
<1>4. p[2] # 0
  BY <1>3, LenProperties DEF ShapeInv
<1>5. /\ det_to_track'[p[1]] = p[2]
      /\ \A e \in DOMAIN dets : e # p[1] => det_to_track'[e] = det_to_track[e]
  BY <1>1, <1>3 DEF ShapeInv
<1>6. SUFFICES ASSUME NEW d \in DOMAIN dets, NEW t \in DOMAIN tracks_,
                      Eligible(dets[d], tracks_[t].det), <<d, t>> \notin Open'
               PROVE  Preferred(d, t)'
  BY <1>2 DEF StableInv
<1>7. \A a, b : HigherPair(a, b)' = HigherPair(a, b)
  BY <1>2 DEF HigherPair
<1>8. CASE Preferred(d, t)
  <2>1. PICK e \in DOMAIN dets : /\ det_to_track[e] # 0
                                 /\ e = d \/ det_to_track[e] = t
                                 /\ ~HigherPair(<<d, t>>, <<e, det_to_track[e]>>)
    BY <1>8 DEF Preferred
  <2>2. det_to_track'[e] = det_to_track[e]
    BY <1>3, <1>5, <2>1
  <2> QED
    BY <1>2, <1>7, <2>1, <2>2 DEF Preferred, HigherPair
<1>9. CASE <<d, t>> \in Open
  <2>1. d = p[1] \/ t = p[2]
    <3> SUFFICES ASSUME d # p[1], t # p[2] PROVE FALSE
      OBVIOUS
    <3>1. det_to_track'[d] = 0
      BY <1>5, <1>9 DEF Open
    <3>2. \A e \in DOMAIN dets : det_to_track'[e] # t
      BY <1>5, <1>9 DEF Open
    <3> QED
      BY <1>2, <1>6, <3>1, <3>2 DEF Open
  <2>2. ~HigherPair(<<d, t>>, p)
    BY <1>1, <1>9, BestIsHighest
  <2>3. ~HigherPair(<<d, t>>, <<p[1], det_to_track'[p[1]]>>)
    BY <1>3, <1>5, <2>2
  <2> QED
    BY <1>2, <1>3, <1>4, <1>5, <1>7, <2>1, <2>3 DEF Preferred, HigherPair
<1> QED
  BY <1>6, <1>8, <1>9 DEF StableInv

----------------------------------------------------------------------------
(* The end of an update.                                                   *)

\* An increasing enumeration of a finite set of positions has each of them once.
LEMMA InOrderEnumerates ==
  ASSUME NEW K \in SUBSET Int, IsFiniteSet(K), NEW f \in InOrder(K)
  PROVE  /\ Cardinality(K) \in Nat
         /\ f \in [1 .. Cardinality(K) -> K]
         /\ \A i, j \in 1 .. Cardinality(K) : f[i] = f[j] => i = j
         /\ \A i, j \in 1 .. Cardinality(K) : i <= j <=> f[i] <= f[j]
         /\ \A x \in K : \E i \in 1 .. Cardinality(K) : f[i] = x
<1> DEFINE n == Cardinality(K)
<1>1. n \in Nat
  BY FS_CardinalityType
<1>2. f \in [1 .. n -> K] /\ \A i, j \in 1 .. n : i < j => f[i] < f[j]
  BY DEF InOrder
<1> HIDE DEF n
<1>3. \A i, j \in 1 .. n : (f[i] = f[j] => i = j) /\ (i <= j <=> f[i] <= f[j])
  <2> SUFFICES ASSUME NEW i \in 1 .. n, NEW j \in 1 .. n
               PROVE  (f[i] = f[j] => i = j) /\ (i <= j <=> f[i] <= f[j])
    OBVIOUS
  <2>1. f[i] \in Int /\ f[j] \in Int
    BY <1>2
  <2>2. i < j => f[i] < f[j]
    BY <1>2
  <2>3. j < i => f[j] < f[i]
    BY <1>2
  <2> QED
    BY <1>1, <2>1, <2>2, <2>3
<1>4. \A x \in K : \E i \in 1 .. n : f[i] = x
  <2>1. f \in Injection(1 .. n, K)
    BY <1>2, <1>3 DEF Injection, IsInjective
  <2>2. Cardinality(1 .. n) = n
    BY <1>1, FS_Interval
  <2>3. f \in Surjection(1 .. n, K)
    BY <2>1, <2>2, FS_Injection DEF n
  <2> QED
    BY <2>3 DEF Surjection
<1> QED
  BY <1>1, <1>2, <1>3, <1>4 DEF n

\* Unmatched(upto) is a finite set, larger when a detection is added.
LEMMA UnmatchedCounts ==
  ASSUME ShapeInv, NEW c \in 0 .. Len(dets)
  PROVE  /\ Unmatched(c) \in SUBSET Int /\ IsFiniteSet(Unmatched(c))
         /\ Cardinality(Unmatched(c)) \in 0 .. Len(dets)
         /\ \A d \in Unmatched(c) :
              /\ Cardinality(Unmatched(d)) \in 1 .. Cardinality(Unmatched(c))
              /\ d < c /\ c \in Unmatched(c) =>
                   Cardinality(Unmatched(d)) < Cardinality(Unmatched(c))
<1>1. Len(dets) \in Nat
  BY LenProperties DEF ShapeInv
<1>2. ASSUME NEW x \in 0 .. Len(dets)
      PROVE  IsFiniteSet(Unmatched(x)) /\ Cardinality(Unmatched(x)) \in Nat
             /\ Cardinality(Unmatched(x)) <= x
  <2>1. Unmatched(x) \in SUBSET (1 .. x) /\ x \in Nat
    BY <1>1 DEF Unmatched
  <2>2. IsFiniteSet(1 .. x) /\ Cardinality(1 .. x) = x
    BY <2>1, FS_Interval
  <2>3. IsFiniteSet(Unmatched(x)) /\ Cardinality(Unmatched(x)) <= x
    BY <2>1, <2>2, FS_Subset
  <2> QED
    BY <2>3, FS_CardinalityType
<1>3. Unmatched(c) \in SUBSET Int /\ Cardinality(Unmatched(c)) \in 0 .. Len(dets)
  <2>1. Unmatched(c) \in SUBSET Int
    BY DEF Unmatched
  <2> QED
    BY <1>1, <1>2, <2>1
<1>4. ASSUME NEW d \in Unmatched(c)
      PROVE  /\ Cardinality(Unmatched(d)) \in 1 .. Cardinality(Unmatched(c))
             /\ d < c /\ c \in Unmatched(c) =>
                  Cardinality(Unmatched(d)) < Cardinality(Unmatched(c))
  <2>1. d \in 1 .. c /\ d \in 0 .. Len(dets) /\ d \in Unmatched(d)
    BY <1>1 DEF Unmatched
  <2>2. Unmatched(d) \in SUBSET Unmatched(c)
    BY <1>1, <2>1 DEF Unmatched
  <2>3. /\ IsFiniteSet(Unmatched(d)) /\ Cardinality(Unmatched(d)) \in Nat
        /\ IsFiniteSet(Unmatched(c)) /\ Cardinality(Unmatched(c)) \in Nat
    BY <1>2, <2>1
  <2>4. /\ Cardinality(Unmatched(d)) <= Cardinality(Unmatched(c))
        /\ Cardinality(Unmatched(c)) = Cardinality(Unmatched(d)) => Unmatched(c) = Unmatched(d)
    BY <2>2, <2>3, FS_Subset
  <2>5. Cardinality(Unmatched(d)) # 0
    BY <2>1, <2>3, FS_EmptySet
  <2>6. d < c => c \notin Unmatched(d)
    BY <2>1 DEF Unmatched
  <2> QED
    BY <2>3, <2>4, <2>5, <2>6
<1> QED
  BY <1>2, <1>3, <1>4

\* The k-th unmatched detection of the frame is the k-th to get an identifier.
LEMMA RankOfNew ==
  ASSUME ShapeInv, NEW new \in InOrder(Unmatched(Len(dets))),
         NEW k \in 1 .. Cardinality(Unmatched(Len(dets)))
  PROVE  Cardinality(Unmatched(new[k])) = k
<1> DEFINE U == Unmatched(Len(dets))
           n == Cardinality(U)
           f == [j \in 1 .. k |-> new[j]]
<1>1. Len(dets) \in Nat /\ Len(dets) \in 0 .. Len(dets)
  BY LenProperties DEF ShapeInv
<1>2. U \in SUBSET Int /\ IsFiniteSet(U)
  BY <1>1, UnmatchedCounts
<1>3. /\ n \in Nat /\ new \in [1 .. n -> U]
      /\ \A i, j \in 1 .. n : new[i] = new[j] => i = j
      /\ \A i, j \in 1 .. n : i <= j <=> new[i] <= new[j]
      /\ \A x \in U : \E i \in 1 .. n : new[i] = x
  BY <1>2, InOrderEnumerates
<1>4. k \in 1 .. n /\ k \in Nat /\ new[k] \in U
  BY <1>3
<1>5. \A x : x \in Unmatched(new[k]) <=> x \in U /\ x <= new[k]
  BY <1>1, <1>4 DEF Unmatched
<1> HIDE DEF U, n
<1>6. \A j \in 1 .. k : j \in 1 .. n
  BY <1>3, <1>4
<1>7. f \in [1 .. k -> Unmatched(new[k])]
  <2> SUFFICES ASSUME NEW j \in 1 .. k PROVE new[j] \in Unmatched(new[k])
    OBVIOUS
  <2>1. j \in 1 .. n /\ j <= k
    BY <1>6
  <2> QED
    BY <1>3, <1>4, <1>5, <2>1
<1>8. \A i, j \in 1 .. k : f[i] = f[j] => i = j
  BY <1>3, <1>6
<1>9. \A x \in Unmatched(new[k]) : \E j \in 1 .. k : f[j] = x
  <2> SUFFICES ASSUME NEW x \in Unmatched(new[k]) PROVE \E j \in 1 .. k : new[j] = x
    OBVIOUS
  <2>1. PICK j \in 1 .. n : new[j] = x
    BY <1>3, <1>5
  <2>2. j <= k
    BY <1>3, <1>4, <1>5, <2>1
  <2>3. j \in 1 .. k
    BY <1>3, <1>4, <2>1, <2>2
  <2> QED
    BY <2>1, <2>3
<1> HIDE DEF f
<1>10. ExistsBijection(1 .. k, Unmatched(new[k]))
  BY <1>7, <1>8, <1>9 DEF ExistsBijection, Bijection, Injection, Surjection, IsInjective
<1>11. IsFiniteSet(1 .. k) /\ Cardinality(1 .. k) = k
  BY <1>4, FS_Interval
<1> QED
  BY <1>10, <1>11, FS_Bijection

\* The number of new tracks of the frame.
Fresh == Cardinality(Unmatched(Len(dets)))

\* Track t has been given to a detection of the frame.
Found(t) == \E d \in DOMAIN dets : det_to_track[d] = t

\* After the update the identifier id is followed, and was unseen for u frames.
FollowedNext(id, u) ==
  \/ \E t \in DOMAIN tracks_ : /\ id = tracks_[t].id
                               /\ u = Age(tracks_[t], Found(t))
                               /\ u <= kMaxAge
  \/ id \in next_id_ .. (next_id_ + Fresh - 1) /\ u = 0

\* An old track keeps its identifier, and its age depends on whether it was found.
LEMMA OldTrackIs ==
  ASSUME ShapeInv, NEW t \in DOMAIN tracks_
  PROVE  /\ OldTrack(t) \in TrackRecs
         /\ OldTrack(t).id = tracks_[t].id
         /\ OldTrack(t).frames_unseen = Age(tracks_[t], Found(t))
<1> DEFINE mine == {d \in DOMAIN dets : det_to_track[d] = t}
<1>1. tracks_[t] \in TrackRecs /\ dets \in [DOMAIN dets -> Boxes]
  BY LenProperties, ElementOfSeq DEF ShapeInv
<1>2. /\ tracks_[t].id \in Nat /\ tracks_[t].det \in Boxes
      /\ tracks_[t].frames_unseen \in Nat
  BY <1>1 DEF TrackRecs
<1>3. mine # {} <=> Found(t)
  BY DEF Found
<1>4. Age(tracks_[t], mine # {}) \in Nat /\ Age(tracks_[t], mine # {}) = Age(tracks_[t], Found(t))
  BY <1>2, <1>3 DEF Age
<1>5. (IF mine = {} THEN tracks_[t].det ELSE dets[CHOOSE d \in mine : TRUE]) \in Boxes
  <2>1. mine # {} => (CHOOSE d \in mine : TRUE) \in mine
    OBVIOUS
  <2> QED
    BY <1>1, <1>2, <2>1
<1>6. OldTrack(t) = [id |-> tracks_[t].id,
                     det |-> IF mine = {} THEN tracks_[t].det
                             ELSE dets[CHOOSE d \in mine : TRUE],
                     frames_unseen |-> Age(tracks_[t], mine # {})]
  BY DEF OldTrack
<1> HIDE DEF mine
<1> QED
  BY <1>2, <1>4, <1>5, <1>6 DEF TrackRecs

\* A new track has the next identifier that is free.
LEMMA NewTrackIs ==
  ASSUME ShapeInv, NEW new \in InOrder(Unmatched(Len(dets))), NEW k \in 1 .. Fresh
  PROVE  /\ new[k] \in DOMAIN dets
         /\ NewTrack(new[k]) \in TrackRecs
         /\ NewTrack(new[k]).id = next_id_ + k - 1
         /\ NewTrack(new[k]).frames_unseen = 0
<1>1. Len(dets) \in Nat /\ DOMAIN dets = 1 .. Len(dets)
  BY LenProperties DEF ShapeInv
<1>2. /\ Unmatched(Len(dets)) \in SUBSET Int /\ IsFiniteSet(Unmatched(Len(dets)))
  BY <1>1, UnmatchedCounts
<1>3. Fresh \in Nat /\ new[k] \in Unmatched(Len(dets))
  BY <1>2, InOrderEnumerates DEF Fresh
<1>4. new[k] \in DOMAIN dets /\ det_to_track[new[k]] = 0
  BY <1>1, <1>3 DEF Unmatched
<1>5. Cardinality(Unmatched(new[k])) = k
  BY RankOfNew DEF Fresh
<1>6. OutTrack(new[k]).id = next_id_ + k - 1
  BY <1>4, <1>5 DEF OutTrack, NewId
<1>7. next_id_ + k - 1 \in Nat /\ dets[new[k]] \in Boxes
  BY <1>1, <1>3, <1>4, ElementOfSeq DEF ShapeInv
<1> QED
  BY <1>4, <1>6, <1>7 DEF NewTrack, TrackRecs

\* What an update does to the tracks.
LEMMA UpdateEffect ==
  ASSUME ShapeInv, IdsInv, EndUpdate
  PROVE  /\ tracks_' \in Seq(TrackRecs)
         /\ Fresh \in 0 .. Len(dets) /\ next_id_' = next_id_ + Fresh
         /\ \A j, k \in DOMAIN tracks_' : tracks_'[j].id = tracks_'[k].id => j = k
         /\ \A k \in DOMAIN tracks_' : FollowedNext(tracks_'[k].id, tracks_'[k].frames_unseen)
         /\ \A id, u : FollowedNext(id, u) =>
              \E k \in DOMAIN tracks_' : tracks_'[k].id = id /\ tracks_'[k].frames_unseen = u
<1> DEFINE T == Len(tracks_)
           U == Unmatched(Len(dets))
           old == [t \in DOMAIN tracks_ |-> OldTrack(t)]
<1>1. /\ T \in Nat /\ DOMAIN tracks_ = 1 .. T
      /\ Len(dets) \in Nat /\ DOMAIN dets = 1 .. Len(dets)
      /\ next_id_ \in Nat \ {0} /\ kMaxAge \in Nat
  BY LenProperties, TrackerAssumption DEF ShapeInv
<1>2. Fresh \in 0 .. Len(dets) /\ U \in SUBSET Int /\ IsFiniteSet(U)
  BY <1>1, UnmatchedCounts DEF Fresh
<1>3. PICK new \in InOrder(U) :
        LET all == old \o [k \in DOMAIN new |-> NewTrack(new[k])]
        IN  \E kept \in InOrder({k \in DOMAIN all : ~Stale(all[k])}) :
              tracks_' = [k \in DOMAIN kept |-> all[kept[k]]]
  BY Zenon DEF EndUpdate
<1> DEFINE young == [k \in DOMAIN new |-> NewTrack(new[k])]
           all == old \o young
           K == {k \in DOMAIN all : ~Stale(all[k])}
<1>4. PICK kept \in InOrder(K) : tracks_' = [k \in DOMAIN kept |-> all[kept[k]]]
  BY <1>3
<1>5. next_id_' = next_id_ + Fresh
  BY DEF EndUpdate, Fresh
<1>6. Fresh \in Nat /\ DOMAIN new = 1 .. Fresh
  BY <1>2, InOrderEnumerates DEF Fresh
<1>7. /\ old \in Seq(TrackRecs) /\ Len(old) = T
      /\ \A t \in 1 .. T : old[t] = OldTrack(t)
  BY <1>1, OldTrackIs
<1>8. /\ young \in Seq(TrackRecs) /\ Len(young) = Fresh
      /\ \A k \in 1 .. Fresh : young[k] = NewTrack(new[k])
  <2>1. \A k \in 1 .. Fresh : NewTrack(new[k]) \in TrackRecs
    BY <1>3, NewTrackIs
  <2>2. young = [k \in 1 .. Fresh |-> NewTrack(new[k])]
    BY <1>6
  <2> HIDE DEF young
  <2> QED
    BY <1>6, <2>1, <2>2
<1> HIDE DEF old, young, T, U
<1>9. /\ all \in Seq(TrackRecs) /\ Len(all) = T + Fresh /\ DOMAIN all = 1 .. (T + Fresh)
      /\ \A k \in 1 .. T : all[k] = OldTrack(k)
      /\ \A k \in 1 .. Fresh : all[T + k] = NewTrack(new[k])
  <2>1. all \in Seq(TrackRecs) /\ Len(all) = T + Fresh
    BY <1>7, <1>8, ConcatProperties
  <2>2. DOMAIN all = 1 .. (T + Fresh)
    BY <2>1, LenProperties
  <2>3. \A i \in 1 .. (T + Fresh) : all[i] = IF i <= T THEN old[i] ELSE young[i - T]
    BY <1>7, <1>8, ConcatProperties
  <2>4. ASSUME NEW k \in 1 .. T PROVE all[k] = OldTrack(k)
    <3>1. k \in 1 .. (T + Fresh) /\ k <= T
      BY <1>1, <1>6
    <3> QED
      BY <1>7, <2>3, <3>1
  <2>5. ASSUME NEW k \in 1 .. Fresh PROVE all[T + k] = NewTrack(new[k])
    <3>1. T + k \in 1 .. (T + Fresh) /\ ~(T + k <= T) /\ (T + k) - T = k
      BY <1>1, <1>6
    <3> QED
      BY <1>8, <2>3, <3>1
  <2> QED
    BY <2>1, <2>2, <2>4, <2>5
<1> HIDE DEF all
<1>10. \A i \in 1 .. (T + Fresh) :
         (i \in 1 .. T) \/ \E k \in 1 .. Fresh : i = T + k
  <2> SUFFICES ASSUME NEW i \in 1 .. (T + Fresh), i \notin 1 .. T
               PROVE  i - T \in 1 .. Fresh /\ i = T + (i - T)
    OBVIOUS
  <2> QED
    BY <1>1, <1>6
<1>11. /\ \A t \in 1 .. T : /\ all[t].id = tracks_[t].id /\ all[t].id < next_id_
                            /\ all[t].frames_unseen = Age(tracks_[t], Found(t))
       /\ \A k \in 1 .. Fresh : /\ all[T + k].id = next_id_ + k - 1
                                /\ all[T + k].frames_unseen = 0
  <2>1. ASSUME NEW t \in 1 .. T
        PROVE  /\ all[t].id = tracks_[t].id /\ all[t].id < next_id_
               /\ all[t].frames_unseen = Age(tracks_[t], Found(t))
    <3>1. t \in DOMAIN tracks_ /\ all[t] = OldTrack(t)
      BY <1>1, <1>9
    <3>2. tracks_[t].id \in 1 .. (next_id_ - 1)
      BY <3>1 DEF IdsInv
    <3> QED
      BY <1>1, <3>1, <3>2, OldTrackIs
  <2>2. ASSUME NEW k \in 1 .. Fresh
        PROVE  all[T + k].id = next_id_ + k - 1 /\ all[T + k].frames_unseen = 0
    BY <1>3, <1>9, NewTrackIs DEF U
  <2> QED
    BY <2>1, <2>2
<1>12. \A i, j \in 1 .. (T + Fresh) : all[i].id = all[j].id => i = j
  <2> SUFFICES ASSUME NEW i \in 1 .. (T + Fresh), NEW j \in 1 .. (T + Fresh), all[i].id = all[j].id
               PROVE  i = j
    OBVIOUS
  <2>1. CASE i \in 1 .. T /\ j \in 1 .. T
    BY <1>1, <1>11, <2>1 DEF IdsInv
  <2>2. ASSUME NEW a \in 1 .. T, NEW k \in 1 .. Fresh PROVE all[a].id # all[T + k].id
    <3>1. all[a].id < next_id_ /\ all[T + k].id = next_id_ + k - 1 /\ all[a].id \in Nat
      BY <1>1, <1>9, <1>11, OldTrackIs DEF TrackRecs
    <3> QED
      BY <1>1, <3>1
  <2>3. ASSUME NEW a \in 1 .. Fresh, NEW k \in 1 .. Fresh, all[T + a].id = all[T + k].id
        PROVE  a = k
    <3>1. next_id_ + a - 1 = next_id_ + k - 1
      BY <1>11, <2>3
    <3> QED
      BY <1>1, <3>1
  <2> QED
    BY <1>10, <2>1, <2>2, <2>3
<1>13. /\ Cardinality(K) \in Nat /\ kept \in [1 .. Cardinality(K) -> K]
       /\ \A i, j \in 1 .. Cardinality(K) : kept[i] = kept[j] => i = j
       /\ \A x \in K : \E i \in 1 .. Cardinality(K) : kept[i] = x
  <2>1. K \in SUBSET (1 .. (T + Fresh)) /\ K \in SUBSET Int
    BY <1>1, <1>6, <1>9
  <2>2. IsFiniteSet(1 .. (T + Fresh))
    BY <1>1, <1>6, FS_Interval
  <2>3. IsFiniteSet(K)
    BY <2>1, <2>2, FS_Subset
  <2> HIDE DEF K
  <2> QED
    BY <1>4, <2>1, <2>3, InOrderEnumerates
<1>14. /\ \A x \in K : x \in 1 .. (T + Fresh) /\ ~Stale(all[x]) /\ all[x] \in TrackRecs
       /\ \A x \in 1 .. (T + Fresh) : ~Stale(all[x]) => x \in K
  BY <1>9, ElementOfSeq
<1> HIDE DEF K
<1>15. PICK m \in Nat : m = Cardinality(K)
  BY <1>13
<1>16. DOMAIN tracks_' = 1 .. m /\ \A k \in 1 .. m : kept[k] \in K /\ tracks_'[k] = all[kept[k]]
  BY <1>4, <1>13, <1>15
<1>17. tracks_' \in Seq(TrackRecs)
  <2>1. tracks_' = [k \in 1 .. m |-> all[kept[k]]]
    BY <1>4, <1>13, <1>15
  <2>2. \A k \in 1 .. m : all[kept[k]] \in TrackRecs
    BY <1>14, <1>16
  <2> QED
    BY <1>15, <2>1, <2>2
<1>18. \A j, k \in DOMAIN tracks_' : tracks_'[j].id = tracks_'[k].id => j = k
  BY <1>12, <1>13, <1>14, <1>15, <1>16
<1>19. ASSUME NEW k \in DOMAIN tracks_'
       PROVE  FollowedNext(tracks_'[k].id, tracks_'[k].frames_unseen)
  <2>1. PICK x \in 1 .. (T + Fresh) : tracks_'[k] = all[x] /\ ~Stale(all[x]) /\ all[x] \in TrackRecs
    BY <1>14, <1>16
  <2>2. all[x].frames_unseen <= kMaxAge
    BY <1>1, <2>1 DEF Stale, TrackRecs
  <2>3. CASE x \in 1 .. T
    BY <1>1, <1>11, <2>1, <2>2, <2>3 DEF FollowedNext
  <2>4. ASSUME NEW j \in 1 .. Fresh, x = T + j
        PROVE  FollowedNext(tracks_'[k].id, tracks_'[k].frames_unseen)
    <3>1. all[x].id = next_id_ + j - 1 /\ all[x].frames_unseen = 0
      BY <1>11, <2>4
    <3>2. next_id_ + j - 1 \in next_id_ .. (next_id_ + Fresh - 1)
      BY <1>1, <1>6
    <3> QED
      BY <2>1, <3>1, <3>2 DEF FollowedNext
  <2> QED
    BY <1>10, <2>3, <2>4
<1>20. ASSUME NEW id, NEW u, FollowedNext(id, u)
       PROVE  \E k \in DOMAIN tracks_' : tracks_'[k].id = id /\ tracks_'[k].frames_unseen = u
  <2>1. ASSUME NEW x \in 1 .. (T + Fresh), all[x].id = id, all[x].frames_unseen = u, u <= kMaxAge
        PROVE  \E k \in DOMAIN tracks_' : tracks_'[k].id = id /\ tracks_'[k].frames_unseen = u
    <3>1. all[x] \in TrackRecs
      BY <1>9, ElementOfSeq
    <3>2. x \in K
      BY <1>1, <1>14, <2>1, <3>1 DEF Stale, TrackRecs
    <3> QED
      BY <1>13, <1>15, <1>16, <2>1, <3>2
  <2>2. ASSUME NEW t \in DOMAIN tracks_, id = tracks_[t].id,
               u = Age(tracks_[t], Found(t)), u <= kMaxAge
        PROVE  \E k \in DOMAIN tracks_' : tracks_'[k].id = id /\ tracks_'[k].frames_unseen = u
    <3>1. t \in 1 .. (T + Fresh) /\ t \in 1 .. T
      BY <1>1, <1>6
    <3> QED
      BY <1>11, <2>1, <2>2, <3>1
  <2>3. ASSUME id \in next_id_ .. (next_id_ + Fresh - 1), u = 0
        PROVE  \E k \in DOMAIN tracks_' : tracks_'[k].id = id /\ tracks_'[k].frames_unseen = u
    <3>1. PICK j \in 1 .. Fresh : id = next_id_ + j - 1
      <4>1. id - next_id_ + 1 \in 1 .. Fresh /\ id = next_id_ + (id - next_id_ + 1) - 1
        BY <1>1, <1>6, <2>3
      <4> QED
        BY <4>1
    <3>2. T + j \in 1 .. (T + Fresh)
      BY <1>1, <1>6
    <3> QED
      BY <1>1, <1>11, <2>1, <2>3, <3>1, <3>2
  <2> QED
    BY <1>20, <2>2, <2>3 DEF FollowedNext
<1> QED
  BY <1>2, <1>5, <1>17, <1>18, <1>19, <1>20

----------------------------------------------------------------------------
(* The identifiers of a frame.                                             *)

\* The identifiers the frame has found again, and all it has given out.
SeenIds == {tracks_[t].id : t \in {t \in DOMAIN tracks_ : Found(t)}}
FoundIds == SeenIds \cup next_id_ .. (next_id_ + Fresh - 1)

\* The identifier of a detection: its track's, or one that is free.
LEMMA OutIdIs ==
  ASSUME ShapeInv, IdsInv, NEW d \in DOMAIN dets
  PROVE  /\ det_to_track[d] # 0 =>
              /\ det_to_track[d] \in DOMAIN tracks_ /\ Found(det_to_track[d])
              /\ OutTrack(d).id = tracks_[det_to_track[d]].id
              /\ OutTrack(d).id \in Nat /\ OutTrack(d).id < next_id_
         /\ det_to_track[d] = 0 =>
              /\ d \in Unmatched(Len(dets)) /\ d \in Unmatched(d)
              /\ Cardinality(Unmatched(d)) \in 1 .. Fresh
              /\ OutTrack(d).id = next_id_ + Cardinality(Unmatched(d)) - 1
<1>1. /\ Len(dets) \in Nat /\ DOMAIN dets = 1 .. Len(dets)
      /\ Len(tracks_) \in Nat /\ DOMAIN tracks_ = 1 .. Len(tracks_)
      /\ next_id_ \in Nat
  BY LenProperties DEF ShapeInv
<1>2. ASSUME det_to_track[d] # 0
      PROVE  /\ det_to_track[d] \in DOMAIN tracks_ /\ Found(det_to_track[d])
             /\ OutTrack(d).id = tracks_[det_to_track[d]].id
             /\ OutTrack(d).id \in Nat /\ OutTrack(d).id < next_id_
  <2>1. det_to_track[d] \in DOMAIN tracks_
    BY <1>1, <1>2 DEF ShapeInv
  <2>2. tracks_[det_to_track[d]].id \in 1 .. (next_id_ - 1)
    BY <2>1 DEF IdsInv
  <2>3. OutTrack(d).id = tracks_[det_to_track[d]].id
    BY <1>2 DEF OutTrack
  <2> QED
    BY <1>1, <2>1, <2>2, <2>3 DEF Found
<1>3. ASSUME det_to_track[d] = 0
      PROVE  /\ d \in Unmatched(Len(dets)) /\ d \in Unmatched(d)
             /\ Cardinality(Unmatched(d)) \in 1 .. Fresh
             /\ OutTrack(d).id = next_id_ + Cardinality(Unmatched(d)) - 1
  <2>1. d \in Unmatched(Len(dets)) /\ d \in Unmatched(d)
    BY <1>1, <1>3 DEF Unmatched
  <2>2. Cardinality(Unmatched(d)) \in 1 .. Fresh
    BY <1>1, <2>1, UnmatchedCounts DEF Fresh
  <2>3. OutTrack(d).id = next_id_ + Cardinality(Unmatched(d)) - 1
    BY <1>3 DEF OutTrack, NewId
  <2> QED
    BY <2>1, <2>2, <2>3
<1> QED
  BY <1>2, <1>3

\* No two detections of a frame get the same identifier.
LEMMA OutIdsDiffer ==
  ASSUME ShapeInv, IdsInv, MatchInv, NEW d \in DOMAIN dets, NEW e \in DOMAIN dets,
         OutTrack(d).id = OutTrack(e).id
  PROVE  d = e
<1>1. /\ Len(dets) \in Nat /\ DOMAIN dets = 1 .. Len(dets) /\ next_id_ \in Nat
      /\ Fresh \in Nat
  BY LenProperties, UnmatchedCounts DEF ShapeInv, Fresh
<1>2. CASE det_to_track[d] # 0 /\ det_to_track[e] # 0
  BY <1>2, OutIdIs DEF IdsInv, MatchInv
<1>3. CASE det_to_track[d] # 0 /\ det_to_track[e] = 0
  BY <1>1, <1>3, OutIdIs
<1>4. CASE det_to_track[d] = 0 /\ det_to_track[e] # 0
  BY <1>1, <1>4, OutIdIs
<1>5. CASE det_to_track[d] = 0 /\ det_to_track[e] = 0
  <2>1. /\ Cardinality(Unmatched(d)) \in 1 .. Fresh /\ Cardinality(Unmatched(e)) \in 1 .. Fresh
        /\ OutTrack(d).id = next_id_ + Cardinality(Unmatched(d)) - 1
        /\ OutTrack(e).id = next_id_ + Cardinality(Unmatched(e)) - 1
    BY <1>5, OutIdIs
  <2>2. Cardinality(Unmatched(d)) = Cardinality(Unmatched(e))
    <3>1. ASSUME NEW a \in 1 .. Fresh, NEW b \in 1 .. Fresh, next_id_ + a - 1 = next_id_ + b - 1
          PROVE  a = b
      BY <1>1, <3>1
    <3> QED
      BY <2>1, <3>1
  <2>3. ASSUME NEW x \in DOMAIN dets, NEW y \in DOMAIN dets,
               det_to_track[x] = 0, det_to_track[y] = 0, x < y
        PROVE  Cardinality(Unmatched(x)) < Cardinality(Unmatched(y))
    <3>1. x \in Unmatched(y) /\ y \in Unmatched(y) /\ y \in 0 .. Len(dets)
      BY <1>1, <2>3 DEF Unmatched
    <3> QED
      BY <2>3, <3>1, UnmatchedCounts
  <2>4. ~(d < e)
    BY <1>1, <1>5, <2>1, <2>2, <2>3
  <2>5. ~(e < d)
    BY <1>1, <1>5, <2>1, <2>2, <2>3
  <2> QED
    BY <1>1, <2>4, <2>5
<1> QED
  BY <1>2, <1>3, <1>4, <1>5

\* The identifiers of the output are those that were found again and the new ones.
LEMMA OutIdsAre ==
  ASSUME ShapeInv, IdsInv, EndUpdate
  PROVE  {OutTrack(d).id : d \in DOMAIN dets} = FoundIds
<1>1. /\ Len(dets) \in Nat /\ next_id_ \in Nat /\ Fresh \in Nat
  BY LenProperties, UnmatchedCounts DEF ShapeInv, Fresh
<1>2. ASSUME NEW d \in DOMAIN dets PROVE OutTrack(d).id \in FoundIds
  <2>1. CASE det_to_track[d] # 0
    BY <2>1, OutIdIs DEF FoundIds, SeenIds
  <2>2. CASE det_to_track[d] = 0
    <3>1. PICK c \in 1 .. Fresh : OutTrack(d).id = next_id_ + c - 1
      BY <2>2, OutIdIs
    <3>2. OutTrack(d).id \in next_id_ .. (next_id_ + Fresh - 1)
      BY <1>1, <3>1
    <3> QED
      BY <3>2 DEF FoundIds
  <2> QED
    BY <2>1, <2>2
<1>3. ASSUME NEW id \in SeenIds PROVE \E d \in DOMAIN dets : id = OutTrack(d).id
  <2>1. PICK t \in DOMAIN tracks_ : Found(t) /\ id = tracks_[t].id
    BY DEF SeenIds
  <2>2. PICK d \in DOMAIN dets : det_to_track[d] = t
    BY <2>1 DEF Found
  <2>3. t # 0
    BY LenProperties DEF ShapeInv
  <2> QED
    BY <2>1, <2>2, <2>3, OutIdIs
<1>4. ASSUME NEW id \in next_id_ .. (next_id_ + Fresh - 1)
      PROVE  \E d \in DOMAIN dets : id = OutTrack(d).id
  <2>1. PICK new : new \in InOrder(Unmatched(Len(dets)))
    BY Zenon DEF EndUpdate
  <2>2. PICK k \in 1 .. Fresh : id = next_id_ + k - 1
    <3>1. id - next_id_ + 1 \in 1 .. Fresh /\ id = next_id_ + (id - next_id_ + 1) - 1
      BY <1>1
    <3> QED
      BY <3>1
  <2>3. new[k] \in DOMAIN dets /\ NewTrack(new[k]).id = id
    BY <2>1, <2>2, NewTrackIs
  <2> QED
    BY <2>3 DEF NewTrack
<1> QED
  BY <1>2, <1>3, <1>4 DEF FoundIds

\* A frame finds no more tracks, old and new, than it has detections.
LEMMA FrameBoundsIds ==
  ASSUME ShapeInv
  PROVE  Cardinality(SeenIds) \in Nat /\ Cardinality(SeenIds) + Fresh <= Len(dets)
<1> DEFINE M == {d \in DOMAIN dets : det_to_track[d] # 0}
           U == Unmatched(Len(dets))
           f == [d \in M |-> tracks_[det_to_track[d]].id]
<1>1. /\ Len(dets) \in Nat /\ DOMAIN dets = 1 .. Len(dets)
      /\ DOMAIN tracks_ = 1 .. Len(tracks_) /\ Len(tracks_) \in Nat
  BY LenProperties DEF ShapeInv
<1>2. IsFiniteSet(1 .. Len(dets)) /\ Cardinality(1 .. Len(dets)) = Len(dets)
  <2>1. ASSUME NEW n \in Nat PROVE IsFiniteSet(1 .. n) /\ Cardinality(1 .. n) = n
    BY FS_Interval
  <2> QED
    BY <1>1, <2>1
<1>3. U \cup M = 1 .. Len(dets) /\ U \cap M = {}
  <2>1. U = {d \in 1 .. Len(dets) : det_to_track[d] = 0}
    BY DEF Unmatched
  <2>2. M = {d \in 1 .. Len(dets) : det_to_track[d] # 0}
    BY <1>1
  <2> HIDE DEF U, M
  <2> QED
    BY <2>1, <2>2
<1>4. f \in Surjection(M, SeenIds)
  <2>1. \A d \in M : det_to_track[d] \in DOMAIN tracks_
    BY <1>1 DEF ShapeInv
  <2>2. f \in [M -> SeenIds]
    BY <2>1 DEF SeenIds, Found
  <2>3. ASSUME NEW id \in SeenIds PROVE \E d \in M : f[d] = id
    <3>1. PICK t \in DOMAIN tracks_ : Found(t) /\ id = tracks_[t].id
      BY DEF SeenIds
    <3>2. PICK d \in DOMAIN dets : det_to_track[d] = t
      BY <3>1 DEF Found
    <3>3. d \in M
      BY <1>1, <3>2
    <3> QED
      BY <3>1, <3>2, <3>3
  <2> QED
    BY <2>2, <2>3 DEF Surjection
<1> HIDE DEF f, M, U
<1>5. /\ IsFiniteSet(M) /\ IsFiniteSet(U)
  BY <1>2, <1>3, FS_Subset
<1>6. Cardinality(U \cup M) = Cardinality(U) + Cardinality(M) - Cardinality(U \cap M)
  BY <1>5, FS_Union
<1>7. Cardinality(U \cap M) = 0
  BY <1>3, FS_EmptySet
<1>8. Cardinality(U) \in Nat /\ Cardinality(M) \in Nat
  BY <1>5, FS_CardinalityType
<1>9. IsFiniteSet(SeenIds) /\ Cardinality(SeenIds) <= Cardinality(M)
  BY <1>4, <1>5, FS_Surjection
<1>10. Cardinality(SeenIds) \in Nat
  BY <1>9, FS_CardinalityType
<1>11. Fresh = Cardinality(U)
  BY DEF Fresh, U
<1>12. Cardinality(U) + Cardinality(M) = Len(dets)
  <2>1. Cardinality(U \cup M) = Len(dets)
    BY <1>2, <1>3
  <2> QED
    BY <1>6, <1>7, <1>8, <2>1
<1> QED
  BY <1>8, <1>9, <1>10, <1>11, <1>12

----------------------------------------------------------------------------
(* An update is one the track stream promises.                             *)

\* The refinement mapping of Promise, for the tracks s.
FollowedOf(s) ==
  [id \in {s[k].id : k \in DOMAIN s} |->
     s[CHOOSE k \in DOMAIN s : s[k].id = id].frames_unseen]

\* With one track per identifier the mapping reads the age of that track.
LEMMA FollowedOfIs ==
  ASSUME NEW s, \A j, k \in DOMAIN s : s[j].id = s[k].id => j = k
  PROVE  /\ DOMAIN FollowedOf(s) = {s[k].id : k \in DOMAIN s}
         /\ \A k \in DOMAIN s : FollowedOf(s)[s[k].id] = s[k].frames_unseen
<1>1. ASSUME NEW k \in DOMAIN s PROVE FollowedOf(s)[s[k].id] = s[k].frames_unseen
  <2> DEFINE c == CHOOSE j \in DOMAIN s : s[j].id = s[k].id
  <2>1. c \in DOMAIN s /\ s[c].id = s[k].id
    OBVIOUS
  <2>2. c = k
    BY <2>1
  <2> HIDE DEF c
  <2>3. FollowedOf(s)[s[k].id] = s[c].frames_unseen
    BY DEF FollowedOf, c
  <2> QED
    BY <2>2, <2>3
<1> QED
  BY <1>1 DEF FollowedOf

\* The identifiers that are followed after an update, and their ages, are those of
\* TrackSource's Update.
LEMMA FollowedNextIs ==
  ASSUME ShapeInv, IdsInv, NEW id, NEW u
  PROVE  LET followed == FollowedOf(tracks_)
             kept == {i \in DOMAIN followed : followed[i] < kMaxAge}
         IN  FollowedNext(id, u) <=>
               /\ id \in FoundIds \cup kept
               /\ u = IF id \in FoundIds THEN 0 ELSE followed[id] + 1
<1> DEFINE followed == FollowedOf(tracks_)
           kept == {i \in DOMAIN followed : followed[i] < kMaxAge}
<1>1. /\ DOMAIN followed = {tracks_[k].id : k \in DOMAIN tracks_}
      /\ \A k \in DOMAIN tracks_ : followed[tracks_[k].id] = tracks_[k].frames_unseen
  BY FollowedOfIs DEF IdsInv
<1>2. \A t \in DOMAIN tracks_ :
        /\ tracks_[t].frames_unseen \in Nat /\ tracks_[t].id \in Nat /\ tracks_[t].id < next_id_
        /\ tracks_[t].frames_unseen <= kMaxAge
  <2> SUFFICES ASSUME NEW t \in DOMAIN tracks_
               PROVE  /\ tracks_[t].frames_unseen \in Nat /\ tracks_[t].id \in Nat
                      /\ tracks_[t].id < next_id_ /\ tracks_[t].frames_unseen <= kMaxAge
    OBVIOUS
  <2>1. tracks_[t] \in TrackRecs
    BY LenProperties, ElementOfSeq DEF ShapeInv
  <2>2. tracks_[t].frames_unseen \in Nat
    BY <2>1 DEF TrackRecs
  <2> QED
    BY <2>2 DEF IdsInv, ShapeInv
<1>3. kMaxAge \in Nat /\ next_id_ \in Nat
  BY TrackerAssumption DEF ShapeInv
<1>4. \A t \in DOMAIN tracks_ : tracks_[t].id \in FoundIds <=> Found(t)
  <2> SUFFICES ASSUME NEW t \in DOMAIN tracks_ PROVE tracks_[t].id \in FoundIds <=> Found(t)
    OBVIOUS
  <2>1. tracks_[t].id \notin next_id_ .. (next_id_ + Fresh - 1)
    BY <1>2, <1>3
  <2>2. tracks_[t].id \in SeenIds <=> Found(t)
    BY DEF SeenIds, IdsInv
  <2> QED
    BY <2>1, <2>2 DEF FoundIds
<1>5. \A i \in FoundIds : i \notin next_id_ .. (next_id_ + Fresh - 1) =>
        \E t \in DOMAIN tracks_ : Found(t) /\ i = tracks_[t].id
  BY DEF FoundIds, SeenIds
<1>6. \A i \in next_id_ .. (next_id_ + Fresh - 1) : i \in FoundIds
  BY DEF FoundIds
<1> HIDE DEF followed
<1>7. ASSUME FollowedNext(id, u)
      PROVE  /\ id \in FoundIds \cup kept
             /\ u = IF id \in FoundIds THEN 0 ELSE followed[id] + 1
  <2>1. ASSUME NEW t \in DOMAIN tracks_, id = tracks_[t].id,
               u = Age(tracks_[t], Found(t)), u <= kMaxAge
        PROVE  /\ id \in FoundIds \cup kept
               /\ u = IF id \in FoundIds THEN 0 ELSE followed[id] + 1
    <3>1. CASE Found(t)
      BY <1>4, <2>1, <3>1 DEF Age
    <3>2. CASE ~Found(t)
      <4>1. id \notin FoundIds /\ id \in DOMAIN followed
        BY <1>1, <1>4, <2>1, <3>2
      <4>2. followed[id] = tracks_[t].frames_unseen /\ u = tracks_[t].frames_unseen + 1
        BY <1>1, <2>1, <3>2 DEF Age
      <4>3. followed[id] < kMaxAge
        BY <1>2, <1>3, <2>1, <4>2
      <4> QED
        BY <4>1, <4>2, <4>3
    <3> QED
      BY <3>1, <3>2
  <2>2. ASSUME id \in next_id_ .. (next_id_ + Fresh - 1), u = 0
        PROVE  /\ id \in FoundIds \cup kept
               /\ u = IF id \in FoundIds THEN 0 ELSE followed[id] + 1
    BY <1>6, <2>2
  <2> QED
    BY <1>7, <2>1, <2>2 DEF FollowedNext
<1>8. ASSUME id \in FoundIds \cup kept,
             u = IF id \in FoundIds THEN 0 ELSE followed[id] + 1
      PROVE  FollowedNext(id, u)
  <2>1. CASE id \in next_id_ .. (next_id_ + Fresh - 1)
    BY <1>6, <1>8, <2>1 DEF FollowedNext
  <2>2. CASE id \in FoundIds /\ id \notin next_id_ .. (next_id_ + Fresh - 1)
    <3>1. PICK t \in DOMAIN tracks_ : Found(t) /\ id = tracks_[t].id
      BY <1>5, <2>2
    <3>2. u = 0 /\ Age(tracks_[t], Found(t)) = 0 /\ 0 <= kMaxAge
      BY <1>3, <1>8, <2>2, <3>1 DEF Age
    <3> QED
      BY <3>1, <3>2 DEF FollowedNext
  <2>3. CASE id \notin FoundIds
    <3>1. id \in DOMAIN followed /\ followed[id] < kMaxAge /\ u = followed[id] + 1
      BY <1>8, <2>3
    <3>2. PICK t \in DOMAIN tracks_ : id = tracks_[t].id
      BY <1>1, <3>1
    <3>3. ~Found(t) /\ followed[id] = tracks_[t].frames_unseen
      BY <1>1, <1>4, <2>3, <3>2
    <3>4. u = Age(tracks_[t], Found(t)) /\ u <= kMaxAge
      BY <1>2, <1>3, <3>1, <3>3 DEF Age
    <3> QED
      BY <3>2, <3>4 DEF FollowedNext
  <2> QED
    BY <2>1, <2>2, <2>3
<1> QED
  BY <1>7, <1>8 DEF followed

\* Followed after an update, as the function TrackSource's Update defines.
LEMMA FollowedAfter ==
  ASSUME ShapeInv, IdsInv, EndUpdate
  PROVE  LET followed == FollowedOf(tracks_)
             kept == {i \in DOMAIN followed : followed[i] < kMaxAge}
         IN  FollowedOf(tracks_') =
               [i \in FoundIds \cup kept |-> IF i \in FoundIds THEN 0 ELSE followed[i] + 1]
<1> DEFINE followed == FollowedOf(tracks_)
           kept == {i \in DOMAIN followed : followed[i] < kMaxAge}
           after == [i \in FoundIds \cup kept |-> IF i \in FoundIds THEN 0 ELSE followed[i] + 1]
<1>1. PICK s : s = tracks_'
  OBVIOUS
<1>2. /\ \A j, k \in DOMAIN s : s[j].id = s[k].id => j = k
      /\ \A k \in DOMAIN s : FollowedNext(s[k].id, s[k].frames_unseen)
      /\ \A id, u : FollowedNext(id, u) =>
           \E k \in DOMAIN s : s[k].id = id /\ s[k].frames_unseen = u
  BY <1>1, UpdateEffect
<1>3. /\ DOMAIN FollowedOf(s) = {s[k].id : k \in DOMAIN s}
      /\ \A k \in DOMAIN s : FollowedOf(s)[s[k].id] = s[k].frames_unseen
  BY <1>2, FollowedOfIs
<1>4. \A id, u : FollowedNext(id, u) <=>
        id \in FoundIds \cup kept /\ u = IF id \in FoundIds THEN 0 ELSE followed[id] + 1
  BY FollowedNextIs
<1> HIDE DEF followed
<1>5. DOMAIN FollowedOf(s) = FoundIds \cup kept
  <2>1. \A id : (\E u : FollowedNext(id, u)) <=> id \in FoundIds \cup kept
    BY <1>4
  <2>2. \A id : id \in DOMAIN FollowedOf(s) <=> \E u : FollowedNext(id, u)
    BY <1>2, <1>3
  <2> HIDE DEF kept
  <2> QED
    BY <2>1, <2>2
<1>6. \A id \in FoundIds \cup kept : FollowedOf(s)[id] = after[id]
  <2> SUFFICES ASSUME NEW id \in FoundIds \cup kept PROVE FollowedOf(s)[id] = after[id]
    OBVIOUS
  <2>1. FollowedNext(id, after[id])
    BY <1>4
  <2>2. PICK k \in DOMAIN s : s[k].id = id /\ s[k].frames_unseen = after[id]
    BY <1>2, <2>1
  <2> QED
    BY <1>3, <2>2
<1>7. /\ FollowedOf(s) = [i \in DOMAIN FollowedOf(s) |-> FollowedOf(s)[i]]
      /\ after = [i \in DOMAIN after |-> after[i]] /\ DOMAIN after = FoundIds \cup kept
  BY DEF FollowedOf
<1>8. FollowedOf(s) = after
  <2> HIDE DEF after, kept
  <2> QED
    BY <1>5, <1>6, <1>7
<1> QED
  BY <1>1, <1>8 DEF followed

----------------------------------------------------------------------------
(* The steps of the service.                                               *)

\* The indices of a sequence start at 1.
LEMMA TrackIndices ==
  ASSUME ShapeInv
  PROVE  /\ Len(tracks_) \in Nat /\ DOMAIN tracks_ = 1 .. Len(tracks_)
         /\ Len(dets) \in Nat /\ DOMAIN dets = 1 .. Len(dets)
         /\ \A t \in DOMAIN tracks_ : t # 0
BY LenProperties DEF ShapeInv

\* A step of the service that leaves the tracker alone.
LEMMA IdleStep ==
  ASSUME TrackInv, StableInv, OutputsInv, UNCHANGED tracker,
         pc' \in {"update", "send"} => pc' = pc
  PROVE  TrackInv' /\ StableInv' /\ OutputsInv'
<1>1. UNCHANGED <<tracks_, next_id_, dets, det_to_track, outputs>>
  BY DEF tracker
<1>2. TrackInv'
  BY <1>1 DEF TrackInv, ShapeInv, FrameInv, MatchInv, IdsInv
<1>3. StableInv'
  <2>1. Open' = Open
    BY <1>1 DEF Open
  <2>2. ASSUME NEW d, NEW t, Preferred(d, t) PROVE Preferred(d, t)'
    BY <1>1, <2>2 DEF Preferred, HigherPair
  <2> QED
    BY <1>1, <2>1, <2>2 DEF StableInv
<1>4. OutputsInv'
  <2>1. Promise!Output' = Promise!Output
    BY <1>1 DEF Promise!Output
  <2> QED
    BY <1>1, <2>1 DEF OutputsInv
<1> QED
  BY <1>2, <1>3, <1>4

\* A frame is read, whole or with blank detections at its end.
LEMMA ReadStep ==
  ASSUME TrackInv, OutputsInv, Read
  PROVE  TrackInv' /\ StableInv' /\ OutputsInv'
<1>1. PICK m \in 0 .. MaxDets : \E frame \in [1 .. m -> Detections] :
        ReadFrame(frame) \/ \E n \in 0 .. (Len(frame) - 1) : ReadBrokenFrame(frame, n)
  BY DEF Read, Frames
<1>2. PICK frame \in [1 .. m -> Detections] :
        ReadFrame(frame) \/ \E n \in 0 .. (Len(frame) - 1) : ReadBrokenFrame(frame, n)
  BY <1>1
<1>3. PICK f \in [1 .. m -> Boxes] : BeginUpdate(f) /\ pc' = "update"
  <2>1. CASE ReadFrame(frame)
    <3>1. frame \in [1 .. m -> Boxes]
      BY DEF Boxes
    <3> QED
      BY <2>1, <3>1 DEF ReadFrame, Goto
  <2>2. ASSUME NEW n \in 0 .. (Len(frame) - 1), ReadBrokenFrame(frame, n)
        PROVE  \E f \in [1 .. m -> Boxes] : BeginUpdate(f) /\ pc' = "update"
    <3> DEFINE f == [d \in DOMAIN frame |-> IF d <= n THEN frame[d] ELSE Blank]
    <3>1. f \in [1 .. m -> Boxes]
      BY DEF Boxes
    <3>2. BeginUpdate(f) /\ pc' = "update"
      BY <2>2, Zenon DEF ReadBrokenFrame, Goto
    <3> HIDE DEF f
    <3> QED
      BY <3>1, <3>2
  <2> QED
    BY <1>2, <2>1, <2>2
<1>4. m \in Nat /\ m <= MaxDets /\ f \in Seq(Boxes) /\ Len(f) = m
  BY <1>3, ServiceAssumption
<1>5. /\ dets' = f /\ det_to_track' = [d \in DOMAIN f |-> 0]
      /\ next_id_ + m <= MaxId /\ UNCHANGED <<tracks_, next_id_, outputs>>
  BY <1>3, <1>4 DEF BeginUpdate
<1>6. /\ Len(tracks_) \in Nat /\ \A t \in DOMAIN tracks_ : t # 0
  BY TrackIndices DEF TrackInv
<1>7. ShapeInv'
  <2>1. 0 \in 0 .. Len(tracks_)
    BY <1>6
  <2> QED
    BY <1>4, <1>5, <2>1 DEF TrackInv, ShapeInv
<1>8. FrameInv' /\ MatchInv' /\ IdsInv'
  <2>1. FrameInv'
    BY <1>4, <1>5 DEF FrameInv
  <2>2. MatchInv'
    BY <1>5 DEF MatchInv
  <2>3. IdsInv'
    BY <1>5 DEF TrackInv, IdsInv
  <2> QED
    BY <2>1, <2>2, <2>3
<1>9. StableInv'
  <2>1. \A d \in DOMAIN dets' : det_to_track'[d] = 0
    BY <1>5
  <2>2. \A t \in DOMAIN tracks_' : t # 0
    BY <1>5, <1>6
  <2> QED
    BY <2>1, <2>2 DEF StableInv, Open
<1>10. OutputsInv'
  BY <1>3, <1>5 DEF OutputsInv
<1> QED
  BY <1>7, <1>8, <1>9, <1>10 DEF TrackInv

\* A round of the matching loop.
LEMMA RoundStep ==
  ASSUME TrackInv, StableInv, OutputsInv, UpdateRound
  PROVE  TrackInv' /\ StableInv' /\ OutputsInv'
<1>1. MatchRound /\ pc' = pc /\ pc = "update" /\ UNCHANGED <<tracks_, next_id_, dets, outputs>>
  BY DEF UpdateRound, MatchRound
<1>2. ShapeInv' /\ MatchInv'
  BY <1>1, RoundKeepsMatch DEF TrackInv
<1>3. StableInv'
  BY <1>1, RoundKeepsStable DEF TrackInv
<1>4. FrameInv' /\ IdsInv'
  BY <1>1 DEF TrackInv, FrameInv, IdsInv
<1>5. OutputsInv'
  BY <1>1 DEF OutputsInv
<1> QED
  BY <1>2, <1>3, <1>4, <1>5 DEF TrackInv

\* The end of an update.
LEMMA UpdateStep ==
  ASSUME TrackInv, Update
  PROVE  TrackInv' /\ StableInv' /\ OutputsInv'
<1> USE DEF TrackInv
<1>1. EndUpdate /\ pc' = "send"
  BY DEF Update, Goto
<1>2. dets' = <<>> /\ det_to_track' = <<>> /\ outputs' = [d \in DOMAIN dets |-> OutTrack(d)]
  BY <1>1 DEF EndUpdate
<1>3. /\ tracks_' \in Seq(TrackRecs)
      /\ Fresh \in 0 .. Len(dets) /\ next_id_' = next_id_ + Fresh
      /\ \A j, k \in DOMAIN tracks_' : tracks_'[j].id = tracks_'[k].id => j = k
      /\ \A k \in DOMAIN tracks_' : FollowedNext(tracks_'[k].id, tracks_'[k].frames_unseen)
  BY <1>1, UpdateEffect
<1>4. Fresh \in Nat /\ next_id_ \in Nat \ {0} /\ next_id_' \in Nat \ {0} /\ kMaxAge \in Nat
  BY <1>3, TrackIndices, TrackerAssumption DEF ShapeInv
<1>5. ShapeInv'
  <2>1. DOMAIN dets' = {} /\ dets' \in Seq(Boxes)
    BY <1>2
  <2>2. det_to_track' \in [DOMAIN dets' -> 0 .. Len(tracks_')]
    BY <1>2, <2>1
  <2> QED
    BY <1>3, <1>4, <2>1, <2>2 DEF ShapeInv
<1>6. FrameInv' /\ MatchInv' /\ StableInv'
  <2>1. DOMAIN dets' = {}
    BY <1>2
  <2> QED
    BY <1>1, <2>1 DEF FrameInv, MatchInv, StableInv
<1>7. IdsInv'
  <2>1. ASSUME NEW id, NEW u, FollowedNext(id, u)
        PROVE  id \in 1 .. (next_id_' - 1) /\ u <= kMaxAge
    <3>1. ASSUME NEW t \in DOMAIN tracks_, id = tracks_[t].id
          PROVE  id \in 1 .. (next_id_' - 1)
      <4>1. tracks_[t].id \in 1 .. (next_id_ - 1)
        BY DEF IdsInv
      <4> QED
        BY <1>3, <1>4, <3>1, <4>1
    <3>2. ASSUME id \in next_id_ .. (next_id_ + Fresh - 1) PROVE id \in 1 .. (next_id_' - 1)
      BY <1>3, <1>4, <3>2
    <3> QED
      BY <1>4, <2>1, <3>1, <3>2 DEF FollowedNext
  <2> QED
    BY <1>3, <2>1 DEF IdsInv
<1>8. OutputsInv'
  <2>1. \A j, k \in DOMAIN outputs' : outputs'[j].id = outputs'[k].id => j = k
    BY <1>2, OutIdsDiffer
  <2>2. {outputs'[k].id : k \in DOMAIN outputs'} = FoundIds
    <3>1. DOMAIN outputs' = DOMAIN dets /\ \A d \in DOMAIN dets : outputs'[d] = OutTrack(d)
      BY <1>2
    <3>2. {outputs'[k].id : k \in DOMAIN outputs'} = {OutTrack(d).id : d \in DOMAIN dets}
      BY <3>1
    <3> QED
      BY <1>1, <3>2, OutIdsAre
  <2>3. Promise!Output' = FoundIds
    <3> DEFINE followed == FollowedOf(tracks_)
               kept == {i \in DOMAIN followed : followed[i] < kMaxAge}
    <3>1. FollowedOf(tracks_') =
            [i \in FoundIds \cup kept |-> IF i \in FoundIds THEN 0 ELSE followed[i] + 1]
      BY <1>1, FollowedAfter
    <3>2. Promise!Output' = {id \in DOMAIN FollowedOf(tracks_') : FollowedOf(tracks_')[id] = 0}
      BY DEF Promise!Output, FollowedOf
    <3>3. \A i \in kept : followed[i] \in Nat
      <4>1. /\ DOMAIN followed = {tracks_[k].id : k \in DOMAIN tracks_}
            /\ \A k \in DOMAIN tracks_ : followed[tracks_[k].id] = tracks_[k].frames_unseen
        BY FollowedOfIs DEF IdsInv
      <4>2. \A k \in DOMAIN tracks_ : tracks_[k].frames_unseen \in Nat
        <5>1. tracks_ \in [DOMAIN tracks_ -> TrackRecs]
          BY LenProperties DEF ShapeInv
        <5> QED
          BY <5>1 DEF TrackRecs
      <4> HIDE DEF followed
      <4> QED
        BY <4>1, <4>2
    <3>4. \A i \in kept : followed[i] + 1 # 0
      BY <3>3
    <3> HIDE DEF followed, kept
    <3> QED
      BY <3>1, <3>2, <3>4
  <2> QED
    BY <2>1, <2>2, <2>3 DEF OutputsInv
<1> QED
  BY <1>5, <1>6, <1>7, <1>8

\* A new process: no tracks, no frame, no output.
LEMMA EmptyTracker ==
  ASSUME tracks_ = <<>>, next_id_ = 1, dets = <<>>, det_to_track = <<>>, outputs = <<>>,
         pc = "connect"
  PROVE  TrackInv /\ StableInv /\ OutputsInv
<1>1. DOMAIN tracks_ = {} /\ DOMAIN dets = {} /\ DOMAIN outputs = {}
  OBVIOUS
<1>2. ShapeInv
  <2>1. det_to_track \in [DOMAIN dets -> 0 .. Len(tracks_)]
    OBVIOUS
  <2> QED
    BY <2>1 DEF ShapeInv
<1> QED
  BY <1>1, <1>2 DEF TrackInv, FrameInv, MatchInv, IdsInv, StableInv, OutputsInv

\* The invariant of the tracker and of what it has returned.
THEOREM TrackerInvariant == Spec => [](TrackInv /\ StableInv /\ OutputsInv)
<1>1. Init => TrackInv /\ StableInv /\ OutputsInv
  BY EmptyTracker DEF Init, TrackerInit
<1>2. TrackInv /\ StableInv /\ OutputsInv /\ [Next]_vars =>
        (TrackInv /\ StableInv /\ OutputsInv)'
  <2> SUFFICES ASSUME TrackInv, StableInv, OutputsInv, [Next]_vars
               PROVE  TrackInv' /\ StableInv' /\ OutputsInv'
    OBVIOUS
  <2>1. CASE ConnectInput \/ InputEnds \/ SendTracks \/ Signal \/ Crash \/ ConsumerChanges
    <3>1. UNCHANGED tracker /\ (pc' \in {"update", "send"} => pc' = pc)
      BY <2>1 DEF ConnectInput, InputEnds, SendTracks, Signal, Crash, ConsumerChanges, Goto,
         LoopHead
    <3> QED
      BY <3>1, IdleStep
  <2>2. CASE Read
    BY <2>2, ReadStep
  <2>3. CASE UpdateRound
    BY <2>3, RoundStep
  <2>4. CASE Update
    BY <2>4, UpdateStep
  <2>5. CASE Restart
    <3>1. /\ tracks_' = <<>> /\ next_id_' = 1 /\ dets' = <<>> /\ det_to_track' = <<>>
          /\ outputs' = <<>> /\ pc' = "connect"
      BY <2>5 DEF Restart
    <3>2. DOMAIN tracks_' = {} /\ DOMAIN dets' = {} /\ DOMAIN outputs' = {}
      BY <3>1
    <3>3. ShapeInv'
      <4>1. det_to_track' \in [DOMAIN dets' -> 0 .. Len(tracks_')]
        BY <3>1
      <4> QED
        BY <3>1, <4>1 DEF ShapeInv
    <3> QED
      BY <3>1, <3>2, <3>3 DEF TrackInv, FrameInv, MatchInv, IdsInv, StableInv, OutputsInv
  <2>6. CASE UNCHANGED vars
    <3>1. UNCHANGED tracker /\ pc' = pc
      BY <2>6 DEF vars
    <3> QED
      BY <3>1, IdleStep
  <2> QED
    BY <2>1, <2>2, <2>3, <2>4, <2>5, <2>6 DEF Next
<1> QED
  BY <1>1, <1>2, PTL DEF Spec

\* An identifier names one track and one detection of a frame, for any frames.
THEOREM IdentifiersAreUnique == Spec => []IdsUnique
<1>1. TrackInv /\ OutputsInv => IdsUnique
  BY DEF TrackInv, IdsInv, OutputsInv, IdsUnique
<1> QED
  BY <1>1, TrackerInvariant, PTL

\* The greedy loop ends with a stable matching, whatever the boxes are.
THEOREM GreedyMatchingIsStable == Spec => []MatchingStable
<1>1. StableInv => MatchingStable
  BY DEF StableInv, MatchingStable, Preferred
<1> QED
  BY <1>1, TrackerInvariant, PTL

\* The service implements the promise of its track stream: every step of the
\* service is an update or a restart of TrackSource, or does not concern it.
THEOREM ServiceKeepsTrackPromise == Spec => KeepsTrackPromise
<1>1. Init => Promise!Init
  BY DEF Init, TrackerInit, Promise!Init
<1>2. TrackInv /\ [Next]_vars => [Promise!Next]_(Promise!source)
  <2> SUFFICES ASSUME TrackInv, [Next]_vars PROVE [Promise!Next]_(Promise!source)
    OBVIOUS
  <2>1. ASSUME UNCHANGED <<tracks_, next_id_>> PROVE UNCHANGED Promise!source
    BY <2>1 DEF Promise!source
  <2>2. CASE Restart
    <3>1. Promise!Restart
      BY <2>2 DEF Restart, Promise!Restart
    <3> QED
      BY <3>1 DEF Promise!Next
  <2>3. CASE Update
    <3> DEFINE followed == FollowedOf(tracks_)
               kept == {i \in DOMAIN followed : followed[i] < kMaxAge}
    <3>1. EndUpdate /\ pc = "update"
      BY <2>3 DEF Update, Goto
    <3>2. Fresh \in 0 .. Len(dets) /\ next_id_' = next_id_ + Fresh
      BY <3>1, UpdateEffect DEF TrackInv
    <3>3. FollowedOf(tracks_') =
            [i \in FoundIds \cup kept |-> IF i \in FoundIds THEN 0 ELSE followed[i] + 1]
      BY <3>1, FollowedAfter DEF TrackInv
    <3>4. SeenIds \subseteq DOMAIN followed
      BY DEF SeenIds, FollowedOf
    <3>5. /\ Len(dets) \in Nat /\ Len(dets) <= MaxDets /\ next_id_ + Len(dets) <= MaxId
          /\ next_id_ \in Nat /\ MaxId \in Nat /\ MaxDets \in Nat
      BY <3>1, TrackIndices, TrackerAssumption, ServiceAssumption
      DEF TrackInv, FrameInv, ShapeInv
    <3>6. Cardinality(SeenIds) \in Nat /\ Cardinality(SeenIds) + Fresh <= Len(dets)
      BY FrameBoundsIds DEF TrackInv
    <3>7. Fresh \in 0 .. (MaxDets - Cardinality(SeenIds)) /\ next_id_ + Fresh <= MaxId
      BY <3>2, <3>5, <3>6
    <3>8. PICK seen \in SUBSET DOMAIN followed : seen = SeenIds
      BY <3>4
    <3>9. PICK n \in 0 .. (MaxDets - Cardinality(seen)) : n = Fresh
      BY <3>7, <3>8
    <3>10. Promise!Update(seen, n)
      <4>1. FoundIds = seen \cup next_id_ .. (next_id_ + n - 1)
        BY <3>8, <3>9 DEF FoundIds
      <4>2. /\ seen \subseteq DOMAIN followed
            /\ next_id_ + n <= MaxId /\ next_id_' = next_id_ + n
        BY <3>2, <3>7, <3>8, <3>9
      <4>3. LET found == seen \cup next_id_ .. (next_id_ + n - 1)
            IN  FollowedOf(tracks_') =
                  [id \in found \cup kept |-> IF id \in found THEN 0 ELSE followed[id] + 1]
        BY <3>3, <4>1
      <4> QED
        BY <4>2, <4>3, Zenon DEF Promise!Update, FollowedOf
    <3>11. \E sn \in SUBSET DOMAIN followed : \E k \in 0 .. (MaxDets - Cardinality(sn)) :
             Promise!Update(sn, k)
      BY <3>8, <3>9, <3>10
    <3>12. \A S : Promise!Cardinality(S) = Cardinality(S)
      BY DEF Promise!Cardinality, Cardinality
    <3>13. Promise!Next
      BY <3>11, <3>12 DEF Promise!Next, FollowedOf
    <3> QED
      BY <3>13
  <2>4. CASE ~(Restart \/ Update)
    <3>1. UNCHANGED <<tracks_, next_id_>>
      BY <2>4 DEF Next, vars, tracker, service, ConnectInput, InputEnds, Read, ReadFrame,
         ReadBrokenFrame, BeginUpdate, UpdateRound, MatchRound, SendTracks, Signal, Crash,
         ConsumerChanges
    <3> QED
      BY <2>1, <3>1
  <2> QED
    BY <2>2, <2>3, <2>4
<1>3. Spec => []TrackInv
  BY TrackerInvariant, PTL
<1> QED
  BY <1>1, <1>2, <1>3, PTL DEF Spec, KeepsTrackPromise, Promise!Spec
=============================================================================
