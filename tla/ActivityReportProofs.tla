------------------------ MODULE ActivityReportProofs -----------------------
(***************************************************************************)
(* Proofs about ActivityReport, for any thresholds, points and windows.    *)
(***************************************************************************)
EXTENDS ActivityReport, SequenceTheorems, FiniteSetTheorems, WellFoundedInduction,
        TLAPS

-----------------------------------------------------------------------------
(* Types.                                                                  *)

LEMMA PointsTyped ==
  ASSUME TypeOK, NEW p \in NextPoints
  PROVE  /\ p \in Point
         /\ p.at > LastTime /\ p.at \in Nat /\ LastTime \in Nat
         /\ points # <<>> => previous \in Point /\ LastTime = previous.at
  <1>1. points # <<>> => previous \in Point
    BY DEF TypeOK, PointTypes, previous
  <1>2. LastTime \in Nat /\ (points # <<>> => LastTime = previous.at)
    BY <1>1 DEF LastTime, Point
  <1>3. p \in [at : {LastTime + e : e \in Elapsed}, moved : Distances \cup {0},
               speaks : BOOLEAN, works : BOOLEAN]
    BY DEF NextPoints
  <1>4. PICK e \in Elapsed : p.at = LastTime + e
    BY <1>3
  <1>5. p.at \in Nat /\ p.at > LastTime
    BY <1>2, <1>4, InputAssumption
  <1>6. p \in [at : Nat, moved : Distances \cup {0},
               speaks : BOOLEAN, works : BOOLEAN]
    <2> DEFINE times == {LastTime + d : d \in Elapsed}
    <2>1. p \in [at : times, moved : Distances \cup {0},
                 speaks : BOOLEAN, works : BOOLEAN]
      BY <1>3
    <2> HIDE DEF times
    <2> QED
      BY <2>1, <1>5
  <1>7. p \in Point
    <2>1. Distances \cup {0} \subseteq Nat
      BY InputAssumption
    <2> QED
      BY <1>6, <2>1 DEF Point
  <1> QED
    BY <1>1, <1>2, <1>5, <1>7

LEMMA NoneIsNone ==
  /\ None.kind = "none"
  /\ \A b \in Building : b # None /\ b.kind # "none"
  BY DEF None, Building, StopKinds

(* closeCurrent makes at most one segment, of the kind it had.             *)
LEMMA ClosedTyped ==
  ASSUME NEW b \in Building \cup {None}, NEW endAt \in Nat,
         NEW r \in {"became_active_static", "became_stationary", "data_gap",
                    "report_end"}
  PROVE  Closed(b, endAt, r) \in Seq(Segment)
  <1>1. CASE b = None
    BY <1>1 DEF Closed
  <1>2. CASE b # None
    <2>1. b \in Building
      BY <1>2
    <2> DEFINE s == [kind |-> b.kind, startAt |-> b.startAt, endAt |-> endAt,
                     points |-> b.points,
                     endReason |-> IF b.kind = "journey" THEN r ELSE "",
                     startsBefore |-> FALSE, endsAfter |-> FALSE]
    <2>2. s \in Segment
      BY <2>1 DEF Building, Segment
    <2>3. Closed(b, endAt, r) = <<s>>
      BY <1>2 DEF Closed
    <2> HIDE DEF s
    <2> QED
      BY <2>2, <2>3
  <1> QED
    BY <1>1, <1>2

LEMMA AbsorbedTyped ==
  ASSUME NEW b \in Building \cup {None}, NEW buffer \in Seq(Point)
  PROVE  /\ Absorbed(b, buffer) \in Building \cup {None}
         /\ Absorbed(b, buffer).kind = b.kind
         /\ Absorbed(b, buffer).startAt = b.startAt
         /\ Absorbed(b, buffer) = None <=> b = None
         /\ b # None => /\ Absorbed(b, buffer) \in Building
                        /\ Absorbed(b, buffer).points = b.points \o buffer
                        /\ b.points # <<>> => Absorbed(b, buffer).points # <<>>
  <1>1. CASE b = None
    BY <1>1 DEF Absorbed
  <1>2. CASE b # None
    <2>1. b \in Building /\ b.points \in Seq(Point)
      BY <1>2 DEF Building
    <2>2. b.points \o buffer \in Seq(Point)
      BY <2>1
    <2>3. Absorbed(b, buffer) = [b EXCEPT !.points = b.points \o buffer]
      BY <1>2 DEF Absorbed
    <2>4. /\ Absorbed(b, buffer) \in Building
          /\ Absorbed(b, buffer).kind = b.kind
          /\ Absorbed(b, buffer).startAt = b.startAt
          /\ Absorbed(b, buffer).points = b.points \o buffer
      BY <2>1, <2>2, <2>3 DEF Building
    <2>5. b.points # <<>> => b.points \o buffer # <<>>
      BY <2>1
    <2> QED
      BY <1>2, <2>4, <2>5, NoneIsNone
  <1> QED
    BY <1>1, <1>2

(* A buffer that is confirmed becomes, or joins, the current segment.      *)
LEMMA ConfirmTyped ==
  ASSUME segments \in Seq(Segment), NEW b \in Building \cup {None},
         b # None => b.points # <<>>,
         NEW kind \in {"journey"} \cup StopKinds,
         NEW buffer \in Seq(Point), buffer # <<>>, Confirm(b, kind, buffer)
  PROVE  /\ segments' \in Seq(Segment)
         /\ current' \in Building
         /\ current'.points # <<>>
  <1>1. CASE b.kind = kind
    <2>1. b \in Building
      BY <1>1, NoneIsNone DEF StopKinds
    <2>2. segments' = segments /\ current' = Absorbed(b, buffer)
      BY <1>1 DEF Confirm
    <2>3. b # None
      BY <2>1, NoneIsNone
    <2> QED
      BY <2>1, <2>2, <2>3, AbsorbedTyped
  <1>2. CASE b.kind # kind
    <2>1. buffer[1] \in Point /\ buffer[1].at \in Nat
      <3>1. buffer[1] \in Point
        OBVIOUS
      <3> QED
        BY <3>1 DEF Point
    <2>2. PICK r \in {"became_active_static", "became_stationary"} :
            segments' = segments \o Closed(b, buffer[1].at, r)
      BY <1>2 DEF Confirm
    <2>3. Closed(b, buffer[1].at, r) \in Seq(Segment)
      BY <2>1, ClosedTyped
    <2>4. current' = [kind |-> kind, startAt |-> buffer[1].at, points |-> buffer]
      BY <1>2 DEF Confirm
    <2>5. current' \in Building /\ current'.points = buffer
      BY <2>1, <2>4 DEF Building
    <2> QED
      BY <2>2, <2>3, <2>5
  <1> QED
    BY <1>1, <1>2

LEMMA TypeInitial == Init => TypeOK
  BY DEF Init, TypeOK, PointTypes, SegmentTypes

LEMMA TypeInvariant == TypeOK /\ [Next]_vars => TypeOK'
  <1> SUFFICES ASSUME TypeOK, [Next]_vars PROVE TypeOK'
    OBVIOUS
  <1> USE DEF TypeOK, PointTypes, SegmentTypes
  <1>1. CASE UNCHANGED vars
    BY <1>1 DEF vars, engineVars
  <1>2. ASSUME NEW p \in NextPoints, Step(p) PROVE TypeOK'
    <2>1. p \in Point
      BY PointsTyped
    <2>2. points' \in Seq(Point) /\ window' = window
      BY <1>2, <2>1 DEF Step
    <2>3. CASE Seed(p)
      BY <2>2, <2>3 DEF Seed, engineVars
    <2>4. CASE CloseGapAndReset(p)
      <3>1. points # <<>> /\ previous \in Point
        BY <2>4, PointsTyped DEF CloseGapAndReset
      <3>2. Gap(previous, p) \in Segment
        BY <2>1, <3>1 DEF Gap, Segment, Point
      <3>3. Closed(current, previous.at, "data_gap") \in Seq(Segment)
        BY <3>1, ClosedTyped DEF Point
      <3>4. segments' \in Seq(Segment)
        BY <2>4, <3>2, <3>3 DEF CloseGapAndReset
      <3> QED
        BY <2>2, <2>4, <3>4 DEF CloseGapAndReset
    <2>5. CASE StepMoving(p)
      <3> DEFINE b == Absorbed(current, pendingStationary)
                 buffer == Append(pendingMovement, p)
      <3>1. /\ b \in Building \cup {None}
            /\ b # None => b.points # <<>>
        BY AbsorbedTyped
      <3>2. buffer \in Seq(Point) /\ buffer # <<>>
        BY SMTT(30), <2>1
      <3>3. pendingStationary' = <<>>
        BY <2>5 DEF StepMoving
      <3>4. CASE MovementConfirmed(buffer)
        <4>1. pendingMovement' = <<>> /\ Confirm(b, "journey", buffer)
          BY <2>5, <3>4 DEF StepMoving
        <4>2. segments' \in Seq(Segment) /\ current' \in Building
              /\ current'.points # <<>>
          BY <3>1, <3>2, <4>1, ConfirmTyped
        <4> QED
          BY <2>2, <3>3, <4>1, <4>2
      <3>5. CASE ~MovementConfirmed(buffer)
        <4>1. pendingMovement' = buffer /\ current' = b /\ segments' = segments
          BY <2>5, <3>5 DEF StepMoving
        <4> QED
          BY <2>2, <3>1, <3>2, <3>3, <4>1
      <3> QED
        BY <3>4, <3>5
    <2>6. CASE StepStationary(p)
      <3> DEFINE b == Absorbed(current, pendingMovement)
                 buffer == Append(pendingStationary, p)
                 kind == IF Works(previous, p) THEN "active_static" ELSE "stationary"
                 long == p.at - buffer[1].at >= StationaryConfirmationSeconds
      <3>1. /\ b \in Building \cup {None}
            /\ b # None => b.points # <<>>
        BY AbsorbedTyped
      <3>2. buffer \in Seq(Point) /\ buffer # <<>>
        BY SMTT(30), <2>1
      <3>3. pendingMovement' = <<>>
        BY <2>6 DEF StepStationary
      <3>4. kind \in {"journey"} \cup StopKinds
        BY DEF StopKinds
      <3>5. CASE long
        <4>1. pendingStationary' = <<>> /\ Confirm(b, kind, buffer)
          BY <2>6, <3>5 DEF StepStationary
        <4> HIDE DEF b, buffer, kind
        <4>2. segments' \in Seq(Segment) /\ current' \in Building
              /\ current'.points # <<>>
          BY <3>1, <3>2, <3>4, <4>1, ConfirmTyped
        <4> QED
          BY <2>2, <3>3, <4>1, <4>2
      <3>6. CASE ~long
        <4>1. pendingStationary' = buffer /\ current' = b /\ segments' = segments
          BY <2>6, <3>6 DEF StepStationary
        <4> QED
          BY <2>2, <3>1, <3>2, <3>3, <4>1
      <3> QED
        BY <3>5, <3>6
    <2> QED
      BY <1>2, <2>3, <2>4, <2>5, <2>6 DEF Step
  <1>3. CASE Finish
    <2> DEFINE b == Absorbed(current, pendingStationary \o pendingMovement)
               last == b.points[Len(b.points)].at
    <2>1. /\ b \in Building \cup {None}
          /\ b # None => b.points # <<>>
      <3>1. pendingStationary \o pendingMovement \in Seq(Point)
        OBVIOUS
      <3> QED
        BY <3>1, AbsorbedTyped
    <2>2. Closed(b, last, "report_end") \in Seq(Segment)
      <3>1. CASE b = None
        BY <3>1 DEF Closed
      <3>2. CASE b # None
        <4>1. b \in Building /\ b.points \in Seq(Point) /\ b.points # <<>>
          BY <2>1, <3>2 DEF Building
        <4> HIDE DEF b
        <4>a. b.points[Len(b.points)] \in Point
          BY <4>1
        <4>2. last \in Nat
          BY <4>a DEF Point
        <4> HIDE DEF last
        <4> QED
          BY <2>1, <4>2, ClosedTyped
      <3> QED
        BY <3>1, <3>2
    <2>3. segments' = segments \o Closed(b, last, "report_end")
      BY <1>3 DEF Finish
    <2>4. segments' \in Seq(Segment)
      BY <2>2, <2>3
    <2> QED
      BY <1>3, <2>4 DEF Finish
  <1> QED
    BY <1>1, <1>2, <1>3 DEF Next

(* Whatever the points are, the engine's variables keep their types and    *)
(* only one of the two buffers is in use.                                  *)
THEOREM TypeCorrect == Spec => []TypeOK
  BY TypeInitial, TypeInvariant, PTL DEF Spec

-----------------------------------------------------------------------------
(* Gaps.                                                                   *)

LEMMA ClosedIsStretch ==
  ASSUME NEW b \in Building \cup {None}, NEW endAt, NEW r
  PROVE  \A k \in DOMAIN Closed(b, endAt, r) : IsStretch(Closed(b, endAt, r)[k])
  <1>1. CASE b = None
    BY <1>1 DEF Closed
  <1>2. CASE b # None
    <2> DEFINE s == [kind |-> b.kind, startAt |-> b.startAt, endAt |-> endAt,
                     points |-> b.points,
                     endReason |-> IF b.kind = "journey" THEN r ELSE "",
                     startsBefore |-> FALSE, endsAfter |-> FALSE]
    <2>1. IsStretch(s)
      BY <1>2 DEF IsStretch, Building, StopKinds
    <2>2. Closed(b, endAt, r) = <<s>>
      BY <1>2 DEF Closed
    <2> HIDE DEF s
    <2> QED
      BY <2>1, <2>2
  <1> QED
    BY <1>1, <1>2

(* A step adds segments at the end: stretches, and a gap where there is one. *)
LEMMA NothingAdded ==
  ASSUME NEW segs \in Seq(Segment)
  PROVE  \E added \in Seq(Segment) :
            /\ segs = segs \o added
            /\ \A k \in DOMAIN added : IsStretch(added[k])
  <1>1. segs = segs \o <<>> /\ <<>> \in Seq(Segment) /\ DOMAIN <<>> = {}
    OBVIOUS
  <1> WITNESS <<>> \in Seq(Segment)
  <1> QED
    BY <1>1

LEMMA ConfirmAdds ==
  ASSUME TypeOK, NEW b \in Building \cup {None}, NEW kind,
         NEW buffer \in Seq(Point), buffer # <<>>, Confirm(b, kind, buffer)
  PROVE  \E added \in Seq(Segment) :
            /\ segments' = segments \o added
            /\ \A k \in DOMAIN added : IsStretch(added[k])
  <1>0. segments \in Seq(Segment)
    BY DEF TypeOK, SegmentTypes
  <1>1. CASE b.kind = kind
    <2>1. segments' = segments
      BY <1>1 DEF Confirm
    <2> QED
      BY <1>0, <2>1, NothingAdded
  <1>2. CASE b.kind # kind
    <2>1. PICK r \in {"became_active_static", "became_stationary"} :
            segments' = segments \o Closed(b, buffer[1].at, r)
      BY <1>2 DEF Confirm
    <2>2. buffer[1] \in Point
      OBVIOUS
    <2>3. Closed(b, buffer[1].at, r) \in Seq(Segment)
      BY <2>2, ClosedTyped DEF Point
    <2> QED
      BY <2>1, <2>3, ClosedIsStretch
  <1> QED
    BY <1>1, <1>2

LEMMA StretchesAdded ==
  ASSUME TypeOK, NEW p \in NextPoints, Step(p), ~CloseGapAndReset(p)
  PROVE  /\ points # <<>> => ~IsGap(previous, p)
         /\ \E added \in Seq(Segment) :
                /\ segments' = segments \o added
                /\ \A k \in DOMAIN added : IsStretch(added[k])
  <1>0. segments \in Seq(Segment) /\ p \in Point
    BY PointsTyped DEF TypeOK, SegmentTypes
  <1>n. segments' = segments =>
            \E added \in Seq(Segment) :
                /\ segments' = segments \o added
                /\ \A k \in DOMAIN added : IsStretch(added[k])
    BY <1>0, NothingAdded
  <1>1. CASE Seed(p)
    BY <1>1, <1>n DEF Seed, engineVars
  <1>2. CASE StepMoving(p)
    <2> DEFINE b == Absorbed(current, pendingStationary)
               buffer == Append(pendingMovement, p)
    <2>1. /\ b \in Building \cup {None}
          /\ buffer \in Seq(Point) /\ buffer # <<>>
      <3>1. /\ pendingStationary \in Seq(Point) /\ pendingMovement \in Seq(Point)
            /\ current \in Building \cup {None}
        BY DEF TypeOK, PointTypes, SegmentTypes
      <3>2. b \in Building \cup {None}
        BY <3>1, AbsorbedTyped
      <3>3. buffer \in Seq(Point) /\ buffer # <<>>
        BY <3>1, <1>0
      <3> QED
        BY <3>2, <3>3
    <2>2. Confirm(b, "journey", buffer) \/ segments' = segments
      BY <1>2 DEF StepMoving
    <2>3. ~IsGap(previous, p)
      BY <1>2 DEF StepMoving
    <2> HIDE DEF b, buffer
    <2> QED
      BY <1>n, <2>1, <2>2, <2>3, ConfirmAdds
  <1>3. CASE StepStationary(p)
    <2> DEFINE b == Absorbed(current, pendingMovement)
               buffer == Append(pendingStationary, p)
    <2>1. /\ b \in Building \cup {None}
          /\ buffer \in Seq(Point) /\ buffer # <<>>
      <3>1. /\ pendingMovement \in Seq(Point) /\ pendingStationary \in Seq(Point)
            /\ current \in Building \cup {None}
        BY DEF TypeOK, PointTypes, SegmentTypes
      <3>2. b \in Building \cup {None}
        BY <3>1, AbsorbedTyped
      <3>3. buffer \in Seq(Point) /\ buffer # <<>>
        BY <3>1, <1>0
      <3> QED
        BY <3>2, <3>3
    <2>2. (\E kind : Confirm(b, kind, buffer)) \/ segments' = segments
      BY <1>3 DEF StepStationary
    <2>3. ~IsGap(previous, p)
      BY <1>3 DEF StepStationary
    <2> HIDE DEF b, buffer
    <2> QED
      BY <1>n, <2>1, <2>2, <2>3, ConfirmAdds
  <1> QED
    BY <1>1, <1>2, <1>3 DEF Step

LEMMA GapAdded ==
  ASSUME TypeOK, NEW p \in NextPoints, CloseGapAndReset(p)
  PROVE  \E added \in Seq(Segment) :
            /\ segments' = segments \o added \o <<Gap(previous, p)>>
            /\ \A k \in DOMAIN added : IsStretch(added[k])
  <1>1. points # <<>> /\ previous \in Point /\ current \in Building \cup {None}
    BY PointsTyped DEF CloseGapAndReset, TypeOK, SegmentTypes
  <1>2. Closed(current, previous.at, "data_gap") \in Seq(Segment)
    BY <1>1, ClosedTyped DEF Point
  <1> QED
    BY <1>1, <1>2, ClosedIsStretch DEF CloseGapAndReset

LEMMA FinishAdds ==
  ASSUME TypeOK, Finish
  PROVE  \E added \in Seq(Segment) :
            /\ segments' = segments \o added
            /\ \A k \in DOMAIN added : IsStretch(added[k])
  <1> DEFINE b == Absorbed(current, pendingStationary \o pendingMovement)
             last == b.points[Len(b.points)].at
  <1>1. /\ b \in Building \cup {None}
        /\ b # None => b.points # <<>>
    <2>1. /\ pendingStationary \o pendingMovement \in Seq(Point)
          /\ current \in Building \cup {None}
      BY DEF TypeOK, PointTypes, SegmentTypes
    <2> QED
      BY <2>1, AbsorbedTyped DEF TypeOK
  <1>2. Closed(b, last, "report_end") \in Seq(Segment)
    <2>1. CASE b = None
      BY <2>1 DEF Closed
    <2>2. CASE b # None
      <3> HIDE DEF b
      <3>1. b.points \in Seq(Point) /\ b.points # <<>>
        BY <1>1, <2>2 DEF Building
      <3>2. b.points[Len(b.points)] \in Point
        BY <3>1
      <3>3. last \in Nat
        BY <3>2 DEF Point
      <3> HIDE DEF last
      <3> QED
        BY <1>1, <3>3, ClosedTyped
    <2> QED
      BY <2>1, <2>2
  <1>3. segments' = segments \o Closed(b, last, "report_end")
    BY DEF Finish
  <1> HIDE DEF b, last
  <1> QED
    BY <1>1, <1>2, <1>3, ClosedIsStretch

(* The points read and the segments made stay as they are.                 *)
LEMMA PairsStay ==
  ASSUME points \in Seq(Point), NEW p, points' = Append(points, p)
  PROVE  /\ Len(points') = Len(points) + 1
         /\ \A i \in 1 .. Len(points) : points'[i] = points[i]
         /\ points'[Len(points) + 1] = p
  OBVIOUS

(* No new gap, no new data gap.                                            *)
LEMMA OnlyStretchesAdded ==
  ASSUME GapsAreShown, points \in Seq(Point), segments \in Seq(Segment),
         NEW added \in Seq(Segment), segments' = segments \o added,
         \A k \in DOMAIN added : IsStretch(added[k]),
         \A i \in 1 .. Len(points') - 1 : IsGap(points'[i], points'[i + 1]) =>
            i \in 1 .. Len(points) - 1 /\ IsGap(points[i], points[i + 1]),
         \A i \in 1 .. Len(points) - 1 :
            /\ i \in 1 .. Len(points') - 1
            /\ points'[i] = points[i] /\ points'[i + 1] = points[i + 1]
  PROVE  GapsAreShown'
  <1> DEFINE n == Len(segments)  m == Len(added)
  <1>1. /\ n \in Nat /\ m \in Nat
        /\ DOMAIN segments = 1 .. n /\ DOMAIN added = 1 .. m
        /\ DOMAIN segments' = 1 .. n + m
        /\ \A k \in 1 .. n : segments'[k] = segments[k]
        /\ \A k \in n + 1 .. n + m : segments'[k] = added[k - n]
    OBVIOUS
  <1> HIDE DEF n, m
  <1>2. ASSUME NEW i \in 1 .. Len(points') - 1, IsGap(points'[i], points'[i + 1])
        PROVE  \E k \in DOMAIN segments' : IsGapAt(i, segments[k])'
    <2>2. i \in 1 .. Len(points) - 1 /\ IsGap(points[i], points[i + 1])
      BY <1>2
    <2>1. PICK k \in DOMAIN segments : IsGapAt(i, segments[k])
      BY <2>2 DEF GapsAreShown
    <2>3. IsGapAt(i, segments[k])'
      BY <1>1, <2>1, <2>2 DEF IsGapAt
    <2>4. k \in DOMAIN segments'
      BY <1>1, <2>1
    <2> QED
      BY <2>3, <2>4
  <1>3. ASSUME NEW k \in DOMAIN segments', segments'[k].kind = "data_gap"
        PROVE  \E i \in 1 .. Len(points') - 1 :
                  IsGapAt(i, segments[k])' /\ IsGap(points'[i], points'[i + 1])
    <2>1. CASE k \in 1 .. n
      <3>1. PICK i \in 1 .. Len(points) - 1 :
              IsGapAt(i, segments[k]) /\ IsGap(points[i], points[i + 1])
        BY <1>1, <1>3, <2>1 DEF GapsAreShown
      <3>2. IsGapAt(i, segments[k])'
        BY <1>1, <2>1, <3>1 DEF IsGapAt
      <3>3. IsGap(points'[i], points'[i + 1]) /\ i \in 1 .. Len(points') - 1
        BY <3>1
      <3> QED
        BY <3>2, <3>3
    <2>2. CASE k \in n + 1 .. n + m
      <3>1. k - n \in DOMAIN added
        BY <1>1, <2>2
      <3> QED
        BY <1>1, <1>3, <2>2, <3>1 DEF IsStretch
    <2>3. k \in 1 .. n + m
      BY <1>1
    <2>4. k \in 1 .. n \/ k \in n + 1 .. n + m
      BY <1>1, <2>3
    <2> QED
      BY <2>1, <2>2, <2>4
  <1> QED
    BY <1>2, <1>3 DEF GapsAreShown

LEMMA GapsStay ==
  ASSUME TypeOK, GapsAreShown, NEW p \in NextPoints, Step(p)
  PROVE  GapsAreShown'
  <1>0. /\ points \in Seq(Point) /\ p \in Point /\ segments \in Seq(Segment)
        /\ points' = Append(points, p)
    BY PointsTyped DEF TypeOK, PointTypes, SegmentTypes, Step
  <1>1. /\ Len(points') = Len(points) + 1 /\ Len(points) \in Nat
        /\ \A i \in 1 .. Len(points) : points'[i] = points[i]
        /\ points'[Len(points) + 1] = p
    BY <1>0, PairsStay
  <1>2. \A i \in 1 .. Len(points) - 1 :
            points'[i] = points[i] /\ points'[i + 1] = points[i + 1]
    BY <1>1
  <1>3. \A i \in 1 .. Len(points) - 1 : \A s : IsGapAt(i, s)' <=> IsGapAt(i, s)
    BY <1>2 DEF IsGapAt
  <1>4. points = <<>> => Len(points) = 0
    BY <1>0
  <1>5. points # <<>> => /\ Len(points) \in 1 .. Len(points') - 1
                         /\ points'[Len(points)] = previous
                         /\ points'[Len(points) + 1] = p
    BY <1>0, <1>1 DEF previous
  <1>6. \A i \in 1 .. Len(points') - 1 :
            i \in 1 .. Len(points) - 1 \/ (points # <<>> /\ i = Len(points))
    BY <1>1, <1>4
  <1>7. CASE CloseGapAndReset(p)
    <2>1. points # <<>> /\ IsGap(previous, p)
      BY <1>7 DEF CloseGapAndReset
    <2>2. PICK added \in Seq(Segment) :
            /\ segments' = segments \o added \o <<Gap(previous, p)>>
            /\ \A k \in DOMAIN added : IsStretch(added[k])
      BY <1>7, GapAdded
    <2> DEFINE new == Gap(previous, p)
               n == Len(segments)  m == Len(added)
    <2>l. PICK l \in Nat : l = Len(points)
      BY <1>1
    <2>j. PICK j \in Nat : j = n + m + 1
      BY <1>0
    <2>3. new.kind = "data_gap" /\ new.startAt = points'[l].at
                               /\ new.endAt = points'[l + 1].at
      BY <1>5, <2>1, <2>l DEF Gap
    <2> HIDE DEF new
    <2>4. /\ n \in Nat /\ m \in Nat
          /\ DOMAIN segments' = 1 .. n + m + 1
          /\ \A k \in 1 .. n : segments'[k] = segments[k]
          /\ \A k \in n + 1 .. n + m : segments'[k] = added[k - n]
          /\ segments'[n + m + 1] = new
      BY <1>0, <2>2 DEF new
    <2>5. ASSUME NEW i \in 1 .. Len(points') - 1, IsGap(points'[i], points'[i + 1])
          PROVE  \E k \in DOMAIN segments' : IsGapAt(i, segments[k])'
      <3>1. CASE i \in 1 .. Len(points) - 1
        <4>0. IsGap(points[i], points[i + 1])
          BY <1>2, <2>5, <3>1
        <4>1. PICK k \in DOMAIN segments : IsGapAt(i, segments[k])
          BY <3>1, <4>0 DEF GapsAreShown
        <4>2. k \in 1 .. n /\ k \in DOMAIN segments'
          BY <1>0, <2>4, <4>1
        <4>3. IsGapAt(i, segments[k])'
          BY <1>2, <2>4, <3>1, <4>1, <4>2 DEF IsGapAt
        <4> QED
          BY <4>2, <4>3
      <3>2. CASE i = Len(points)
        <4>1. IsGapAt(i, segments[j])'
          BY <2>j, <2>l, <2>3, <2>4, <3>2 DEF IsGapAt
        <4>2. j \in DOMAIN segments'
          BY <1>0, <2>j, <2>4
        <4> QED
          BY <4>1, <4>2
      <3> QED
        BY <1>6, <3>1, <3>2
    <2>6. ASSUME NEW k \in DOMAIN segments', segments'[k].kind = "data_gap"
          PROVE  \E i \in 1 .. Len(points') - 1 :
                    IsGapAt(i, segments[k])' /\ IsGap(points'[i], points'[i + 1])
      <3>1. CASE k \in 1 .. n
        <4>1. PICK i \in 1 .. Len(points) - 1 :
                IsGapAt(i, segments[k]) /\ IsGap(points[i], points[i + 1])
          BY <1>0, <2>4, <2>6, <3>1 DEF GapsAreShown
        <4>2. IsGapAt(i, segments[k])'
          BY <1>2, <2>4, <3>1, <4>1 DEF IsGapAt
        <4>3. IsGap(points'[i], points'[i + 1])
          BY <1>2, <4>1
        <4>4. i \in 1 .. Len(points') - 1
          BY <1>1
        <4> QED
          BY <4>2, <4>3, <4>4
      <3>2. CASE k \in n + 1 .. n + m
        <4>1. k - n \in DOMAIN added
          BY <2>4, <3>2
        <4> QED
          BY <2>2, <2>4, <2>6, <3>2, <4>1 DEF IsStretch
      <3>3. CASE k = n + m + 1
        <4>1. IsGapAt(l, segments[k])'
          BY <2>3, <2>4, <3>3 DEF IsGapAt
        <4>2. l \in 1 .. Len(points') - 1 /\ IsGap(points'[l], points'[l + 1])
          BY <1>5, <2>1, <2>l
        <4> QED
          BY <4>1, <4>2
      <3>4. k \in 1 .. n \/ k \in n + 1 .. n + m \/ k = n + m + 1
        BY <2>4, <2>6
      <3> QED
        BY <3>1, <3>2, <3>3, <3>4
    <2> QED
      BY <2>5, <2>6 DEF GapsAreShown
  <1>8. CASE ~CloseGapAndReset(p)
    <2>1. points # <<>> => ~IsGap(previous, p)
      BY <1>8, StretchesAdded
    <2>2. PICK added \in Seq(Segment) :
            /\ segments' = segments \o added
            /\ \A k \in DOMAIN added : IsStretch(added[k])
      BY <1>8, StretchesAdded
    <2>3. \A i \in 1 .. Len(points') - 1 : IsGap(points'[i], points'[i + 1]) =>
            i \in 1 .. Len(points) - 1 /\ IsGap(points[i], points[i + 1])
      BY <1>2, <1>5, <1>6, <2>1
    <2>4. \A i \in 1 .. Len(points) - 1 :
            /\ i \in 1 .. Len(points') - 1
            /\ points'[i] = points[i] /\ points'[i + 1] = points[i + 1]
      BY <1>1, <1>2
    <2> QED
      BY <1>0, <2>2, <2>3, <2>4, OnlyStretchesAdded
  <1> QED
    BY <1>7, <1>8

LEMMA GapsInvariant == TypeOK /\ GapsAreShown /\ [Next]_vars => GapsAreShown'
  <1> SUFFICES ASSUME TypeOK, GapsAreShown, [Next]_vars PROVE GapsAreShown'
    OBVIOUS
  <1>1. CASE UNCHANGED vars
    BY <1>1 DEF vars, engineVars, GapsAreShown, IsGapAt
  <1>2. ASSUME NEW p \in NextPoints, Step(p) PROVE GapsAreShown'
    BY <1>2, GapsStay
  <1>3. CASE Finish
    <2>1. PICK added \in Seq(Segment) :
            /\ segments' = segments \o added
            /\ \A k \in DOMAIN added : IsStretch(added[k])
      BY <1>3, FinishAdds
    <2>2. points' = points /\ points \in Seq(Point) /\ segments \in Seq(Segment)
      BY <1>3 DEF Finish, TypeOK, PointTypes, SegmentTypes
    <2> QED
      BY <2>1, <2>2, OnlyStretchesAdded
  <1> QED
    BY <1>1, <1>2, <1>3 DEF Next

(* For any thresholds and points: every way the rules call unknown is a    *)
(* data gap between the same two points, and there is no other data gap.   *)
THEOREM GapsAreShownCorrect == Spec => []GapsAreShown
  <1>1. Init => GapsAreShown
    BY DEF Init, GapsAreShown
  <1> QED
    BY <1>1, TypeInitial, TypeInvariant, GapsInvariant, PTL DEF Spec

-----------------------------------------------------------------------------
(* The timeline.                                                           *)

Last(s) == s[Len(s)]

Joined(s, t) ==
    Follows(s, t.startAt) /\ (IsStretch(s) => t.kind # s.kind)

(* Timeline, of closed segments and of the segment b that comes after them. *)
Chain(segs) ==
    /\ \A i \in DOMAIN segs : segs[i].startAt < segs[i].endAt
    /\ \A i \in 1 .. Len(segs) - 1 : Joined(segs[i], segs[i + 1])

Attached(segs, b) ==
    b # None /\ segs # <<>> =>
        Follows(Last(segs), b.startAt) /\ b.kind # Last(segs).kind

LEMMA TimelineParts == Timeline <=> Chain(segments) /\ Attached(segments, current)
  BY DEF Timeline, Chain, Attached, Joined, Last

LEMMA LastTyped ==
  ASSUME NEW S, NEW s \in Seq(S), s # <<>>
  PROVE  Last(s) \in S
  BY DEF Last

LEMMA ChainAppended ==
  ASSUME NEW segs \in Seq(Segment), Chain(segs), NEW s \in Segment,
         s.startAt < s.endAt, segs # <<>> => Joined(Last(segs), s)
  PROVE  /\ segs \o <<s>> \in Seq(Segment) /\ Chain(segs \o <<s>>)
         /\ segs \o <<s>> # <<>> /\ Last(segs \o <<s>>) = s
  <1> DEFINE t == segs \o <<s>>  n == Len(segs)
  <1>1. /\ t \in Seq(Segment) /\ n \in Nat /\ Len(t) = n + 1 /\ t[n + 1] = s
        /\ \A i \in 1 .. n : t[i] = segs[i]
        /\ DOMAIN t = 1 .. n + 1 /\ DOMAIN segs = 1 .. n
    OBVIOUS
  <1>2. t # <<>> /\ Last(t) = s
    BY <1>1 DEF Last
  <1>3. \A i \in 1 .. n + 1 : t[i].startAt < t[i].endAt
    <2> SUFFICES ASSUME NEW i \in 1 .. n + 1 PROVE t[i].startAt < t[i].endAt
      OBVIOUS
    <2>1. CASE i = n + 1
      BY <1>1, <2>1
    <2>2. CASE i \in 1 .. n
      BY <1>1, <2>2 DEF Chain
    <2> QED
      BY <1>1, <2>1, <2>2
  <1>4. ASSUME NEW i \in 1 .. n PROVE Joined(t[i], t[i + 1])
    <2>1. CASE i = n
      <3>1. segs # <<>> /\ t[i] = Last(segs) /\ t[i + 1] = s
        BY <1>1, <2>1 DEF Last
      <3> HIDE DEF t
      <3> QED
        BY <3>1
    <2>2. CASE i \in 1 .. n - 1
      <3>1. t[i] = segs[i] /\ t[i + 1] = segs[i + 1]
        BY <1>1, <2>2
      <3> QED
        BY <2>2, <3>1 DEF Chain
    <2>3. n \in Nat
      BY <1>1
    <2> HIDE DEF n, t
    <2>4. i = n \/ i \in 1 .. n - 1
      BY <2>3
    <2> QED
      BY <2>1, <2>2, <2>4
  <1>5. Chain(t)
    <2>1. Len(t) - 1 = n
      BY <1>1
    <2> HIDE DEF t
    <2> QED
      BY <1>1, <1>3, <1>4, <2>1 DEF Chain
  <1> QED
    BY <1>1, <1>2, <1>5

(* Closing b at endAt keeps the chain.                                     *)
LEMMA ClosedChained ==
  ASSUME NEW segs \in Seq(Segment), Chain(segs),
         NEW b \in Building \cup {None}, Attached(segs, b), NEW endAt \in Nat,
         NEW r \in {"became_active_static", "became_stationary", "data_gap",
                    "report_end"},
         b # None => b.startAt < endAt
  PROVE  /\ segs \o Closed(b, endAt, r) \in Seq(Segment)
         /\ Chain(segs \o Closed(b, endAt, r))
         /\ b = None => segs \o Closed(b, endAt, r) = segs
         /\ b # None => /\ segs \o Closed(b, endAt, r) # <<>>
                        /\ Last(segs \o Closed(b, endAt, r)).endAt = endAt
                        /\ Last(segs \o Closed(b, endAt, r)).kind = b.kind
  <1>1. CASE b = None
    <2>1. segs \o Closed(b, endAt, r) = segs
      BY <1>1 DEF Closed
    <2> QED
      BY <1>1, <2>1
  <1>2. CASE b # None
    <2>1. b \in Building
      BY <1>2
    <2> DEFINE s == [kind |-> b.kind, startAt |-> b.startAt, endAt |-> endAt,
                     points |-> b.points,
                     endReason |-> IF b.kind = "journey" THEN r ELSE "",
                     startsBefore |-> FALSE, endsAfter |-> FALSE]
    <2>2. /\ s \in Segment /\ s.startAt < s.endAt
          /\ s.kind = b.kind /\ s.endAt = endAt /\ s.startAt = b.startAt
      BY <1>2, <2>1 DEF Building, Segment
    <2>3. Closed(b, endAt, r) = <<s>>
      BY <1>2 DEF Closed
    <2> HIDE DEF s
    <2>4. segs # <<>> => Joined(Last(segs), s)
      BY <1>2, <2>2 DEF Attached, Joined
    <2> QED
      BY <1>2, <2>2, <2>3, <2>4, ChainAppended
  <1> QED
    BY <1>1, <1>2

(* A buffer that is confirmed, after a last segment or a gap: what it      *)
(* becomes, or joins, is attached to the chain.                            *)
LEMMA ConfirmChained ==
  ASSUME segments \in Seq(Segment), Chain(segments),
         NEW b \in Building \cup {None}, Attached(segments, b),
         b # None => b.points # <<>>,
         NEW kind \in {"journey"} \cup StopKinds,
         NEW buffer \in Seq(Point), buffer # <<>>,
         buffer[1].at < Last(buffer).at,
         b # None => b.startAt < buffer[1].at,
         b = None /\ segments # <<>> =>
            ~IsStretch(Last(segments)) /\ Last(segments).endAt <= buffer[1].at,
         segments # <<>> => Last(segments).endAt <= buffer[1].at,
         Confirm(b, kind, buffer)
  PROVE  /\ Chain(segments') /\ Attached(segments', current')
         /\ current' # None
         /\ current'.startAt < Last(buffer).at
         /\ Last(current'.points) = Last(buffer)
         /\ segments' # <<>> => Last(segments').endAt <= buffer[1].at
  <1>0. /\ buffer[1] \in Point /\ Last(buffer) \in Point
        /\ Last(buffer) = buffer[Len(buffer)]
    BY DEF Last
  <1>a. buffer[1].at \in Nat /\ Last(buffer).at \in Nat
    BY <1>0 DEF Point
  <1>1. CASE b.kind = kind
    <2>1. b \in Building /\ b # None
      BY <1>1, NoneIsNone DEF StopKinds
    <2>2. segments' = segments /\ current' = Absorbed(b, buffer)
      BY <1>1 DEF Confirm
    <2>3. /\ current' # None /\ current'.kind = b.kind
          /\ current'.startAt = b.startAt /\ current'.points = b.points \o buffer
      BY <2>1, <2>2, AbsorbedTyped
    <2>4. Last(b.points \o buffer) = Last(buffer)
      <3>1. b.points \in Seq(Point)
        BY <2>1 DEF Building
      <3> QED
        BY <3>1 DEF Last
    <2>5. b.startAt \in Nat
      BY <2>1 DEF Building
    <2> QED
      BY <1>a, <2>1, <2>2, <2>3, <2>4, <2>5 DEF Attached
  <1>2. CASE b.kind # kind
    <2>1. PICK r \in {"became_active_static", "became_stationary"} :
            segments' = segments \o Closed(b, buffer[1].at, r)
      BY <1>2 DEF Confirm
    <2>2. current' = [kind |-> kind, startAt |-> buffer[1].at, points |-> buffer]
      BY <1>2 DEF Confirm
    <2>3. /\ current'.kind = kind /\ current'.startAt = buffer[1].at
          /\ current'.points = buffer
      BY <2>2
    <2>4. current' # None
      BY <2>3, NoneIsNone DEF StopKinds
    <2>5. /\ Chain(segments')
          /\ b = None => segments' = segments
          /\ b # None => /\ segments' # <<>>
                         /\ Last(segments').endAt = buffer[1].at
                         /\ Last(segments').kind = b.kind
      <3>1. PICK e \in Nat : e = buffer[1].at
        BY <1>a
      <3>2. b # None => b.startAt < e
        BY <3>1
      <3>3. /\ Chain(segments \o Closed(b, e, r))
            /\ b = None => segments \o Closed(b, e, r) = segments
            /\ b # None => /\ segments \o Closed(b, e, r) # <<>>
                           /\ Last(segments \o Closed(b, e, r)).endAt = e
                           /\ Last(segments \o Closed(b, e, r)).kind = b.kind
        BY <3>2, ClosedChained, SMTT(30)
      <3>4. segments' = segments \o Closed(b, e, r)
        BY <2>1, <3>1
      <3> QED
        BY <3>1, <3>3, <3>4
    <2>6. CASE b = None
      <3>1. segments # <<>> => Last(segments) \in Segment
        BY LastTyped
      <3>2. segments # <<>> => Last(segments).kind = "data_gap"
        BY <2>6 DEF IsStretch
      <3>3. segments # <<>> => kind # "data_gap"
        BY DEF StopKinds
      <3>4. Attached(segments, current')
        BY <2>3, <2>6, <3>2, <3>3 DEF Attached, Follows, IsStretch
      <3> QED
        BY <2>3, <2>4, <2>5, <2>6, <3>4
    <2>7. CASE b # None
      <3>1. b.kind # "data_gap"
        BY <2>7 DEF Building, StopKinds
      <3>2. Attached(segments', current')
        BY <1>2, <2>3, <2>5, <2>7, <3>1 DEF Attached, Follows, IsStretch
      <3> QED
        BY <1>a, <2>3, <2>4, <2>5, <2>7, <3>2
    <2> QED
      BY <2>6, <2>7
  <1> QED
    BY <1>1, <1>2

(* What Timeline rests on: the segment under construction has lasted, its  *)
(* last point and the buffers are not later than the last point read, the  *)
(* buffers not earlier than what they will be attached to, and where there *)
(* is no segment under construction a gap came last.                       *)
Lasts(b) == b.startAt < Last(b.points).at

Attachable(b, buffer, segs) ==
    \A i \in DOMAIN buffer :
        /\ b # None => b.startAt < buffer[i].at
        /\ segs # <<>> => Last(segs).endAt <= buffer[i].at
        /\ buffer[i].at <= LastTime

TimelineInv ==
    /\ Attachable(current, pendingMovement, segments)
    /\ Attachable(current, pendingStationary, segments)
    /\ current # None => Lasts(current) /\ Last(current.points).at <= LastTime
    /\ segments # <<>> => Last(segments).endAt <= LastTime
    /\ current = None /\ segments # <<>> /\ window = NoWindow =>
        ~IsStretch(Last(segments))

(* A sum over nothing is nothing, so a confirmed buffer has two points.    *)
LEMMA NoSum == ASSUME NEW f PROVE SumFunctionOnSet(f, {}) = 0
  <1> DEFINE E(g, s) == IF s = {} THEN 0
                        ELSE LET x == CHOOSE x \in s : TRUE IN f[x] + g[s \ {x}]
             Is(g) == g = [s \in SUBSET {} |-> E(g, s)]
  <1>1. Is([s \in SUBSET {} |-> 0])
    OBVIOUS
  <1>2. Is(CHOOSE g : Is(g))
    BY <1>1, Zenon
  <1>3. (CHOOSE g : Is(g))[{}] = 0
    BY <1>2
  <1> QED
    BY <1>3 DEF SumFunctionOnSet, FoldFunctionOnSet, MapThenFoldSet

LEMMA ConfirmedByTwo ==
  ASSUME NEW buffer \in Seq(Point), MovementConfirmed(buffer)
  PROVE  Len(buffer) > 1
  <1> SUFFICES ASSUME Len(buffer) <= 1 PROVE FALSE
    OBVIOUS
  <1>1. 2 .. Len(buffer) = {}
    OBVIOUS
  <1>2. BufferedMeters(buffer) = 0
    BY <1>1, NoSum DEF BufferedMeters
  <1> QED
    BY <1>2, ConfigAssumption DEF MovementConfirmed

(* A buffer with the new point, and what it can be attached to.            *)
LEMMA Buffered ==
  ASSUME TypeOK, NEW p \in NextPoints, points # <<>>,
         NEW b \in Building \cup {None}, b # None => b.startAt < LastTime,
         segments # <<>> => Last(segments).endAt <= LastTime,
         NEW buffer \in Seq(Point), Attachable(b, buffer, segments)
  PROVE  LET full == Append(buffer, p) IN
         /\ full \in Seq(Point) /\ full # <<>> /\ Last(full) = p
         /\ full[1] \in Point /\ full[1].at \in Nat
         /\ \A i \in DOMAIN full :
                /\ b # None => b.startAt < full[i].at
                /\ segments # <<>> => Last(segments).endAt <= full[i].at
                /\ full[i].at <= p.at
         /\ Len(full) > 1 => full[1].at < p.at
  <1> DEFINE full == Append(buffer, p)  n == Len(buffer)
  <1>1. /\ p \in Point /\ p.at \in Nat /\ LastTime \in Nat /\ LastTime < p.at
    BY PointsTyped
  <1>2. /\ full \in Seq(Point) /\ full # <<>> /\ Last(full) = p
        /\ n \in Nat /\ Len(full) = n + 1 /\ full[n + 1] = p
        /\ \A i \in 1 .. n : full[i] = buffer[i]
        /\ DOMAIN full = 1 .. n + 1
    BY <1>1 DEF Last
  <1>3. b # None => b.startAt \in Nat
    BY DEF Building
  <1>4. segments # <<>> => Last(segments).endAt \in Nat
    <2>1. segments # <<>> => Last(segments) \in Segment
      BY LastTyped DEF TypeOK, SegmentTypes
    <2> QED
      BY <2>1 DEF Segment
  <1>5. \A i \in 1 .. n : buffer[i] \in Point
    OBVIOUS
  <1>6. \A i \in 1 .. n : buffer[i].at \in Nat
    BY <1>5 DEF Point
  <1>7. ASSUME NEW i \in DOMAIN full
        PROVE  /\ b # None => b.startAt < full[i].at
               /\ segments # <<>> => Last(segments).endAt <= full[i].at
               /\ full[i].at <= p.at
    <2>1. CASE i \in 1 .. n
      <3>1. /\ b # None => b.startAt < buffer[i].at
            /\ segments # <<>> => Last(segments).endAt <= buffer[i].at
            /\ buffer[i].at <= LastTime
        BY <2>1 DEF Attachable
      <3> QED
        BY <1>1, <1>2, <1>6, <2>1, <3>1
    <2>2. CASE i = n + 1
      BY <1>1, <1>2, <1>3, <1>4, <2>2
    <2> QED
      BY <1>2, <2>1, <2>2
  <1>8. full[1] \in Point /\ full[1].at \in Nat
    <2>1. full[1] \in Point
      BY <1>2
    <2> QED
      BY <2>1 DEF Point
  <1>9. Len(full) > 1 => full[1].at < p.at
    <2> SUFFICES ASSUME Len(full) > 1 PROVE full[1].at < p.at
      OBVIOUS
    <2>1. 1 \in 1 .. n /\ full[1] = buffer[1]
      BY <1>2
    <2>2. buffer[1].at <= LastTime
      BY <2>1 DEF Attachable
    <2> QED
      BY <1>1, <1>6, <2>1, <2>2
  <1> QED
    BY <1>2, <1>7, <1>8, <1>9

(* What is absorbed into a segment keeps it where it is.                   *)
LEMMA AbsorbedLasts ==
  ASSUME NEW b \in Building \cup {None}, b # None => b.points # <<>>,
         NEW buffer \in Seq(Point), NEW segs, Attachable(b, buffer, segs),
         b # None => Lasts(b) /\ Last(b.points).at <= LastTime
  PROVE  LET a == Absorbed(b, buffer) IN
         a # None => Lasts(a) /\ Last(a.points).at <= LastTime
  <1> SUFFICES ASSUME b # None
               PROVE  LET a == Absorbed(b, buffer) IN
                      Lasts(a) /\ Last(a.points).at <= LastTime
    BY AbsorbedTyped
  <1> DEFINE a == Absorbed(b, buffer)
  <1>1. /\ a.startAt = b.startAt /\ a.points = b.points \o buffer
        /\ b.points \in Seq(Point) /\ b.points # <<>>
    BY AbsorbedTyped DEF Building
  <1> HIDE DEF a
  <1>2. CASE buffer = <<>>
    <2>1. a.points = b.points
      BY <1>1, <1>2
    <2> QED
      BY <1>1, <2>1 DEF Lasts, a
  <1>3. CASE buffer # <<>>
    <2>1. Last(a.points) = buffer[Len(buffer)] /\ Len(buffer) \in DOMAIN buffer
      BY <1>1, <1>3 DEF Last
    <2> QED
      BY <1>1, <2>1 DEF Lasts, Attachable, a
  <1> QED
    BY <1>2, <1>3

LEMMA TimelineInitial == Init => Timeline /\ TimelineInv
  BY DEF Init, Timeline, TimelineInv, Attachable

(* A step that confirms a buffer, or adds the point to it.                 *)
LEMMA BufferStep ==
  ASSUME TypeOK, TypeOK', Timeline, TimelineInv, NEW p \in NextPoints,
         points # <<>>, points' = Append(points, p),
         window = NoWindow, window' = window,
         NEW kind \in {"journey"} \cup StopKinds,
         NEW buffer \in Seq(Point), NEW other \in Seq(Point),
         Attachable(current, buffer, segments),
         Attachable(current, other, segments),
         \/ /\ Len(Append(buffer, p)) > 1
            /\ Confirm(Absorbed(current, other), kind, Append(buffer, p))
            /\ pendingMovement' = <<>> /\ pendingStationary' = <<>>
         \/ /\ current' = Absorbed(current, other) /\ segments' = segments
            /\ pendingMovement' \in {<<>>, Append(buffer, p)}
            /\ pendingStationary' \in {<<>>, Append(buffer, p)}
  PROVE  Timeline' /\ TimelineInv'
  <1> DEFINE b == Absorbed(current, other)
             full == Append(buffer, p)
  <1>1. /\ p \in Point /\ p.at \in Nat /\ LastTime \in Nat /\ LastTime < p.at
        /\ LastTime' = p.at
    <2>1. p \in Point /\ p.at \in Nat /\ LastTime \in Nat /\ LastTime < p.at
      BY PointsTyped
    <2>2. points \in Seq(Point)
      BY DEF TypeOK, PointTypes
    <2>3. points' # <<>> /\ points'[Len(points')] = p
      <3>1. Len(points) \in Nat
        BY <2>2
      <3>2. Len(points') = Len(points) + 1 /\ points'[Len(points) + 1] = p
        BY <2>2, PairsStay
      <3>3. Len(points') # 0
        BY <3>1, <3>2
      <3> QED
        BY <3>2, <3>3
    <2> QED
      BY <2>1, <2>3 DEF LastTime, previous
  <1>2. /\ segments \in Seq(Segment) /\ current \in Building \cup {None}
        /\ current # None => current.points # <<>>
    BY DEF TypeOK, SegmentTypes
  <1>3. /\ b \in Building \cup {None} /\ (b = None <=> current = None)
        /\ b.kind = current.kind /\ b.startAt = current.startAt
        /\ b # None => b.points # <<>>
    BY <1>2, AbsorbedTyped
  <1>4. b # None => Lasts(b) /\ Last(b.points).at <= LastTime
    BY <1>2, AbsorbedLasts DEF TimelineInv
  <1>5. Chain(segments) /\ Attached(segments, b)
    BY <1>3, TimelineParts DEF Attached
  <1>6. current # None => current.startAt < LastTime
    <2> SUFFICES ASSUME current # None PROVE current.startAt < LastTime
      OBVIOUS
    <2>1. current \in Building /\ current.points \in Seq(Point)
      BY <1>2 DEF Building
    <2>2. Last(current.points) \in Point
      BY <1>2, <2>1, LastTyped
    <2>3. current.startAt < Last(current.points).at
          /\ Last(current.points).at <= LastTime
      BY DEF TimelineInv, Lasts
    <2> QED
      BY <1>1, <2>1, <2>2, <2>3 DEF Building, Point
  <1>7. /\ full \in Seq(Point) /\ full # <<>> /\ Last(full) = p
        /\ full[1] \in Point /\ full[1].at \in Nat
        /\ \A i \in DOMAIN full :
                /\ current # None => current.startAt < full[i].at
                /\ segments # <<>> => Last(segments).endAt <= full[i].at
                /\ full[i].at <= p.at
        /\ Len(full) > 1 => full[1].at < p.at
    BY <1>2, <1>6, Buffered DEF TimelineInv
  <1>8. 1 \in DOMAIN full
    BY <1>7
  <1>9. segments # <<>> => Last(segments) \in Segment /\ Last(segments).endAt \in Nat
    <2>1. segments # <<>> => Last(segments) \in Segment
      BY <1>2, LastTyped
    <2> QED
      BY <2>1 DEF Segment
  <1> HIDE DEF b, full
  <1>10. CASE /\ Len(full) > 1 /\ Confirm(b, kind, full)
              /\ pendingMovement' = <<>> /\ pendingStationary' = <<>>
    <2>1. b = None /\ segments # <<>> =>
            ~IsStretch(Last(segments)) /\ Last(segments).endAt <= full[1].at
      BY <1>3, <1>7, <1>8 DEF TimelineInv
    <2>2. b # None => b.startAt < full[1].at
      BY <1>3, <1>7, <1>8
    <2>3. segments # <<>> => Last(segments).endAt <= full[1].at
      BY <1>7, <1>8
    <2>4. /\ Chain(segments') /\ Attached(segments', current')
          /\ current' # None
          /\ current'.startAt < p.at
          /\ Last(current'.points) = p
          /\ segments' # <<>> => Last(segments').endAt <= full[1].at
      BY <1>2, <1>3, <1>5, <1>7, <1>10, <2>1, <2>2, <2>3, ConfirmChained
    <2>5. Timeline'
      BY <2>4 DEF Timeline, Chain, Attached, Joined, Last
    <2>6. /\ Attachable(current, pendingMovement, segments)'
          /\ Attachable(current, pendingStationary, segments)'
      BY <1>10 DEF Attachable
    <2>7. segments' # <<>> => Last(segments').endAt <= p.at
      <3> SUFFICES ASSUME segments' # <<>> PROVE Last(segments').endAt <= p.at
        OBVIOUS
      <3>1. Last(segments') \in Segment
        BY LastTyped DEF TypeOK, SegmentTypes
      <3>2. full[1].at \in Nat /\ full[1].at < p.at
        BY <1>7, <1>10
      <3>3. Last(segments').endAt \in Nat
        BY <3>1 DEF Segment
      <3>4. Last(segments').endAt <= full[1].at
        BY <2>4
      <3> QED
        BY <1>1, <3>2, <3>3, <3>4
    <2> QED
      BY <1>1, <2>4, <2>5, <2>6, <2>7 DEF TimelineInv, Lasts, Last, Attachable
  <1>11. CASE /\ current' = b /\ segments' = segments
              /\ pendingMovement' \in {<<>>, full}
              /\ pendingStationary' \in {<<>>, full}
    <2>1. Timeline'
      BY <1>5, <1>11 DEF Timeline, Chain, Attached, Joined, Last
    <2>2. \A i \in DOMAIN full :
            /\ current' # None => current'.startAt < full[i].at
            /\ segments' # <<>> => Last(segments').endAt <= full[i].at
            /\ full[i].at <= LastTime'
      BY <1>1, <1>3, <1>7, <1>11
    <2>3. b # None => Last(b.points).at <= p.at
      <3> SUFFICES ASSUME b # None PROVE Last(b.points).at <= p.at
        OBVIOUS
      <3>1. b.points \in Seq(Point) /\ b.points # <<>>
        BY <1>3 DEF Building
      <3>2. Last(b.points) \in Point
        BY <3>1, LastTyped
      <3> QED
        BY <1>1, <1>4, <3>2 DEF Point
    <2>4. segments # <<>> => Last(segments).endAt <= p.at
      BY <1>1, <1>9 DEF TimelineInv
    <2>5. /\ pendingMovement' = <<>> \/ pendingMovement' = full
          /\ pendingStationary' = <<>> \/ pendingStationary' = full
      BY <1>11
    <2>6. /\ Attachable(current, pendingMovement, segments)'
          /\ Attachable(current, pendingStationary, segments)'
      BY <2>2, <2>5 DEF Attachable, Last
    <2>7. b = None /\ segments # <<>> => ~IsStretch(Last(segments))
      BY <1>3 DEF TimelineInv
    <2> QED
      BY <1>1, <1>4, <1>11, <2>1, <2>3, <2>4, <2>6, <2>7
         DEF TimelineInv, Lasts, Last
  <1> QED
    BY <1>10, <1>11 DEF b, full

LEMMA GapStep ==
  ASSUME TypeOK, TypeOK', Timeline, TimelineInv, NEW p \in NextPoints, Step(p),
         CloseGapAndReset(p)
  PROVE  Timeline' /\ TimelineInv'
  <1> DEFINE closed == segments \o Closed(current, previous.at, "data_gap")
             gap == Gap(previous, p)
  <1>1. /\ p \in Point /\ p.at \in Nat /\ LastTime \in Nat /\ LastTime < p.at
        /\ previous \in Point /\ previous.at = LastTime /\ points # <<>>
    BY PointsTyped DEF CloseGapAndReset
  <1>2. LastTime' = p.at
    <2>1. points \in Seq(Point) /\ points' = Append(points, p)
      BY DEF TypeOK, PointTypes, Step
    <2>2. Len(points') = Len(points) + 1 /\ points'[Len(points) + 1] = p
          /\ Len(points) \in Nat
      BY <2>1, PairsStay
    <2>3. points' # <<>>
      BY <2>2
    <2> QED
      BY <2>2, <2>3 DEF LastTime, previous
  <1>3. /\ segments \in Seq(Segment) /\ current \in Building \cup {None}
        /\ current # None => current.points # <<>>
    BY DEF TypeOK, SegmentTypes
  <1>4. Chain(segments) /\ Attached(segments, current)
    BY TimelineParts
  <1>5. current # None => current.startAt < LastTime
    <2> SUFFICES ASSUME current # None PROVE current.startAt < LastTime
      OBVIOUS
    <2>1. current \in Building /\ current.points \in Seq(Point)
      BY <1>3 DEF Building
    <2>2. Last(current.points) \in Point
      BY <1>3, <2>1, LastTyped
    <2>3. current.startAt < Last(current.points).at
          /\ Last(current.points).at <= LastTime
      BY DEF TimelineInv, Lasts
    <2> QED
      BY <1>1, <2>1, <2>2, <2>3 DEF Building, Point
  <1>6. /\ closed \in Seq(Segment) /\ Chain(closed)
        /\ current = None => closed = segments
        /\ current # None => closed # <<>> /\ Last(closed).endAt = LastTime
    BY <1>1, <1>3, <1>4, <1>5, ClosedChained
  <1>7. gap \in Segment /\ gap.startAt = LastTime /\ gap.endAt = p.at
        /\ gap.kind = "data_gap"
    BY <1>1 DEF Gap, Segment, Point
  <1> HIDE DEF gap
  <1>8. closed # <<>> => Joined(Last(closed), gap)
    <2>1. CASE current # None
      <3>1. Last(closed) \in Segment /\ Last(closed).endAt = LastTime
        BY <1>6, <2>1, LastTyped
      <3> QED
        BY <1>1, <1>7, <3>1 DEF Joined, Follows, IsStretch
    <2>2. CASE current = None
      <3>1. window = NoWindow /\ closed = segments
        BY <1>6, <2>2 DEF Step
      <3>2. closed # <<>> => ~IsStretch(Last(closed)) /\ Last(closed).endAt <= LastTime
        BY <2>2, <3>1 DEF TimelineInv
      <3> QED
        BY <1>7, <3>2 DEF Joined, Follows
    <2> QED
      BY <2>1, <2>2
  <1> HIDE DEF closed
  <1>9. /\ Chain(closed \o <<gap>>) /\ closed \o <<gap>> # <<>>
        /\ Last(closed \o <<gap>>) = gap
    BY <1>1, <1>6, <1>7, <1>8, ChainAppended
  <1>10. /\ segments' = closed \o <<gap>> /\ current' = None
         /\ pendingMovement' = <<>> /\ pendingStationary' = <<>>
    BY DEF CloseGapAndReset, closed, gap
  <1>11. Timeline'
    BY <1>9, <1>10 DEF Timeline, Chain, Joined
  <1>12. Last(segments') = gap /\ p.at <= p.at /\ ~IsStretch(gap)
    BY <1>1, <1>7, <1>9, <1>10 DEF IsStretch
  <1> QED
    BY <1>2, <1>7, <1>10, <1>11, <1>12
       DEF TimelineInv, Attachable, Last, IsStretch

LEMMA FinishStep ==
  ASSUME TypeOK, Timeline, TimelineInv, Finish
  PROVE  Timeline' /\ TimelineInv'
  <1> DEFINE buffer == pendingStationary \o pendingMovement
             b == Absorbed(current, buffer)
             last == b.points[Len(b.points)].at
  <1>1. /\ pendingStationary \in Seq(Point) /\ pendingMovement \in Seq(Point)
        /\ segments \in Seq(Segment) /\ current \in Building \cup {None}
        /\ current # None => current.points # <<>>
        /\ buffer = pendingStationary \/ buffer = pendingMovement
    BY DEF TypeOK, PointTypes, SegmentTypes
  <1>2. buffer \in Seq(Point) /\ Attachable(current, buffer, segments)
    <2>1. buffer \in Seq(Point)
      BY <1>1
    <2> HIDE DEF buffer
    <2> QED
      BY <1>1, <2>1 DEF TimelineInv
  <1> HIDE DEF buffer
  <1>3. /\ b \in Building \cup {None} /\ (b = None <=> current = None)
        /\ b.kind = current.kind /\ b.startAt = current.startAt
        /\ b # None => b.points # <<>>
    BY <1>1, <1>2, AbsorbedTyped
  <1>4. b # None => Lasts(b) /\ Last(b.points).at <= LastTime
    BY <1>1, <1>2, AbsorbedLasts DEF TimelineInv
  <1>5. Chain(segments) /\ Attached(segments, b)
    BY <1>3, TimelineParts DEF Attached
  <1>6. /\ segments' = segments \o Closed(b, last, "report_end")
        /\ current' = None /\ points' = points
        /\ pendingMovement' = <<>> /\ pendingStationary' = <<>>
        /\ window' # NoWindow
    BY InputAssumption DEF Finish, buffer, NoWindow
  <1> HIDE DEF b
  <1>7. LastTime' = LastTime
    BY <1>6 DEF LastTime, previous
  <1>8. CASE b = None
    <2>1. segments' = segments
      BY <1>1, <1>6, <1>8 DEF Closed
    <2>2. Timeline'
      BY <1>5, <1>6, <2>1 DEF Timeline, Chain, Joined
    <2> QED
      BY <1>6, <1>7, <2>1, <2>2 DEF TimelineInv, Attachable, Last
  <1>9. CASE b # None
    <2>1. last \in Nat /\ last <= LastTime /\ b.startAt < last
      <3>1. b.points \in Seq(Point) /\ b.points # <<>>
        BY <1>3, <1>9 DEF Building
      <3>2. Last(b.points) \in Point
        BY <3>1, LastTyped
      <3>3. last = Last(b.points).at
        BY DEF Last
      <3> QED
        BY <1>4, <1>9, <3>2, <3>3 DEF Lasts, Point
    <2> HIDE DEF last
    <2>2. /\ Chain(segments \o Closed(b, last, "report_end"))
          /\ Last(segments \o Closed(b, last, "report_end")).endAt = last
      BY <1>1, <1>3, <1>5, <1>9, <2>1, ClosedChained
    <2>3. Chain(segments') /\ Last(segments').endAt <= LastTime'
      BY <1>6, <1>7, <2>1, <2>2
    <2>4. Timeline'
      BY <1>6, <2>3 DEF Timeline, Chain, Joined
    <2> QED
      BY <1>6, <2>3, <2>4 DEF TimelineInv, Attachable, Last
  <1> QED
    BY <1>8, <1>9

LEMMA TimelineInvariant ==
  TypeOK /\ TypeOK' /\ Timeline /\ TimelineInv /\ [Next]_vars
    => Timeline' /\ TimelineInv'
  <1> SUFFICES ASSUME TypeOK, TypeOK', Timeline, TimelineInv, [Next]_vars
               PROVE  Timeline' /\ TimelineInv'
    OBVIOUS
  <1>1. CASE UNCHANGED vars
    BY <1>1 DEF vars, engineVars, Timeline, TimelineInv, Attachable, Lasts,
                LastTime, previous, Last
  <1>2. ASSUME NEW p \in NextPoints, Step(p) PROVE Timeline' /\ TimelineInv'
    <2>0. /\ points' = Append(points, p) /\ window = NoWindow /\ window' = window
          /\ pendingMovement \in Seq(Point) /\ pendingStationary \in Seq(Point)
          /\ Attachable(current, pendingMovement, segments)
          /\ Attachable(current, pendingStationary, segments)
          /\ p \in Point
      BY <1>2, PointsTyped DEF Step, TypeOK, PointTypes, TimelineInv
    <2>1. CASE Seed(p)
      <3>1. points = <<>> /\ LastTime = 0 /\ LastTime' = p.at /\ p.at \in Nat
        BY <2>0, <2>1 DEF Seed, LastTime, previous, Point
      <3>2. UNCHANGED engineVars
        BY <2>1 DEF Seed
      <3>3. \A n \in Nat : n <= LastTime => n <= LastTime'
        BY <3>1
      <3>4. \A buffer \in Seq(Point) :
                Attachable(current, buffer, segments) =>
                    Attachable(current, buffer, segments)'
        <4> SUFFICES ASSUME NEW buffer \in Seq(Point),
                            Attachable(current, buffer, segments),
                            NEW i \in DOMAIN buffer
                     PROVE  buffer[i].at <= LastTime'
          BY <3>2 DEF Attachable, engineVars, Last
        <4>1. buffer[i] \in Point
          OBVIOUS
        <4> QED
          BY <3>3, <4>1 DEF Attachable, Point
      <3>5. current # None => Last(current.points).at <= LastTime'
        <4> SUFFICES ASSUME current # None
                     PROVE  Last(current.points).at <= LastTime'
          OBVIOUS
        <4>1. current.points \in Seq(Point) /\ current.points # <<>>
          BY DEF TypeOK, SegmentTypes, Building
        <4>2. Last(current.points) \in Point
          BY <4>1, LastTyped
        <4> QED
          BY <3>3, <4>2 DEF TimelineInv, Point
      <3>6. segments # <<>> => Last(segments).endAt <= LastTime'
        <4> SUFFICES ASSUME segments # <<>>
                     PROVE  Last(segments).endAt <= LastTime'
          OBVIOUS
        <4>1. Last(segments) \in Segment
          BY LastTyped DEF TypeOK, SegmentTypes
        <4> QED
          BY <3>3, <4>1 DEF TimelineInv, Segment
      <3>7. Timeline'
        BY <3>2 DEF Timeline, engineVars
      <3>8. /\ Attachable(current, pendingMovement, segments)'
            /\ Attachable(current, pendingStationary, segments)'
        BY <2>0, <3>2, <3>4 DEF engineVars, Attachable
      <3> QED
        BY <2>0, <3>2, <3>5, <3>6, <3>7, <3>8
           DEF TimelineInv, engineVars, Lasts, Last
    <2>2. CASE CloseGapAndReset(p)
      BY <1>2, <2>2, GapStep
    <2>3. CASE StepMoving(p)
      <3> DEFINE full == Append(pendingMovement, p)
      <3>1. full \in Seq(Point)
        BY <2>0
      <3>2. points # <<>> /\ pendingStationary' = <<>>
        BY <2>3 DEF StepMoving
      <3>3. CASE MovementConfirmed(full)
        <4>1. /\ Confirm(Absorbed(current, pendingStationary), "journey", full)
              /\ pendingMovement' = <<>>
          BY <2>3, <3>3 DEF StepMoving
        <4>2. Len(full) > 1
          BY <3>1, <3>3, ConfirmedByTwo
        <4> QED
          BY <2>0, <3>2, <4>1, <4>2, BufferStep
      <3>4. CASE ~MovementConfirmed(full)
        <4>1. /\ current' = Absorbed(current, pendingStationary)
              /\ segments' = segments /\ pendingMovement' = full
          BY <2>3, <3>4 DEF StepMoving
        <4> QED
          BY <2>0, <3>2, <4>1, BufferStep
      <3> QED
        BY <3>3, <3>4
    <2>4. CASE StepStationary(p)
      <3> DEFINE full == Append(pendingStationary, p)
                 kind == IF Works(previous, p) THEN "active_static" ELSE "stationary"
                 long == p.at - full[1].at >= StationaryConfirmationSeconds
      <3>1. full \in Seq(Point) /\ kind \in {"journey"} \cup StopKinds
        BY <2>0 DEF StopKinds
      <3>2. points # <<>> /\ pendingMovement' = <<>>
        BY <2>4 DEF StepStationary
      <3>3. CASE long
        <4>1. /\ Confirm(Absorbed(current, pendingMovement), kind, full)
              /\ pendingStationary' = <<>>
          BY <2>4, <3>3 DEF StepStationary
        <4>2. Len(full) > 1
          <5> SUFFICES ASSUME Len(full) <= 1 PROVE FALSE
            BY <3>1
          <5>1. full[1] = p
            BY <2>0
          <5> QED
            BY <2>0, <3>3, <5>1, ConfigAssumption DEF Point
        <4> HIDE DEF kind
        <4> QED
          BY <2>0, <3>1, <3>2, <4>1, <4>2, BufferStep
      <3>4. CASE ~long
        <4>1. /\ current' = Absorbed(current, pendingMovement)
              /\ segments' = segments /\ pendingStationary' = full
          BY <2>4, <3>4 DEF StepStationary
        <4>2. "stationary" \in {"journey"} \cup StopKinds
          BY DEF StopKinds
        <4> QED
          BY <2>0, <3>2, <4>1, <4>2, BufferStep
      <3> QED
        BY <3>3, <3>4
    <2> QED
      BY <1>2, <2>1, <2>2, <2>3, <2>4 DEF Step
  <1>3. CASE Finish
    BY <1>3, FinishStep
  <1> QED
    BY <1>1, <1>2, <1>3 DEF Next

(* For any thresholds, points and windows: the segments follow one another *)
(* without overlap, each lasts, and two neighbours are of two kinds.       *)
THEOREM TimelineCorrect == Spec => []Timeline
  BY TypeInitial, TypeInvariant, TimelineInitial, TimelineInvariant, PTL DEF Spec

-----------------------------------------------------------------------------
(* Where the points are.  Each segment, the one under construction and the *)
(* two buffers hold a run of the points, one after the other.              *)
Run(pts, s, a) ==
    a + Len(s) <= Len(pts) + 1 /\ \A i \in 1 .. Len(s) : s[i] = pts[a + i - 1]

(* The k-th segment lasts from the d-th point to the e-th.  Its points end *)
(* with the one before the e-th; but for what a gap has dropped, and for   *)
(* the last segment of a report, which ends with its last point.           *)
Span(pts, segs, done, k, d, e, a) ==
    LET s == segs[k]
        b == d + Len(s.points) - 1 IN
    /\ s.startAt = pts[d].at /\ s.endAt = pts[e].at
    /\ Run(pts, s.points, d) /\ b < a /\ e <= a
    /\ IF IsStretch(s)
       THEN /\ d <= b /\ b <= e
            /\ \/ e = b + 1
               \/ k < Len(segs) /\ segs[k + 1].kind = "data_gap"
               \/ done /\ k = Len(segs) /\ e = b
            /\ \E j \in d .. b : IsEvidence(pts, s.kind, s.startAt, j)
       ELSE s.points = <<>> /\ e = d + 1

Settled(pts, segs, done, a) ==
    \A k \in DOMAIN segs : \E d, e \in 1 .. Len(pts) : Span(pts, segs, done, k, d, e, a)

(* What is not settled are the points from the a-th.                       *)
Unsettled(pts, b, still, moving, a) ==
    /\ Run(pts, b.points, a)
    /\ Run(pts, still, a + Len(b.points))
    /\ Run(pts, moving, a + Len(b.points) + Len(still))
    /\ a + Len(b.points) + Len(still) + Len(moving) = Len(pts) + 1
    /\ b # None =>
          /\ b.startAt = pts[a].at
          /\ \E j \in a .. a + Len(b.points) - 1 : IsEvidence(pts, b.kind, b.startAt, j)

(* Neither buffer is long enough to be confirmed.                          *)
Pending(still, moving) ==
    /\ \A i \in DOMAIN moving : IsMoving(moving[i])
    /\ \A i \in DOMAIN still : /\ ~IsMoving(still[i])
                               /\ still[i].at < still[1].at + StationaryConfirmationSeconds

Ordered(segs) == \A i, j \in DOMAIN segs : i < j => segs[i].endAt <= segs[j].startAt

Layout(pts, b, still, moving, segs, done) ==
    /\ InOrder(pts) /\ Ordered(segs)
    /\ Pending(still, moving)
    /\ \E a \in 1 .. Len(pts) + 1 :
          Unsettled(pts, b, still, moving, a) /\ Settled(pts, segs, done, a)

LayoutInv ==
    Layout(points, current, pendingStationary, pendingMovement, segments, window # NoWindow)

(* One track goes on where the other ends.                                 *)
GoesOn(pts, qts) ==
    /\ pts \in Seq(Point) /\ qts \in Seq(Point) /\ Len(pts) <= Len(qts)
    /\ \A i \in 1 .. Len(pts) : qts[i] = pts[i]

LEMMA RunOn ==
  ASSUME NEW pts, NEW qts, GoesOn(pts, qts), NEW s \in Seq(Point), NEW a \in Nat \ {0},
         Run(pts, s, a)
  PROVE  Run(qts, s, a)
  BY DEF Run, GoesOn

LEMMA RunEmpty ==
  ASSUME NEW pts \in Seq(Point), NEW a \in 1 .. Len(pts) + 1
  PROVE  Run(pts, <<>>, a)
  BY DEF Run

LEMMA RunJoined ==
  ASSUME NEW pts \in Seq(Point), NEW s \in Seq(Point), NEW t \in Seq(Point),
         NEW a \in Nat \ {0}, Run(pts, s, a), Run(pts, t, a + Len(s))
  PROVE  /\ Run(pts, s \o t, a) /\ s \o t \in Seq(Point)
         /\ Len(s \o t) = Len(s) + Len(t)
<1>1. /\ s \o t \in Seq(Point) /\ Len(s \o t) = Len(s) + Len(t)
      /\ \A i \in 1 .. Len(s) + Len(t) :
            (s \o t)[i] = IF i <= Len(s) THEN s[i] ELSE t[i - Len(s)]
  OBVIOUS
<1>2. ASSUME NEW i \in 1 .. Len(s) + Len(t)
      PROVE  (s \o t)[i] = pts[a + i - 1]
  <2>1. CASE i <= Len(s)
    BY <1>1, <2>1 DEF Run
  <2>2. CASE i > Len(s)
    <3>1. i - Len(s) \in 1 .. Len(t) /\ a + Len(s) + (i - Len(s)) - 1 = a + i - 1
      BY <2>2
    <3>2. t[i - Len(s)] = pts[a + Len(s) + (i - Len(s)) - 1]
      BY <3>1 DEF Run
    <3>3. QED
      BY <1>1, <2>2, <3>1, <3>2
  <2>3. QED
    BY <2>1, <2>2
<1>3. QED
  BY <1>1, <1>2 DEF Run

LEMMA RunAppended ==
  ASSUME NEW pts \in Seq(Point), NEW p \in Point, NEW s \in Seq(Point), NEW a \in Nat \ {0},
         Run(pts, s, a), a + Len(s) = Len(pts) + 1
  PROVE  /\ Run(Append(pts, p), Append(s, p), a)
         /\ Append(s, p) \in Seq(Point) /\ Len(Append(s, p)) = Len(s) + 1
<1> DEFINE qts == Append(pts, p)
           full == Append(s, p)
<1>1. /\ full \in Seq(Point) /\ Len(full) = Len(s) + 1 /\ full[Len(s) + 1] = p
      /\ \A i \in 1 .. Len(s) : full[i] = s[i]
      /\ Len(s) \in Nat
  OBVIOUS
<1>2. /\ Len(qts) = Len(pts) + 1 /\ qts[Len(pts) + 1] = p
      /\ \A i \in 1 .. Len(pts) : qts[i] = pts[i]
      /\ Len(pts) \in Nat
  OBVIOUS
<1> HIDE DEF qts, full
<1>3. ASSUME NEW i \in 1 .. Len(full)
      PROVE  full[i] = qts[a + i - 1]
  <2>1. CASE i = Len(s) + 1
    BY <1>1, <1>2, <2>1
  <2>2. CASE i # Len(s) + 1
    <3>1. i \in 1 .. Len(s) /\ a + i - 1 \in 1 .. Len(pts)
      BY <1>1, <1>2, <2>2
    <3>2. QED
      BY <1>1, <1>2, <3>1 DEF Run
  <2>3. QED
    BY <2>1, <2>2
<1>4. a + Len(full) <= Len(qts) + 1
  BY <1>1, <1>2
<1>5. Run(qts, full, a)
  BY <1>3, <1>4 DEF Run
<1>6. QED
  BY <1>1, <1>5 DEF qts, full

LEMMA RunIsPart ==
  ASSUME NEW pts \in Seq(Point), NEW s \in Seq(Point), NEW a \in Nat \ {0}, Run(pts, s, a)
  PROVE  SubSeq(pts, a, a + Len(s) - 1) = s
<1> DEFINE part == SubSeq(pts, a, a + Len(s) - 1)
<1>1. /\ part \in Seq(Point) /\ Len(part) = Len(s)
      /\ \A i \in 1 .. Len(s) : part[i] = pts[a + i - 1]
  BY DEF Run
<1> HIDE DEF part
<1>2. part = s
  BY <1>1, SeqEqual DEF Run
<1>3. QED
  BY <1>2 DEF part

LEMMA PartOn ==
  ASSUME NEW pts, NEW qts, GoesOn(pts, qts), NEW i \in Nat \ {0}, NEW j \in i .. Len(pts)
  PROVE  SubSeq(qts, i, j) = SubSeq(pts, i, j)
<1>1. /\ SubSeq(qts, i, j) \in Seq(Point) /\ Len(SubSeq(qts, i, j)) = j - i + 1
      /\ SubSeq(pts, i, j) \in Seq(Point) /\ Len(SubSeq(pts, i, j)) = j - i + 1
      /\ \A n \in 1 .. j - i + 1 : /\ SubSeq(qts, i, j)[n] = qts[i + n - 1]
                                   /\ SubSeq(pts, i, j)[n] = pts[i + n - 1]
  BY DEF GoesOn
<1>2. \A n \in 1 .. j - i + 1 : qts[i + n - 1] = pts[i + n - 1]
  BY DEF GoesOn
<1> DEFINE more == SubSeq(qts, i, j)  less == SubSeq(pts, i, j)
<1>3. /\ more \in Seq(Point) /\ less \in Seq(Point) /\ Len(more) = Len(less)
      /\ \A n \in 1 .. Len(more) : more[n] = less[n]
  BY <1>1, <1>2
<1> HIDE DEF more, less
<1>4. more = less
  BY <1>3, SeqEqual
<1>5. QED
  BY <1>4 DEF more, less

LEMMA EvidenceOn ==
  ASSUME NEW pts, NEW qts, GoesOn(pts, qts), NEW kind, NEW startAt,
         NEW j \in 1 .. Len(pts), IsEvidence(pts, kind, startAt, j)
  PROVE  IsEvidence(qts, kind, startAt, j)
<1>1. PICK i \in 1 .. j :
        /\ pts[i].at = startAt
        /\ IF kind = "journey"
           THEN /\ \A n \in i .. j : IsMoving(pts[n])
                /\ MovementConfirmed(SubSeq(pts, i, j))
           ELSE /\ \A n \in i .. j : ~IsMoving(pts[n])
                /\ pts[j].at >= startAt + StationaryConfirmationSeconds
                /\ kind = "active_static" =>
                      /\ pts[j].works
                      /\ StationaryConfirmationSeconds <= MaximumPointGapSeconds =>
                            \A n \in i .. j - 1 : ~IsSilence(pts[n], pts[n + 1])
  BY DEF IsEvidence
<1>2. /\ \A n \in i .. j : qts[n] = pts[n]
      /\ \A n \in i .. j - 1 : qts[n] = pts[n] /\ qts[n + 1] = pts[n + 1]
      /\ i \in i .. j /\ j \in i .. j
  BY DEF GoesOn
<1>3. SubSeq(qts, i, j) = SubSeq(pts, i, j)
  BY PartOn
<1>4. QED
  BY <1>1, <1>2, <1>3 DEF IsEvidence

(* A buffer that is confirmed is the evidence.                             *)
LEMMA MovingEvidence ==
  ASSUME NEW pts \in Seq(Point), NEW s \in Seq(Point), s # <<>>, NEW a \in Nat \ {0},
         Run(pts, s, a), \A i \in DOMAIN s : IsMoving(s[i]), MovementConfirmed(s)
  PROVE  IsEvidence(pts, "journey", s[1].at, a + Len(s) - 1)
<1>1. a \in 1 .. a + Len(s) - 1 /\ pts[a] = s[1]
  BY DEF Run
<1>2. ASSUME NEW n \in a .. a + Len(s) - 1
      PROVE  IsMoving(pts[n])
  <2>1. n - a + 1 \in 1 .. Len(s) /\ pts[n] = s[n - a + 1]
    BY DEF Run
  <2>2. QED
    BY <2>1
<1>3. MovementConfirmed(SubSeq(pts, a, a + Len(s) - 1))
  BY RunIsPart
<1>4. QED
  BY <1>1, <1>2, <1>3 DEF IsEvidence

LEMMA Sooner ==
  ASSUME NEW first \in Nat, NEW x \in Nat, NEW y \in Nat, NEW long \in Nat, NEW gap \in Nat,
         first <= x, y < first + long, long <= gap
  PROVE  y - x <= gap
  OBVIOUS

LEMMA StillEvidence ==
  ASSUME NEW pts \in Seq(Point), InOrder(pts),
         NEW s \in Seq(Point), s # <<>>, NEW a \in Nat \ {0}, Run(pts, s, a),
         NEW kind \in StopKinds,
         \A i \in DOMAIN s : ~IsMoving(s[i]),
         \A i \in DOMAIN s : i < Len(s) => s[i].at < s[1].at + StationaryConfirmationSeconds,
         s[Len(s)].at >= s[1].at + StationaryConfirmationSeconds,
         kind = "active_static" =>
            /\ s[Len(s)].works
            /\ Len(s) > 1 => ~IsSilence(s[Len(s) - 1], s[Len(s)])
  PROVE  IsEvidence(pts, kind, s[1].at, a + Len(s) - 1)
<1> DEFINE b == a + Len(s) - 1
<1>1. a \in 1 .. b /\ pts[a] = s[1] /\ pts[b] = s[Len(s)] /\ b \in Nat
  BY SMTT(30) DEF Run
<1>2. \A n \in a .. b : n - a + 1 \in 1 .. Len(s) /\ pts[n] = s[n - a + 1]
  BY DEF Run
<1>3. \A n \in a .. b : ~IsMoving(pts[n])
  BY <1>2
<1>4. ASSUME StationaryConfirmationSeconds <= MaximumPointGapSeconds,
             kind = "active_static", NEW n \in a .. b - 1
      PROVE  ~IsSilence(pts[n], pts[n + 1])
  <2>1. n \in a .. b /\ n + 1 \in a .. b
    BY <1>1
  <2>2. CASE n + 1 = b
    BY <1>2, <1>4, <2>1, <2>2
  <2>3. CASE n + 1 < b
    <3>1. /\ n - a + 1 \in DOMAIN s /\ n - a + 2 \in DOMAIN s /\ n - a + 2 < Len(s)
          /\ 1 \in DOMAIN s /\ DOMAIN s = 1 .. Len(s)
          /\ pts[n] = s[n - a + 1] /\ pts[n + 1] = s[n - a + 2]
      <4>1. n - a + 1 \in 1 .. Len(s) /\ n + 1 - a + 1 \in 1 .. Len(s)
            /\ pts[n] = s[n - a + 1] /\ pts[n + 1] = s[n + 1 - a + 1]
        <5> DEFINE m == n + 1
        <5>1. n \in a .. b /\ m \in a .. b
          BY <2>1
        <5> HIDE DEF b, m
        <5>2. /\ n - a + 1 \in 1 .. Len(s) /\ pts[n] = s[n - a + 1]
              /\ m - a + 1 \in 1 .. Len(s) /\ pts[m] = s[m - a + 1]
          BY <1>2, <5>1
        <5>3. QED
          BY SMTT(30), <5>2 DEF m
      <4>2. n + 1 - a + 1 = n - a + 2 /\ n - a + 2 < Len(s) /\ Len(s) \in Nat
        BY <2>1, <2>3
      <4>3. DOMAIN s = 1 .. Len(s)
        OBVIOUS
      <4> HIDE DEF b
      <4>4. n - a + 2 \in 1 .. Len(s) /\ 1 \in 1 .. Len(s)
        BY <4>1, <4>2
      <4>5. QED
        BY <4>1, <4>2, <4>3, <4>4, Zenon
    <3>2. s[1] \in Point /\ s[n - a + 1] \in Point /\ s[n - a + 2] \in Point
      BY <3>1
    <3>3. s[1].at \in Nat /\ s[n - a + 1].at \in Nat /\ s[n - a + 2].at \in Nat
      BY <3>2 DEF Point
    <3>4. s[1].at <= s[n - a + 1].at
      <4>1. a \in DOMAIN pts /\ n \in DOMAIN pts /\ a <= n
        BY <1>1 DEF Run
      <4>2. a < n => pts[a].at < pts[n].at
        BY <4>1 DEF InOrder
      <4>3. QED
        <5>1. CASE a = n
          BY <1>1, <3>1, <3>3, <5>1
        <5>2. CASE a < n
          BY <1>1, <3>1, <3>3, <4>2, <5>2
        <5>3. QED
          BY <4>1, <5>1, <5>2
    <3>5. s[n - a + 2].at < s[1].at + StationaryConfirmationSeconds
      BY <3>1
    <3>6. s[n - a + 2].at - s[n - a + 1].at <= MaximumPointGapSeconds
      <4>1. StationaryConfirmationSeconds \in Nat /\ MaximumPointGapSeconds \in Nat
        BY ConfigAssumption
      <4>2. QED
        BY <1>4, <3>3, <3>4, <3>5, <4>1, Sooner
    <3>7. QED
      BY SMTT(30), <3>1, <3>3, <3>6, ConfigAssumption DEF IsSilence
  <2>4. QED
    BY SMTT(30), <1>1, <2>2, <2>3
<1>5. kind # "journey"
  BY DEF StopKinds
<1> HIDE DEF b
<1>6. QED
  BY <1>1, <1>3, <1>4, <1>5 DEF IsEvidence, b

-----------------------------------------------------------------------------
(* Segments that are settled stay so, whatever comes after them.           *)
SegmentsGoOn(segs, more) ==
    /\ segs \in Seq(Segment) /\ more \in Seq(Segment) /\ Len(segs) <= Len(more)
    /\ \A k \in 1 .. Len(segs) : more[k] = segs[k]

LEMMA SpanOn ==
  ASSUME NEW pts, NEW qts, GoesOn(pts, qts), NEW segs, NEW more, SegmentsGoOn(segs, more),
         NEW done, NEW k \in DOMAIN segs, NEW a \in Nat, NEW c \in Nat, a <= c,
         NEW d \in 1 .. Len(pts), NEW e \in 1 .. Len(pts), Span(pts, segs, FALSE, k, d, e, a)
  PROVE  Span(qts, more, done, k, d, e, c)
<1> DEFINE s == segs[k]
           b == d + Len(s.points) - 1
<1>1. /\ more[k] = s /\ k \in DOMAIN more /\ s \in Segment
      /\ k < Len(segs) => k < Len(more) /\ more[k + 1] = segs[k + 1]
  BY SMTT(30) DEF SegmentsGoOn
<1>2. /\ s.points \in Seq(Point) /\ b \in Int
  <2>1. s.points \in Seq(Point)
    BY <1>1 DEF Segment
  <2>2. Len(s.points) \in Nat /\ d \in Int
    BY <2>1 DEF GoesOn
  <2>3. QED
    BY <2>1, <2>2
<1>3. /\ s.startAt = pts[d].at /\ s.endAt = pts[e].at /\ Run(pts, s.points, d) /\ b < a /\ e <= a
      /\ IF IsStretch(s)
         THEN /\ d <= b /\ b <= e
              /\ \/ e = b + 1
                 \/ k < Len(segs) /\ segs[k + 1].kind = "data_gap"
              /\ \E j \in d .. b : IsEvidence(pts, s.kind, s.startAt, j)
         ELSE s.points = <<>> /\ e = d + 1
  BY DEF Span
<1>4. qts[d] = pts[d] /\ qts[e] = pts[e] /\ Run(qts, s.points, d) /\ b < c /\ e <= c
  <2>1. qts[d] = pts[d] /\ qts[e] = pts[e] /\ d \in Nat \ {0} /\ e \in Nat
    BY DEF GoesOn
  <2>2. Run(qts, s.points, d)
    BY <1>2, <1>3, <2>1, RunOn
  <2>3. QED
    BY SMTT(30), <1>2, <1>3, <2>1, <2>2
<1>5. ASSUME NEW j \in d .. b, IsEvidence(pts, s.kind, s.startAt, j), b <= e
      PROVE  IsEvidence(qts, s.kind, s.startAt, j)
  <2>1. j \in 1 .. Len(pts)
    BY <1>2, <1>5 DEF GoesOn
  <2>2. QED
    BY <1>5, <2>1, EvidenceOn
<1> HIDE DEF s, b
<1>6. more[k].points = s.points
  BY <1>1
<1>7. IF IsStretch(s)
      THEN /\ d <= b /\ b <= e
           /\ \/ e = b + 1
              \/ k < Len(more) /\ more[k + 1].kind = "data_gap"
           /\ \E j \in d .. b : IsEvidence(qts, s.kind, s.startAt, j)
      ELSE s.points = <<>> /\ e = d + 1
  BY <1>1, <1>3, <1>5
<1>8. more[k] = s /\ b = d + Len(s.points) - 1
  BY <1>1 DEF b, s
<1>9. QED
  BY <1>3, <1>4, <1>7, <1>8 DEF Span

LEMMA SettledOn ==
  ASSUME NEW pts, NEW qts, GoesOn(pts, qts), NEW segs, NEW more, SegmentsGoOn(segs, more),
         NEW done, NEW a \in Nat, NEW c \in Nat, a <= c, Settled(pts, segs, FALSE, a),
         \A k \in DOMAIN more \ DOMAIN segs :
            \E d, e \in 1 .. Len(qts) : Span(qts, more, done, k, d, e, c)
  PROVE  Settled(qts, more, done, c)
<1> SUFFICES ASSUME NEW k \in DOMAIN segs
             PROVE  \E d, e \in 1 .. Len(qts) : Span(qts, more, done, k, d, e, c)
  BY DEF Settled
<1>1. PICK d \in 1 .. Len(pts), e \in 1 .. Len(pts) : Span(pts, segs, FALSE, k, d, e, a)
  BY DEF Settled
<1>2. Span(qts, more, done, k, d, e, c)
  BY <1>1, SpanOn
<1>3. d \in 1 .. Len(qts) /\ e \in 1 .. Len(qts)
  BY DEF GoesOn
<1>4. QED
  BY <1>2, <1>3

(* A segment that begins where the last one ended or later keeps the order.*)
LEMMA OrderedOn ==
  ASSUME NEW segs \in Seq(Segment), NEW s \in Segment, Ordered(segs),
         \A k \in DOMAIN segs : segs[k].endAt <= s.startAt
  PROVE  Ordered(Append(segs, s)) /\ Append(segs, s) \in Seq(Segment)
  BY DEF Ordered

LEMMA EndsBefore ==
  ASSUME NEW pts \in Seq(Point), InOrder(pts), NEW segs \in Seq(Segment), NEW done,
         NEW a \in Nat, Settled(pts, segs, done, a), NEW k \in DOMAIN segs,
         NEW c \in DOMAIN pts, a <= c \/ c = Len(pts)
  PROVE  segs[k].endAt <= pts[c].at
<1>1. PICK d \in 1 .. Len(pts), e \in 1 .. Len(pts) : Span(pts, segs, done, k, d, e, a)
  BY DEF Settled
<1>2. e <= c /\ segs[k].endAt = pts[e].at /\ e \in DOMAIN pts
  BY <1>1 DEF Span
<1>3. pts[e] \in Point /\ pts[c] \in Point
  BY <1>2
<1>4. pts[e].at \in Nat /\ pts[c].at \in Nat
  BY <1>3 DEF Point
<1>5. CASE e = c
  BY <1>2, <1>4, <1>5
<1>6. CASE e < c
  BY <1>2, <1>4, <1>6 DEF InOrder
<1>7. QED
  BY <1>2, <1>5, <1>6

(* The segment under construction is closed at the e-th point.             *)
LEMMA ClosedSpan ==
  ASSUME NEW pts \in Seq(Point), NEW segs \in Seq(Segment), NEW done,
         NEW b \in Building, b.points # <<>>, NEW k \in DOMAIN segs,
         NEW d \in 1 .. Len(pts), NEW e \in 1 .. Len(pts), NEW c \in Nat,
         Run(pts, b.points, d), b.startAt = pts[d].at,
         \E j \in d .. d + Len(b.points) - 1 : IsEvidence(pts, b.kind, b.startAt, j),
         segs[k].kind = b.kind, segs[k].startAt = b.startAt, segs[k].points = b.points,
         segs[k].endAt = pts[e].at,
         e <= c, d + Len(b.points) - 1 < c, d + Len(b.points) - 1 <= e,
         \/ e = d + Len(b.points)
         \/ k < Len(segs) /\ segs[k + 1].kind = "data_gap"
         \/ done /\ k = Len(segs) /\ e = d + Len(b.points) - 1
  PROVE  Span(pts, segs, done, k, d, e, c)
<1>1. b.points \in Seq(Point) /\ Len(b.points) \in Nat \ {0}
  BY DEF Building
<1>2. IsStretch(segs[k])
  BY DEF IsStretch, Building, StopKinds
<1>3. QED
  BY <1>1, <1>2 DEF Span

-----------------------------------------------------------------------------
(* The steps of the engine.                                                *)
LEMMA NothingPending == Pending(<<>>, <<>>)
  BY DEF Pending

(* b is a segment that begins with the a-th point, if there is one.        *)
Began(pts, b, a) ==
    /\ Run(pts, b.points, a)
    /\ b # None =>
          /\ b.points # <<>> /\ b.startAt = pts[a].at
          /\ \E j \in a .. a + Len(b.points) - 1 : IsEvidence(pts, b.kind, b.startAt, j)

LEMMA HasPoints ==
  ASSUME NEW b \in Building \cup {None}
  PROVE  /\ b.points \in Seq(Point) /\ Len(b.points) \in Nat
         /\ b.points # <<>> => Len(b.points) \in Nat \ {0}
<1>1. b.points \in Seq(Point)
  <2>1. CASE b \in Building
    BY <2>1 DEF Building
  <2>2. CASE b = None
    BY <2>2 DEF None
  <2>3. QED
    BY <2>1, <2>2
<1>2. QED
  BY <1>1

LEMMA BeganOn ==
  ASSUME NEW pts, NEW qts, GoesOn(pts, qts), NEW b \in Building \cup {None},
         NEW a \in 1 .. Len(pts) + 1, Began(pts, b, a)
  PROVE  Began(qts, b, a)
<1>1. b.points \in Seq(Point) /\ Len(b.points) \in Nat
  BY HasPoints
<1>2. a \in Nat \ {0} /\ Len(pts) \in Nat
  BY DEF GoesOn
<1>3. Run(qts, b.points, a)
  BY <1>1, <1>2, RunOn DEF Began
<1>4. ASSUME b # None
      PROVE  /\ b.startAt = qts[a].at
             /\ \E j \in a .. a + Len(b.points) - 1 : IsEvidence(qts, b.kind, b.startAt, j)
  <2>1. PICK j \in a .. a + Len(b.points) - 1 : IsEvidence(pts, b.kind, b.startAt, j)
    BY <1>4 DEF Began
  <2>2. j \in 1 .. Len(pts) /\ a \in 1 .. Len(pts)
    BY <1>1, <1>2 DEF Began, Run
  <2>3. IsEvidence(qts, b.kind, b.startAt, j)
    BY <2>1, <2>2, EvidenceOn
  <2>4. QED
    BY <1>4, <2>2, <2>3 DEF Began, GoesOn
<1>5. QED
  BY <1>3, <1>4 DEF Began

(* What is absorbed follows.                                               *)
LEMMA AbsorbedBegan ==
  ASSUME NEW pts \in Seq(Point), NEW b \in Building \cup {None}, b # None,
         NEW buffer \in Seq(Point), NEW a \in 1 .. Len(pts) + 1, Began(pts, b, a),
         Run(pts, buffer, a + Len(b.points))
  PROVE  /\ Began(pts, Absorbed(b, buffer), a)
         /\ Len(Absorbed(b, buffer).points) = Len(b.points) + Len(buffer)
<1> DEFINE all == Absorbed(b, buffer)
<1>1. /\ all # None /\ all.kind = b.kind /\ all.startAt = b.startAt
      /\ all.points = b.points \o buffer /\ b.points \in Seq(Point)
      /\ b.points # <<>> => all.points # <<>>
  BY AbsorbedTyped DEF Building
<1>2. Run(pts, b.points \o buffer, a) /\ Len(b.points \o buffer) = Len(b.points) + Len(buffer)
  <2>1. a \in Nat \ {0} /\ Run(pts, b.points, a)
    BY DEF Began
  <2>2. QED
    BY <1>1, <2>1, RunJoined
<1> HIDE DEF all
<1>3. PICK j \in a .. a + Len(b.points) - 1 : IsEvidence(pts, b.kind, b.startAt, j)
  BY DEF Began
<1>4. j \in a .. a + Len(all.points) - 1
  BY <1>1, <1>2
<1>5. Began(pts, all, a) /\ Len(all.points) = Len(b.points) + Len(buffer)
  BY <1>1, <1>2, <1>3, <1>4 DEF Began
<1>6. QED
  BY <1>5 DEF all

LEMMA UnsettledBegan ==
  ASSUME NEW pts, NEW b, NEW still, NEW moving, NEW a
  PROVE  /\ Unsettled(pts, b, still, moving, a) /\ (b # None => b.points # <<>>)
               => Began(pts, b, a)
         /\ /\ Began(pts, b, a)
            /\ Run(pts, still, a + Len(b.points))
            /\ Run(pts, moving, a + Len(b.points) + Len(still))
            /\ a + Len(b.points) + Len(still) + Len(moving) = Len(pts) + 1
            => Unsettled(pts, b, still, moving, a)
  BY DEF Unsettled, Began

LEMMA ConfirmLays ==
  ASSUME NEW pts \in Seq(Point), InOrder(pts), segments \in Seq(Segment), Ordered(segments),
         NEW a \in 1 .. Len(pts) + 1, Settled(pts, segments, FALSE, a),
         NEW b \in Building \cup {None}, Began(pts, b, a),
         NEW buffer \in Seq(Point), buffer # <<>>, Run(pts, buffer, a + Len(b.points)),
         a + Len(b.points) + Len(buffer) = Len(pts) + 1,
         NEW kind \in {"journey"} \cup StopKinds,
         IsEvidence(pts, kind, buffer[1].at, Len(pts)), Confirm(b, kind, buffer)
  PROVE  Layout(pts, current', <<>>, <<>>, segments', FALSE)
<1>1. b.points \in Seq(Point) /\ Len(b.points) \in Nat /\ Len(buffer) \in Nat \ {0}
  BY HasPoints
<1>2. Len(<<>>) = 0 /\ <<>> \in Seq(Point)
  OBVIOUS
<1> DEFINE c == a + Len(b.points)
<1>3. c \in 1 .. Len(pts) /\ pts[c] = buffer[1] /\ a <= c
  BY <1>1 DEF Run
<1>4. \A m \in 1 .. Len(pts) + 1 : Run(pts, <<>>, m)
  BY RunEmpty
<1>5. CASE b.kind = kind
  <2>1. b # None /\ current' = Absorbed(b, buffer) /\ segments' = segments
    BY <1>5, NoneIsNone DEF Confirm, StopKinds
  <2>2. Began(pts, current', a) /\ Len(current'.points) = Len(b.points) + Len(buffer)
    BY <2>1, AbsorbedBegan
  <2>3. /\ a + Len(current'.points) = Len(pts) + 1
        /\ a + Len(current'.points) + Len(<<>>) = Len(pts) + 1
        /\ a + Len(current'.points) + Len(<<>>) + Len(<<>>) = Len(pts) + 1
    BY <1>1, <1>2, <2>2
  <2>4. Unsettled(pts, current', <<>>, <<>>, a)
    <3>1. /\ Run(pts, <<>>, a + Len(current'.points))
          /\ Run(pts, <<>>, a + Len(current'.points) + Len(<<>>))
      BY <1>4, <2>3
    <3>2. QED
      BY <2>2, <2>3, <3>1, UnsettledBegan, Zenon
  <2>5. QED
    BY <2>1, <2>4, NothingPending DEF Layout
<1>6. CASE b.kind # kind
  <2>1. PICK r \in {"became_active_static", "became_stationary"} :
          segments' = segments \o Closed(b, buffer[1].at, r)
    BY <1>6 DEF Confirm
  <2>2. current' = [kind |-> kind, startAt |-> buffer[1].at, points |-> buffer]
    BY <1>6 DEF Confirm
  <2>3. /\ current'.points = buffer /\ current'.kind = kind /\ current'.startAt = pts[c].at
        /\ current' # None
    BY <1>3, <2>2 DEF None, StopKinds
  <2>4. Began(pts, current', c)
    <3>1. Len(pts) \in c .. c + Len(buffer) - 1
      BY <1>1, <1>3
    <3>2. Run(pts, buffer, c)
      OBVIOUS
    <3>3. QED
      BY <1>3, <2>3, <3>1, <3>2 DEF Began
  <2>5. /\ c + Len(current'.points) = Len(pts) + 1
        /\ c + Len(current'.points) + Len(<<>>) = Len(pts) + 1
        /\ c + Len(current'.points) + Len(<<>>) + Len(<<>>) = Len(pts) + 1
    BY <1>1, <1>2, <2>3
  <2>6. Unsettled(pts, current', <<>>, <<>>, c)
    <3>1. /\ Run(pts, <<>>, c + Len(current'.points))
          /\ Run(pts, <<>>, c + Len(current'.points) + Len(<<>>))
      <4> HIDE DEF c
      <4>1. Len(pts) + 1 \in 1 .. Len(pts) + 1
        OBVIOUS
      <4>2. QED
        BY <1>4, <2>5, <4>1
    <3>2. QED
      BY <2>4, <2>5, <3>1, UnsettledBegan, Zenon
  <2>7. Settled(pts, segments', FALSE, c) /\ Ordered(segments')
    <3>1. CASE b = None
      <4>1. segments' = segments /\ c = a
        BY <2>1, <3>1 DEF Closed, None
      <4>2. QED
        BY <4>1
    <3>2. CASE b # None
      <4> DEFINE s == [kind |-> b.kind, startAt |-> b.startAt, endAt |-> buffer[1].at,
                       points |-> b.points,
                       endReason |-> IF b.kind = "journey" THEN r ELSE "",
                       startsBefore |-> FALSE, endsAfter |-> FALSE]
      <4>1. segments' = segments \o <<s>>
        BY <2>1, <3>2 DEF Closed
      <4>2. b \in Building /\ b.points # <<>>
        BY <3>2 DEF Began
      <4>3. s \in Segment
        <5>1. buffer[1] \in Point
          BY <1>1
        <5>2. buffer[1].at \in Nat
          BY <5>1 DEF Point
        <5>3. QED
          BY <4>2, <5>2 DEF Building, Segment
      <4>4. /\ s.kind = b.kind /\ s.startAt = b.startAt /\ s.points = b.points
            /\ s.endAt = pts[c].at
        BY <1>3
      <4> HIDE DEF s
      <4>15. segments' = Append(segments, s)
        BY <4>1, <4>3
      <4>5. /\ SegmentsGoOn(segments, segments') /\ segments' \in Seq(Segment)
            /\ DOMAIN segments' \ DOMAIN segments = {Len(segments) + 1}
            /\ Len(segments) + 1 \in DOMAIN segments'
            /\ segments'[Len(segments) + 1] = s
        BY <4>15, <4>3 DEF SegmentsGoOn
      <4>6. GoesOn(pts, pts)
        BY DEF GoesOn
      <4>7. a \in 1 .. Len(pts) /\ b.startAt = pts[a].at
            /\ \E j \in a .. a + Len(b.points) - 1 : IsEvidence(pts, b.kind, b.startAt, j)
        <5>1. Len(b.points) \in Nat \ {0}
          BY <4>2, HasPoints
        <5>2. a + Len(b.points) <= Len(pts) + 1
          BY DEF Began, Run
        <5>3. a \in 1 .. Len(pts)
          BY <5>1, <5>2
        <5>4. QED
          BY <3>2, <5>3 DEF Began
      <4>8. /\ c <= c /\ a + Len(b.points) - 1 < c /\ a + Len(b.points) - 1 <= c
            /\ c = a + Len(b.points) /\ c \in Nat
        BY <1>1, <1>3
      <4>9. Run(pts, b.points, a)
        BY DEF Began
      <4> HIDE DEF c
      <4>10. Span(pts, segments', FALSE, Len(segments) + 1, a, c, c)
        BY <1>3, <4>2, <4>4, <4>5, <4>7, <4>8, <4>9, ClosedSpan
      <4>11. Settled(pts, segments', FALSE, c)
        <5>1. a \in Nat /\ a <= c /\ c \in 1 .. Len(pts)
          BY <1>3, <4>8
        <5>2. \A k \in DOMAIN segments' \ DOMAIN segments :
                 \E d, e \in 1 .. Len(pts) : Span(pts, segments', FALSE, k, d, e, c)
          BY <4>5, <4>7, <4>10, <5>1
        <5>3. c \in Nat /\ SegmentsGoOn(segments, segments')
          BY <4>5, <4>8
        <5>4. QED
          BY <4>6, <5>1, <5>2, <5>3, SettledOn, Zenon
      <4>12. \A k \in DOMAIN segments : segments[k].endAt <= pts[a].at
        <5>1. a \in DOMAIN pts /\ a \in Nat /\ a <= a
          BY <4>7
        <5>2. QED
          BY <5>1, EndsBefore
      <4>13. Ordered(segments')
        BY <4>15, <4>3, <4>4, <4>7, <4>12, OrderedOn
      <4>14. QED
        BY <4>11, <4>13
    <3>3. QED
      BY <3>1, <3>2
  <2>8. c \in 1 .. Len(pts) + 1
    BY <1>3
  <2> HIDE DEF c
  <2>9. QED
    BY <2>6, <2>7, <2>8, NothingPending DEF Layout
<1>7. QED
  BY <1>5, <1>6

LEMMA Appended ==
  ASSUME TypeOK, InOrder(points), NEW p \in NextPoints
  PROVE  /\ p \in Point /\ points \in Seq(Point)
         /\ GoesOn(points, Append(points, p)) /\ InOrder(Append(points, p))
         /\ Append(points, p) \in Seq(Point)
         /\ Len(Append(points, p)) = Len(points) + 1
         /\ Append(points, p)[Len(points) + 1] = p
<1> DEFINE qts == Append(points, p)
<1>1. p \in Point /\ points \in Seq(Point) /\ p.at > LastTime /\ p.at \in Nat /\ LastTime \in Nat
  BY PointsTyped DEF TypeOK, PointTypes
<1>2. /\ qts \in Seq(Point) /\ Len(qts) = Len(points) + 1 /\ qts[Len(points) + 1] = p
      /\ Len(points) \in Nat /\ \A i \in 1 .. Len(points) : qts[i] = points[i]
      /\ DOMAIN qts = 1 .. Len(points) + 1 /\ DOMAIN points = 1 .. Len(points)
  BY <1>1
<1> HIDE DEF qts
<1>3. ASSUME NEW i \in DOMAIN qts, NEW j \in DOMAIN qts, i < j
      PROVE  qts[i].at < qts[j].at
  <2>1. CASE j \in DOMAIN points
    <3>1. i \in DOMAIN points
      BY <1>2, <1>3, <2>1
    <3>2. QED
      BY <1>2, <1>3, <2>1, <3>1 DEF InOrder
  <2>2. CASE j = Len(points) + 1
    <3>1. i \in DOMAIN points /\ Len(points) \in DOMAIN points /\ points # <<>>
      BY <1>2, <1>3, <2>2
    <3>2. LastTime = points[Len(points)].at
      BY <3>1 DEF LastTime, previous
    <3>3. i = Len(points) \/ points[i].at < LastTime
      BY <1>2, <3>1, <3>2 DEF InOrder
    <3>4. points[i] \in Point
      BY <1>1, <3>1
    <3>5. points[i].at <= LastTime /\ points[i].at \in Nat
      BY <1>1, <3>2, <3>3, <3>4 DEF Point
    <3>6. QED
      BY <1>1, <1>2, <2>2, <3>1, <3>5
  <2>3. QED
    BY <1>2, <2>1, <2>2
<1>4. InOrder(qts)
  BY <1>3 DEF InOrder
<1>5. QED
  BY <1>1, <1>2, <1>4 DEF GoesOn, qts

LEMMA LayoutTyped ==
  ASSUME TypeOK, LayoutInv, window = NoWindow
  PROVE  /\ points \in Seq(Point) /\ Len(points) \in Nat
         /\ current \in Building \cup {None} /\ (current # None => current.points # <<>>)
         /\ pendingStationary \in Seq(Point) /\ pendingMovement \in Seq(Point)
         /\ Len(pendingStationary) \in Nat /\ Len(pendingMovement) \in Nat
         /\ segments \in Seq(Segment)
         /\ \E a \in 1 .. Len(points) + 1 :
               /\ Unsettled(points, current, pendingStationary, pendingMovement, a)
               /\ Settled(points, segments, FALSE, a)
<1>1. /\ points \in Seq(Point) /\ current \in Building \cup {None}
      /\ (current # None => current.points # <<>>)
      /\ pendingStationary \in Seq(Point) /\ pendingMovement \in Seq(Point)
      /\ segments \in Seq(Segment)
  BY DEF TypeOK, PointTypes, SegmentTypes
<1>2. \E a \in 1 .. Len(points) + 1 :
         /\ Unsettled(points, current, pendingStationary, pendingMovement, a)
         /\ Settled(points, segments, FALSE, a)
  <2>1. (window # NoWindow) = FALSE
    OBVIOUS
  <2>2. QED
    BY <2>1 DEF LayoutInv, Layout
<1>3. /\ Len(points) \in Nat
      /\ Len(pendingStationary) \in Nat /\ Len(pendingMovement) \in Nat
  BY <1>1
<1>4. QED
  BY <1>1, <1>2, <1>3, Zenon

(* A new point is put behind the buffer of its kind, and the other buffer  *)
(* behind the segment under construction or away.                          *)
LEMMA Prepared ==
  ASSUME TypeOK, LayoutInv, window = NoWindow, NEW p \in NextPoints,
         NEW buffer \in Seq(Point), NEW other \in Seq(Point),
         \/ buffer = pendingMovement /\ other = pendingStationary
         \/ buffer = pendingStationary /\ other = pendingMovement
  PROVE  LET qts == Append(points, p)
             b == Absorbed(current, other)
             full == Append(buffer, p) IN
         \E c \in 1 .. Len(qts) + 1 :
            /\ Began(qts, b, c) /\ Run(qts, full, c + Len(b.points))
            /\ c + Len(b.points) + Len(full) = Len(qts) + 1
            /\ Settled(qts, segments, FALSE, c)
<1> DEFINE qts == Append(points, p)
           b == Absorbed(current, other)
           full == Append(buffer, p)
<1>1. /\ points \in Seq(Point) /\ Len(points) \in Nat /\ p \in Point
      /\ GoesOn(points, qts) /\ qts \in Seq(Point) /\ Len(qts) = Len(points) + 1
      /\ current \in Building \cup {None} /\ (current # None => current.points # <<>>)
      /\ segments \in Seq(Segment) /\ Len(buffer) \in Nat /\ Len(other) \in Nat
  BY LayoutTyped, Appended DEF LayoutInv, Layout
<1>2. PICK a \in 1 .. Len(points) + 1 :
         /\ Unsettled(points, current, pendingStationary, pendingMovement, a)
         /\ Settled(points, segments, FALSE, a)
  BY LayoutTyped
<1>3. current.points \in Seq(Point) /\ Len(current.points) \in Nat
  BY <1>1, HasPoints
<1> DEFINE n == Len(current.points)
<1>4. /\ Began(points, current, a)
      /\ Run(points, other, a + n) /\ Run(points, buffer, a + n + Len(other))
      /\ a + n + Len(other) + Len(buffer) = Len(points) + 1
  <2>1. Began(points, current, a)
    BY <1>1, <1>2, UnsettledBegan, Zenon
  <2>2. CASE buffer = pendingMovement /\ other = pendingStationary
    BY <1>2, <2>1, <2>2 DEF Unsettled
  <2>3. CASE buffer = pendingStationary /\ other = pendingMovement
    <3>1. buffer = <<>> \/ other = <<>>
      BY <2>3 DEF TypeOK
    <3>2. /\ Run(points, buffer, a + n)
          /\ Run(points, other, a + n + Len(buffer))
          /\ a + n + Len(buffer) + Len(other) = Len(points) + 1
      BY <1>2, <2>3 DEF Unsettled
    <3>3. a + n \in Nat
      BY <1>3
    <3> HIDE DEF n
    <3>4. CASE buffer = <<>>
      <4>1. Len(buffer) = 0
        BY <3>4
      <4>2. Run(points, other, a + n) /\ a + n + Len(other) = Len(points) + 1
        BY <1>1, <3>2, <3>3, <4>1
      <4>3. Run(points, <<>>, a + n + Len(other))
        <5>1. a + n + Len(other) \in 1 .. Len(points) + 1
          BY <1>1, <4>2
        <5>2. QED
          BY <1>1, <5>1, RunEmpty
      <4>4. QED
        BY <1>1, <2>1, <3>3, <3>4, <4>1, <4>2, <4>3
    <3>5. CASE other = <<>>
      <4>1. Len(other) = 0
        BY <3>5
      <4>2. Run(points, buffer, a + n) /\ a + n + Len(buffer) = Len(points) + 1
        BY <1>1, <3>2, <3>3, <4>1
      <4>3. a + n + Len(other) = a + n /\ Run(points, <<>>, a + n)
        <5>1. a + n \in 1 .. Len(points) + 1
          BY <1>1, <1>3, <4>2 DEF n
        <5>2. QED
          BY <1>1, <3>3, <4>1, <5>1, RunEmpty
      <4>4. QED
        BY <1>1, <2>1, <3>3, <3>5, <4>2, <4>3
    <3>6. QED
      BY <3>1, <3>4, <3>5
  <2>4. QED
    BY <2>2, <2>3
<1>5. /\ Began(qts, current, a) /\ Run(qts, other, a + n)
      /\ Run(qts, full, a + n + Len(other)) /\ Len(full) = Len(buffer) + 1
  <2>1. a \in Nat \ {0} /\ a + n \in Nat \ {0} /\ a + n + Len(other) \in Nat \ {0}
    BY SMTT(30), <1>1, <1>3
  <2>2. Began(qts, current, a)
    BY <1>1, <1>4, BeganOn
  <2> HIDE DEF n, qts
  <2>3. Run(qts, other, a + n)
    BY <1>1, <1>4, <2>1, RunOn
  <2>4. Run(qts, full, a + n + Len(other)) /\ Len(full) = Len(buffer) + 1
    BY <1>1, <1>4, <2>1, RunAppended DEF qts
  <2>5. QED
    BY <2>2, <2>3, <2>4
<1>6. ASSUME NEW c \in Nat, a <= c
      PROVE  Settled(qts, segments, FALSE, c)
  <2>1. SegmentsGoOn(segments, segments) /\ DOMAIN segments \ DOMAIN segments = {}
    BY <1>1 DEF SegmentsGoOn
  <2> HIDE DEF qts
  <2>2. a \in Nat
    BY <1>1
  <2>3. QED
    BY <1>1, <1>2, <1>6, <2>1, <2>2, SettledOn
<1>7. CASE current = None
  <2>1. b = None /\ b.points = <<>> /\ Len(b.points) = 0 /\ n = 0
    BY <1>7 DEF Absorbed, None
  <2> DEFINE c == a + Len(other)
  <2>2. /\ c \in 1 .. Len(qts) + 1 /\ c \in Nat /\ a <= c
        /\ c + Len(b.points) = c /\ a + n + Len(other) = c
        /\ c + Len(full) = Len(qts) + 1
    <3> HIDE DEF b, n, qts, full
    <3>1. /\ a + n + Len(other) + Len(buffer) = Len(points) + 1
          /\ Len(qts) = Len(points) + 1 /\ Len(full) = Len(buffer) + 1
          /\ a \in Nat \ {0}
      BY <1>1, <1>4, <1>5
    <3>2. /\ Len(other) \in Nat /\ Len(buffer) \in Nat /\ Len(points) \in Nat
          /\ n = 0 /\ Len(b.points) = 0
      BY <1>1, <2>1
    <3>3. QED
      BY SMTT(30), <3>1, <3>2
  <2>3. Began(qts, b, c)
    <3>1. Run(qts, <<>>, c)
      BY <1>1, <2>2, RunEmpty
    <3>2. QED
      BY <2>1, <3>1 DEF Began
  <2> HIDE DEF b, n, qts, full, c
  <2>4. Run(qts, full, c + Len(b.points)) /\ c + Len(b.points) + Len(full) = Len(qts) + 1
    BY <1>5, <2>2
  <2>5. QED
    BY <1>6, <2>2, <2>3, <2>4 DEF b, qts, full
<1>8. CASE current # None
  <2>1. a \in 1 .. Len(qts) + 1 /\ a \in Nat /\ a <= a
    BY <1>1
  <2>2. Began(qts, b, a) /\ Len(b.points) = n + Len(other)
    BY <1>1, <1>5, <1>8, <2>1, AbsorbedBegan
  <2> HIDE DEF b, n, qts, full
  <2>3. /\ a + Len(b.points) = a + n + Len(other)
        /\ a + Len(b.points) + Len(full) = Len(qts) + 1
    <3>1. /\ a + n + Len(other) + Len(buffer) = Len(points) + 1
          /\ Len(qts) = Len(points) + 1 /\ Len(full) = Len(buffer) + 1
      BY <1>1, <1>4, <1>5
    <3>2. /\ Len(other) \in Nat /\ Len(buffer) \in Nat /\ Len(points) \in Nat
          /\ n \in Nat /\ Len(b.points) = n + Len(other)
      BY <1>1, <1>3, <2>2 DEF n
    <3>3. QED
      BY <2>1, <3>1, <3>2
  <2>4. Run(qts, full, a + Len(b.points))
    BY <1>5, <2>3
  <2>5. QED
    BY <1>6, <2>1, <2>2, <2>3, <2>4 DEF b, qts, full
<1>9. QED
  BY <1>7, <1>8

LEMMA PutBehind ==
  ASSUME NEW buffer \in Seq(Point), NEW p \in Point
  PROVE  LET full == Append(buffer, p)
             n == Len(buffer) IN
         /\ full \in Seq(Point) /\ full # <<>> /\ n \in Nat
         /\ Len(full) = n + 1 /\ DOMAIN full = 1 .. n + 1 /\ full[n + 1] = p
         /\ \A i \in 1 .. n : i \in DOMAIN buffer /\ full[i] = buffer[i]
         /\ full[1] \in Point
<1> DEFINE full == Append(buffer, p)
           n == Len(buffer)
<1>1. /\ full \in Seq(Point) /\ full # <<>> /\ n \in Nat
      /\ Len(full) = n + 1 /\ full[n + 1] = p
      /\ \A i \in 1 .. n : i \in DOMAIN buffer /\ full[i] = buffer[i]
  OBVIOUS
<1>2. DOMAIN full = 1 .. n + 1 /\ 1 \in DOMAIN full
  BY <1>1
<1>3. full[1] \in Point
  BY <1>1, <1>2
<1>4. QED
  BY <1>1, <1>2, <1>3

LEMMA Counted ==
  ASSUME NEW l \in Nat, NEW m \in Nat \ {0}, NEW n \in Nat, NEW c \in 1 .. n + 1,
         c + l + m = n + 1
  PROVE  /\ c + l \in Nat \ {0} /\ c + l + m - 1 = n
         /\ c + l \in 1 .. n + 1 /\ c + l + Len(<<>>) = c + l
         /\ c + l + m \in 1 .. n + 1 /\ c + l + m + Len(<<>>) = n + 1
<1>1. Len(<<>>) = 0
  OBVIOUS
<1>2. QED
  BY <1>1

LEMMA MovingLays ==
  ASSUME TypeOK, LayoutInv, window = NoWindow, NEW p \in NextPoints, StepMoving(p)
  PROVE  Layout(Append(points, p), current', pendingStationary', pendingMovement', segments',
                FALSE)
<1> DEFINE qts == Append(points, p)
           b == Absorbed(current, pendingStationary)
           full == Append(pendingMovement, p)
<1>1. /\ segments \in Seq(Segment) /\ current \in Building \cup {None}
      /\ pendingMovement \in Seq(Point) /\ pendingStationary \in Seq(Point) /\ p \in Point
      /\ qts \in Seq(Point) /\ InOrder(qts) /\ Ordered(segments)
  BY LayoutTyped, Appended DEF LayoutInv, Layout
<1>2. PICK c \in 1 .. Len(qts) + 1 :
         /\ Began(qts, b, c) /\ Run(qts, full, c + Len(b.points))
         /\ c + Len(b.points) + Len(full) = Len(qts) + 1
         /\ Settled(qts, segments, FALSE, c)
  BY <1>1, Prepared
<1>3. b \in Building \cup {None} /\ Len(b.points) \in Nat
  BY <1>1, AbsorbedTyped, HasPoints
<1>4. /\ full \in Seq(Point) /\ full # <<>> /\ Len(full) \in Nat \ {0} /\ Len(qts) \in Nat
      /\ \A i \in DOMAIN full : IsMoving(full[i])
  <2>1. /\ DOMAIN full = 1 .. Len(pendingMovement) + 1 /\ full[Len(pendingMovement) + 1] = p
        /\ \A i \in 1 .. Len(pendingMovement) :
              i \in DOMAIN pendingMovement /\ full[i] = pendingMovement[i]
        /\ full \in Seq(Point) /\ full # <<>> /\ Len(full) = Len(pendingMovement) + 1
        /\ Len(pendingMovement) \in Nat
    BY <1>1, PutBehind, Zenon
  <2>2. IsMoving(p) /\ \A i \in DOMAIN pendingMovement : IsMoving(pendingMovement[i])
    BY DEF StepMoving, LayoutInv, Layout, Pending
  <2>3. Len(qts) \in Nat
    BY <1>1
  <2> HIDE DEF full
  <2>4. QED
    BY <2>1, <2>2, <2>3
<1>5. pendingStationary' = <<>>
  BY DEF StepMoving
<1>6. CASE MovementConfirmed(full)
  <2>1. pendingMovement' = <<>> /\ Confirm(b, "journey", full)
    BY <1>6 DEF StepMoving
  <2> HIDE DEF b, full, qts
  <2>2. c + Len(b.points) \in Nat \ {0} /\ c + Len(b.points) + Len(full) - 1 = Len(qts)
    BY <1>2, <1>3, <1>4, Counted
  <2>3. IsEvidence(qts, "journey", full[1].at, c + Len(b.points) + Len(full) - 1)
    BY <1>1, <1>2, <1>4, <1>6, <2>2, MovingEvidence
  <2>4. Layout(qts, current', <<>>, <<>>, segments', FALSE)
    BY <1>1, <1>2, <1>3, <1>4, <2>1, <2>2, <2>3, ConfirmLays
  <2>5. QED
    BY <1>5, <2>1, <2>4 DEF qts
<1>7. CASE ~MovementConfirmed(full)
  <2>1. pendingMovement' = full /\ current' = b /\ segments' = segments
    BY <1>7 DEF StepMoving
  <2> HIDE DEF b, full, qts
  <2>2. Pending(<<>>, full)
    BY <1>4 DEF Pending
  <2>3. Unsettled(qts, b, <<>>, full, c)
    <3>1. /\ c + Len(b.points) + Len(<<>>) = c + Len(b.points)
          /\ c + Len(b.points) \in 1 .. Len(qts) + 1
      BY <1>2, <1>3, <1>4, Counted
    <3>2. Run(qts, <<>>, c + Len(b.points))
      BY <1>1, <3>1, RunEmpty
    <3>3. QED
      BY <1>2, <3>1, <3>2, UnsettledBegan
  <2>4. Layout(qts, b, <<>>, full, segments, FALSE)
    BY <1>1, <1>2, <2>2, <2>3 DEF Layout
  <2>5. QED
    BY <1>5, <2>1, <2>4 DEF qts
<1>8. QED
  BY <1>6, <1>7

LEMMA StationaryLays ==
  ASSUME TypeOK, LayoutInv, window = NoWindow, NEW p \in NextPoints, StepStationary(p)
  PROVE  Layout(Append(points, p), current', pendingStationary', pendingMovement', segments',
                FALSE)
<1> DEFINE qts == Append(points, p)
           b == Absorbed(current, pendingMovement)
           full == Append(pendingStationary, p)
           n == Len(pendingStationary)
           kind == IF Works(previous, p) THEN "active_static" ELSE "stationary"
<1>1. /\ segments \in Seq(Segment) /\ current \in Building \cup {None}
      /\ pendingMovement \in Seq(Point) /\ pendingStationary \in Seq(Point) /\ p \in Point
      /\ qts \in Seq(Point) /\ InOrder(qts) /\ Ordered(segments)
      /\ points \in Seq(Point) /\ Len(points) \in Nat /\ Len(qts) = Len(points) + 1
      /\ points # <<>> /\ GoesOn(points, qts)
  BY LayoutTyped, Appended DEF LayoutInv, Layout, StepStationary
<1>2. PICK c \in 1 .. Len(qts) + 1 :
         /\ Began(qts, b, c) /\ Run(qts, full, c + Len(b.points))
         /\ c + Len(b.points) + Len(full) = Len(qts) + 1
         /\ Settled(qts, segments, FALSE, c)
  BY <1>1, Prepared
<1>3. b \in Building \cup {None} /\ Len(b.points) \in Nat
  BY <1>1, AbsorbedTyped, HasPoints
<1>4. /\ full \in Seq(Point) /\ full # <<>> /\ Len(full) = n + 1 /\ n \in Nat
      /\ DOMAIN full = 1 .. n + 1 /\ full[n + 1] = p
      /\ \A i \in 1 .. n : i \in DOMAIN pendingStationary /\ full[i] = pendingStationary[i]
      /\ full[1] \in Point
  BY <1>1, PutBehind, Zenon
<1>5. p.at \in Nat /\ full[1].at \in Nat /\ StationaryConfirmationSeconds \in Nat
  BY <1>1, <1>4, ConfigAssumption DEF Point
<1>6. /\ \A i \in DOMAIN full : ~IsMoving(full[i])
      /\ \A i \in DOMAIN full :
            i < Len(full) => full[i].at < full[1].at + StationaryConfirmationSeconds
  <2>1. /\ ~IsMoving(p)
        /\ \A i \in DOMAIN pendingStationary :
              /\ ~IsMoving(pendingStationary[i])
              /\ pendingStationary[i].at < pendingStationary[1].at + StationaryConfirmationSeconds
    BY DEF StepStationary, LayoutInv, Layout, Pending
  <2> HIDE DEF full, n
  <2>2. \A i \in DOMAIN full : i \in 1 .. n \/ i = n + 1
    BY <1>4
  <2>3. \A i \in DOMAIN full : i < Len(full) => i \in 1 .. n /\ 1 \in 1 .. n
    BY <1>4
  <2>4. QED
    BY <1>4, <2>1, <2>2, <2>3
<1>7. pendingMovement' = <<>>
  BY DEF StepStationary
<1>8. CASE p.at - full[1].at >= StationaryConfirmationSeconds
  <2>1. pendingStationary' = <<>> /\ Confirm(b, kind, full)
    BY <1>8 DEF StepStationary
  <2>2. kind \in StopKinds /\ kind \in {"journey"} \cup StopKinds
    BY DEF StopKinds
  <2>3. c + Len(b.points) \in Nat \ {0} /\ c + Len(b.points) + Len(full) - 1 = Len(qts)
    <3> HIDE DEF b, full, qts, n
    <3>1. Len(full) \in Nat \ {0} /\ Len(qts) \in Nat
      BY <1>1, <1>4
    <3>2. QED
      BY <1>2, <1>3, <3>1, Counted
  <2>4. kind = "active_static" =>
           /\ full[Len(full)].works
           /\ Len(full) > 1 => ~IsSilence(full[Len(full) - 1], full[Len(full)])
    <3> SUFFICES ASSUME kind = "active_static"
                 PROVE  /\ full[Len(full)].works
                        /\ Len(full) > 1 => ~IsSilence(full[Len(full) - 1], full[Len(full)])
      OBVIOUS
    <3>1. p.works /\ ~IsSilence(previous, p)
      BY DEF Works
    <3>2. Len(full) > 1 => full[Len(full) - 1] = previous
      <4> SUFFICES ASSUME n > 0 PROVE full[n] = previous
        BY <1>4
      <4>1. full[n] = qts[c + Len(b.points) + n - 1]
        <5> HIDE DEF b, full, qts, n
        <5>1. n \in 1 .. Len(full)
          BY <1>4
        <5>2. QED
          BY <1>2, <5>1 DEF Run
      <4>2. c + Len(b.points) + n - 1 = Len(points) /\ Len(points) \in 1 .. Len(points)
        <5> HIDE DEF b, full, qts, n
        <5>1. c + Len(b.points) + n - 1 = Len(points)
          <6>1. c + Len(b.points) + Len(full) - 1 = Len(qts)
            BY <2>3
          <6>2. /\ Len(full) = n + 1 /\ Len(qts) = Len(points) + 1 /\ n \in Nat
                /\ c + Len(b.points) \in Nat /\ Len(points) \in Nat
            BY <1>1, <1>4, <2>3
          <6>3. QED
            BY <6>1, <6>2
        <5>2. Len(points) # 0
          BY <1>1
        <5>3. QED
          BY <1>1, <5>1, <5>2
      <4>3. qts[Len(points)] = points[Len(points)]
        BY <1>1, <4>2 DEF GoesOn
      <4>4. QED
        BY <4>1, <4>2, <4>3 DEF previous
    <3>3. QED
      BY <1>4, <3>1, <3>2
  <2>5. full[Len(full)].at >= full[1].at + StationaryConfirmationSeconds
    BY <1>4, <1>5, <1>8
  <2> HIDE DEF b, full, qts, n, kind
  <2>6. IsEvidence(qts, kind, full[1].at, c + Len(b.points) + Len(full) - 1)
    BY <1>1, <1>2, <1>4, <1>6, <2>2, <2>3, <2>4, <2>5, StillEvidence
  <2>7. Layout(qts, current', <<>>, <<>>, segments', FALSE)
    BY <1>1, <1>2, <1>3, <1>4, <2>1, <2>2, <2>3, <2>6, ConfirmLays
  <2>8. QED
    BY <1>7, <2>1, <2>7 DEF qts
<1>9. CASE ~(p.at - full[1].at >= StationaryConfirmationSeconds)
  <2>1. pendingStationary' = full /\ current' = b /\ segments' = segments
    BY <1>9 DEF StepStationary
  <2>2. full[n + 1].at < full[1].at + StationaryConfirmationSeconds
    BY <1>4, <1>5, <1>9
  <2> HIDE DEF b, full, qts, n
  <2>3. Pending(full, <<>>)
    <3>1. \A i \in DOMAIN full : i < Len(full) \/ i = n + 1
      BY <1>4
    <3>2. QED
      BY <1>6, <2>2, <3>1 DEF Pending
  <2>4. Unsettled(qts, b, full, <<>>, c)
    <3>1. /\ c + Len(b.points) + Len(full) + Len(<<>>) = Len(qts) + 1
          /\ c + Len(b.points) + Len(full) \in 1 .. Len(qts) + 1
      <4>1. Len(full) \in Nat \ {0} /\ Len(qts) \in Nat
        BY <1>1, <1>4
      <4>2. QED
        BY <1>2, <1>3, <4>1, Counted
    <3>2. Run(qts, <<>>, c + Len(b.points) + Len(full))
      BY <1>1, <3>1, RunEmpty
    <3>3. QED
      BY <1>2, <3>1, <3>2, UnsettledBegan
  <2>5. Layout(qts, b, full, <<>>, segments, FALSE)
    BY <1>1, <1>2, <2>3, <2>4 DEF Layout
  <2>6. QED
    BY <1>7, <2>1, <2>5 DEF qts
<1>10. QED
  BY <1>8, <1>9

LEMMA SeedLays ==
  ASSUME TypeOK, LayoutInv, window = NoWindow, NEW p \in NextPoints, Seed(p)
  PROVE  Layout(Append(points, p), current', pendingStationary', pendingMovement', segments',
                FALSE)
<1> DEFINE qts == Append(points, p)
<1>1. /\ points = <<>> /\ qts \in Seq(Point) /\ InOrder(qts) /\ Len(qts) = 1
      /\ Ordered(segments) /\ Pending(pendingStationary, pendingMovement)
      /\ segments \in Seq(Segment) /\ Len(points) = 0
  <2>1. points = <<>> /\ Len(points) = 0
    BY DEF Seed
  <2>2. InOrder(points) /\ Ordered(segments) /\ Pending(pendingStationary, pendingMovement)
    BY DEF LayoutInv, Layout
  <2>3. qts \in Seq(Point) /\ InOrder(qts) /\ Len(qts) = Len(points) + 1
    BY <2>2, Appended
  <2>4. segments \in Seq(Segment)
    BY LayoutTyped
  <2> HIDE DEF qts
  <2>5. QED
    BY <2>1, <2>2, <2>3, <2>4
<1>2. PICK a \in 1 .. Len(points) + 1 :
         /\ Unsettled(points, current, pendingStationary, pendingMovement, a)
         /\ Settled(points, segments, FALSE, a)
  BY LayoutTyped
<1>3. current = None /\ pendingStationary = <<>> /\ pendingMovement = <<>>
  <2>1. /\ a + Len(current.points) + Len(pendingStationary) + Len(pendingMovement) = 1
        /\ a = 1
    BY <1>1, <1>2 DEF Unsettled
  <2>2. /\ Len(current.points) \in Nat /\ Len(pendingStationary) \in Nat
        /\ Len(pendingMovement) \in Nat
        /\ current.points \in Seq(Point) /\ pendingStationary \in Seq(Point)
        /\ pendingMovement \in Seq(Point)
    BY LayoutTyped, HasPoints
  <2>3. Len(current.points) = 0 /\ Len(pendingStationary) = 0 /\ Len(pendingMovement) = 0
    BY <2>1, <2>2
  <2>4. current.points = <<>> /\ pendingStationary = <<>> /\ pendingMovement = <<>>
    BY <2>2, <2>3
  <2>5. QED
    BY <2>4, LayoutTyped
<1>4. DOMAIN segments = {}
  BY <1>1, <1>2 DEF Settled
<1>5. /\ current' = None /\ pendingStationary' = <<>> /\ pendingMovement' = <<>>
      /\ segments' = segments
  BY <1>3 DEF Seed, engineVars
<1>6. Unsettled(qts, None, <<>>, <<>>, 2)
  <2> HIDE DEF qts
  <2>1. None.points = <<>> /\ Len(<<>>) = 0
    BY DEF None
  <2>2. 2 \in 1 .. Len(qts) + 1
    BY <1>1
  <2>3. Run(qts, <<>>, 2)
    BY <1>1, <2>2, RunEmpty
  <2> HIDE DEF qts
  <2>4. QED
    BY <1>1, <2>1, <2>3 DEF Unsettled
<1>7. Settled(qts, segments, FALSE, 2)
  BY <1>4 DEF Settled
<1> HIDE DEF qts
<1>8. 2 \in 1 .. Len(qts) + 1
  BY <1>1
<1>9. Layout(qts, None, <<>>, <<>>, segments, FALSE)
  BY <1>1, <1>6, <1>7, <1>8, NothingPending DEF Layout
<1>10. QED
  BY <1>5, <1>9 DEF qts

LEMMA GapSpan ==
  ASSUME NEW qts \in Seq(Point), NEW m \in Nat \ {0}, Len(qts) = m + 1,
         NEW segs, NEW k, segs[k] = Gap(qts[m], qts[m + 1])
  PROVE  Span(qts, segs, FALSE, k, m, m + 1, m + 2)
<1>1. /\ segs[k].startAt = qts[m].at /\ segs[k].endAt = qts[m + 1].at
      /\ segs[k].points = <<>> /\ ~IsStretch(segs[k])
  <2> DEFINE g == Gap(qts[m], qts[m + 1])
  <2>1. /\ g.startAt = qts[m].at /\ g.endAt = qts[m + 1].at /\ g.points = <<>>
        /\ g.kind = "data_gap"
    BY DEF Gap
  <2>2. segs[k] = g
    OBVIOUS
  <2> HIDE DEF g
  <2>3. QED
    BY <2>1, <2>2 DEF IsStretch
<1>2. Run(qts, <<>>, m) /\ Len(<<>>) = 0
  BY RunEmpty
<1>3. QED
  BY <1>1, <1>2 DEF Span

LEMMA GapLays ==
  ASSUME TypeOK, LayoutInv, window = NoWindow, NEW p \in NextPoints, CloseGapAndReset(p)
  PROVE  Layout(Append(points, p), current', pendingStationary', pendingMovement', segments',
                FALSE)
<1> DEFINE qts == Append(points, p)
           m == Len(points)
           g == Gap(previous, p)
<1>1. /\ points \in Seq(Point) /\ m \in Nat \ {0} /\ p \in Point
      /\ qts \in Seq(Point) /\ InOrder(qts) /\ Len(qts) = m + 1 /\ GoesOn(points, qts)
      /\ InOrder(points) /\ Ordered(segments) /\ segments \in Seq(Segment)
      /\ current \in Building \cup {None} /\ (current # None => current.points # <<>>)
      /\ qts[m + 1] = p /\ qts[m] = points[m] /\ previous = points[m] /\ points[m] \in Point
  <2>1. points # <<>>
    BY DEF CloseGapAndReset
  <2>2. points \in Seq(Point) /\ m \in Nat \ {0} /\ points[m] \in Point /\ previous = points[m]
    BY <2>1, LayoutTyped DEF previous
  <2>3. GoesOn(points, qts)
    BY Appended DEF LayoutInv, Layout
  <2>4. qts[m] = points[m]
    BY <2>2, <2>3 DEF GoesOn
  <2>5. QED
    BY <2>2, <2>3, <2>4, LayoutTyped, Appended DEF LayoutInv, Layout
<1>2. PICK a \in 1 .. Len(points) + 1 :
         /\ Unsettled(points, current, pendingStationary, pendingMovement, a)
         /\ Settled(points, segments, FALSE, a)
  BY LayoutTyped
<1>3. Began(points, current, a)
  BY <1>1, <1>2, UnsettledBegan, Zenon
<1>4. /\ current' = None /\ pendingStationary' = <<>> /\ pendingMovement' = <<>>
      /\ segments' = segments \o Closed(current, previous.at, "data_gap") \o <<g>>
  BY DEF CloseGapAndReset
<1>5. g \in Segment /\ g.startAt = points[m].at /\ points[m].at \in Nat
  <2>1. previous \in Point /\ p \in Point
    BY <1>1
  <2>2. g \in Segment
    BY <2>1 DEF Gap, Segment, Point
  <2>3. g.startAt = previous.at /\ previous.at \in Nat
    BY <2>1 DEF Gap, Point
  <2>4. previous.at = points[m].at
    BY <1>1
  <2> HIDE DEF g, m
  <2>5. QED
    BY <2>2, <2>3, <2>4
<1>6. \A k \in DOMAIN segments : segments[k].endAt <= points[m].at
  <2>1. m \in DOMAIN points
    BY <1>1
  <2>2. a \in Nat
    BY <1>1
  <2>3. QED
    BY <1>1, <1>2, <2>1, <2>2, EndsBefore
<1>7. /\ SegmentsGoOn(segments, segments') /\ Ordered(segments')
      /\ \A k \in DOMAIN segments' \ DOMAIN segments :
            \E d, e \in 1 .. Len(qts) : Span(qts, segments', FALSE, k, d, e, m + 2)
  <2>1. m \in 1 .. Len(qts) /\ m + 1 \in 1 .. Len(qts)
    BY <1>1
  <2>2. g = Gap(qts[m], qts[m + 1])
    BY <1>1
  <2>3. CASE current = None
    <3> HIDE DEF g, qts
    <3>1. segments' = Append(segments, g)
      BY <1>1, <1>4, <1>5, <2>3 DEF Closed
    <3>2. /\ SegmentsGoOn(segments, segments') /\ segments'[Len(segments) + 1] = g
          /\ DOMAIN segments' \ DOMAIN segments = {Len(segments) + 1}
      BY <1>1, <1>5, <3>1 DEF SegmentsGoOn
    <3>3. Ordered(segments')
      BY <1>1, <1>5, <1>6, <3>1, OrderedOn
    <3>4. Span(qts, segments', FALSE, Len(segments) + 1, m, m + 1, m + 2)
      BY <1>1, <2>2, <3>2, GapSpan
    <3>5. QED
      BY <2>1, <3>2, <3>3, <3>4
  <2>4. CASE current # None
    <3> DEFINE s == [kind |-> current.kind, startAt |-> current.startAt,
                     endAt |-> previous.at, points |-> current.points,
                     endReason |-> IF current.kind = "journey" THEN "data_gap" ELSE "",
                     startsBefore |-> FALSE, endsAfter |-> FALSE]
               l == Len(segments)
    <3>1. current \in Building /\ current.points # <<>>
      BY <1>1, <2>4
    <3>2. s \in Segment
      BY <1>1, <1>5, <3>1 DEF Building, Segment
    <3>3. Closed(current, previous.at, "data_gap") = <<s>>
      BY <2>4 DEF Closed
    <3>4. /\ s.kind = current.kind /\ s.startAt = current.startAt
          /\ s.points = current.points /\ s.endAt = points[m].at /\ s.endAt = qts[m].at
      BY <1>1
    <3>5. g.kind = "data_gap"
      BY DEF Gap
    <3> HIDE DEF g, qts, s
    <3>6. segments' = Append(Append(segments, s), g) /\ Append(segments, s) \in Seq(Segment)
      <4>1. segments \o <<s>> = Append(segments, s) /\ Append(segments, s) \in Seq(Segment)
        BY <1>1, <3>2
      <4> DEFINE mid == Append(segments, s)
      <4>2. segments' = mid \o <<g>>
        BY <1>4, <3>3, <4>1
      <4>3. mid \in Seq(Segment)
        BY <4>1
      <4> HIDE DEF mid
      <4>4. segments' = Append(mid, g)
        BY <1>5, <4>2, <4>3
      <4>5. QED
        BY <4>1, <4>4 DEF mid
    <3>7. /\ SegmentsGoOn(segments, segments') /\ segments' \in Seq(Segment)
          /\ segments'[l + 1] = s /\ segments'[l + 2] = g /\ l \in Nat
          /\ Len(segments') = l + 2
          /\ DOMAIN segments' \ DOMAIN segments = {l + 1, l + 2}
          /\ l + 1 \in DOMAIN segments' /\ l + 1 < Len(segments')
      BY <1>1, <1>5, <3>2, <3>6 DEF SegmentsGoOn
    <3>8. /\ a \in 1 .. m /\ current.startAt = points[a].at
          /\ a + Len(current.points) - 1 <= m /\ Len(current.points) \in Nat \ {0}
      <4>1. Len(current.points) \in Nat \ {0}
        BY <1>1, <3>1, HasPoints
      <4>2. a + Len(current.points) <= m + 1
        BY <1>3 DEF Began, Run
      <4>3. QED
        BY <1>1, <1>3, <2>4, <4>1, <4>2 DEF Began
    <3>9. Ordered(segments')
      <4>1. \A k \in DOMAIN segments : segments[k].endAt <= s.startAt
        <5>1. a \in DOMAIN points /\ a \in Nat /\ a <= a
          BY <1>1, <3>8
        <5>2. QED
          BY <1>1, <1>2, <3>4, <3>8, <5>1, EndsBefore
      <4>2. Ordered(Append(segments, s))
        BY <1>1, <3>2, <4>1, OrderedOn
      <4>3. \A k \in DOMAIN Append(segments, s) : Append(segments, s)[k].endAt <= g.startAt
        BY <1>1, <1>5, <1>6, <3>2, <3>4
      <4>4. QED
        BY <1>5, <3>6, <4>2, <4>3, OrderedOn
    <3>10. Span(qts, segments', FALSE, l + 2, m, m + 1, m + 2)
      BY <1>1, <2>2, <3>7, GapSpan
    <3>11. Span(qts, segments', FALSE, l + 1, a, m, m + 2)
      <4>1. Began(qts, current, a)
        BY <1>1, <1>3, BeganOn
      <4>2. /\ Run(qts, current.points, a) /\ current.startAt = qts[a].at
            /\ \E j \in a .. a + Len(current.points) - 1 :
                  IsEvidence(qts, current.kind, current.startAt, j)
        BY <2>4, <4>1 DEF Began
      <4>3. /\ a \in 1 .. Len(qts) /\ m \in 1 .. Len(qts) /\ m + 2 \in Nat
            /\ m <= m + 2 /\ a + Len(current.points) - 1 < m + 2
            /\ a + Len(current.points) - 1 <= m
        BY <1>1, <2>1, <3>8
      <4>4. segments'[l + 1 + 1].kind = "data_gap"
        BY <3>5, <3>7
      <4>5. QED
        BY <1>1, <3>1, <3>4, <3>7, <4>2, <4>3, <4>4, ClosedSpan
    <3>12. a \in 1 .. Len(qts)
      BY <1>1, <3>8
    <3>13. QED
      BY <2>1, <3>7, <3>9, <3>10, <3>11, <3>12
  <2>5. QED
    BY <2>3, <2>4
<1>8. Settled(qts, segments', FALSE, m + 2)
  <2>1. a \in Nat /\ m + 2 \in Nat /\ a <= m + 2
    BY <1>1
  <2> DEFINE c == m + 2
  <2>2. a \in Nat /\ c \in Nat /\ a <= c /\ Settled(points, segments, FALSE, a)
    BY <1>2, <2>1
  <2>3. /\ GoesOn(points, qts) /\ SegmentsGoOn(segments, segments')
        /\ \A k \in DOMAIN segments' \ DOMAIN segments :
              \E d, e \in 1 .. Len(qts) : Span(qts, segments', FALSE, k, d, e, c)
    BY <1>1, <1>7
  <2> HIDE DEF qts, m, c
  <2>4. Settled(qts, segments', FALSE, c)
    BY <2>2, <2>3, SettledOn, Zenon
  <2>5. QED
    BY <2>4 DEF c
<1>9. Unsettled(qts, None, <<>>, <<>>, m + 2)
  <2> HIDE DEF qts, m
  <2>1. None.points = <<>> /\ Len(<<>>) = 0 /\ Run(qts, <<>>, m + 2)
    BY <1>1, RunEmpty DEF None
  <2>2. QED
    BY <1>1, <2>1 DEF Unsettled
<1> HIDE DEF qts, m
<1>10. m + 2 \in 1 .. Len(qts) + 1
  BY <1>1
<1>11. Layout(qts, None, <<>>, <<>>, segments', FALSE)
  BY <1>1, <1>7, <1>8, <1>9, <1>10, NothingPending DEF Layout
<1>12. QED
  BY <1>4, <1>11 DEF qts

LEMMA FinishLays ==
  ASSUME TypeOK, LayoutInv, Finish
  PROVE  Layout(points, current', pendingStationary', pendingMovement', segments', TRUE)
<1> DEFINE rest == pendingStationary \o pendingMovement
           b == Absorbed(current, rest)
           last == b.points[Len(b.points)].at
           m == Len(points)
           l == Len(segments)
<1>1. /\ points \in Seq(Point) /\ m \in Nat /\ l \in Nat /\ InOrder(points)
      /\ Ordered(segments) /\ segments \in Seq(Segment)
      /\ current \in Building \cup {None} /\ (current # None => current.points # <<>>)
      /\ pendingStationary \in Seq(Point) /\ pendingMovement \in Seq(Point)
      /\ window = NoWindow
  <2>1. window = NoWindow
    BY DEF Finish
  <2>2. InOrder(points) /\ Ordered(segments)
    BY DEF LayoutInv, Layout
  <2>3. segments \in Seq(Segment) /\ l \in Nat
    BY <2>1, LayoutTyped
  <2>4. QED
    BY <2>1, <2>2, <2>3, LayoutTyped, Zenon
<1>2. PICK a \in 1 .. Len(points) + 1 :
         /\ Unsettled(points, current, pendingStationary, pendingMovement, a)
         /\ Settled(points, segments, FALSE, a)
  BY <1>1, LayoutTyped
<1>3. Began(points, current, a)
  BY <1>1, <1>2, UnsettledBegan, Zenon
<1>4. /\ current' = None /\ pendingStationary' = <<>> /\ pendingMovement' = <<>>
      /\ segments' = segments \o Closed(b, last, "report_end")
  BY DEF Finish
<1>5. GoesOn(points, points)
  BY <1>1 DEF GoesOn
<1>6. /\ SegmentsGoOn(segments, segments') /\ Ordered(segments')
      /\ \A k \in DOMAIN segments' \ DOMAIN segments :
            \E d, e \in 1 .. Len(points) : Span(points, segments', TRUE, k, d, e, m + 1)
  <2>1. CASE current = None
    <3>1. segments' = segments
      <4>1. b = None
        BY <2>1 DEF Absorbed
      <4>2. QED
        BY <1>1, <1>4, <4>1 DEF Closed
    <3>2. SegmentsGoOn(segments, segments) /\ DOMAIN segments \ DOMAIN segments = {}
      BY <1>1 DEF SegmentsGoOn
    <3>3. QED
      BY <1>1, <3>1, <3>2
  <2>2. CASE current # None
    <3> DEFINE n == Len(current.points)
    <3>1. current.points \in Seq(Point) /\ n \in Nat
      BY <1>1, HasPoints
    <3>2. /\ Run(points, rest, a + n) /\ rest \in Seq(Point)
          /\ Len(rest) = Len(pendingStationary) + Len(pendingMovement)
      <4>1. /\ Run(points, pendingStationary, a + n)
            /\ Run(points, pendingMovement, a + n + Len(pendingStationary))
        BY <1>2 DEF Unsettled
      <4>2. a + n \in Nat \ {0}
        BY <1>1, <3>1
      <4> HIDE DEF n
      <4>3. QED
        BY <1>1, <4>1, <4>2, RunJoined
    <3> HIDE DEF rest
    <3>3. /\ Began(points, b, a) /\ Len(b.points) = n + Len(rest)
          /\ b \in Building /\ b.kind = current.kind /\ b # None
      BY <1>1, <1>3, <2>2, <3>2, AbsorbedBegan, AbsorbedTyped
    <3> HIDE DEF b
    <3>4. b.points # <<>> /\ b.points \in Seq(Point) /\ Len(b.points) \in Nat \ {0}
      BY <3>3, HasPoints DEF Began
    <3>5. a + Len(b.points) = m + 1
      <4>1. a + n + Len(pendingStationary) + Len(pendingMovement) = m + 1
        BY <1>2 DEF Unsettled
      <4>2. Len(pendingStationary) \in Nat /\ Len(pendingMovement) \in Nat
        BY <1>1
      <4> HIDE DEF n, m
      <4>3. Len(b.points) = n + Len(pendingStationary) + Len(pendingMovement)
        BY <3>1, <3>2, <3>3, <4>2
      <4>4. QED
        BY <1>1, <3>1, <4>1, <4>2, <4>3
    <3>6. /\ a \in 1 .. m /\ m \in 1 .. m /\ a \in DOMAIN points
          /\ a + Len(b.points) - 1 = m
      BY <1>1, <3>4, <3>5
    <3>7. last = points[m].at /\ last \in Nat
      <4>1. b.points[Len(b.points)] = points[a + Len(b.points) - 1]
        <5>1. Len(b.points) \in 1 .. Len(b.points)
          BY <3>4
        <5>2. QED
          BY <3>3, <5>1 DEF Began, Run
      <4>2. points[m] \in Point
        BY <1>1, <3>6
      <4>3. QED
        BY <3>6, <4>1, <4>2 DEF Point
    <3> DEFINE s == [kind |-> b.kind, startAt |-> b.startAt, endAt |-> last,
                     points |-> b.points,
                     endReason |-> IF b.kind = "journey" THEN "report_end" ELSE "",
                     startsBefore |-> FALSE, endsAfter |-> FALSE]
    <3>8. Closed(b, last, "report_end") = <<s>>
      BY <3>3 DEF Closed
    <3>9. s \in Segment
      BY <3>3, <3>7 DEF Building, Segment
    <3>10. /\ s.kind = b.kind /\ s.startAt = b.startAt /\ s.points = b.points
           /\ s.endAt = points[m].at
      BY <3>7
    <3> HIDE DEF s, last
    <3>11. segments' = Append(segments, s)
      <4>1. segments' = segments \o <<s>>
        BY <1>4, <3>8 DEF last
      <4>2. QED
        BY <1>1, <3>9, <4>1
    <3>12. /\ SegmentsGoOn(segments, segments') /\ segments' \in Seq(Segment)
           /\ segments'[l + 1] = s /\ Len(segments') = l + 1
           /\ DOMAIN segments' \ DOMAIN segments = {l + 1}
           /\ l + 1 \in DOMAIN segments'
      BY <1>1, <3>9, <3>11 DEF SegmentsGoOn
    <3>13. /\ Run(points, b.points, a) /\ b.startAt = points[a].at
           /\ \E j \in a .. a + Len(b.points) - 1 : IsEvidence(points, b.kind, b.startAt, j)
      BY <3>3 DEF Began
    <3>14. Ordered(segments')
      <4>1. a \in Nat /\ a <= a
        BY <3>6
      <4>2. \A k \in DOMAIN segments : segments[k].endAt <= s.startAt
        BY <1>1, <1>2, <3>6, <3>10, <3>13, <4>1, EndsBefore
      <4>3. QED
        BY <1>1, <3>9, <3>11, <4>2, OrderedOn
    <3>15. Span(points, segments', TRUE, l + 1, a, m, m + 1)
      <4>1. /\ m <= m + 1 /\ a + Len(b.points) - 1 < m + 1 /\ a + Len(b.points) - 1 <= m
            /\ m = a + Len(b.points) - 1 /\ m + 1 \in Nat
        BY SMTT(30), <1>1, <3>6
      <4>2. QED
        BY <1>1, <3>3, <3>4, <3>6, <3>10, <3>12, <3>13, <4>1, ClosedSpan
    <3>16. QED
      BY <3>6, <3>12, <3>14, <3>15
  <2>3. QED
    BY <2>1, <2>2
<1>7. Settled(points, segments', TRUE, m + 1)
  <2> DEFINE c == m + 1
  <2>1. a \in Nat /\ c \in Nat /\ a <= c /\ Settled(points, segments, FALSE, a)
    <3>1. a \in Nat /\ a <= Len(points) + 1 /\ m \in Nat
      BY <1>1
    <3> HIDE DEF m
    <3>2. c \in Nat
      BY <3>1
    <3>3. QED
      BY <1>2, <3>1, <3>2 DEF m
  <2>2. /\ SegmentsGoOn(segments, segments')
        /\ \A k \in DOMAIN segments' \ DOMAIN segments :
              \E d, e \in 1 .. Len(points) : Span(points, segments', TRUE, k, d, e, c)
    BY <1>6
  <2> HIDE DEF m, c
  <2>3. Settled(points, segments', TRUE, c)
    BY <1>5, <2>1, <2>2, SettledOn, Zenon
  <2>4. QED
    BY <2>3 DEF c
<1>8. Unsettled(points, None, <<>>, <<>>, m + 1) /\ m + 1 \in 1 .. Len(points) + 1
  <2>1. None.points = <<>> /\ Len(<<>>) = 0
    BY DEF None
  <2>2. m + 1 \in 1 .. Len(points) + 1
    BY <1>1
  <2>3. Run(points, <<>>, m + 1)
    BY <1>1, <2>2, RunEmpty
  <2>4. QED
    BY <1>1, <2>1, <2>2, <2>3 DEF Unsettled
<1> HIDE DEF m
<1>9. Layout(points, None, <<>>, <<>>, segments', TRUE)
  BY <1>1, <1>6, <1>7, <1>8, NothingPending DEF Layout
<1>10. QED
  BY <1>4, <1>9

LEMMA LayoutInitial == Init => LayoutInv
<1> SUFFICES ASSUME Init PROVE LayoutInv
  OBVIOUS
<1>1. /\ points = <<>> /\ current.points = <<>> /\ current = None
      /\ pendingStationary = <<>> /\ pendingMovement = <<>> /\ segments = <<>>
  BY DEF Init, None
<1>2. <<>> \in Seq(Point) /\ 1 \in 1 .. Len(<<>>) + 1 /\ Len(<<>>) = 0 /\ DOMAIN <<>> = {}
  OBVIOUS
<1>3. Run(<<>>, <<>>, 1)
  BY <1>2, RunEmpty
<1>4. Unsettled(points, current, pendingStationary, pendingMovement, 1)
  BY <1>1, <1>2, <1>3 DEF Unsettled
<1>5. Settled(points, segments, window # NoWindow, 1)
  BY <1>1, <1>2 DEF Settled
<1>6. InOrder(points) /\ Ordered(segments)
  BY <1>1, <1>2 DEF InOrder, Ordered
<1>7. QED
  BY <1>1, <1>2, <1>4, <1>5, <1>6, NothingPending DEF LayoutInv, Layout

(* The points stay where they were, or join what is behind them.           *)
LEMMA LayoutInvariant == TypeOK /\ LayoutInv /\ [Next]_vars => LayoutInv'
<1> SUFFICES ASSUME TypeOK, LayoutInv, [Next]_vars PROVE LayoutInv'
  OBVIOUS
<1>1. CASE UNCHANGED vars
  <2>1. /\ points' = points /\ current' = current /\ segments' = segments
        /\ pendingStationary' = pendingStationary /\ pendingMovement' = pendingMovement
        /\ window' = window
    BY <1>1 DEF vars, engineVars
  <2>2. QED
    BY <2>1 DEF LayoutInv
<1>2. ASSUME NEW p \in NextPoints, Step(p) PROVE LayoutInv'
  <2>1. window = NoWindow /\ points' = Append(points, p) /\ (window' # NoWindow) = FALSE
    BY <1>2 DEF Step
  <2>2. Layout(Append(points, p), current', pendingStationary', pendingMovement', segments',
               FALSE)
    BY <1>2, <2>1, SeedLays, GapLays, MovingLays, StationaryLays DEF Step
  <2>3. QED
    BY <2>1, <2>2 DEF LayoutInv
<1>3. CASE Finish
  <2>1. (window' # NoWindow) = TRUE /\ points' = points
    <3>1. window' \in Windows /\ points' = points
      BY <1>3 DEF Finish
    <3>2. window'.from < window'.to /\ NoWindow.from = 0 /\ NoWindow.to = 0
      BY <3>1, InputAssumption DEF NoWindow
    <3>3. QED
      BY <3>1, <3>2
  <2>2. Layout(points, current', pendingStationary', pendingMovement', segments', TRUE)
    BY <1>3, FinishLays
  <2>3. QED
    BY <2>1, <2>2 DEF LayoutInv
<1>4. QED
  BY <1>1, <1>2, <1>3 DEF Next

-----------------------------------------------------------------------------
(* What the layout says of the points.                                     *)
LEMMA LaidOut ==
  ASSUME TypeOK, LayoutInv
  PROVE  /\ points \in Seq(Point) /\ Len(points) \in Nat /\ InOrder(points)
         /\ segments \in Seq(Segment) /\ Ordered(segments)
         /\ current \in Building \cup {None} /\ (current # None => current.points # <<>>)
         /\ current.points \in Seq(Point) /\ Len(current.points) \in Nat
         /\ pendingStationary \in Seq(Point) /\ Len(pendingStationary) \in Nat
         /\ pendingMovement \in Seq(Point) /\ Len(pendingMovement) \in Nat
         /\ \E a \in 1 .. Len(points) + 1 :
               /\ Unsettled(points, current, pendingStationary, pendingMovement, a)
               /\ Settled(points, segments, window # NoWindow, a)
<1>1. /\ points \in Seq(Point) /\ segments \in Seq(Segment)
      /\ current \in Building \cup {None} /\ (current # None => current.points # <<>>)
      /\ pendingStationary \in Seq(Point) /\ pendingMovement \in Seq(Point)
  BY DEF TypeOK, PointTypes, SegmentTypes
<1>2. current.points \in Seq(Point) /\ Len(current.points) \in Nat
  BY <1>1, HasPoints
<1>3. Len(points) \in Nat /\ Len(pendingStationary) \in Nat /\ Len(pendingMovement) \in Nat
  BY <1>1
<1>4. QED
  BY <1>1, <1>2, <1>3, Zenon DEF LayoutInv, Layout

LEMMA TimesFollow ==
  ASSUME NEW pts \in Seq(Point), InOrder(pts), NEW x \in DOMAIN pts, NEW y \in DOMAIN pts
  PROVE  /\ pts[x].at \in Nat /\ pts[y].at \in Nat
         /\ pts[x].at <= pts[y].at <=> x <= y
         /\ pts[x].at < pts[y].at <=> x < y
<1>1. pts[x] \in Point /\ pts[y] \in Point
  OBVIOUS
<1>2. pts[x].at \in Nat /\ pts[y].at \in Nat
  BY <1>1 DEF Point
<1>3. (x < y => pts[x].at < pts[y].at) /\ (y < x => pts[y].at < pts[x].at)
  BY DEF InOrder
<1>4. x < y \/ x = y \/ y < x
  OBVIOUS
<1>5. QED
  BY <1>2, <1>3, <1>4

LEMMA SegmentSpans ==
  ASSUME TypeOK, LayoutInv, NEW a \in 1 .. Len(points) + 1,
         Settled(points, segments, window # NoWindow, a), NEW k \in DOMAIN segments
  PROVE  \E d, e \in DOMAIN points : \E b \in Int :
            /\ segments[k].points \in Seq(Point) /\ b = d + Len(segments[k].points) - 1
            /\ segments[k].startAt = points[d].at /\ segments[k].endAt = points[e].at
            /\ Run(points, segments[k].points, d) /\ b < a
            /\ IF IsStretch(segments[k])
               THEN /\ d <= b /\ b <= e
                    /\ \/ e = b + 1
                       \/ k < Len(segments) /\ segments[k + 1].kind = "data_gap"
                       \/ k = Len(segments) /\ e = b
                    /\ \E j \in d .. b :
                          IsEvidence(points, segments[k].kind, segments[k].startAt, j)
               ELSE segments[k].points = <<>> /\ e = d + 1
<1>1. PICK d \in 1 .. Len(points), e \in 1 .. Len(points) :
         Span(points, segments, window # NoWindow, k, d, e, a)
  BY DEF Settled
<1>2. d \in DOMAIN points /\ e \in DOMAIN points
  BY SMTT(30), LaidOut
<1>3. segments[k].points \in Seq(Point)
  <2>1. segments[k] \in Segment
    BY LaidOut
  <2>2. QED
    BY <2>1 DEF Segment
<1>4. d + Len(segments[k].points) - 1 \in Int
  BY <1>3
<1>5. QED
  BY <1>1, <1>2, <1>3, <1>4 DEF Span

(* The evidence a segment or the current one has is what Confirmed asks for.*)
LEMMA LayoutConfirms == TypeOK /\ LayoutInv => Confirmed
<1> SUFFICES ASSUME TypeOK, LayoutInv PROVE Confirmed
  OBVIOUS
<1>1. PICK a \in 1 .. Len(points) + 1 :
         /\ Unsettled(points, current, pendingStationary, pendingMovement, a)
         /\ Settled(points, segments, window # NoWindow, a)
  BY LaidOut
<1>2. ASSUME NEW s \in Range(segments), IsStretch(s)
      PROVE  \E j \in DOMAIN points :
                points[j].at <= s.endAt /\ IsEvidence(points, s.kind, s.startAt, j)
  <2>1. PICK k \in DOMAIN segments : s = segments[k]
    BY <1>2 DEF Range
  <2>2. PICK d \in DOMAIN points, e \in DOMAIN points, b \in Int :
          /\ s.endAt = points[e].at /\ Run(points, s.points, d) /\ b = d + Len(s.points) - 1
          /\ d <= b /\ b <= e /\ s.points \in Seq(Point)
          /\ \E j \in d .. b : IsEvidence(points, s.kind, s.startAt, j)
    BY <1>1, <1>2, <2>1, SegmentSpans
  <2>3. PICK j \in d .. b : IsEvidence(points, s.kind, s.startAt, j)
    BY <2>2
  <2>4. j \in DOMAIN points /\ j <= e
    <3>1. DOMAIN points = 1 .. Len(points) /\ Len(points) \in Nat
      BY LaidOut
    <3>2. QED
      BY <2>2, <2>3, <3>1
  <2>5. points[j].at <= s.endAt
    BY <2>2, <2>4, LaidOut, TimesFollow
  <2>6. QED
    BY <2>3, <2>4, <2>5
<1>3. ASSUME current # None
      PROVE  \E j \in DOMAIN points : IsEvidence(points, current.kind, current.startAt, j)
  <2>1. PICK j \in a .. a + Len(current.points) - 1 :
          IsEvidence(points, current.kind, current.startAt, j)
    BY <1>1, <1>3 DEF Unsettled
  <2>2. j \in DOMAIN points
    <3>1. a + Len(current.points) <= Len(points) + 1
      BY <1>1 DEF Unsettled, Run
    <3>2. DOMAIN points = 1 .. Len(points) /\ Len(points) \in Nat /\ Len(current.points) \in Nat
      BY LaidOut
    <3>3. QED
      BY <2>1, <3>1, <3>2
  <2>3. QED
    BY <2>1, <2>2
<1>4. QED
  BY <1>2, <1>3 DEF Confirmed

(* t holds points that come after those of s.                              *)
Behind(s, t) ==
    /\ s \in Seq(Point) /\ t \in Seq(Point)
    /\ \E x, y \in Nat \ {0} :
          /\ Run(points, s, x) /\ Run(points, t, y)
          /\ s = <<>> \/ t = <<>> \/ x + Len(s) <= y

LEMMA RunInOrder ==
  ASSUME points \in Seq(Point), InOrder(points), NEW s \in Seq(Point), NEW x \in Nat \ {0},
         Run(points, s, x)
  PROVE  InOrder(s)
<1> SUFFICES ASSUME NEW i \in DOMAIN s, NEW j \in DOMAIN s, i < j
             PROVE  s[i].at < s[j].at
  BY DEF InOrder
<1>1. /\ x + i - 1 \in DOMAIN points /\ x + j - 1 \in DOMAIN points
      /\ s[i] = points[x + i - 1] /\ s[j] = points[x + j - 1] /\ x + i - 1 < x + j - 1
  <2>1. /\ i \in 1 .. Len(s) /\ j \in 1 .. Len(s) /\ Len(s) \in Nat
        /\ DOMAIN points = 1 .. Len(points) /\ Len(points) \in Nat
    OBVIOUS
  <2>2. /\ s[i] = points[x + i - 1] /\ s[j] = points[x + j - 1]
        /\ x + Len(s) <= Len(points) + 1
    BY <2>1 DEF Run
  <2>3. QED
    BY <2>1, <2>2
<1>2. QED
  BY <1>1 DEF InOrder

LEMMA BehindIsLater ==
  ASSUME points \in Seq(Point), InOrder(points), NEW s, NEW t, Behind(s, t),
         NEW p \in Range(s), NEW q \in Range(t)
  PROVE  p.at < q.at
<1>1. PICK i \in DOMAIN s, j \in DOMAIN t : p = s[i] /\ q = t[j]
  BY DEF Range
<1>2. s \in Seq(Point) /\ t \in Seq(Point) /\ s # <<>> /\ t # <<>>
  BY DEF Behind
<1>3. PICK x \in Nat \ {0}, y \in Nat \ {0} :
         Run(points, s, x) /\ Run(points, t, y) /\ x + Len(s) <= y
  BY <1>2 DEF Behind
<1>4. /\ x + i - 1 \in DOMAIN points /\ y + j - 1 \in DOMAIN points
      /\ s[i] = points[x + i - 1] /\ t[j] = points[y + j - 1] /\ x + i - 1 < y + j - 1
  <2>1. /\ i \in 1 .. Len(s) /\ j \in 1 .. Len(t) /\ Len(s) \in Nat /\ Len(t) \in Nat
        /\ DOMAIN points = 1 .. Len(points) /\ Len(points) \in Nat
    BY <1>2
  <2>2. /\ s[i] = points[x + i - 1] /\ t[j] = points[y + j - 1]
        /\ x + Len(s) <= Len(points) + 1 /\ y + Len(t) <= Len(points) + 1
    BY <1>3, <2>1 DEF Run
  <2>3. QED
    BY SMTT(30), <1>3, <2>1, <2>2
<1>5. QED
  BY <1>1, <1>4 DEF InOrder

LEMMA OpenIsBehind ==
  ASSUME TypeOK, LayoutInv
  PROVE  /\ Behind(current.points, pendingStationary)
         /\ Behind(current.points, pendingMovement)
         /\ Behind(pendingStationary, pendingMovement)
         /\ \A k \in DOMAIN segments :
               /\ Behind(segments[k].points, current.points)
               /\ Behind(segments[k].points, pendingStationary)
               /\ Behind(segments[k].points, pendingMovement)
<1>1. PICK a \in 1 .. Len(points) + 1 :
         /\ Unsettled(points, current, pendingStationary, pendingMovement, a)
         /\ Settled(points, segments, window # NoWindow, a)
  BY LaidOut
<1> DEFINE x == a + Len(current.points)
           y == x + Len(pendingStationary)
<1>2. /\ current.points \in Seq(Point) /\ pendingStationary \in Seq(Point)
      /\ pendingMovement \in Seq(Point) /\ points \in Seq(Point)
  BY LaidOut
<1>3. /\ a \in Nat \ {0} /\ x \in Nat \ {0} /\ y \in Nat \ {0} /\ a <= x /\ x <= y
      /\ a + Len(current.points) = x /\ x + Len(pendingStationary) = y
  <2>1. a \in Nat \ {0} /\ Len(current.points) \in Nat /\ Len(pendingStationary) \in Nat
    BY LaidOut
  <2>2. QED
    BY <2>1
<1>4. /\ Run(points, current.points, a) /\ Run(points, pendingStationary, x)
      /\ Run(points, pendingMovement, y)
  BY <1>1 DEF Unsettled
<1> HIDE DEF x, y
<1>5. /\ Behind(current.points, pendingStationary)
      /\ Behind(current.points, pendingMovement)
      /\ Behind(pendingStationary, pendingMovement)
  <2>1. /\ a + Len(current.points) <= x /\ a + Len(current.points) <= y
        /\ x + Len(pendingStationary) <= y
    BY <1>3
  <2>2. QED
    BY <1>2, <1>3, <1>4, <2>1 DEF Behind
<1>6. ASSUME NEW k \in DOMAIN segments, NEW t \in Seq(Point), NEW z \in Nat \ {0}, a <= z,
             Run(points, t, z)
      PROVE  Behind(segments[k].points, t)
  <2>1. PICK d \in DOMAIN points, b \in Int :
          /\ segments[k].points \in Seq(Point) /\ b = d + Len(segments[k].points) - 1
          /\ Run(points, segments[k].points, d) /\ b < a
    BY <1>1, SegmentSpans
  <2>2. d \in Nat \ {0} /\ Len(segments[k].points) \in Nat
    BY SMTT(30), <1>2, <2>1
  <2>3. d + Len(segments[k].points) <= z
    BY SMTT(30), <1>3, <1>6, <2>1, <2>2
  <2>4. QED
    BY <1>6, <2>1, <2>2, <2>3 DEF Behind
<1>7. a <= a /\ a <= y
  BY <1>3
<1>8. QED
  BY <1>2, <1>3, <1>4, <1>5, <1>6, <1>7

LEMMA SegmentsBehind ==
  ASSUME TypeOK, LayoutInv, NEW k \in DOMAIN segments, NEW l \in DOMAIN segments, k < l
  PROVE  Behind(segments[k].points, segments[l].points)
<1>1. PICK a \in 1 .. Len(points) + 1 : Settled(points, segments, window # NoWindow, a)
  BY LaidOut
<1>2. PICK d \in DOMAIN points, e \in DOMAIN points, b \in Int :
         /\ segments[k].points \in Seq(Point) /\ b = d + Len(segments[k].points) - 1
         /\ segments[k].startAt = points[d].at /\ segments[k].endAt = points[e].at
         /\ Run(points, segments[k].points, d) /\ b < a
         /\ IF IsStretch(segments[k])
            THEN /\ d <= b /\ b <= e
                 /\ \/ e = b + 1
                    \/ k < Len(segments) /\ segments[k + 1].kind = "data_gap"
                    \/ k = Len(segments) /\ e = b
                 /\ \E j \in d .. b :
                       IsEvidence(points, segments[k].kind, segments[k].startAt, j)
            ELSE segments[k].points = <<>> /\ e = d + 1
  BY <1>1, SegmentSpans
<1>3. PICK f \in DOMAIN points :
         /\ segments[l].points \in Seq(Point)
         /\ segments[l].startAt = points[f].at
         /\ Run(points, segments[l].points, f)
         /\ IsStretch(segments[l]) \/ segments[l].points = <<>>
  BY <1>1, SegmentSpans
<1>4. /\ points \in Seq(Point) /\ InOrder(points) /\ Ordered(segments)
      /\ DOMAIN segments = 1 .. Len(segments) /\ Len(segments) \in Nat
      /\ d \in Nat \ {0} /\ e \in Nat /\ f \in Nat \ {0}
  <2>1. points \in Seq(Point) /\ InOrder(points) /\ Ordered(segments) /\ segments \in Seq(Segment)
    BY LaidOut
  <2>2. DOMAIN points = 1 .. Len(points) /\ Len(points) \in Nat
    BY <2>1
  <2>3. DOMAIN segments = 1 .. Len(segments) /\ Len(segments) \in Nat
    BY <2>1
  <2>4. d \in Nat \ {0} /\ e \in Nat /\ f \in Nat \ {0}
    BY <2>2
  <2>5. QED
    BY <2>1, <2>3, <2>4
<1>5. CASE segments[k].points = <<>> \/ segments[l].points = <<>>
  BY <1>2, <1>3, <1>4, <1>5 DEF Behind
<1>6. CASE IsStretch(segments[k]) /\ IsStretch(segments[l])
  <2>1. e <= f
    <3>1. points[e].at <= points[f].at
      BY <1>2, <1>3, <1>4 DEF Ordered
    <3>2. QED
      BY <1>4, <3>1, TimesFollow
  <2>2. b < f
    <3>1. CASE e = b + 1
      BY <1>4, <2>1, <3>1
    <3>2. CASE segments[k + 1].kind = "data_gap" /\ k < Len(segments)
      <4>1. k + 1 \in DOMAIN segments /\ ~IsStretch(segments[k + 1])
        BY <1>4, <3>2 DEF IsStretch
      <4>2. PICK g \in DOMAIN points, h \in DOMAIN points :
              /\ segments[k + 1].startAt = points[g].at /\ segments[k + 1].endAt = points[h].at
              /\ h = g + 1
        BY <1>1, <4>1, SegmentSpans
      <4>3. k + 1 # l
        BY <1>6, <4>1
      <4>4. k < k + 1 /\ k + 1 < l
        BY SMTT(30), <1>4, <4>3
      <4>5. points[e].at <= points[g].at /\ points[h].at <= points[f].at
        BY <1>2, <1>3, <4>1, <4>2, <4>4, <1>4 DEF Ordered
      <4>6. e <= g /\ h <= f
        BY <1>4, <4>5, TimesFollow
      <4>7. b <= e
        BY <1>2, <1>6
      <4>8. g \in Nat
        BY <1>4
      <4>9. QED
        BY SMTT(30), <1>4, <4>2, <4>6, <4>7, <4>8
    <3>3. k # Len(segments)
      BY <1>4
    <3>4. QED
      BY <1>2, <1>6, <3>1, <3>2, <3>3
  <2>3. d + Len(segments[k].points) <= f
    <3>1. Len(segments[k].points) \in Nat
      BY <1>2
    <3>2. QED
      BY SMTT(30), <1>2, <1>4, <2>2, <3>1
  <2>4. QED
    BY <1>2, <1>3, <1>4, <2>3 DEF Behind
<1>7. QED
  BY <1>2, <1>3, <1>5, <1>6

LEMMA PlacesAre ==
  ASSUME segments \in Seq(Segment)
  PROVE  LET n == Len(segments) IN
         /\ n \in Nat /\ DOMAIN Places = 1 .. n + 3 /\ DOMAIN segments = 1 .. n
         /\ \A i \in 1 .. n : Places[i] = segments[i].points
         /\ Places[n + 1] = current.points
         /\ Places[n + 2] = pendingStationary
         /\ Places[n + 3] = pendingMovement
<1> DEFINE n == Len(segments)
           some == [i \in DOMAIN segments |-> segments[i].points]
           rest == << current.points, pendingStationary, pendingMovement >>
           U == {some[i] : i \in 1 .. n} \cup {rest[i] : i \in 1 .. 3}
<1>1. n \in Nat /\ DOMAIN segments = 1 .. n
  OBVIOUS
<1>2. some \in Seq(U) /\ Len(some) = n /\ \A i \in 1 .. n : some[i] = segments[i].points
  <2>1. some \in [1 .. n -> U]
    BY <1>1
  <2> HIDE DEF U, some
  <2>2. some \in Seq(U) /\ Len(some) = n
    BY <1>1, <2>1
  <2>3. QED
    BY <1>1, <2>2 DEF some
<1>3. /\ rest \in Seq(U) /\ Len(rest) = 3 /\ rest[1] = current.points
      /\ rest[2] = pendingStationary /\ rest[3] = pendingMovement
  <2>1. rest \in [1 .. 3 -> U]
    OBVIOUS
  <2>2. Len(rest) = 3 /\ DOMAIN rest = 1 .. 3
    OBVIOUS
  <2> HIDE DEF U
  <2>3. QED
    BY <2>1, <2>2
<1>4. Places = some \o rest
  BY DEF Places
<1> HIDE DEF some, rest, U, n
<1>5. /\ DOMAIN Places = 1 .. n + 3
      /\ \A i \in 1 .. n : Places[i] = some[i]
      /\ Places[n + 1] = rest[1] /\ Places[n + 2] = rest[2] /\ Places[n + 3] = rest[3]
  <2>1. /\ Len(some \o rest) = n + 3 /\ some \o rest \in Seq(U)
        /\ \A i \in 1 .. n + 3 :
              (some \o rest)[i] = IF i <= n THEN some[i] ELSE rest[i - n]
    <3>1. some \in Seq(U) /\ rest \in Seq(U)
      BY <1>2, <1>3
    <3>2. /\ Len(some \o rest) = Len(some) + Len(rest) /\ some \o rest \in Seq(U)
          /\ \A i \in 1 .. Len(some) + Len(rest) :
                (some \o rest)[i] = IF i <= Len(some) THEN some[i] ELSE rest[i - Len(some)]
      BY <3>1
    <3>3. QED
      BY <1>2, <1>3, <3>2, Zenon
  <2>2. /\ (n + 1) - n = 1 /\ (n + 2) - n = 2 /\ (n + 3) - n = 3
        /\ n + 1 \in 1 .. n + 3 /\ n + 2 \in 1 .. n + 3 /\ n + 3 \in 1 .. n + 3
        /\ ~(n + 1 <= n) /\ ~(n + 2 <= n) /\ ~(n + 3 <= n)
        /\ \A i \in 1 .. n : i <= n /\ i \in 1 .. n + 3
    BY <1>1
  <2>3. DOMAIN Places = 1 .. n + 3
    BY <1>1, <1>4, <2>1
  <2>4. QED
    BY <1>4, <2>1, <2>2, <2>3
<1>6. QED
  BY <1>1, <1>2, <1>3, <1>5 DEF n

LEMMA LayoutPlacesOnce == TypeOK /\ LayoutInv => EveryPointOnce
<1> SUFFICES ASSUME TypeOK, LayoutInv PROVE EveryPointOnce
  OBVIOUS
<1> DEFINE n == Len(segments)
<1>1. /\ points \in Seq(Point) /\ InOrder(points) /\ Len(points) \in Nat
      /\ segments \in Seq(Segment)
  BY LaidOut
<1>2. /\ n \in Nat /\ DOMAIN Places = 1 .. n + 3 /\ DOMAIN segments = 1 .. n
      /\ \A i \in 1 .. n : Places[i] = segments[i].points
      /\ Places[n + 1] = current.points
      /\ Places[n + 2] = pendingStationary
      /\ Places[n + 3] = pendingMovement
  BY <1>1, PlacesAre
<1> HIDE DEF n
<1>3. ASSUME NEW i \in DOMAIN Places, NEW j \in DOMAIN Places, i < j
      PROVE  Behind(Places[i], Places[j])
  <2>1. /\ i \in 1 .. n \/ i = n + 1 \/ i = n + 2 \/ i = n + 3
        /\ j \in 1 .. n \/ j = n + 1 \/ j = n + 2 \/ j = n + 3
    BY <1>2
  <2>2. CASE i \in 1 .. n /\ j \in 1 .. n
    BY <1>2, <1>3, <2>2, SegmentsBehind
  <2>3. CASE i \in 1 .. n /\ j \notin 1 .. n
    <3>1. i \in DOMAIN segments /\ Places[i] = segments[i].points
      BY <1>2, <2>3
    <3>2. QED
      BY <1>2, <2>1, <2>3, <3>1, OpenIsBehind
  <2>4. CASE i \notin 1 .. n
    <3>1. \/ i = n + 1 /\ j = n + 2
          \/ i = n + 1 /\ j = n + 3
          \/ i = n + 2 /\ j = n + 3
      BY <1>2, <1>3, <2>1, <2>4
    <3>2. QED
      BY <1>2, <3>1, OpenIsBehind
  <2>5. QED
    BY <2>2, <2>3, <2>4
<1>4. ASSUME NEW i \in DOMAIN Places
      PROVE  InOrder(Places[i])
  <2>1. PICK x \in Nat \ {0} : Run(points, Places[i], x) /\ Places[i] \in Seq(Point)
    <3>1. CASE i < n + 3
      <4>1. n + 3 \in DOMAIN Places
        BY <1>2
      <4>2. Behind(Places[i], Places[n + 3])
        BY <1>3, <3>1, <4>1
      <4>3. QED
        BY <4>2 DEF Behind
    <3>2. CASE i = n + 3
      BY <1>2, <3>2, OpenIsBehind DEF Behind
    <3>3. QED
      BY <1>2, <3>1, <3>2
  <2>2. QED
    BY <1>1, <2>1, RunInOrder
<1>5. \A i, j \in DOMAIN Places : i < j =>
         \A p \in Range(Places[i]), q \in Range(Places[j]) : p.at < q.at
  BY <1>1, <1>3, BehindIsLater
<1>6. ASSUME NEW s \in Range(segments), NEW p \in Range(s.points)
      PROVE  s.startAt <= p.at /\ p.at <= s.endAt
  <2>1. PICK a \in 1 .. Len(points) + 1 : Settled(points, segments, window # NoWindow, a)
    BY LaidOut
  <2>2. PICK k \in DOMAIN segments : s = segments[k]
    BY <1>6 DEF Range
  <2>3. PICK d \in DOMAIN points, e \in DOMAIN points, b \in Int :
           /\ s.points \in Seq(Point) /\ b = d + Len(s.points) - 1
           /\ s.startAt = points[d].at /\ s.endAt = points[e].at
           /\ Run(points, s.points, d)
           /\ b <= e \/ s.points = <<>>
    BY <2>1, <2>2, SegmentSpans
  <2>4. PICK i \in DOMAIN s.points : p = s.points[i]
    BY <1>6 DEF Range
  <2>5. /\ i \in 1 .. Len(s.points) /\ Len(s.points) \in Nat /\ s.points # <<>>
        /\ DOMAIN points = 1 .. Len(points)
    <3>1. s.points \in Seq(Point)
      BY <2>3
    <3>2. i \in 1 .. Len(s.points) /\ Len(s.points) \in Nat /\ s.points # <<>>
      BY <2>4, <3>1
    <3>3. DOMAIN points = 1 .. Len(points)
      BY <1>1
    <3>4. QED
      BY <3>2, <3>3
  <2>6. p = points[d + i - 1] /\ d + Len(s.points) <= Len(points) + 1
    BY <2>3, <2>4, <2>5 DEF Run
  <2>7. d + i - 1 \in DOMAIN points /\ d <= d + i - 1 /\ d + i - 1 <= e
    <3>1. d \in Nat \ {0} /\ e \in Nat
      BY <1>1, <2>5
    <3>2. b = d + Len(s.points) - 1 /\ b <= e
      BY <2>3, <2>5
    <3>3. d + i - 1 <= b /\ d <= d + i - 1
      <4>1. i \in Nat /\ 1 <= i /\ i <= Len(s.points) /\ Len(s.points) \in Nat
        BY <2>5
      <4>2. QED
        BY SMTT(30), <3>1, <3>2, <4>1
    <3>4. e <= Len(points) /\ Len(points) \in Nat /\ d + i - 1 \in Int
      BY <1>1, <2>5, <3>1
    <3>5. d + i - 1 <= e /\ d + i - 1 \in 1 .. Len(points)
      BY <3>1, <3>2, <3>3, <3>4
    <3>6. QED
      BY <2>5, <3>3, <3>5
  <2>8. points[d].at <= points[d + i - 1].at /\ points[d + i - 1].at <= points[e].at
    BY <1>1, <2>7, TimesFollow
  <2>9. QED
    BY <2>3, <2>6, <2>8
<1>7. QED
  BY <1>4, <1>5, <1>6 DEF EveryPointOnce

LEMMA LayoutKeepsPoints == TypeOK /\ LayoutInv => PointsAreKept
<1> SUFFICES ASSUME TypeOK, LayoutInv PROVE PointsAreKept
  OBVIOUS
<1>1. /\ points \in Seq(Point) /\ InOrder(points) /\ Len(points) \in Nat
      /\ segments \in Seq(Segment) /\ DOMAIN points = 1 .. Len(points)
  BY LaidOut
<1>2. PICK a \in 1 .. Len(points) + 1 :
         /\ Unsettled(points, current, pendingStationary, pendingMovement, a)
         /\ Settled(points, segments, window # NoWindow, a)
  BY LaidOut
<1>3. ASSUME NEW k \in DOMAIN segments, IsStretch(segments[k]), NEW p \in Range(points),
             segments[k].startAt <= p.at, p.at < segments[k].endAt
      PROVE  \/ p \in Range(segments[k].points)
             \/ /\ k < Len(segments) /\ segments[k + 1].kind = "data_gap"
                /\ \A q \in Range(segments[k].points) : q.at < p.at
  <2> DEFINE s == segments[k]
  <2>1. PICK d \in DOMAIN points, e \in DOMAIN points, b \in Int :
           /\ s.points \in Seq(Point) /\ b = d + Len(s.points) - 1
           /\ s.startAt = points[d].at /\ s.endAt = points[e].at
           /\ Run(points, s.points, d)
           /\ \/ e = b + 1
              \/ k < Len(segments) /\ segments[k + 1].kind = "data_gap"
              \/ e = b
    BY <1>2, <1>3, SegmentSpans
  <2>2. PICK x \in DOMAIN points : p = points[x]
    BY <1>3 DEF Range
  <2>3. d <= x /\ x < e
    BY <1>1, <1>3, <2>1, <2>2, TimesFollow
  <2> HIDE DEF s
  <2>4. /\ d \in Nat \ {0} /\ x \in Nat /\ e \in Nat /\ Len(s.points) \in Nat
        /\ DOMAIN s.points = 1 .. Len(s.points)
        /\ \A i \in 1 .. Len(s.points) : s.points[i] = points[d + i - 1]
    <3>1. d \in Nat \ {0} /\ x \in Nat /\ e \in Nat
      BY <1>1
    <3>2. Len(s.points) \in Nat /\ DOMAIN s.points = 1 .. Len(s.points)
      BY <2>1
    <3>3. \A i \in 1 .. Len(s.points) : s.points[i] = points[d + i - 1]
      BY <2>1 DEF Run
    <3>4. QED
      BY <3>1, <3>2, <3>3
  <2>5. CASE x <= b
    <3>1. x - d + 1 \in 1 .. Len(s.points) /\ d + (x - d + 1) - 1 = x
      BY SMTT(30), <2>1, <2>3, <2>4, <2>5
    <3>2. p = s.points[x - d + 1]
      BY <2>2, <2>4, <3>1
    <3>3. QED
      BY <2>4, <3>1, <3>2 DEF Range, s
  <2>6. CASE x > b
    <3>1. e # b + 1 /\ e # b
      BY <2>3, <2>4, <2>6
    <3>2. ASSUME NEW q \in Range(s.points)
          PROVE  q.at < p.at
      <4>1. PICK i \in 1 .. Len(s.points) : q = s.points[i]
        BY <2>4 DEF Range
      <4>2. q = points[d + i - 1]
        BY <2>4, <4>1
      <4>3. d + i - 1 \in DOMAIN points /\ d + i - 1 < x
        <5>1. d + i - 1 <= b /\ d + i - 1 >= 1
          <6>1. b = d + Len(s.points) - 1 /\ d \in Nat \ {0} /\ Len(s.points) \in Nat
            BY <2>1, <2>4
          <6>2. QED
            BY <6>1
        <5>2. QED
          BY SMTT(30), <1>1, <2>4, <2>6, <5>1
      <4>4. QED
        BY <1>1, <2>2, <4>2, <4>3 DEF InOrder
    <3>3. QED
      BY <2>1, <3>1, <3>2 DEF s
  <2>7. QED
    BY <2>4, <2>5, <2>6
<1>4. ASSUME current # None, NEW p \in Range(points), p.at >= current.startAt
      PROVE  p \in Range(current.points \o pendingStationary \o pendingMovement)
  <2> DEFINE some == current.points \o pendingStationary
             all == some \o pendingMovement
  <2>1. /\ current.points \in Seq(Point) /\ Len(current.points) \in Nat
        /\ pendingStationary \in Seq(Point) /\ Len(pendingStationary) \in Nat
        /\ pendingMovement \in Seq(Point) /\ Len(pendingMovement) \in Nat
    BY LaidOut
  <2>2. a \in Nat \ {0}
    BY <1>1
  <2>3. /\ Run(points, current.points, a)
        /\ Run(points, pendingStationary, a + Len(current.points))
        /\ Run(points, pendingMovement, a + Len(current.points) + Len(pendingStationary))
        /\ a + Len(current.points) + Len(pendingStationary) + Len(pendingMovement)
              = Len(points) + 1
        /\ current.startAt = points[a].at
    BY <1>2, <1>4 DEF Unsettled
  <2>4. /\ Run(points, some, a) /\ some \in Seq(Point)
        /\ Len(some) = Len(current.points) + Len(pendingStationary)
    BY <1>1, <2>1, <2>2, <2>3, RunJoined
  <2> HIDE DEF some
  <2>5. Run(points, pendingMovement, a + Len(some))
    <3>1. a + Len(some) = a + Len(current.points) + Len(pendingStationary)
      BY <2>1, <2>2, <2>4
    <3>2. QED
      BY <2>3, <3>1
  <2>6. /\ Run(points, all, a) /\ all \in Seq(Point)
        /\ Len(all) = Len(some) + Len(pendingMovement)
    <3>1. /\ points \in Seq(Point) /\ some \in Seq(Point) /\ pendingMovement \in Seq(Point)
          /\ a \in Nat \ {0} /\ Run(points, some, a)
          /\ Run(points, pendingMovement, a + Len(some))
      BY <1>1, <2>1, <2>2, <2>4, <2>5
    <3>2. QED
      BY SMTT(30), <3>1, RunJoined
  <2>7. a + Len(all) = Len(points) + 1
    <3> HIDE DEF all
    <3>1. QED
      BY <2>1, <2>2, <2>3, <2>4, <2>6
  <2> HIDE DEF all
  <2>8. PICK x \in DOMAIN points : p = points[x]
    BY <1>4 DEF Range
  <2>9. a \in DOMAIN points
    <3>1. current \in Building /\ current.points # <<>>
      BY <1>4, LaidOut
    <3>2. Len(current.points) \in Nat \ {0}
      BY <2>1, <3>1
    <3>3. QED
      BY <1>1, <2>2, <2>3, <3>2 DEF Run
  <2>10. a <= x
    <3>1. points[a].at \in Nat /\ points[x].at \in Nat
      BY <1>1, <2>8, <2>9, TimesFollow
    <3>2. points[a].at <= points[x].at
      BY <1>4, <2>3, <2>8, <3>1
    <3>3. QED
      BY <1>1, <2>8, <2>9, <3>2, TimesFollow
  <2>11. x - a + 1 \in 1 .. Len(all) /\ a + (x - a + 1) - 1 = x
    <3>1. Len(all) \in Nat
      BY <2>6
    <3>2. QED
      BY <1>1, <2>2, <2>7, <2>10, <3>1
  <2>12. all[x - a + 1] = points[x] /\ DOMAIN all = 1 .. Len(all)
    BY <2>6, <2>11 DEF Run
  <2>13. p \in Range(all)
    BY <2>8, <2>11, <2>12 DEF Range
  <2>14. QED
    BY <2>13 DEF all, some
<1>5. QED
  BY <1>3, <1>4 DEF PointsAreKept

LEMMA LayoutCorrect == Spec => [](TypeOK /\ LayoutInv)
<1>1. Init => TypeOK /\ LayoutInv
  BY TypeInitial, LayoutInitial
<1>2. TypeOK /\ LayoutInv /\ [Next]_vars => (TypeOK /\ LayoutInv)'
  BY TypeInvariant, LayoutInvariant
<1>3. QED
  BY <1>1, <1>2, PTL DEF Spec

(* Whatever the points, the thresholds and the order in which buffers are  *)
(* confirmed, absorbed and dropped: no point is in two places, those of a  *)
(* segment lie within it, and a point within a journey or a stop is one of *)
(* its points unless a data gap dropped it.                                *)
THEOREM PointsAccountedCorrect == Spec => []PointsAccounted
<1>1. TypeOK /\ LayoutInv => PointsAccounted
  BY LayoutPlacesOnce, LayoutKeepsPoints DEF PointsAccounted
<1>2. QED
  BY <1>1, LayoutCorrect, PTL

(* Every journey and every stop began with a run of points that confirms   *)
(* it, and the run lies within the segment.                                *)
THEOREM ConfirmedCorrect == Spec => []Confirmed
<1>1. QED
  BY LayoutCorrect, LayoutConfirms, PTL

-----------------------------------------------------------------------------
(* Induction.  The library states it for a formula; stated for a set it    *)
(* can be used by every prover.                                            *)

LEMMA LeastNat ==
  ASSUME NEW T \in SUBSET Nat, T # {}
  PROVE  \E n \in T : \A m \in T : n <= m
  <1> DEFINE R == {ss \in Nat \X Nat : ss[1] < ss[2]}
  <1>1. IsWellFoundedOn(R, Nat)
    BY NatLessThanWellFounded DEF OpToRel
  <1>2. PICK n \in T : \A m \in T : ~ (<<m, n>> \in R)
    <2> HIDE DEF R
    <2> QED
      BY <1>1, WFMin
  <1>3. \A m \in T : m \in Nat /\ n \in Nat /\ ~ (m < n)
    BY <1>2
  <1> QED
    BY <1>3

LEMMA NatSetInduction ==
  ASSUME NEW S \in SUBSET Nat, 0 \in S, \A n \in S : n + 1 \in S
  PROVE  S = Nat
  <1> SUFFICES ASSUME Nat \ S # {} PROVE FALSE
    OBVIOUS
  <1>1. PICK n \in Nat \ S : \A m \in Nat \ S : n <= m
    BY LeastNat
  <1>2. n # 0 /\ n - 1 \in Nat /\ n - 1 < n
    BY <1>1
  <1>3. n - 1 \in S
    BY <1>1, <1>2
  <1> QED
    BY <1>1, <1>2, <1>3

-----------------------------------------------------------------------------
(* The entries of a sequence at some of its indices.                       *)

(* How many indices of I come up to i: it grows with i.                    *)
LEMMA RankGrows ==
  ASSUME NEW I, IsFiniteSet(I), I \subseteq Nat, NEW i \in I
  PROVE  /\ Cardinality({j \in I : j <= i}) \in 1 .. Cardinality(I)
         /\ \A h \in I : h < i =>
               Cardinality({j \in I : j <= h}) < Cardinality({j \in I : j <= i})
  <1> DEFINE U(x) == {j \in I : j <= x}
  <1>1. \A x \in I : /\ IsFiniteSet(U(x)) /\ Cardinality(U(x)) \in Nat
                     /\ Cardinality(U(x)) <= Cardinality(I)
    <2> TAKE x \in I
    <2>1. U(x) \in SUBSET I
      OBVIOUS
    <2> HIDE DEF U
    <2> QED
      BY <2>1, FS_Subset, FS_CardinalityType
  <1>2. i \in U(i)
    OBVIOUS
  <1>3. Cardinality(U(i)) # 0
    <2> HIDE DEF U
    <2> QED
      BY <1>1, <1>2, FS_EmptySet
  <1>4. ASSUME NEW h \in I, h < i
        PROVE  Cardinality(U(h)) < Cardinality(U(i))
    <2>1. U(h) \in SUBSET U(i) /\ i \notin U(h)
      <3>1. i \in Nat /\ h \in Nat /\ \A j \in I : j \in Nat
        OBVIOUS
      <3>2. ~ (i <= h) /\ \A j \in I : j <= h => j <= i
        BY <3>1, <1>4
      <3> QED
        BY <3>2
    <2> HIDE DEF U
    <2>2. Cardinality(U(h)) <= Cardinality(U(i)) /\ Cardinality(U(i)) # Cardinality(U(h))
      BY <2>1, <1>1, <1>2, FS_Subset
    <2> QED
      BY <2>2, <1>1
  <1>5. Cardinality(I) \in Nat
    BY FS_CardinalityType
  <1> HIDE DEF U
  <1>6. Cardinality(U(i)) \in 1 .. Cardinality(I)
    BY <1>1, <1>3, <1>5
  <1> QED
    BY <1>4, <1>6 DEF U

(* Nth counts the indices of I upwards, without leaving one out.           *)
LEMMA NthIndex ==
  ASSUME NEW n \in Nat, NEW I \in SUBSET (1 .. n)
  PROVE  /\ Cardinality(I) \in Nat
         /\ \A k \in 1 .. Cardinality(I) : Nth(I, k) \in I
         /\ \A k, l \in 1 .. Cardinality(I) : k < l => Nth(I, k) < Nth(I, l)
         /\ \A i \in I : \E k \in 1 .. Cardinality(I) : Nth(I, k) = i
  <1> DEFINE C == Cardinality(I)
             rank == [i \in I |-> Cardinality({j \in I : j <= i})]
             T == {rank[i] : i \in I}
  <1>1. IsFiniteSet(I) /\ C \in Nat
    <2>1. IsFiniteSet(1 .. n)
      BY FS_Interval
    <2>2. IsFiniteSet(I)
      BY <2>1, FS_Subset
    <2> QED
      BY <2>2, FS_CardinalityType
  <1>a. I \subseteq Nat
    OBVIOUS
  <1>2. \A i \in I : rank[i] \in 1 .. C
    <2> TAKE i \in I
    <2>1. Cardinality({j \in I : j <= i}) \in 1 .. C
      BY <1>1, <1>a, RankGrows
    <2> QED
      BY <2>1
  <1>3. \A i, h \in I : h < i => rank[h] < rank[i]
    <2> SUFFICES ASSUME NEW i \in I, NEW h \in I, h < i
                 PROVE  rank[h] < rank[i]
      OBVIOUS
    <2>1. Cardinality({j \in I : j <= h}) < Cardinality({j \in I : j <= i})
      BY <1>1, <1>a, RankGrows
    <2> QED
      BY <2>1
  <1>4. rank \in [I -> T]
    OBVIOUS
  <1> HIDE DEF rank, C
  <1>5. \A i, h \in I : rank[h] = rank[i] => h = i
    <2> TAKE i, h \in I
    <2>1. i \in Nat /\ h \in Nat
      OBVIOUS
    <2>2. rank[i] \in Nat /\ rank[h] \in Nat
      BY <1>1, <1>2
    <2> QED
      BY <2>1, <2>2, <1>3
  <1>6. rank \in Bijection(I, T)
    BY <1>4, <1>5 DEF Bijection, Injection, Surjection, IsInjective
  <1>7. IsFiniteSet(T) /\ Cardinality(T) = C
    BY <1>6, <1>1, FS_Bijection DEF C, ExistsBijection
  <1>8. T = 1 .. C
    <2>1. T \in SUBSET (1 .. C)
      BY <1>2
    <2>2. IsFiniteSet(1 .. C) /\ Cardinality(1 .. C) = C
      BY <1>1, FS_Interval
    <2> HIDE DEF T
    <2> QED
      BY <2>1, <2>2, <1>7, FS_Subset
  <1>9. \A k \in 1 .. C : Nth(I, k) \in I /\ rank[Nth(I, k)] = k
    <2> TAKE k \in 1 .. C
    <2>1. PICK i \in I : rank[i] = k
      BY <1>8
    <2>2. Nth(I, k) \in I /\ Cardinality({j \in I : j <= Nth(I, k)}) = k
      BY <2>1 DEF Nth, rank
    <2> QED
      BY <2>2 DEF rank
  <1>10. \A k, l \in 1 .. C : k < l => Nth(I, k) < Nth(I, l)
    <2> TAKE k, l \in 1 .. C
    <2> DEFINE a == Nth(I, k)
               b == Nth(I, l)
    <2>1. a \in I /\ b \in I /\ rank[a] = k /\ rank[b] = l
      BY <1>9
    <2> HIDE DEF a, b
    <2>2. a \in Nat /\ b \in Nat /\ k \in Nat /\ l \in Nat
      BY <2>1, <1>1
    <2>3. k < l => a < b
      BY <2>1, <2>2, <1>3
    <2> QED
      BY <2>3 DEF a, b
  <1>11. \A i \in I : \E k \in 1 .. C : Nth(I, k) = i
    <2> TAKE i \in I
    <2>1. rank[i] \in 1 .. C
      BY <1>2
    <2>2. Nth(I, rank[i]) \in I /\ rank[Nth(I, rank[i])] = rank[i]
      BY <2>1, <1>9
    <2> QED
      BY <2>1, <2>2, <1>5
  <1> QED
    BY <1>1, <1>9, <1>10, <1>11 DEF C

(* A filter is a sequence of the entries it lets through, in their order.  *)
LEMMA EntriesTyped ==
  ASSUME NEW S, NEW seq \in Seq(S), NEW I \in SUBSET (DOMAIN seq)
  PROVE  /\ Entries(seq, I) \in Seq(S)
         /\ Len(Entries(seq, I)) = Cardinality(I) /\ Cardinality(I) \in Nat
         /\ \A k \in DOMAIN Entries(seq, I) :
               Nth(I, k) \in I /\ Entries(seq, I)[k] = seq[Nth(I, k)]
         /\ \A k, l \in DOMAIN Entries(seq, I) : k < l => Nth(I, k) < Nth(I, l)
         /\ \A i \in I : \E k \in DOMAIN Entries(seq, I) : Nth(I, k) = i
         /\ Range(Entries(seq, I)) = {seq[i] : i \in I}
  <1>1. I \in SUBSET (1 .. Len(seq)) /\ Len(seq) \in Nat
    OBVIOUS
  <1>2. /\ Cardinality(I) \in Nat
        /\ \A k \in 1 .. Cardinality(I) : Nth(I, k) \in I
        /\ \A k, l \in 1 .. Cardinality(I) : k < l => Nth(I, k) < Nth(I, l)
        /\ \A i \in I : \E k \in 1 .. Cardinality(I) : Nth(I, k) = i
    BY <1>1, NthIndex
  <1>3. \A k \in 1 .. Cardinality(I) : seq[Nth(I, k)] \in S
    BY <1>1, <1>2
  <1>4. /\ Entries(seq, I) = [k \in 1 .. Cardinality(I) |-> seq[Nth(I, k)]]
        /\ DOMAIN Entries(seq, I) = 1 .. Cardinality(I)
    BY DEF Entries
  <1>5. Entries(seq, I) \in Seq(S) /\ Len(Entries(seq, I)) = Cardinality(I)
    BY <1>2, <1>3, <1>4
  <1>6. Range(Entries(seq, I)) = {seq[i] : i \in I}
    <2>1. \A k \in 1 .. Cardinality(I) : Nth(I, k) \in I /\ Entries(seq, I)[k] = seq[Nth(I, k)]
      BY <1>2, <1>4
    <2>2. \A i \in I : \E k \in DOMAIN Entries(seq, I) : Entries(seq, I)[k] = seq[i]
      BY <1>2, <1>4, <2>1
    <2>3. \A k \in DOMAIN Entries(seq, I) : \E i \in I : Entries(seq, I)[k] = seq[i]
      BY <1>4, <2>1
    <2> QED
      BY <2>2, <2>3 DEF Range
  <1> QED
    BY <1>2, <1>4, <1>5, <1>6

-----------------------------------------------------------------------------
(* Sums over a finite set.                                                 *)

Some(s) == CHOOSE x \in s : TRUE

(* g[s] is the sum of f over s, taken in the order of CHOOSE.              *)
IsSum(g, f, D) ==
    g = [s \in SUBSET D |-> IF s = {} THEN 0 ELSE f[Some(s)] + g[s \ {Some(s)}]]

(* Whichever element is taken first.                                       *)
AnyFirst(g, f, D) == \A s \in SUBSET D : \A x \in s : g[s] = f[x] + g[s \ {x}]

LEMMA SumIsChosen ==
  ASSUME NEW f, NEW D
  PROVE  SumFunctionOnSet(f, D) = (CHOOSE g : IsSum(g, f, D))[D]
  BY DEF SumFunctionOnSet, FoldFunctionOnSet, MapThenFoldSet, IsSum, Some

(* A function that is the sum of f over every part of D exists, and it     *)
(* does not matter which element is taken first.                           *)
LEMMA SumExists ==
  ASSUME NEW D, IsFiniteSet(D), NEW f \in [D -> Int]
  PROVE  \E g \in [SUBSET D -> Int] : IsSum(g, f, D)
  <1> DEFINE Upto(n) == {s \in SUBSET D : Cardinality(s) <= n}
             Good(g, n) == \A s \in Upto(n) :
                 g[s] = IF s = {} THEN 0 ELSE f[Some(s)] + g[s \ {Some(s)}]
             T == {n \in Nat : \E g \in [Upto(n) -> Int] : Good(g, n)}
  <1>1. \A s \in SUBSET D : IsFiniteSet(s) /\ Cardinality(s) \in Nat
    BY FS_Subset, FS_CardinalityType
  <1>2. \A s \in SUBSET D : s # {} => Some(s) \in s
    BY DEF Some
  <1>3. \A s \in SUBSET D : s # {} =>
           /\ s \ {Some(s)} \in SUBSET D
           /\ Cardinality(s \ {Some(s)}) = Cardinality(s) - 1
    BY <1>1, <1>2, FS_RemoveElement
  <1>4. 0 \in T
    <2> DEFINE g == [s \in Upto(0) |-> 0]
    <2>1. \A s \in Upto(0) : s = {}
      BY <1>1, FS_EmptySet
    <2>2. g \in [Upto(0) -> Int] /\ Good(g, 0)
      BY <2>1
    <2> QED
      BY <2>2
  <1>5. ASSUME NEW n \in T
        PROVE  n + 1 \in T
    <2>1. PICK g \in [Upto(n) -> Int] : Good(g, n)
      OBVIOUS
    <2> DEFINE h == [s \in Upto(n + 1) |->
                       IF s = {} THEN 0 ELSE f[Some(s)] + g[s \ {Some(s)}]]
    <2>2. \A s \in Upto(n + 1) : s # {} =>
             s \ {Some(s)} \in Upto(n) /\ s \ {Some(s)} \in Upto(n + 1)
      BY <1>1, <1>3
    <2>3. \A s \in Upto(n + 1) : s # {} => f[Some(s)] \in Int
      BY <1>2
    <2>4. \A s \in Upto(n) : s \in Upto(n + 1)
      BY <1>1
    <2>a. n \in Nat
      OBVIOUS
    <2> HIDE DEF Upto, T
    <2>5. h \in [Upto(n + 1) -> Int]
      BY <2>2, <2>3
    <2>6. \A s \in Upto(n) : h[s] = g[s]
      BY <2>1, <2>4
    <2>7. Good(h, n + 1)
      BY <2>2, <2>6
    <2>8. \E k \in [Upto(n + 1) -> Int] : Good(k, n + 1)
      <3> HIDE DEF h
      <3> QED
        BY <2>5, <2>7
    <2> HIDE DEF Good
    <2> QED
      BY <2>8, <2>a DEF T
  <1>6. T = Nat
    <2> HIDE DEF T
    <2>1. T \in SUBSET Nat
      BY DEF T
    <2> QED
      BY <1>4, <1>5, <2>1, NatSetInduction
  <1>7. PICK g \in [Upto(Cardinality(D)) -> Int] : Good(g, Cardinality(D))
    BY <1>6, <1>1
  <1>8. Upto(Cardinality(D)) = SUBSET D
    <2>1. \A s \in SUBSET D : Cardinality(s) <= Cardinality(D)
      BY FS_Subset
    <2> QED
      BY <2>1
  <1>9. g \in [SUBSET D -> Int] /\ \A s \in SUBSET D :
           g[s] = IF s = {} THEN 0 ELSE f[Some(s)] + g[s \ {Some(s)}]
    BY <1>7, <1>8
  <1>10. IsSum(g, f, D)
    BY <1>9 DEF IsSum
  <1> QED
    BY <1>9, <1>10

LEMMA SumAnyFirst ==
  ASSUME NEW D, IsFiniteSet(D), NEW f \in [D -> Int],
         NEW g \in [SUBSET D -> Int], IsSum(g, f, D)
  PROVE  AnyFirst(g, f, D)
  <1> DEFINE P(s) == \A x \in s : g[s] = f[x] + g[s \ {x}]
             T == {n \in Nat : \A s \in SUBSET D : Cardinality(s) = n => P(s)}
  <1>1. \A s \in SUBSET D : IsFiniteSet(s) /\ Cardinality(s) \in Nat
    BY FS_Subset, FS_CardinalityType
  <1>2. \A s \in SUBSET D : \A x \in s :
           s \ {x} \in SUBSET D /\ Cardinality(s \ {x}) = Cardinality(s) - 1
    BY <1>1, FS_RemoveElement
  <1>3. \A s \in SUBSET D : s # {} => Some(s) \in s /\ g[s] = f[Some(s)] + g[s \ {Some(s)}]
    <2>1. \A s \in SUBSET D : s # {} => Some(s) \in s
      BY DEF Some
    <2>2. \A s \in SUBSET D : s # {} => g[s] = f[Some(s)] + g[s \ {Some(s)}]
      BY DEF IsSum
    <2> QED
      BY <2>1, <2>2
  <1>4. 0 \in T
    BY <1>1, FS_EmptySet
  <1>5. ASSUME NEW n \in T
        PROVE  n + 1 \in T
    <2> SUFFICES ASSUME NEW s \in SUBSET D, Cardinality(s) = n + 1, NEW x \in s
                 PROVE  g[s] = f[x] + g[s \ {x}]
      OBVIOUS
    <2> DEFINE c == Some(s)
    <2>1. c \in s /\ g[s] = f[c] + g[s \ {c}]
      BY <1>3
    <2> HIDE DEF c
    <2>2. CASE x = c
      BY <2>1, <2>2
    <2>3. CASE x # c
      <3>1. /\ s \ {x} \in SUBSET D /\ Cardinality(s \ {x}) = n
            /\ s \ {c} \in SUBSET D /\ Cardinality(s \ {c}) = n
        BY <2>1, <1>1, <1>2
      <3>2. g[s \ {x}] = f[c] + g[(s \ {x}) \ {c}]
        BY <3>1, <2>1, <2>3
      <3>3. g[s \ {c}] = f[x] + g[(s \ {c}) \ {x}]
        BY <3>1, <2>1, <2>3
      <3>4. (s \ {x}) \ {c} = (s \ {c}) \ {x}
        OBVIOUS
      <3>5. f[x] \in Int /\ f[c] \in Int /\ g[(s \ {x}) \ {c}] \in Int
        BY <2>1, <3>1
      <3>6. g[s] = f[c] + (f[x] + g[(s \ {x}) \ {c}])
        BY <2>1, <3>3, <3>4
      <3> QED
        BY <3>2, <3>5, <3>6
    <2> QED
      BY <2>2, <2>3
  <1>6. T = Nat
    <2> HIDE DEF T
    <2>1. T \in SUBSET Nat
      BY DEF T
    <2> QED
      BY <1>4, <1>5, <2>1, NatSetInduction
  <1> QED
    BY <1>6, <1>1 DEF AnyFirst

(* There is one such function only.                                        *)
LEMMA SumUnique ==
  ASSUME NEW D, IsFiniteSet(D), NEW f, NEW g, NEW h,
         IsSum(g, f, D), IsSum(h, f, D)
  PROVE  g = h
  <1> DEFINE T == {n \in Nat : \A s \in SUBSET D : Cardinality(s) = n => g[s] = h[s]}
  <1>1. \A s \in SUBSET D : IsFiniteSet(s) /\ Cardinality(s) \in Nat
    BY FS_Subset, FS_CardinalityType
  <1>2. \A s \in SUBSET D : s # {} =>
           s \ {Some(s)} \in SUBSET D /\ Cardinality(s \ {Some(s)}) = Cardinality(s) - 1
    <2>1. \A s \in SUBSET D : s # {} => Some(s) \in s
      BY DEF Some
    <2> QED
      BY <1>1, <2>1, FS_RemoveElement
  <1>3. \A s \in SUBSET D :
           /\ g[s] = IF s = {} THEN 0 ELSE f[Some(s)] + g[s \ {Some(s)}]
           /\ h[s] = IF s = {} THEN 0 ELSE f[Some(s)] + h[s \ {Some(s)}]
    BY DEF IsSum
  <1>4. 0 \in T
    BY <1>1, <1>3, FS_EmptySet
  <1>5. ASSUME NEW n \in T
        PROVE  n + 1 \in T
    <2> SUFFICES ASSUME NEW s \in SUBSET D, Cardinality(s) = n + 1
                 PROVE  g[s] = h[s]
      OBVIOUS
    <2>1. s # {}
      BY <1>1, FS_EmptySet
    <2>2. s \ {Some(s)} \in SUBSET D /\ Cardinality(s \ {Some(s)}) = n
      BY <1>1, <1>2, <2>1
    <2>3. g[s \ {Some(s)}] = h[s \ {Some(s)}]
      BY <2>2
    <2> QED
      BY <2>1, <2>3, <1>3
  <1>6. T = Nat
    <2> HIDE DEF T
    <2>1. T \in SUBSET Nat
      BY DEF T
    <2> QED
      BY <1>4, <1>5, <2>1, NatSetInduction
  <1>7. \A s \in SUBSET D : g[s] = h[s]
    BY <1>6, <1>1
  <1>8. /\ g = [s \in SUBSET D |-> g[s]]
        /\ h = [s \in SUBSET D |-> h[s]]
    BY DEF IsSum
  <1> QED
    BY <1>7, <1>8

Taken(f, S) ==
    \A x \in S : SumFunctionOnSet(f, S) = f[x] + SumFunctionOnSet(f, S \ {x})

(* A sum is one of its terms and the sum of the others.                    *)
LEMMA SumStep ==
  ASSUME NEW D, IsFiniteSet(D), NEW f \in [D -> Int], NEW S \in SUBSET D
  PROVE  /\ SumFunctionOnSet(f, S) \in Int
         /\ Taken(f, S)
  <1>1. PICK g \in [SUBSET D -> Int] : IsSum(g, f, D)
    BY SumExists
  <1>2. AnyFirst(g, f, D)
    BY <1>1, SumAnyFirst
  <1>3. ASSUME NEW R \in SUBSET D
        PROVE  SumFunctionOnSet(f, R) = g[R]
    <2> DEFINE part == [s \in SUBSET R |-> g[s]]
               other == CHOOSE h : IsSum(h, f, R)
    <2>1. \A s \in SUBSET R : s \in SUBSET D /\ s \ {Some(s)} \in SUBSET R
      OBVIOUS
    <2>2. \A s \in SUBSET D : g[s] = IF s = {} THEN 0 ELSE f[Some(s)] + g[s \ {Some(s)}]
      BY <1>1 DEF IsSum
    <2>3. IsSum(part, f, R)
      BY <2>1, <2>2 DEF IsSum
    <2> HIDE DEF part
    <2>4. IsSum(other, f, R)
      BY <2>3, Zenon
    <2>5. IsFiniteSet(R)
      BY FS_Subset
    <2> HIDE DEF other
    <2>6. part = other
      BY <2>3, <2>4, <2>5, SumUnique
    <2> QED
      BY <2>6, SumIsChosen DEF part, other
  <1> QED
    <2>1. \A x \in S : S \ {x} \in SUBSET D
      OBVIOUS
    <2> QED
      BY <1>2, <1>3, <2>1 DEF AnyFirst, Taken

-----------------------------------------------------------------------------
(* The report.                                                             *)

(* Segments in order that last, whose points are in order, lie within them *)
(* and are members of P: what the invariants say of the closed segments,   *)
(* and what clipping preserves.                                            *)
TidyAt(segs, P, i) ==
    /\ segs[i].startAt < segs[i].endAt
    /\ InOrder(segs[i].points) /\ Range(segs[i].points) \subseteq P
    /\ \A p \in Range(segs[i].points) : segs[i].startAt <= p.at /\ p.at <= segs[i].endAt

TidyPair(segs, i, j) ==
    /\ segs[i].endAt <= segs[j].startAt
    /\ \A p \in Range(segs[i].points), q \in Range(segs[j].points) : p.at < q.at

Tidy(segs, P) ==
    /\ segs \in Seq(Segment)
    /\ \A i \in DOMAIN segs : TidyAt(segs, P, i)
    /\ \A i, j \in DOMAIN segs : i < j => TidyPair(segs, i, j)

Within(P, w) == {p \in P : w.from <= p.at /\ p.at <= w.to}

LEMMA WindowsOrdered ==
  ASSUME NEW w \in Windows
  PROVE  w \in [from : Nat, to : Nat] /\ w.from \in Nat /\ w.to \in Nat /\ w.from < w.to
  BY InputAssumption

LEMMA SegmentFields ==
  ASSUME NEW s \in Segment
  PROVE  /\ s.startAt \in Nat /\ s.endAt \in Nat /\ s.points \in Seq(Point)
         /\ \A p \in Range(s.points) : p \in Point /\ p.at \in Nat
  <1>1. s.startAt \in Nat /\ s.endAt \in Nat /\ s.points \in Seq(Point)
    BY DEF Segment
  <1>2. \A p \in Range(s.points) : p \in Point
    BY <1>1 DEF Range
  <1>3. \A p \in Point : p.at \in Nat
    BY DEF Point
  <1> QED
    BY <1>1, <1>2, <1>3

(* The points a segment keeps are those inside the window, in their order. *)
LEMMA PointsWithinAre ==
  ASSUME NEW s \in Segment, NEW w \in Windows, InOrder(s.points),
         \A p \in Range(s.points) : s.startAt <= p.at /\ p.at <= s.endAt
  PROVE  /\ PointsWithin(s, w) \in Seq(Point) /\ InOrder(PointsWithin(s, w))
         /\ Range(PointsWithin(s, w)) = Within(Range(s.points), w)
  <1> DEFINE pts == s.points
  <1>1. /\ s.startAt \in Nat /\ s.endAt \in Nat /\ pts \in Seq(Point)
        /\ \A p \in Range(pts) : p \in Point /\ p.at \in Nat
        /\ w.from \in Nat /\ w.to \in Nat
    BY SegmentFields, WindowsOrdered
  <1>2. CASE IsCut(s, w)
    <2> DEFINE I == Inside(pts, w)
               kept == Entries(pts, I)
    <2>1. I \in SUBSET (DOMAIN pts)
      BY DEF Inside
    <2>2. /\ kept \in Seq(Point)
          /\ \A k \in DOMAIN kept : Nth(I, k) \in I /\ kept[k] = pts[Nth(I, k)]
          /\ \A k, l \in DOMAIN kept : k < l => Nth(I, k) < Nth(I, l)
          /\ Range(kept) = {pts[i] : i \in I}
      <3> HIDE DEF pts, I
      <3> QED
        BY <1>1, <2>1, EntriesTyped
    <2>3. InOrder(kept)
      <3> SUFFICES ASSUME NEW k \in DOMAIN kept, NEW l \in DOMAIN kept, k < l
                   PROVE  kept[k].at < kept[l].at
        BY DEF InOrder
      <3>1. Nth(I, k) \in DOMAIN pts /\ Nth(I, l) \in DOMAIN pts /\ Nth(I, k) < Nth(I, l)
        BY <2>1, <2>2
      <3>2. kept[k] = pts[Nth(I, k)] /\ kept[l] = pts[Nth(I, l)]
        BY <2>2
      <3> HIDE DEF kept, I
      <3> QED
        BY <3>1, <3>2 DEF InOrder
    <2>4. Range(kept) = Within(Range(pts), w)
      <3>1. \A i \in DOMAIN pts : i \in I <=> w.from <= pts[i].at /\ pts[i].at <= w.to
        BY DEF Inside
      <3> HIDE DEF kept, I
      <3> QED
        BY <2>1, <2>2, <3>1 DEF Range, Within
    <2> QED
      BY <1>2, <2>2, <2>3, <2>4 DEF PointsWithin
  <1>3. CASE ~ IsCut(s, w)
    <2>1. w.from <= s.startAt /\ s.endAt <= w.to
      BY <1>1, <1>3 DEF IsCut
    <2>2. \A p \in Range(pts) : w.from <= p.at /\ p.at <= w.to
      BY <1>1, <2>1
    <2>3. Range(pts) = Within(Range(pts), w)
      BY <2>2 DEF Within
    <2> QED
      BY <1>1, <1>3, <2>3 DEF PointsWithin
  <1> QED
    BY <1>2, <1>3

(* A clipped segment is one, between the edges of the window.              *)
LEMMA ClipIs ==
  ASSUME NEW s \in Segment, NEW w \in Windows, Overlaps(s, w), s.startAt < s.endAt,
         PointsWithin(s, w) \in Seq(Point)
  PROVE  LET r == ClipSegment(s, w) IN
         /\ r \in Segment /\ r.kind = s.kind /\ r.points = PointsWithin(s, w)
         /\ r.startAt = IF s.startAt < w.from THEN w.from ELSE s.startAt
         /\ r.endAt = IF s.endAt > w.to THEN w.to ELSE s.endAt
         /\ r.startsBefore = (s.startAt < w.from) /\ r.endsAfter = (s.endAt > w.to)
         /\ w.from <= r.startAt /\ r.startAt < r.endAt /\ r.endAt <= w.to
         /\ s.startAt <= r.startAt /\ r.endAt <= s.endAt
  <1> DEFINE r == ClipSegment(s, w)
             a == IF s.startAt < w.from THEN w.from ELSE s.startAt
             b == IF s.endAt > w.to THEN w.to ELSE s.endAt
  <1>1. s.startAt \in Nat /\ s.endAt \in Nat /\ w.from \in Nat /\ w.to \in Nat /\ w.from < w.to
    BY SegmentFields, WindowsOrdered
  <1>2. /\ w.from <= a /\ a < b /\ b <= w.to /\ s.startAt <= a /\ b <= s.endAt
        /\ a \in Nat /\ b \in Nat
    BY <1>1 DEF Overlaps
  <1> DEFINE before == s.startAt < w.from
             after == s.endAt > w.to
             pts == PointsWithin(s, w)
  <1>3. r = [s EXCEPT !.startAt = a, !.endAt = b, !.points = pts,
                      !.startsBefore = before, !.endsAfter = after]
    BY DEF ClipSegment
  <1>4. before \in BOOLEAN /\ after \in BOOLEAN /\ pts \in Seq(Point)
    OBVIOUS
  <1> HIDE DEF a, b, before, after, pts, r
  <1>5. /\ r \in Segment /\ r.kind = s.kind /\ r.points = pts
        /\ r.startAt = a /\ r.endAt = b
        /\ r.startsBefore = before /\ r.endsAfter = after
    BY <1>2, <1>3, <1>4 DEF Segment
  <1> QED
    BY <1>2, <1>5 DEF a, b, before, after, pts, r

(* The report is what is left of the segments that survive, in order.      *)
LEMMA ClippedAre ==
  ASSUME NEW P, NEW segs, Tidy(segs, P), NEW w \in Windows
  PROVE  LET I == Surviving(segs, w)
             report == ClipToWindow(segs, w) IN
         /\ report \in Seq(Segment)
         /\ \A k \in DOMAIN report : /\ Nth(I, k) \in I /\ I \subseteq DOMAIN segs
                                     /\ report[k] = ClipSegment(segs[Nth(I, k)], w)
         /\ \A k, l \in DOMAIN report : k < l => Nth(I, k) < Nth(I, l)
         /\ \A i \in I : \E k \in DOMAIN report : Nth(I, k) = i
  <1> DEFINE I == Surviving(segs, w)
             kept == Entries(segs, I)
             report == ClipToWindow(segs, w)
  <1>1. segs \in Seq(Segment) /\ I \in SUBSET (DOMAIN segs)
    BY DEF Tidy, Surviving
  <1>2. /\ kept \in Seq(Segment)
        /\ \A k \in DOMAIN kept : Nth(I, k) \in I /\ kept[k] = segs[Nth(I, k)]
        /\ \A k, l \in DOMAIN kept : k < l => Nth(I, k) < Nth(I, l)
        /\ \A i \in I : \E k \in DOMAIN kept : Nth(I, k) = i
    <2> HIDE DEF I
    <2> QED
      BY <1>1, EntriesTyped
  <1>3. report = [k \in DOMAIN kept |-> ClipSegment(kept[k], w)]
    BY DEF ClipToWindow
  <1>4. ASSUME NEW i \in I
        PROVE  ClipSegment(segs[i], w) \in Segment
    <2>1. segs[i] \in Segment /\ Overlaps(segs[i], w) /\ TidyAt(segs, P, i)
      BY <1>1 DEF Tidy, Surviving
    <2>2. PointsWithin(segs[i], w) \in Seq(Point)
      BY <2>1, PointsWithinAre DEF TidyAt
    <2> QED
      BY <2>1, <2>2, ClipIs DEF TidyAt
  <1> HIDE DEF I, kept, report
  <1>5. /\ DOMAIN report = DOMAIN kept
        /\ \A k \in DOMAIN report : report[k] = ClipSegment(segs[Nth(I, k)], w)
                                    /\ report[k] \in Segment
    BY <1>2, <1>3, <1>4
  <1>6. report \in Seq(Segment)
    BY <1>2, <1>3, <1>5
  <1>7. \A k \in DOMAIN report : Nth(I, k) \in I
    BY <1>2, <1>5
  <1>8. \A k, l \in DOMAIN report : k < l => Nth(I, k) < Nth(I, l)
    BY <1>2, <1>5
  <1> QED
    BY <1>1, <1>2, <1>5, <1>6, <1>7, <1>8 DEF I, report

(* What is cut from tidy segments is tidy, with the points in the window.  *)
LEMMA ClippedTidy ==
  ASSUME NEW P, NEW segs, Tidy(segs, P), NEW w \in Windows
  PROVE  LET report == ClipToWindow(segs, w) IN
         /\ Tidy(report, Within(P, w))
         /\ \A k \in DOMAIN report : w.from <= report[k].startAt /\ report[k].endAt <= w.to
         /\ \A k \in DOMAIN report : report[k].startsBefore => k = 1
         /\ \A k \in DOMAIN report : report[k].endsAfter => k = Len(report)
         /\ \A s \in Range(segs) : \A p \in Range(s.points) :
               w.from < p.at /\ p.at < w.to =>
                   \E r \in Range(report) : p \in Range(r.points)
  <1> DEFINE I == Surviving(segs, w)
             report == ClipToWindow(segs, w)
             from(k) == Nth(I, k)
  <1>1. /\ report \in Seq(Segment)
        /\ \A k \in DOMAIN report : /\ from(k) \in I /\ I \subseteq DOMAIN segs
                                    /\ report[k] = ClipSegment(segs[from(k)], w)
        /\ \A k, l \in DOMAIN report : k < l => from(k) < from(l)
        /\ \A i \in I : \E k \in DOMAIN report : from(k) = i
    BY ClippedAre
  <1> HIDE DEF report, from
  <1>w. w.from \in Nat /\ w.to \in Nat /\ w.from < w.to
    BY WindowsOrdered
  <1>2. ASSUME NEW i \in DOMAIN segs
        PROVE  /\ segs[i] \in Segment /\ TidyAt(segs, P, i)
               /\ segs[i].startAt \in Nat /\ segs[i].endAt \in Nat
               /\ segs[i].startAt < segs[i].endAt
               /\ PointsWithin(segs[i], w) \in Seq(Point) /\ InOrder(PointsWithin(segs[i], w))
               /\ Range(PointsWithin(segs[i], w)) = Within(Range(segs[i].points), w)
               /\ \A p \in Range(segs[i].points) :
                     p \in P /\ p.at \in Nat /\ segs[i].startAt <= p.at /\ p.at <= segs[i].endAt
    <2>1. segs[i] \in Segment /\ TidyAt(segs, P, i)
      BY DEF Tidy
    <2>2. /\ PointsWithin(segs[i], w) \in Seq(Point) /\ InOrder(PointsWithin(segs[i], w))
          /\ Range(PointsWithin(segs[i], w)) = Within(Range(segs[i].points), w)
      BY <2>1, PointsWithinAre DEF TidyAt
    <2>3. segs[i].startAt \in Nat /\ segs[i].endAt \in Nat
          /\ \A p \in Range(segs[i].points) : p.at \in Nat
      BY <2>1, SegmentFields
    <2> QED
      BY <2>1, <2>2, <2>3 DEF TidyAt
  <1>3. ASSUME NEW k \in DOMAIN report
        PROVE  LET s == segs[from(k)]
                   r == report[k] IN
               /\ from(k) \in DOMAIN segs /\ r.points = PointsWithin(s, w)
               /\ r.startsBefore = (s.startAt < w.from) /\ r.endsAfter = (s.endAt > w.to)
               /\ s.endAt > w.from /\ s.startAt < w.to
               /\ w.from <= r.startAt /\ r.startAt < r.endAt /\ r.endAt <= w.to
               /\ s.startAt <= r.startAt /\ r.endAt <= s.endAt
               /\ r.startAt \in {w.from, s.startAt} /\ r.endAt \in {w.to, s.endAt}
               /\ r.startAt \in Nat /\ r.endAt \in Nat
    <2>1. /\ from(k) \in DOMAIN segs /\ Overlaps(segs[from(k)], w)
          /\ report[k] = ClipSegment(segs[from(k)], w)
      BY <1>1 DEF Surviving
    <2> DEFINE s == segs[from(k)]
    <2>2. s \in Segment /\ s.startAt < s.endAt /\ PointsWithin(s, w) \in Seq(Point)
      BY <2>1, <1>2
    <2>3. s.endAt > w.from /\ s.startAt < w.to
      BY <2>1 DEF Overlaps
    <2>4. report[k].startAt \in Nat /\ report[k].endAt \in Nat
      BY <1>1, SegmentFields
    <2>5. Overlaps(s, w) /\ report[k] = ClipSegment(s, w)
      BY <2>1
    <2> HIDE DEF s
    <2>6. LET r == report[k] IN
          /\ r.points = PointsWithin(s, w)
          /\ r.startAt = IF s.startAt < w.from THEN w.from ELSE s.startAt
          /\ r.endAt = IF s.endAt > w.to THEN w.to ELSE s.endAt
          /\ r.startsBefore = (s.startAt < w.from) /\ r.endsAfter = (s.endAt > w.to)
          /\ w.from <= r.startAt /\ r.startAt < r.endAt /\ r.endAt <= w.to
          /\ s.startAt <= r.startAt /\ r.endAt <= s.endAt
      BY <2>2, <2>5, ClipIs
    <2> QED
      BY <2>1, <2>3, <2>4, <2>6 DEF s
  <1>4. ASSUME NEW k \in DOMAIN report
        PROVE  TidyAt(report, Within(P, w), k)
    <2> DEFINE s == segs[from(k)]
               r == report[k]
    <2>1. /\ from(k) \in DOMAIN segs /\ r.points = PointsWithin(s, w)
          /\ r.startAt \in {w.from, s.startAt} /\ r.endAt \in {w.to, s.endAt}
          /\ r.startAt < r.endAt
      BY <1>3
    <2>2. /\ InOrder(PointsWithin(s, w))
          /\ Range(PointsWithin(s, w)) = Within(Range(s.points), w)
          /\ \A p \in Range(s.points) : p \in P /\ s.startAt <= p.at /\ p.at <= s.endAt
      BY <2>1, <1>2
    <2> HIDE DEF s, r
    <2>3. InOrder(r.points) /\ Range(r.points) = Within(Range(s.points), w)
      BY <2>1, <2>2
    <2>4. \A p \in Range(r.points) : /\ p \in Range(s.points)
                                     /\ w.from <= p.at /\ p.at <= w.to
      BY <2>3 DEF Within
    <2>5. \A p \in Range(r.points) : r.startAt <= p.at /\ p.at <= r.endAt
      BY <2>1, <2>2, <2>4
    <2>6. Range(r.points) \subseteq Within(P, w)
      BY <2>2, <2>4 DEF Within
    <2> QED
      BY <2>1, <2>3, <2>5, <2>6 DEF TidyAt, r
  <1>5. ASSUME NEW k \in DOMAIN report, NEW l \in DOMAIN report, k < l
        PROVE  /\ TidyPair(report, k, l)
               /\ segs[from(k)].endAt <= segs[from(l)].startAt
    <2>1. from(k) \in DOMAIN segs /\ from(l) \in DOMAIN segs /\ from(k) < from(l)
      BY <1>1, <1>3, <1>5
    <2>2. TidyPair(segs, from(k), from(l))
      BY <2>1 DEF Tidy
    <2>3. /\ report[k].endAt <= segs[from(k)].endAt /\ segs[from(l)].startAt <= report[l].startAt
          /\ report[k].points = PointsWithin(segs[from(k)], w)
          /\ report[l].points = PointsWithin(segs[from(l)], w)
          /\ report[k].endAt \in Nat /\ report[l].startAt \in Nat
      BY <1>3
    <2>4. segs[from(k)].endAt \in Nat /\ segs[from(l)].startAt \in Nat
      BY <2>1, <1>2
    <2>5. report[k].endAt <= report[l].startAt
      BY <2>2, <2>3, <2>4 DEF TidyPair
    <2>6. /\ \A p \in Range(report[k].points) : p \in Range(segs[from(k)].points)
          /\ \A q \in Range(report[l].points) : q \in Range(segs[from(l)].points)
      BY <2>1, <2>3, <1>2 DEF Within
    <2> QED
      BY <2>2, <2>5, <2>6 DEF TidyPair
  <1>6. Tidy(report, Within(P, w))
    BY <1>1, <1>4, <1>5 DEF Tidy
  <1>7. \A k \in DOMAIN report : w.from <= report[k].startAt /\ report[k].endAt <= w.to
    BY <1>3
  <1>8. Len(report) \in Nat /\ DOMAIN report = 1 .. Len(report)
    BY <1>1
  <1>9. ASSUME NEW k \in DOMAIN report, report[k].startsBefore, k # 1
        PROVE  FALSE
    <2>1. 1 \in DOMAIN report /\ 1 < k
      BY <1>8, <1>9
    <2>2. segs[from(1)].endAt <= segs[from(k)].startAt
      BY <2>1, <1>5
    <2>3. segs[from(1)].endAt > w.from /\ from(1) \in DOMAIN segs
      BY <2>1, <1>3
    <2>4. segs[from(k)].startAt < w.from /\ from(k) \in DOMAIN segs
      BY <1>3, <1>9
    <2>5. segs[from(1)].endAt \in Nat /\ segs[from(k)].startAt \in Nat
      BY <2>3, <2>4, <1>2
    <2> QED
      BY <2>2, <2>3, <2>4, <2>5, <1>w
  <1>10. ASSUME NEW k \in DOMAIN report, report[k].endsAfter, k # Len(report)
         PROVE  FALSE
    <2> DEFINE n == Len(report)
    <2>1. n \in DOMAIN report /\ k < n
      BY <1>8, <1>10
    <2> HIDE DEF n
    <2>2. segs[from(k)].endAt <= segs[from(n)].startAt
      BY <2>1, <1>5
    <2>3. segs[from(n)].startAt < w.to /\ from(n) \in DOMAIN segs
      BY <2>1, <1>3
    <2>4. segs[from(k)].endAt > w.to /\ from(k) \in DOMAIN segs
      BY <1>3, <1>10
    <2>5. segs[from(k)].endAt \in Nat /\ segs[from(n)].startAt \in Nat
      BY <2>3, <2>4, <1>2
    <2> QED
      BY <2>2, <2>3, <2>4, <2>5, <1>w
  <1>11. ASSUME NEW s \in Range(segs), NEW p \in Range(s.points), w.from < p.at, p.at < w.to
         PROVE  \E r \in Range(report) : p \in Range(r.points)
    <2>1. PICK i \in DOMAIN segs : s = segs[i]
      BY DEF Range
    <2>2. /\ s.startAt <= p.at /\ p.at <= s.endAt /\ p.at \in Nat
          /\ s.startAt \in Nat /\ s.endAt \in Nat
          /\ PointsWithin(s, w) \in Seq(Point)
          /\ Range(PointsWithin(s, w)) = Within(Range(s.points), w)
      BY <2>1, <1>2
    <2>3. Overlaps(s, w)
      BY <2>2, <1>11, <1>w DEF Overlaps
    <2>4. p \in Range(PointsWithin(s, w))
      BY <2>2, <1>11, <1>w DEF Within
    <2>5. PointsWithin(s, w) # <<>>
      BY <2>4 DEF Range
    <2>6. i \in I
      BY <2>1, <2>3, <2>5 DEF Surviving
    <2>7. PICK k \in DOMAIN report : from(k) = i
      BY <1>1, <2>6
    <2>8. report[k].points = PointsWithin(s, w)
      BY <2>1, <2>7, <1>3
    <2>9. report[k] \in Range(report) /\ p \in Range(report[k].points)
      BY <2>4, <2>8 DEF Range
    <2> QED
      BY <2>9
  <1> QED
    BY <1>6, <1>7, <1>9, <1>10, <1>11 DEF report

(* Points in order are as many as the sequence is long.                    *)
LEMMA InOrderCounted ==
  ASSUME NEW s \in Seq(Point), InOrder(s)
  PROVE  IsFiniteSet(Range(s)) /\ Cardinality(Range(s)) = Len(s)
  <1>1. \A i \in DOMAIN s : s[i].at \in Nat
    <2>1. \A p \in Point : p.at \in Nat
      BY DEF Point
    <2>2. \A i \in DOMAIN s : s[i] \in Point
      OBVIOUS
    <2> QED
      BY <2>1, <2>2
  <1>2. \A i, j \in DOMAIN s : s[i] = s[j] => i = j
    <2> SUFFICES ASSUME NEW i \in DOMAIN s, NEW j \in DOMAIN s, s[i] = s[j], i # j
                 PROVE  FALSE
      OBVIOUS
    <2>1. i < j \/ j < i
      OBVIOUS
    <2>2. s[i].at < s[j].at \/ s[j].at < s[i].at
      BY <2>1 DEF InOrder
    <2> QED
      BY <2>2, <1>1
  <1>3. s \in [1 .. Len(s) -> Range(s)] /\ DOMAIN s = 1 .. Len(s) /\ Len(s) \in Nat
    BY DEF Range
  <1>4. s \in Bijection(1 .. Len(s), Range(s))
    BY <1>2, <1>3 DEF Bijection, Injection, Surjection, IsInjective, Range
  <1>5. IsFiniteSet(1 .. Len(s)) /\ Cardinality(1 .. Len(s)) = Len(s)
    <2> DEFINE m == Len(s)
    <2>1. m \in Nat
      BY <1>3
    <2> HIDE DEF m
    <2>2. IsFiniteSet(1 .. m) /\ Cardinality(1 .. m) = IF 1 > m THEN 0 ELSE m - 1 + 1
      BY <2>1, FS_Interval
    <2> QED
      BY <2>1, <2>2 DEF m
  <1> QED
    BY <1>4, <1>5, FS_Bijection DEF ExistsBijection

(* No point is counted twice.                                              *)
LEMMA PointsCounted ==
  ASSUME NEW P, IsFiniteSet(P), NEW segs, Tidy(segs, P)
  PROVE  SumFunction([i \in DOMAIN segs |-> Len(segs[i].points)]) <= Cardinality(P)
  <1> DEFINE n == Len(segs)
             f == [i \in DOMAIN segs |-> Len(segs[i].points)]
             Sum(k) == SumFunctionOnSet(f, 1 .. k)
             U(k) == UNION {Range(segs[i].points) : i \in 1 .. k}
             T == {k \in Nat : k <= n => Sum(k) <= Cardinality(U(k))}
  <1>1. segs \in Seq(Segment) /\ n \in Nat /\ DOMAIN segs = 1 .. n
    BY DEF Tidy
  <1>2. ASSUME NEW i \in 1 .. n
        PROVE  /\ segs[i].points \in Seq(Point) /\ InOrder(segs[i].points)
               /\ Range(segs[i].points) \subseteq P
               /\ \A p \in Range(segs[i].points) : p.at \in Nat
    <2>1. segs[i] \in Segment /\ TidyAt(segs, P, i)
      BY <1>1 DEF Tidy
    <2> QED
      BY <2>1, SegmentFields DEF TidyAt
  <1>3. f \in [1 .. n -> Int] /\ \A i \in 1 .. n : f[i] = Len(segs[i].points)
    BY <1>1, <1>2
  <1>4. IsFiniteSet(1 .. n)
    BY <1>1, FS_Interval
  <1> HIDE DEF f, n
  <1>5. \A k \in 0 .. n : /\ IsFiniteSet(U(k)) /\ Cardinality(U(k)) \in Nat
                          /\ Cardinality(U(k)) <= Cardinality(P)
    <2> TAKE k \in 0 .. n
    <2>1. U(k) \in SUBSET P
      BY <1>1, <1>2
    <2> HIDE DEF U
    <2> QED
      BY <2>1, FS_Subset, FS_CardinalityType
  <1>6. 0 \in T
    <2>1. 1 .. 0 = {}
      OBVIOUS
    <2>2. Sum(0) = 0
      BY <2>1, NoSum
    <2> HIDE DEF Sum, U
    <2> QED
      BY <2>2, <1>1, <1>5
  <1>7. ASSUME NEW k \in T
        PROVE  k + 1 \in T
    <2> SUFFICES ASSUME k + 1 <= n
                 PROVE  Sum(k + 1) <= Cardinality(U(k + 1))
      OBVIOUS
    <2>1. /\ k \in Nat /\ k + 1 \in 1 .. n /\ k \in 0 .. n /\ k + 1 \in 0 .. n /\ k <= n
          /\ 1 .. k + 1 \in SUBSET (1 .. n) /\ 1 .. k \in SUBSET (1 .. n)
          /\ k + 1 \in 1 .. k + 1 /\ (1 .. k + 1) \ {k + 1} = 1 .. k
      BY <1>1
    <2>2. Sum(k + 1) = f[k + 1] + Sum(k) /\ Sum(k) \in Int
      <3> DEFINE A == 1 .. k + 1
                 B == 1 .. k
      <3>1. A \in SUBSET (1 .. n) /\ B \in SUBSET (1 .. n) /\ k + 1 \in A /\ A \ {k + 1} = B
        BY <2>1
      <3> HIDE DEF A, B
      <3>2. SumFunctionOnSet(f, B) \in Int
        BY <3>1, <1>3, <1>4, SumStep
      <3>3. SumFunctionOnSet(f, A) = f[k + 1] + SumFunctionOnSet(f, A \ {k + 1})
        <4>1. Taken(f, A)
          BY <3>1, <1>3, <1>4, SumStep
        <4> QED
          BY <3>1, <4>1 DEF Taken
      <3> QED
        BY <3>1, <3>2, <3>3 DEF A, B
    <2>3. Sum(k) <= Cardinality(U(k))
      BY <2>1
    <2> DEFINE R == Range(segs[k + 1].points)
    <2>4. IsFiniteSet(R) /\ Cardinality(R) = f[k + 1] /\ f[k + 1] \in Nat
      BY <2>1, <1>2, <1>3, InOrderCounted
    <2>5. U(k + 1) = U(k) \cup R
      <3>1. 1 .. k + 1 = (1 .. k) \cup {k + 1}
        BY <2>1
      <3> QED
        BY <3>1
    <2>6. U(k) \cap R = {}
      <3> SUFFICES ASSUME NEW i \in 1 .. k, NEW p \in Range(segs[i].points), p \in R
                   PROVE  FALSE
        OBVIOUS
      <3>1. i \in 1 .. n /\ i < k + 1
        BY <2>1
      <3>2. p.at < p.at
        BY <3>1, <2>1, <1>1 DEF Tidy, TidyPair
      <3>3. p.at \in Nat
        BY <3>1, <1>2
      <3> QED
        BY <3>2, <3>3
    <2> HIDE DEF U, R, Sum
    <2>7. Cardinality(U(k + 1)) = Cardinality(U(k)) + Cardinality(R)
      <3>1. IsFiniteSet(U(k)) /\ Cardinality(U(k)) \in Nat
        BY <2>1, <1>5
      <3>2. Cardinality(U(k) \cup R)
              = Cardinality(U(k)) + Cardinality(R) - Cardinality(U(k) \cap R)
        BY <3>1, <2>4, FS_Union
      <3>3. Cardinality(U(k) \cap R) = 0
        BY <2>6, FS_EmptySet
      <3>4. Cardinality(R) \in Nat
        BY <2>4
      <3>5. Cardinality(U(k) \cup R) = Cardinality(U(k)) + Cardinality(R)
        BY <3>1, <3>2, <3>3, <3>4
      <3> QED
        BY <3>5, <2>5
    <2>8. Cardinality(U(k)) \in Nat
      BY <2>1, <1>5
    <2> QED
      BY <2>2, <2>3, <2>4, <2>7, <2>8
  <1>8. T = Nat
    <2> HIDE DEF T
    <2>1. T \in SUBSET Nat
      BY DEF T
    <2> QED
      BY <1>6, <1>7, <2>1, NatSetInduction
  <1>9. Sum(n) <= Cardinality(U(n))
    <2> HIDE DEF Sum, U
    <2> QED
      BY <1>1, <1>8
  <1>10. Sum(n) \in Int
    BY <1>3, <1>4, SumStep
  <1>11. Cardinality(U(n)) <= Cardinality(P) /\ Cardinality(U(n)) \in Nat
    <2>1. n \in 0 .. n
      BY <1>1
    <2> HIDE DEF U
    <2> QED
      BY <2>1, <1>5
  <1>12. Cardinality(P) \in Nat
    BY FS_CardinalityType
  <1>13. SumFunction(f) = Sum(n)
    BY <1>3 DEF SumFunction, SumFunctionOnSet, FoldFunction, FoldFunctionOnSet
  <1> HIDE DEF Sum, U
  <1>14. SumFunction(f) <= Cardinality(P)
    BY <1>9, <1>10, <1>11, <1>12, <1>13
  <1> QED
    BY <1>14 DEF f

(* Segments that follow one another between two times last no longer in    *)
(* all than the time between them, by whatever kinds they are summed up.   *)
LEMMA SecondsAddUp ==
  ASSUME NEW P, NEW segs, Tidy(segs, P), NEW from \in Nat, NEW to \in Nat, from <= to,
         \A i \in DOMAIN segs : from <= segs[i].startAt /\ segs[i].endAt <= to
  PROVE  SecondsOf(segs, {"journey"}) + SecondsOf(segs, {"active_static"})
           + SecondsOf(segs, {"stationary"}) + SecondsOf(segs, {"data_gap"}) <= to - from
  <1> DEFINE n == Len(segs)
             f == [i \in DOMAIN segs |-> segs[i].endAt - segs[i].startAt]
             Upto(kind, k) == {i \in 1 .. k : segs[i].kind = kind}
             Sum(kind, k) == SumFunctionOnSet(f, Upto(kind, k))
             Total(k) == Sum("journey", k) + Sum("active_static", k)
                           + Sum("stationary", k) + Sum("data_gap", k)
             End(k) == IF k = 0 THEN from ELSE segs[k].endAt
             T == {k \in Nat : k <= n => Total(k) <= End(k) - from}
             Kinds == {"journey", "active_static", "stationary", "data_gap"}
  <1>1. segs \in Seq(Segment) /\ n \in Nat /\ DOMAIN segs = 1 .. n
    BY DEF Tidy
  <1>2. ASSUME NEW i \in 1 .. n
        PROVE  /\ segs[i].startAt \in Nat /\ segs[i].endAt \in Nat
               /\ segs[i].kind \in Kinds /\ segs[i].startAt < segs[i].endAt
               /\ f[i] = segs[i].endAt - segs[i].startAt
    <2>1. segs[i] \in Segment /\ TidyAt(segs, P, i)
      BY <1>1 DEF Tidy
    <2>2. segs[i].kind \in Kinds
      BY <2>1 DEF Segment, StopKinds
    <2> QED
      BY <1>1, <2>1, <2>2, SegmentFields DEF TidyAt
  <1>3. f \in [1 .. n -> Int]
    BY <1>1, <1>2
  <1>4. IsFiniteSet(1 .. n)
    BY <1>1, FS_Interval
  <1> HIDE DEF f, n
  <1>5. \A kind : \A k \in 0 .. n : Sum(kind, k) \in Int
    <2> TAKE kind
    <2> TAKE k \in 0 .. n
    <2>1. Upto(kind, k) \in SUBSET (1 .. n)
      BY <1>1
    <2> HIDE DEF Upto
    <2> QED
      BY <2>1, <1>3, <1>4, SumStep
  <1>6. 0 \in T
    <2>1. \A kind : Upto(kind, 0) = {}
      OBVIOUS
    <2>2. \A kind : Sum(kind, 0) = 0
      BY <2>1, NoSum
    <2> HIDE DEF Sum
    <2>3. Total(0) = 0 /\ End(0) - from = 0
      BY <2>2
    <2> QED
      BY <2>3
  <1>7. ASSUME NEW k \in T
        PROVE  k + 1 \in T
    <2> SUFFICES ASSUME k + 1 <= n
                 PROVE  Total(k + 1) <= End(k + 1) - from
      OBVIOUS
    <2>1. k \in Nat /\ k + 1 \in 1 .. n /\ k \in 0 .. n /\ k + 1 \in 0 .. n /\ k <= n
      BY <1>1
    <2>2. ASSUME NEW kind
          PROVE  Sum(kind, k + 1) = IF segs[k + 1].kind = kind
                                    THEN f[k + 1] + Sum(kind, k) ELSE Sum(kind, k)
      <3>1. CASE segs[k + 1].kind = kind
        <4> DEFINE A == Upto(kind, k + 1)
        <4>1. k + 1 \in A
          BY <2>1, <3>1
        <4>4. A \in SUBSET (1 .. n)
          BY <2>1, <1>1
        <4>2. A \ {k + 1} = Upto(kind, k)
          BY <2>1
        <4>3. SumFunctionOnSet(f, A) = f[k + 1] + SumFunctionOnSet(f, A \ {k + 1})
          <5> HIDE DEF A
          <5>1. Taken(f, A)
            BY <4>4, <1>3, <1>4, SumStep
          <5> QED
            BY <4>1, <5>1 DEF Taken
        <4> QED
          BY <3>1, <4>2, <4>3
      <3>2. CASE segs[k + 1].kind # kind
        <4>1. Upto(kind, k + 1) = Upto(kind, k)
          BY <2>1, <3>2
        <4> QED
          BY <3>2, <4>1
      <3> QED
        BY <3>1, <3>2
    <2>3. /\ Sum("journey", k) \in Int /\ Sum("active_static", k) \in Int
          /\ Sum("stationary", k) \in Int /\ Sum("data_gap", k) \in Int
      BY <2>1, <1>5
    <2>4. Total(k) <= End(k) - from
      BY <2>1
    <2>5. /\ f[k + 1] = segs[k + 1].endAt - segs[k + 1].startAt
          /\ segs[k + 1].endAt \in Nat /\ segs[k + 1].startAt \in Nat
          /\ segs[k + 1].kind \in Kinds
      BY <2>1, <1>2
    <2>6. End(k) <= segs[k + 1].startAt /\ End(k) \in Nat /\ End(k + 1) = segs[k + 1].endAt
      <3>1. CASE k = 0
        BY <3>1, <2>1, <1>1
      <3>2. CASE k # 0
        <4>1. k \in 1 .. n /\ k < k + 1
          BY <2>1, <3>2
        <4>2. segs[k].endAt <= segs[k + 1].startAt
          BY <4>1, <2>1, <1>1 DEF Tidy, TidyPair
        <4> QED
          BY <4>1, <4>2, <3>2, <2>1, <1>2
      <3> QED
        BY <3>1, <3>2
    <2> HIDE DEF Sum, End
    <2>7. Total(k + 1) = f[k + 1] + Total(k)
      <3>1. f[k + 1] \in Int
        BY <2>5
      <3> HIDE DEF n
      <3> QED
        BY <2>2, <2>3, <2>5, <3>1
    <2>8. Total(k) \in Int
      BY <2>3
    <2> HIDE DEF Total
    <2> QED
      BY <2>4, <2>5, <2>6, <2>7, <2>8
  <1>8. T = Nat
    <2> HIDE DEF T
    <2>1. T \in SUBSET Nat
      BY DEF T
    <2> QED
      BY <1>6, <1>7, <2>1, NatSetInduction
  <1>9. Total(n) <= End(n) - from
    <2> HIDE DEF Total, End
    <2> QED
      BY <1>1, <1>8
  <1>10. End(n) <= to /\ End(n) \in Nat
    BY <1>1, <1>2
  <1>11. /\ SecondsOf(segs, {"journey"}) = Sum("journey", n)
         /\ SecondsOf(segs, {"active_static"}) = Sum("active_static", n)
         /\ SecondsOf(segs, {"stationary"}) = Sum("stationary", n)
         /\ SecondsOf(segs, {"data_gap"}) = Sum("data_gap", n)
    <2>1. ASSUME NEW kind
          PROVE  SecondsOf(segs, {kind}) = Sum(kind, n)
      <3>1. {i \in DOMAIN segs : segs[i].kind \in {kind}} = Upto(kind, n)
        BY <1>1
      <3> QED
        BY <3>1 DEF SecondsOf, f
    <2> QED
      BY <2>1
  <1>12. /\ Sum("journey", n) \in Int /\ Sum("active_static", n) \in Int
         /\ Sum("stationary", n) \in Int /\ Sum("data_gap", n) \in Int
    <2>1. n \in 0 .. n
      BY <1>1
    <2> HIDE DEF Sum
    <2> QED
      BY <2>1, <1>5
  <1> HIDE DEF Sum, End
  <1> QED
    BY <1>9, <1>10, <1>11, <1>12

(* The closed segments are tidy.                                           *)
LEMMA SegmentsTidy ==
  ASSUME TypeOK, Timeline, LayoutInv
  PROVE  Tidy(segments, Range(points))
  <1>1. EveryPointOnce /\ segments \in Seq(Segment) /\ points \in Seq(Point)
    BY LayoutPlacesOnce, LaidOut
  <1> DEFINE n == Len(segments)
  <1>2. /\ n \in Nat /\ DOMAIN Places = 1 .. n + 3 /\ DOMAIN segments = 1 .. n
        /\ \A i \in 1 .. n : Places[i] = segments[i].points
    BY <1>1, PlacesAre
  <1> HIDE DEF n
  <1>3. ASSUME NEW i \in DOMAIN segments
        PROVE  TidyAt(segments, Range(points), i)
    <2>1. segments[i].startAt < segments[i].endAt
      BY DEF Timeline
    <2>2. InOrder(segments[i].points)
      <3>1. i \in DOMAIN Places /\ Places[i] = segments[i].points
        BY <1>2
      <3> QED
        BY <3>1, <1>1 DEF EveryPointOnce
    <2>3. \A p \in Range(segments[i].points) :
             segments[i].startAt <= p.at /\ p.at <= segments[i].endAt
      <3>1. segments[i] \in Range(segments)
        BY DEF Range
      <3> QED
        BY <3>1, <1>1 DEF EveryPointOnce
    <2>4. Range(segments[i].points) \subseteq Range(points)
      <3>1. PICK a \in 1 .. Len(points) + 1 : Settled(points, segments, window # NoWindow, a)
        BY LaidOut
      <3>2. PICK d \in DOMAIN points :
               segments[i].points \in Seq(Point) /\ Run(points, segments[i].points, d)
        BY <3>1, SegmentSpans
      <3> DEFINE s == segments[i].points
      <3>3. s \in Seq(Point) /\ Run(points, s, d)
        BY <3>2
      <3> HIDE DEF s
      <3>4. ASSUME NEW p \in Range(s)
            PROVE  p \in Range(points)
        <4>1. PICK j \in 1 .. Len(s) : p = s[j]
          BY <3>3 DEF Range
        <4>2. /\ Len(s) \in Nat /\ Len(points) \in Nat /\ d \in 1 .. Len(points)
              /\ DOMAIN points = 1 .. Len(points)
          BY <3>3, <1>1
        <4>3. d + j - 1 \in DOMAIN points /\ s[j] = points[d + j - 1]
          BY <3>3, <4>2 DEF Run
        <4> QED
          BY <4>1, <4>3 DEF Range
      <3> QED
        BY <3>4 DEF s
    <2> QED
      BY <2>1, <2>2, <2>3, <2>4 DEF TidyAt
  <1>4. ASSUME NEW i \in DOMAIN segments, NEW j \in DOMAIN segments, i < j
        PROVE  TidyPair(segments, i, j)
    <2>1. segments[i].endAt <= segments[j].startAt
      BY <1>4 DEF LayoutInv, Layout, Ordered
    <2>2. /\ i \in DOMAIN Places /\ Places[i] = segments[i].points
          /\ j \in DOMAIN Places /\ Places[j] = segments[j].points
      BY <1>2
    <2>3. \A p \in Range(Places[i]), q \in Range(Places[j]) : p.at < q.at
      BY <2>2, <1>1, <1>4 DEF EveryPointOnce
    <2> QED
      BY <2>1, <2>2, <2>3 DEF TidyPair
  <1> QED
    BY <1>1, <1>3, <1>4 DEF Tidy

LEMMA TidyAccounts ==
  ASSUME TypeOK, Tidy(segments, Range(points))
  PROVE  ReportAccounts
  <1> SUFFICES ASSUME window # NoWindow
               PROVE  /\ Report = ClipToWindow(segments, window) => ReportFitsWindow
                      /\ Report = ClipToWindow(segments, window) => SummaryAddsUp
    BY DEF ReportAccounts, ReportFitsWindow, SummaryAddsUp, Report
  <1>1. window \in Windows /\ points \in Seq(Point) /\ segments \in Seq(Segment)
    BY DEF TypeOK, PointTypes, SegmentTypes
  <1>2. window.from \in Nat /\ window.to \in Nat /\ window.from < window.to
    BY <1>1, WindowsOrdered
  <1> DEFINE report == ClipToWindow(segments, window)
             P == Within(Range(points), window)
  <1>3. /\ Tidy(report, P)
        /\ \A k \in DOMAIN report :
              window.from <= report[k].startAt /\ report[k].endAt <= window.to
        /\ \A k \in DOMAIN report : report[k].startsBefore => k = 1
        /\ \A k \in DOMAIN report : report[k].endsAfter => k = Len(report)
        /\ \A s \in Range(segments) : \A p \in Range(s.points) :
              window.from < p.at /\ p.at < window.to =>
                  \E r \in Range(report) : p \in Range(r.points)
    BY <1>1, ClippedTidy
  <1> HIDE DEF report
  <1>4. ASSUME Report = report
        PROVE  ReportFitsWindow
    <2>1. /\ report \in Seq(Segment) /\ Len(report) \in Nat
          /\ \A i \in 1 .. Len(report) - 1 :
                i \in DOMAIN report /\ i + 1 \in DOMAIN report /\ i < i + 1
      BY <1>3 DEF Tidy
    <2>2. \A i \in 1 .. Len(report) - 1 : report[i].endAt <= report[i + 1].startAt
      BY <1>3, <2>1 DEF Tidy, TidyPair
    <2>3. \A i \in DOMAIN report : TidyAt(report, P, i)
      BY <1>3 DEF Tidy
    <2> QED
      BY <1>3, <1>4, <2>2, <2>3 DEF ReportFitsWindow, TidyAt
  <1>5. ASSUME Report = report
        PROVE  SummaryAddsUp
    <2>1. IsFiniteSet(P)
      <3> DEFINE n == Len(points)
      <3>1. n \in Nat /\ points \in Surjection(1 .. n, Range(points))
        BY <1>1 DEF Surjection, Range
      <3> HIDE DEF n
      <3>2. IsFiniteSet(1 .. n)
        BY <3>1, FS_Interval
      <3>3. IsFiniteSet(Range(points))
        BY <3>1, <3>2, FS_Surjection
      <3>4. P \in SUBSET Range(points)
        BY DEF Within
      <3> HIDE DEF P
      <3> QED
        BY <3>3, <3>4, FS_Subset
    <2>2. SumFunction([i \in DOMAIN report |-> Len(report[i].points)]) <= Cardinality(P)
      <3> HIDE DEF P
      <3> QED
        BY <1>3, <2>1, PointsCounted
    <2>3. SecondsOf(report, {"journey"}) + SecondsOf(report, {"active_static"})
            + SecondsOf(report, {"stationary"}) + SecondsOf(report, {"data_gap"})
              <= window.to - window.from
      <3> HIDE DEF P
      <3>1. window.from <= window.to
        BY <1>2
      <3> QED
        BY <1>2, <1>3, <3>1, SecondsAddUp
    <2>4. LET sum == Summarise(Report) IN
          /\ sum.movingSeconds = SecondsOf(report, {"journey"})
          /\ sum.activeStaticSeconds = SecondsOf(report, {"active_static"})
          /\ sum.stationarySeconds = SecondsOf(report, {"stationary"})
          /\ sum.communicationGapSeconds = SecondsOf(report, {"data_gap"})
          /\ sum.pointCount = SumFunction([i \in DOMAIN report |-> Len(report[i].points)])
      BY <1>5 DEF Summarise
    <2>5. P = {p \in Range(points) : window.from <= p.at /\ p.at <= window.to}
      BY DEF Within
    <2> QED
      BY <2>2, <2>3, <2>4, <2>5 DEF SummaryAddsUp
  <1> QED
    BY <1>4, <1>5 DEF report

(* Whatever the points and the window: the report has its segments in      *)
(* order within the window, marked as cut only at its edges, with every    *)
(* point inside the window that the segments had, and its summary counts   *)
(* no second and no point twice.                                           *)
THEOREM ReportAccountsCorrect == Spec => []ReportAccounts
  <1>1. TypeOK /\ Timeline /\ LayoutInv => ReportAccounts
    BY SegmentsTidy, TidyAccounts
  <1> QED
    BY <1>1, LayoutCorrect, TimelineCorrect, PTL
=============================================================================
