--------------------------- MODULE ActivityReport --------------------------
(***************************************************************************)
(* The activity report of computation.server.go: BuildSegments reads the   *)
(* points of an asset one by one and cuts the time they span into          *)
(* journeys, stops (active_static or stationary) and data gaps, then clips *)
(* the segments to the window of the report and sums them up.              *)
(*                                                                         *)
(* A point joins a segment late: it is buffered until enough points of its *)
(* kind confirm a change, and the change is then dated back to the first   *)
(* of them.  What is modelled of a point is what the engine asks of it;    *)
(* where it lies only matters as the distance from the point before, since *)
(* a buffer always holds points that follow one another.                   *)
(*                                                                         *)
(* prepare has run: the points have a valid fix and come in order of time, *)
(* one per timestamp.                                                      *)
(***************************************************************************)
EXTENDS Naturals, Sequences, FiniteSets, Functions

CONSTANTS
    Elapsed,    \* the times that may pass between two points
    Distances,  \* the distances that may lie between two points
    MaxPoints,  \* bound: points of a report
    Windows,    \* the windows a report may be clipped to
    MinimumMovementMeters, MovementConfirmationPoints,
    MovementConfirmationMeters, StationaryConfirmationSeconds,
    MaximumPointGapSeconds, MaximumPlausibleSpeed, MinimumJumpMeters,
    MinimumRouteHoleSeconds

ASSUME InputAssumption ==
    /\ Elapsed \subseteq Nat \ {0} /\ Distances \subseteq Nat /\ MaxPoints \in Nat
    /\ Windows \subseteq [from : Nat, to : Nat]
    /\ \A w \in Windows : w.from < w.to

(* Both profiles confirm a journey by two points at least, a stop by at    *)
(* least 180 seconds; a buffer of one point covers no distance.            *)
ASSUME ConfigAssumption ==
    /\ MinimumMovementMeters \in Nat
    /\ MovementConfirmationPoints \in Nat /\ MovementConfirmationPoints > 1
    /\ MovementConfirmationMeters \in Nat \ {0}
    /\ StationaryConfirmationSeconds \in Nat \ {0}
    /\ MaximumPointGapSeconds \in Nat
    /\ MaximumPlausibleSpeed \in Nat \ {0}
    /\ MinimumJumpMeters \in Nat
    /\ MinimumRouteHoleSeconds \in Nat

VARIABLES
    points,             \* history: the points read so far
    current,            \* the segment under construction, or None
    pendingMovement,    \* moving points not confirmed yet
    pendingStationary,  \* still points not confirmed yet
    segments,           \* the segments closed so far
    window              \* the window of the report, NoWindow until the end

engineVars == <<current, pendingMovement, pendingStationary, segments>>
vars == <<points, engineVars, window>>

(* moved: from the point before; speaks: by its speed or, if it reports    *)
(* none, by its movement flag the point is moving; works: ResolveActivity. *)
Point == [at : Nat, moved : Nat, speaks : BOOLEAN, works : BOOLEAN]

StopKinds == {"active_static", "stationary"}
Building  == [kind : {"journey"} \cup StopKinds, startAt : Nat, points : Seq(Point)]
Segment   == [kind : {"journey", "data_gap"} \cup StopKinds,
              startAt : Nat, endAt : Nat, points : Seq(Point),
              endReason : {"", "became_active_static", "became_stationary",
                           "data_gap", "report_end"},
              startsBefore : BOOLEAN, endsAfter : BOOLEAN]

None     == [kind |-> "none", startAt |-> 0, points |-> <<>>]
NoWindow == [from |-> 0, to |-> 0]

Init ==
    /\ points = <<>>
    /\ current = None
    /\ pendingMovement = <<>> /\ pendingStationary = <<>>
    /\ segments = <<>>
    /\ window = NoWindow

-----------------------------------------------------------------------------
(* The tests on a point.                                                   *)

previous == points[Len(points)]
LastTime == IF points = <<>> THEN 0 ELSE previous.at

IsMoving(p) == p.speaks \/ p.moved >= MinimumMovementMeters

(* The points prepare lets through after the last one.  Of the first only  *)
(* the time counts; whether a point speaks is not asked when it has moved, *)
(* and whether it works not when it is moving.                             *)
NextPoints ==
    {p \in [at : {LastTime + e : e \in Elapsed}, moved : Distances \cup {0},
            speaks : BOOLEAN, works : BOOLEAN] :
        /\ points = <<>> => p.moved = 0 /\ ~p.speaks /\ ~p.works
        /\ p.moved >= MinimumMovementMeters => ~p.speaks
        /\ IsMoving(p) => ~p.works}

GapByElapsedTime(p, elapsed) == elapsed > MaximumPointGapSeconds

GapByImplausibleJump(p, elapsed) ==
    p.moved >= MinimumJumpMeters /\ p.moved > MaximumPlausibleSpeed * elapsed

GapByRouteHole(p, elapsed) ==
    elapsed >= MinimumRouteHoleSeconds /\ p.moved >= MinimumJumpMeters

(* Whether the way from the point q to the point p after it is unknown.    *)
IsGap(q, p) ==
    LET elapsed == p.at - q.at IN
    \/ GapByImplausibleJump(p, elapsed) \/ GapByRouteHole(p, elapsed)
    \/ GapByElapsedTime(p, elapsed) /\ IsMoving(p)

(* A silence of a tracker that is where it was: bridged, not a gap.        *)
IsSilence(q, p) == p.at - q.at > MaximumPointGapSeconds /\ ~IsGap(q, p)

BufferedMeters(buffer) ==
    SumFunctionOnSet([i \in DOMAIN buffer |-> buffer[i].moved], 2 .. Len(buffer))

MovementConfirmed(buffer) ==
    \/ Len(buffer) >= MovementConfirmationPoints
    \/ BufferedMeters(buffer) >= MovementConfirmationMeters

-----------------------------------------------------------------------------
(* The engine.                                                             *)

(* closeCurrent: b becomes a segment that ends at endAt.                   *)
Closed(b, endAt, endReason) ==
    IF b = None THEN <<>>
    ELSE << [kind |-> b.kind, startAt |-> b.startAt, endAt |-> endAt,
             points |-> b.points,
             endReason |-> IF b.kind = "journey" THEN endReason ELSE "",
             startsBefore |-> FALSE, endsAfter |-> FALSE] >>

Gap(q, p) ==
    [kind |-> "data_gap", startAt |-> q.at, endAt |-> p.at, points |-> <<>>,
     endReason |-> "", startsBefore |-> FALSE, endsAfter |-> FALSE]

(* absorbPending: the buffer joins the current segment, if there is one.   *)
Absorbed(b, buffer) ==
    IF b = None THEN None ELSE [b EXCEPT !.points = @ \o buffer]

(* A buffer is confirmed: the current segment goes on, if it is of that    *)
(* kind, or is closed where the buffer begins.                             *)
Confirm(b, kind, buffer) ==
    IF b.kind = kind
    THEN /\ current' = Absorbed(b, buffer)
         /\ UNCHANGED segments
    ELSE /\ segments' = segments \o Closed(b, buffer[1].at,
                IF kind = "active_static" THEN "became_active_static"
                                          ELSE "became_stationary")
         /\ current' = [kind |-> kind, startAt |-> buffer[1].at, points |-> buffer]

Seed(p) ==
    /\ points = <<>>
    /\ UNCHANGED engineVars

(* Mutant of CloseGapAndReset: the buffer of still points survives a gap.  *)
CloseGapKeepsBuffer(p) ==
    /\ points # <<>> /\ IsGap(previous, p)
    /\ segments' = segments \o Closed(current, previous.at, "data_gap")
                            \o <<Gap(previous, p)>>
    /\ current' = None
    /\ pendingMovement' = <<>> /\ UNCHANGED pendingStationary

(* Mutant of CloseGapAndReset: no gap where there is nothing to close.     *)
GapOnlyClosesCurrent(p) ==
    /\ points # <<>> /\ IsGap(previous, p)
    /\ segments' = IF current = None THEN segments
                   ELSE segments \o Closed(current, previous.at, "data_gap")
                                 \o <<Gap(previous, p)>>
    /\ current' = None
    /\ pendingMovement' = <<>> /\ pendingStationary' = <<>>

CloseGapAndReset(p) ==
    /\ points # <<>> /\ IsGap(previous, p)
    /\ segments' = segments \o Closed(current, previous.at, "data_gap")
                            \o <<Gap(previous, p)>>
    /\ current' = None
    /\ pendingMovement' = <<>> /\ pendingStationary' = <<>>

StepMoving(p) ==
    LET b == Absorbed(current, pendingStationary)
        buffer == Append(pendingMovement, p)
    IN
    /\ points # <<>> /\ ~IsGap(previous, p) /\ IsMoving(p)
    /\ pendingStationary' = <<>>
    /\ IF MovementConfirmed(buffer)
       THEN pendingMovement' = <<>> /\ Confirm(b, "journey", buffer)
       ELSE pendingMovement' = buffer /\ current' = b /\ UNCHANGED segments

(* Mutant of Works: the point at the far end of a silence speaks for it.   *)
WorksAtOnce(q, p) == p.works

(* A point after a bridged silence is taken as one that does not work.     *)
Works(q, p) == p.works /\ ~IsSilence(q, p)

(* Mutant of StepStationary: the points of a drift blip are dropped.       *)
StepStationaryDropsBlip(p) ==
    LET buffer == Append(pendingStationary, p)
        kind == IF Works(previous, p) THEN "active_static" ELSE "stationary"
    IN
    /\ points # <<>> /\ ~IsGap(previous, p) /\ ~IsMoving(p)
    /\ pendingMovement' = <<>>
    /\ IF p.at - buffer[1].at >= StationaryConfirmationSeconds
       THEN pendingStationary' = <<>> /\ Confirm(current, kind, buffer)
       ELSE pendingStationary' = buffer /\ UNCHANGED <<current, segments>>

StepStationary(p) ==
    LET b == Absorbed(current, pendingMovement)
        buffer == Append(pendingStationary, p)
        kind == IF Works(previous, p) THEN "active_static" ELSE "stationary"
    IN
    /\ points # <<>> /\ ~IsGap(previous, p) /\ ~IsMoving(p)
    /\ pendingMovement' = <<>>
    /\ IF p.at - buffer[1].at >= StationaryConfirmationSeconds
       THEN pendingStationary' = <<>> /\ Confirm(b, kind, buffer)
       ELSE pendingStationary' = buffer /\ current' = b /\ UNCHANGED segments

Step(p) ==
    /\ window = NoWindow
    /\ Len(points) < MaxPoints
    /\ points' = Append(points, p)
    /\ Seed(p) \/ CloseGapAndReset(p) \/ StepMoving(p) \/ StepStationary(p)
    /\ UNCHANGED window

-----------------------------------------------------------------------------
(* The window of the report.                                               *)

(* Mutant of Overlaps: a segment that touches the edge overlaps.           *)
TouchesWindow(s, w) == s.endAt >= w.from /\ s.startAt <= w.to

Overlaps(s, w) == s.endAt > w.from /\ s.startAt < w.to
IsCut(s, w) == s.startAt < w.from \/ s.endAt > w.to

(* The entries of seq at the indices in I, in their order: what SelectSeq  *)
(* does, of which the prover knows nothing.                                *)
Nth(I, k) == CHOOSE i \in I : Cardinality({j \in I : j <= i}) = k
Entries(seq, I) == [k \in 1 .. Cardinality(I) |-> seq[Nth(I, k)]]

Inside(pts, w) == {i \in DOMAIN pts : w.from <= pts[i].at /\ pts[i].at <= w.to}

PointsWithin(s, w) ==
    IF IsCut(s, w) THEN Entries(s.points, Inside(s.points, w)) ELSE s.points

ClipSegment(s, w) ==
    [s EXCEPT !.startAt = IF @ < w.from THEN w.from ELSE @,
              !.endAt = IF @ > w.to THEN w.to ELSE @,
              !.points = PointsWithin(s, w),
              !.startsBefore = s.startAt < w.from,
              !.endsAfter = s.endAt > w.to]

Surviving(segs, w) ==
    {i \in DOMAIN segs :
        /\ Overlaps(segs[i], w)
        /\ segs[i].kind = "data_gap" \/ PointsWithin(segs[i], w) # <<>>}

ClipToWindow(segs, w) ==
    LET kept == Entries(segs, Surviving(segs, w))
    IN  [i \in DOMAIN kept |-> ClipSegment(kept[i], w)]

(* What BuildSegments returns.                                             *)
Report == IF window = NoWindow THEN <<>> ELSE ClipToWindow(segments, window)

(* The summary: seconds by kind, and the points of the segments.           *)
SecondsOf(segs, kinds) ==
    SumFunctionOnSet([i \in DOMAIN segs |-> segs[i].endAt - segs[i].startAt],
                     {i \in DOMAIN segs : segs[i].kind \in kinds})

Summarise(segs) ==
    [movingSeconds |-> SecondsOf(segs, {"journey"}),
     activeStaticSeconds |-> SecondsOf(segs, {"active_static"}),
     stationarySeconds |-> SecondsOf(segs, {"stationary"}),
     communicationGapSeconds |-> SecondsOf(segs, {"data_gap"}),
     pointCount |-> SumFunction([i \in DOMAIN segs |-> Len(segs[i].points)])]

(* finish: what is buffered joins the current segment, which ends with its *)
(* last point.                                                             *)
Finish ==
    LET b == Absorbed(current, pendingStationary \o pendingMovement)
        last == b.points[Len(b.points)].at
    IN
    /\ window = NoWindow
    /\ window' \in Windows
    /\ segments' = segments \o Closed(b, last, "report_end")
    /\ current' = None
    /\ pendingMovement' = <<>> /\ pendingStationary' = <<>>
    /\ UNCHANGED points

Next ==
    \/ \E p \in NextPoints : Step(p)
    \/ Finish

Spec == Init /\ [][Next]_vars

-----------------------------------------------------------------------------
(* Types.                                                                  *)

PointTypes ==
    /\ points \in Seq(Point)
    /\ pendingMovement \in Seq(Point) /\ pendingStationary \in Seq(Point)

SegmentTypes ==
    /\ current \in Building \cup {None}
    /\ segments \in Seq(Segment)
    /\ window \in Windows \cup {NoWindow}

(* The engine's state has its types, a buffer is either of moving or of    *)
(* still points, and the segment under construction has points.            *)
TypeOK ==
    /\ PointTypes /\ SegmentTypes
    /\ pendingMovement = <<>> \/ pendingStationary = <<>>
    /\ current # None => current.points # <<>>

-----------------------------------------------------------------------------
(* Properties.                                                             *)

IsStretch(s) == s.kind # "data_gap"

(* Where the segment after s begins.                                       *)
Follows(s, startAt) ==
    IF IsStretch(s) THEN startAt = s.endAt ELSE startAt >= s.endAt

(* The segments follow one another in time without overlap: each lasts,    *)
(* the next one begins where it ends, except after a data gap, whose far   *)
(* point only seeds the engine, and two neighbours are of two kinds unless *)
(* both are gaps.  A confirmed stop is thus never folded into the gap that *)
(* follows it (closeCurrent, closeGapAndReset).                            *)
Timeline ==
    /\ \A i \in DOMAIN segments : segments[i].startAt < segments[i].endAt
    /\ \A i \in 1 .. Len(segments) - 1 :
        /\ Follows(segments[i], segments[i + 1].startAt)
        /\ IsStretch(segments[i]) => segments[i + 1].kind # segments[i].kind
    /\ current # None /\ segments # <<>> =>
        /\ Follows(segments[Len(segments)], current.startAt)
        /\ current.kind # segments[Len(segments)].kind

(* Every way the rules call unknown is a data gap that spans exactly the   *)
(* two points, and nothing else is: no journey or stop is claimed through  *)
(* it (step, closeGapAndReset).                                            *)
IsGapAt(i, s) ==
    s.kind = "data_gap" /\ s.startAt = points[i].at /\ s.endAt = points[i + 1].at

GapsAreShown ==
    /\ \A i \in 1 .. Len(points) - 1 : IsGap(points[i], points[i + 1]) =>
        \E k \in DOMAIN segments : IsGapAt(i, segments[k])
    /\ \A k \in DOMAIN segments : segments[k].kind = "data_gap" =>
        \E i \in 1 .. Len(points) - 1 :
            IsGapAt(i, segments[k]) /\ IsGap(points[i], points[i + 1])

(* The points of the segments, of the one under construction and of the    *)
(* buffers, in that order: no point is in two places.                      *)
Places ==
    [i \in DOMAIN segments |-> segments[i].points]
        \o << current.points, pendingStationary, pendingMovement >>

InOrder(s) == \A i, j \in DOMAIN s : i < j => s[i].at < s[j].at

EveryPointOnce ==
    /\ \A i \in DOMAIN Places : InOrder(Places[i])
    /\ \A i, j \in DOMAIN Places : i < j =>
        \A p \in Range(Places[i]), q \in Range(Places[j]) : p.at < q.at
    /\ \A s \in Range(segments) : \A p \in Range(s.points) :
        s.startAt <= p.at /\ p.at <= s.endAt

(* A point within a journey or a stop is one of its points, so a short     *)
(* stop stays in its journey and drift stays in its stop: only what was    *)
(* buffered when a data gap came is left out (absorbPending).              *)
PointsAreKept ==
    /\ \A k \in DOMAIN segments : LET s == segments[k] IN
        IsStretch(s) => \A p \in Range(points) :
            s.startAt <= p.at /\ p.at < s.endAt =>
                \/ p \in Range(s.points)
                \/ /\ k < Len(segments) /\ segments[k + 1].kind = "data_gap"
                   /\ \A q \in Range(s.points) : q.at < p.at
    /\ current # None => \A p \in Range(points) : p.at >= current.startAt =>
        p \in Range(current.points \o pendingStationary \o pendingMovement)

(* However buffers are confirmed, absorbed and dropped, no point of a      *)
(* journey or a stop is lost and none is counted twice.                    *)
PointsAccounted == EveryPointOnce /\ PointsAreKept

(* What confirmed a segment at the j-th point: from the one it starts with *)
(* a run of moving points that is long enough in points or metres; a run   *)
(* of still points that is long enough in time, the last one of them       *)
(* working if the stop is active.                                          *)
IsEvidence(pts, kind, startAt, j) ==
    \E i \in 1 .. j :
        /\ pts[i].at = startAt
        /\ IF kind = "journey"
           THEN /\ \A n \in i .. j : IsMoving(pts[n])
                /\ MovementConfirmed(SubSeq(pts, i, j))
           ELSE /\ \A n \in i .. j : ~IsMoving(pts[n])
                /\ pts[j].at >= startAt + StationaryConfirmationSeconds
                /\ kind = "active_static" =>
                      /\ pts[j].works
                      /\ StationaryConfirmationSeconds <= MaximumPointGapSeconds =>
                            \A n \in i .. j - 1 : ~IsSilence(pts[n], pts[n + 1])

(* No journey starts from an isolated point, no stop from a pause, and no  *)
(* stop is called active by a point at the far end of a silence, provided  *)
(* a stop is confirmed sooner than a silence is one: what began a segment  *)
(* was observed (stepMoving, stepStationary).                              *)
Confirmed ==
    /\ \A s \in Range(segments) : IsStretch(s) =>
        \E j \in DOMAIN points : points[j].at <= s.endAt
                                  /\ IsEvidence(points, s.kind, s.startAt, j)
    /\ current # None =>
        \E j \in DOMAIN points : IsEvidence(points, current.kind, current.startAt, j)

(* What the clipped report owes its window: segments in order within it,   *)
(* marked as cut only at its edges, with every point inside the window     *)
(* that the segments had (clipToWindow).                                   *)
ReportFitsWindow ==
    window # NoWindow => LET report == Report IN
        /\ \A i \in DOMAIN report :
            /\ window.from <= report[i].startAt /\ report[i].endAt <= window.to
            /\ report[i].startAt < report[i].endAt
            /\ report[i].startsBefore => i = 1
            /\ report[i].endsAfter => i = Len(report)
            /\ \A p \in Range(report[i].points) :
                report[i].startAt <= p.at /\ p.at <= report[i].endAt
        /\ \A i \in 1 .. Len(report) - 1 : report[i].endAt <= report[i + 1].startAt
        /\ \A s \in Range(segments) : \A p \in Range(s.points) :
            window.from < p.at /\ p.at < window.to =>
                \E r \in Range(report) : p \in Range(r.points)

(* The summary accounts for no second of the window twice, for none that   *)
(* is outside it, and for no point that is not in it (Summarise).          *)
SummaryAddsUp ==
    window # NoWindow => LET sum == Summarise(Report) IN
        /\ sum.movingSeconds + sum.activeStaticSeconds + sum.stationarySeconds
               + sum.communicationGapSeconds <= window.to - window.from
        /\ sum.pointCount <=
               Cardinality({p \in Range(points) : window.from <= p.at
                                                  /\ p.at <= window.to})

(* The report and its summary account for the window: each second at most  *)
(* once, and every point of a segment that lies inside.                    *)
ReportAccounts == ReportFitsWindow /\ SummaryAddsUp

(* A silence is claimed as working time by no segment: "a bridged silence  *)
(* claims only what the position proves, never active_static" (engine.go). *)
SilenceIsNotWork ==
    \A i \in 1 .. Len(points) - 1 : IsSilence(points[i], points[i + 1]) =>
        ~ \E s \in Range(segments) :
            s.kind = "active_static" /\ s.startAt <= points[i].at
                                    /\ points[i + 1].at <= s.endAt
=============================================================================
