--------------------------- MODULE ConsoleProofs ---------------------------
(***************************************************************************)
(* Proofs about Console and the modules it composes, for any sets of ids,  *)
(* any tables to begin with, any reports and any bounds.                   *)
(***************************************************************************)
EXTENDS ConsoleInvariants, SequenceTheorems, FiniteSetTheorems, WellFoundedInduction, TLAPS

-----------------------------------------------------------------------------
(* Induction.  The library states it for a formula; stated for a set it    *)
(* can be used by every prover.                                            *)

LEMMA LeastNat ==
  ASSUME NEW T \in SUBSET Nat, T # {}
  PROVE  \E n \in T : \A m \in T : n <= m
<1> DEFINE R == {ss \in Nat \X Nat : ss[1] < ss[2]}
<1>1. IsWellFoundedOn(R, Nat)
  BY NatLessThanWellFounded DEF OpToRel
<1>2. PICK n \in T : \A m \in T : ~ (<<m, n>> \in R)
  <2> HIDE DEF R
  <2> QED
    BY <1>1, WFMin
<1>3. \A m \in T : m \in Nat /\ n \in Nat /\ ~ (m < n)
  BY <1>2
<1> QED
  BY <1>3

LEMMA NatSetInduction ==
  ASSUME NEW S \in SUBSET Nat, 0 \in S, \A n \in S : n + 1 \in S
  PROVE  S = Nat
<1> SUFFICES ASSUME Nat \ S # {} PROVE FALSE
  OBVIOUS
<1>1. PICK n \in Nat \ S : \A m \in Nat \ S : n <= m
  BY LeastNat
<1>2. n # 0 /\ n - 1 \in Nat /\ n - 1 < n
  BY <1>1
<1>3. n - 1 \in S
  BY <1>1, <1>2
<1> QED
  BY <1>1, <1>2, <1>3

-----------------------------------------------------------------------------
(* The report page.                                                        *)

(* FlattenSeq is the function its recursion describes, and has the         *)
(* elements of all its parts.                                              *)
LEMMA FlattenElements ==
  ASSUME NEW S, NEW seqs \in Seq(Seq(S))
  PROVE  /\ FlattenSeq(seqs) \in Seq(S)
         /\ ToSet(FlattenSeq(seqs)) = UNION {ToSet(seqs[i]) : i \in 1 .. Len(seqs)}
<1> DEFINE N == Len(seqs)
           Eqn(f, m) == \A i \in 1 .. m : f[i] = IF i = 1 THEN seqs[i] ELSE f[i - 1] \o seqs[i]
           Good(f, m) == /\ Eqn(f, m)
                         /\ \A i \in 1 .. m : /\ f[i] \in Seq(S)
                                              /\ ToSet(f[i]) = UNION {ToSet(seqs[j]) : j \in 1 .. i}
           T == {m \in Nat : m <= N => \E f \in [1 .. m -> Seq(S)] : Good(f, m)}
<1>1. CASE N = 0
  BY <1>1 DEF FlattenSeq, ToSet
<1> HIDE DEF N
<1>2. N \in Nat /\ \A i \in 1 .. N : seqs[i] \in Seq(S)
  BY DEF N
<1>3. 0 \in T
  <2>1. [i \in 1 .. 0 |-> <<>>] \in [1 .. 0 -> Seq(S)] /\ Good([i \in 1 .. 0 |-> <<>>], 0)
    OBVIOUS
  <2> HIDE DEF Good
  <2> QED
    BY <2>1
<1> HIDE DEF Good
<1>4. ASSUME NEW m \in T PROVE m + 1 \in T
  <2>a. m \in Nat /\ m + 1 \in Nat /\ (m + 1 <= N => m <= N)
    BY <1>2, <1>4
  <2> SUFFICES ASSUME m + 1 <= N PROVE \E f \in [1 .. (m + 1) -> Seq(S)] : Good(f, m + 1)
    BY <2>a
  <2>1. PICK f \in [1 .. m -> Seq(S)] : Good(f, m)
    BY <1>4, <2>a
  <2> DEFINE last == IF m = 0 THEN seqs[1] ELSE f[m] \o seqs[m + 1]
             g == [i \in 1 .. (m + 1) |-> IF i = m + 1 THEN last ELSE f[i]]
  <2>2. m \in Nat /\ m + 1 \in 1 .. N /\ seqs[m + 1] \in Seq(S) /\ (m # 0 => m \in 1 .. m)
    BY <1>2, <1>4
  <2>3. last \in Seq(S)
    BY <2>1, <2>2
  <2>4. ToSet(last) = UNION {ToSet(seqs[j]) : j \in 1 .. (m + 1)}
    <3>1. CASE m = 0
      BY <3>1, <2>2
    <3>2. CASE m # 0
      <4>1. ToSet(f[m]) = UNION {ToSet(seqs[j]) : j \in 1 .. m}
        BY <2>1, <2>2, <3>2 DEF Good
      <4>2. ToSet(last) = ToSet(f[m]) \cup ToSet(seqs[m + 1])
        <5>1. f[m] \in Seq(S) /\ seqs[m + 1] \in Seq(S)
          BY <2>1, <2>2, <3>2 DEF Good
        <5>2. Range(f[m] \o seqs[m + 1]) = Range(f[m]) \cup Range(seqs[m + 1])
          BY ONLY <5>1, RangeConcatenation
        <5> QED
          BY <5>2, <3>2 DEF ToSet, Range
      <4>3. 1 .. (m + 1) = (1 .. m) \cup {m + 1}
        BY <2>2
      <4> QED
        BY <4>1, <4>2, <4>3
    <3> QED
      BY <3>1, <3>2
  <2> HIDE DEF last
  <2>5. g \in [1 .. (m + 1) -> Seq(S)]
    BY <2>1, <2>2, <2>3
  <2>6. Good(g, m + 1)
    <3>1. \A i \in 1 .. m : g[i] = f[i] /\ i \in 1 .. (m + 1) /\ i # m + 1
      BY <2>2
    <3>2. g[m + 1] = last
      BY <2>2
    <3>3. \A i \in 1 .. (m + 1) : i = m + 1 \/ i \in 1 .. m
      BY <2>2
    <3>4. Eqn(g, m + 1)
      <4> SUFFICES ASSUME NEW i \in 1 .. (m + 1)
                   PROVE  g[i] = IF i = 1 THEN seqs[i] ELSE g[i - 1] \o seqs[i]
        OBVIOUS
      <4>1. CASE i \in 1 .. m
        <5>1. f[i] = IF i = 1 THEN seqs[i] ELSE f[i - 1] \o seqs[i]
          BY <2>1, <4>1 DEF Good
        <5>2. i # 1 => i - 1 \in 1 .. m
          BY <4>1, <2>2
        <5> QED
          BY <5>1, <5>2, <3>1, <4>1
      <4>2. CASE i = m + 1
        <5>1. i # 1 => m # 0 /\ i - 1 = m /\ g[m] = f[m]
          BY <4>2, <2>2, <3>1
        <5>2. i = 1 => m = 0
          BY <4>2, <2>2
        <5> QED
          BY <5>1, <5>2, <4>2, <3>2 DEF last
      <4> QED
        BY <4>1, <4>2, <3>3
    <3>5. \A i \in 1 .. (m + 1) : /\ g[i] \in Seq(S)
                                  /\ ToSet(g[i]) = UNION {ToSet(seqs[j]) : j \in 1 .. i}
      BY <3>1, <3>2, <3>3, <2>1, <2>3, <2>4 DEF Good
    <3> QED
      BY <3>4, <3>5 DEF Good
  <2> QED
    BY <2>5, <2>6, <2>a
<1>5. T = Nat
  <2> HIDE DEF T
  <2>1. T \in SUBSET Nat
    BY DEF T
  <2> QED
    BY <1>3, <1>4, <2>1, NatSetInduction
<1>6. CASE N # 0
  <2>1. PICK f \in [1 .. N -> Seq(S)] : Good(f, N)
    <3>1. N \in T
      <4> HIDE DEF T
      <4> QED
        BY <1>5, <1>2
    <3>2. N <= N
      BY <1>2
    <3> QED
      BY <3>1, <3>2
  <2> DEFINE flatten == CHOOSE h : h = [i \in 1 .. N |-> IF i = 1 THEN seqs[i]
                                                         ELSE h[i - 1] \o seqs[i]]
  <2>2. f = [i \in 1 .. N |-> IF i = 1 THEN seqs[i] ELSE f[i - 1] \o seqs[i]]
    BY Zenon, <2>1 DEF Good
  <2>3. flatten = [i \in 1 .. N |-> IF i = 1 THEN seqs[i] ELSE flatten[i - 1] \o seqs[i]]
    BY Zenon, <2>2
  <2>4. FlattenSeq(seqs) = flatten[N]
    BY <1>6 DEF FlattenSeq, N
  <2> HIDE DEF flatten
  <2>5. \A i \in 1 .. N : flatten[i] = IF i = 1 THEN seqs[i] ELSE flatten[i - 1] \o seqs[i]
    BY <2>3
  <2> DEFINE U == {i \in Nat : i \in 1 .. N => flatten[i] = f[i]}
  <2>6. 0 \in U
    OBVIOUS
  <2>7. ASSUME NEW i \in U PROVE i + 1 \in U
    <3>1. i + 1 # 1 /\ i + 1 \in 1 .. N => i \in 1 .. N /\ (i + 1) - 1 = i
      BY <1>2
    <3>2. i + 1 \in 1 .. N => f[i + 1] = IF i + 1 = 1 THEN seqs[i + 1] ELSE f[(i + 1) - 1] \o seqs[i + 1]
      BY <2>1 DEF Good
    <3>3. i + 1 \in 1 .. N => flatten[i + 1] = IF i + 1 = 1 THEN seqs[i + 1]
                                               ELSE flatten[(i + 1) - 1] \o seqs[i + 1]
      BY <2>5
    <3> QED
      BY <3>1, <3>2, <3>3, <2>7
  <2>8. U = Nat
    <3> HIDE DEF U
    <3>1. U \in SUBSET Nat
      BY DEF U
    <3> QED
      BY <2>6, <2>7, <3>1, NatSetInduction
  <2>9. N \in 1 .. N /\ flatten[N] = f[N]
    <3>1. N \in 1 .. N
      BY <1>2, <1>6
    <3>2. N \in U
      BY <2>8, <1>2
    <3> QED
      BY <3>1, <3>2
  <2> QED
    BY <2>1, <2>4, <2>9 DEF N, Good
<1> QED
  BY <1>1, <1>6

(* The first index that passes a test.                                     *)
LEMMA SelectFirst ==
  ASSUME NEW n \in Nat, NEW I \in SUBSET (1 .. n), I # {}
  PROVE  Min(I) \in I
<1>1. PICK i \in I : \A j \in I : i <= j
  BY LeastNat
<1> QED
  BY <1>1 DEF Min

(* The points of a report, and where they are.                             *)
LEMMA ReportFacts ==
  ASSUME NEW r \in Reports
  PROVE  /\ DOMAIN r.segments = 1 .. Len(r.segments) /\ Len(r.segments) \in Nat
         /\ \A i \in DOMAIN r.segments : /\ r.segments[i].id # Nothing
                                         /\ r.segments[i].id \in SegmentIds(r)
                                         /\ ToSet(r.segments[i].points) \subseteq ToSet(Track(r))
         /\ DOMAIN Track(r) = 1 .. Len(Track(r)) /\ Len(Track(r)) \in Nat
         /\ Track(r) # <<>> => Len(Track(r)) # 0
         /\ \A k \in DOMAIN Track(r) : /\ Track(r)[k] # Nothing
                                       /\ Track(r)[k].at \in Nat
                                       /\ Track(r)[k] \in ToSet(Track(r))
                                       /\ \E i \in DOMAIN r.segments :
                                              Track(r)[k] \in ToSet(r.segments[i].points)
<1> DEFINE segs == r.segments
           seqs == [i \in DOMAIN segs |-> segs[i].points]
           P == UNION {ToSet(s.points) : s \in ToSet(segs)}
<1>1. segs \in Seq(ToSet(segs)) /\ DOMAIN segs = 1 .. Len(segs) /\ Len(segs) \in Nat
  BY ReportAssumption
<1>2. \A i \in 1 .. Len(segs) : segs[i] \in ToSet(segs)
  BY <1>1 DEF ToSet
<1>3. \A s \in ToSet(segs) : /\ s.id # Nothing
                             /\ s.points \in Seq(ToSet(s.points))
                             /\ \A p \in ToSet(s.points) : p # Nothing /\ p.at \in Nat
  BY ReportAssumption
<1>4. \A i \in 1 .. Len(segs) : seqs[i] = segs[i].points
  BY <1>1
<1>5. \A i \in 1 .. Len(segs) : seqs[i] \in Seq(P)
  <2> SUFFICES ASSUME NEW i \in 1 .. Len(segs) PROVE segs[i].points \in Seq(P)
    BY <1>4
  <2>1. segs[i].points \in Seq(ToSet(segs[i].points)) /\ ToSet(segs[i].points) \subseteq P
    BY <1>2, <1>3
  <2> QED
    BY <2>1, SeqMonotonic
<1>6. seqs \in Seq(Seq(P)) /\ Len(seqs) = Len(segs)
  <2>1. seqs = [i \in 1 .. Len(segs) |-> seqs[i]]
    BY <1>1
  <2> HIDE DEF seqs
  <2>2. seqs \in [1 .. Len(segs) -> Seq(P)]
    BY <2>1, <1>5
  <2> QED
    BY <2>2, <1>1
<1>7. Track(r) = FlattenSeq(seqs)
  BY DEF Track
<1> HIDE DEF seqs, P
<1>8. /\ Track(r) \in Seq(P)
      /\ ToSet(Track(r)) = UNION {ToSet(seqs[i]) : i \in 1 .. Len(seqs)}
  BY <1>6, <1>7, FlattenElements
<1>9. /\ DOMAIN Track(r) = 1 .. Len(Track(r)) /\ Len(Track(r)) \in Nat
      /\ Track(r) # <<>> => Len(Track(r)) # 0
  BY <1>8
<1>10. \A i \in DOMAIN segs : /\ segs[i].id # Nothing
                              /\ segs[i].id \in SegmentIds(r)
                              /\ ToSet(segs[i].points) \subseteq ToSet(Track(r))
  BY <1>1, <1>2, <1>3, <1>4, <1>6, <1>8 DEF SegmentIds
<1>11. ASSUME NEW k \in DOMAIN Track(r)
       PROVE  /\ Track(r)[k] # Nothing /\ Track(r)[k].at \in Nat
              /\ Track(r)[k] \in ToSet(Track(r))
              /\ \E i \in DOMAIN segs : Track(r)[k] \in ToSet(segs[i].points)
  <2>1. Track(r)[k] \in ToSet(Track(r))
    BY <1>11 DEF ToSet
  <2>2. PICK i \in 1 .. Len(segs) : Track(r)[k] \in ToSet(segs[i].points)
    BY <2>1, <1>4, <1>6, <1>8
  <2> QED
    BY <2>1, <2>2, <1>1, <1>2, <1>3
<1> QED
  BY <1>1, <1>9, <1>10, <1>11

LEMMA PageInitial == ReportInit => PageInv
  BY DEF ReportInit, PageInv, SelectionIsShown

(* A gesture selects a segment that is shown and a point of its track.     *)
LEMMA GestureKeeps ==
  ASSUME PageInv, NEW s, NEW p, Gesture(s, p),
         s = Nothing \/ s \in SegmentIds(shown.report),
         p = Nothing \/ p \in ToSet(Track(shown.report))
  PROVE  PageInv'
<1>1. /\ UNCHANGED <<account, asked, requests, outlived, loading, error, shown, ready>>
      /\ segment' = s /\ point' = p /\ picked' = shown.n /\ shown # Nothing
      /\ early' = (p # Nothing /\ (~ready \/ (early /\ p = point)))
      /\ Framed(s, p)
  BY DEF Gesture, Displayed
<1>2. p # Nothing /\ ready => frame' = On("point", p) \/ early'
  BY <1>1 DEF PageInv, SelectionIsShown, Framed
<1>3. p # Nothing => ready \/ early'
  BY <1>1
<1>4. SelectionIsShown'
  BY <1>1, <1>2 DEF SelectionIsShown
<1> QED
  BY <1>1, <1>3, <1>4 DEF PageInv

(* Dragging and stepping end at a point of the track, whose segment is     *)
(* found.                                                                  *)
LEMMA ScrubKeeps ==
  ASSUME PageInv, Displayed, NEW i \in DOMAIN Track(shown.report), ScrubTo(i)
  PROVE  PageInv'
<1> DEFINE r == shown.report
           p == Track(r)[i]
           I == {k \in 1 .. Len(r.segments) : p \in ToSet(r.segments[k].points)}
           j == SelectInSeq(r.segments, LAMBDA s : p \in ToSet(s.points))
<1>1. r \in Reports
  BY DEF PageInv, Displayed
<1> HIDE DEF r
<1>2. I # {} /\ Len(r.segments) \in Nat /\ DOMAIN r.segments = 1 .. Len(r.segments)
  BY <1>1, ReportFacts DEF r
<1>3. j = Min(I)
  BY <1>2 DEF SelectInSeq
<1>4. j \in DOMAIN r.segments
  <2>1. I \in SUBSET (1 .. Len(r.segments))
    OBVIOUS
  <2> HIDE DEF I, j
  <2>2. j \in I
    BY <2>1, <1>2, <1>3, SelectFirst
  <2> QED
    BY <2>1, <2>2, <1>2
<1>5. Gesture(r.segments[j].id, p)
  BY DEF ScrubTo, r
<1>6. r.segments[j].id \in SegmentIds(r) /\ p \in ToSet(Track(r))
  BY <1>1, <1>4, ReportFacts DEF r
<1> HIDE DEF j, p
<1> QED
  BY <1>5, <1>6, GestureKeeps DEF r

(* The point nearest to a time is a point of the track.                    *)
LEMMA NearestIsThere ==
  ASSUME PageInv, Displayed, Track(shown.report) # <<>>, NEW t \in Int
  PROVE  Nearest(t) \in DOMAIN Track(shown.report)
<1> DEFINE T == Track(shown.report)
           D == {Distance(p, t) : p \in ToSet(T)}
           I == {k \in 1 .. Len(T) : \A q \in ToSet(T) : Distance(T[k], t) <= Distance(q, t)}
<1>1. shown.report \in Reports
  BY DEF PageInv, Displayed
<1>2. /\ DOMAIN T = 1 .. Len(T) /\ Len(T) \in Nat
      /\ \A k \in 1 .. Len(T) : T[k].at \in Nat /\ T[k] \in ToSet(T)
  BY <1>1, ReportFacts
<1> HIDE DEF T
<1>3. \A p \in ToSet(T) : \E k \in 1 .. Len(T) : T[k] = p
  BY <1>2 DEF ToSet
<1>4. \A p \in ToSet(T) : Distance(p, t) \in Nat
  BY <1>2, <1>3 DEF Distance
<1>5. Len(T) # 0
  BY <1>1, ReportFacts DEF T
<1>6. PICK d \in D : \A e \in D : d <= e
  <2>1. D \in SUBSET Nat /\ D # {}
    BY <1>2, <1>4, <1>5
  <2> HIDE DEF D
  <2> QED
    BY <2>1, LeastNat
<1>7. I # {}
  BY <1>3, <1>6
<1>8. Nearest(t) = Min(I)
  BY <1>7 DEF Nearest, SelectInSeq, T
<1>9. I \in SUBSET (1 .. Len(T))
  OBVIOUS
<1> HIDE DEF I
<1> QED
  BY <1>2, <1>7, <1>8, <1>9, SelectFirst DEF T

LEMMA PageStep ==
  ASSUME NEW S, PageInv, [ReportNext(S)]_reportVars
  PROVE  PageInv'
<1> USE DEF storeVars, widgetVars, Unselected, Unmounted
<1>1. CASE ChooseAsset(S)
  BY <1>1 DEF ChooseAsset, PageInv, SelectionIsShown
<1>2. CASE Generate
  <2>1. asked' \in Nat /\ asked' = asked + 1 /\ requests = {} /\ account \in Accounts
    BY <1>2 DEF Generate, PageInv, SignedIn
  <2> QED
    BY <1>2, <2>1 DEF Generate, PageInv, SelectionIsShown
<1>3. ASSUME NEW q \in requests, Receive(q) PROVE PageInv'
  BY <1>3 DEF Receive, Answer, PageInv, SelectionIsShown
<1>4. ASSUME NEW q \in requests, FailReport(q) PROVE PageInv'
  BY <1>4 DEF FailReport, PageInv, SelectionIsShown
<1>5. CASE MapReady
  BY <1>5 DEF MapReady, Displayed, PageInv, SelectionIsShown
<1>6. CASE SelectSegment
  <2>1. PICK s \in SegmentIds(shown.report) : Gesture(s, Nothing)
    BY <1>6 DEF SelectSegment
  <2> QED
    BY <2>1, GestureKeeps
<1>7. CASE ToggleExpanded
  BY <1>7 DEF ToggleExpanded, PageInv, SelectionIsShown
<1>8. CASE SelectPoint
  <2>1. shown # Nothing /\ shown.report \in Reports
    BY <1>8 DEF SelectPoint, Displayed, PageInv
  <2>5. PICK i \in DOMAIN shown.report.segments :
           \E p \in ToSet(shown.report.segments[i].points) :
               Gesture(segment, IF p = point THEN Nothing ELSE p)
    BY <1>8 DEF SelectPoint
  <2>2. PICK p \in ToSet(shown.report.segments[i].points) :
           Gesture(segment, IF p = point THEN Nothing ELSE p)
    BY <2>5
  <2>3. p \in ToSet(Track(shown.report))
    BY <2>1, <2>2, ReportFacts
  <2>4. segment = Nothing \/ segment \in SegmentIds(shown.report)
    BY DEF PageInv, SelectionIsShown
  <2> QED
    BY <2>2, <2>3, <2>4, GestureKeeps
<1>9. CASE Step
  BY <1>9, ScrubKeeps DEF Step
<1>10. CASE Drag
  <2>1. PICK t \in shown.report.from .. shown.report.to : ScrubTo(Nearest(t))
    BY <1>10 DEF Drag
  <2>2. Nearest(t) \in DOMAIN Track(shown.report)
    BY <1>10, <2>1, NearestIsThere DEF Drag
  <2> QED
    BY <1>10, <2>1, <2>2, ScrubKeeps DEF Drag
<1>11. CASE SignOut
  BY <1>11 DEF SignOut, Cleared, PageInv, SelectionIsShown
<1>12. CASE SignIn
  BY <1>12, AccountAssumption DEF SignIn, PageInv, SelectionIsShown
<1>13. CASE SwitchOrg
  BY <1>13 DEF SwitchOrg, PageInv, SelectionIsShown
<1>14. CASE Reload
  BY <1>14 DEF Reload, PageInv, SelectionIsShown
<1>15. CASE UNCHANGED reportVars
  BY <1>15 DEF reportVars, PageInv, SelectionIsShown
<1> QED
  BY <1>1, <1>2, <1>3, <1>4, <1>5, <1>6, <1>7, <1>8, <1>9, <1>10, <1>11, <1>12,
     <1>13, <1>14, <1>15 DEF ReportNext

(* The rest of the console leaves the report page alone.                   *)
LEMMA PageAlways == ConsoleSpec => []PageInv
<1>1. ConsoleInit => PageInv
  BY PageInitial DEF ConsoleInit
<1>2. PageInv /\ [ConsoleNext]_consoleVars => PageInv'
  <2> SUFFICES ASSUME PageInv, [ConsoleNext]_consoleVars PROVE PageInv'
    OBVIOUS
  <2>1. CASE ReportsNext
    BY <2>1, PageStep DEF ReportsNext
  <2>2. CASE UNCHANGED reportVars
    BY <2>2, PageStep
  <2> QED
    BY <2>1, <2>2 DEF ConsoleNext, ConsoleStep, consoleVars
<1> QED
  BY <1>1, <1>2, PTL DEF ConsoleSpec

(* Whatever is selected is of the report that is shown, and the map is at  *)
(* the pinned point unless it was pinned too early, whoever signs in or    *)
(* out and whichever requests come back late.                              *)
THEOREM SelectionIsShownCorrect == ConsoleSpec => []SelectionIsShown
<1>1. PageInv => SelectionIsShown
  BY DEF PageInv
<1> QED
  BY <1>1, PageAlways, PTL

(* The report that is displayed is the answer to the last request, and     *)
(* whoever is signed in has asked for it, unless the session or the        *)
(* organisation it was asked in is no more.                                *)
THEOREM ShownIsAskedCorrect == ConsoleSpec => []ShownIsAsked
<1>1. PageInv => ShownIsAsked
  BY DEF PageInv, ShownIsAsked, Displayed
<1> QED
  BY <1>1, PageAlways, PTL


-----------------------------------------------------------------------------
(* A function on the numbers that is given by its first value and by what  *)
(* follows each: the equation has a solution.                              *)
Iterates(f, S, G, a) ==
    f \in [Nat -> S] /\ f[0] = a /\ \A n \in Nat : f[n + 1] = G[f[n]]

LEMMA Iteration ==
  ASSUME NEW S, NEW G \in [S -> S], NEW a \in S
  PROVE  \E f : Iterates(f, S, G, a)
<1> DEFINE Upto(f, n) == f[0] = a /\ \A i \in 0 .. (n - 1) : f[i + 1] = G[f[i]]
           T == {n \in Nat : \E f \in [0 .. n -> S] : Upto(f, n)}
<1>1. T = Nat
  <2>1. 0 \in T
    <3>1. [i \in 0 .. 0 |-> a] \in [0 .. 0 -> S] /\ Upto([i \in 0 .. 0 |-> a], 0)
      OBVIOUS
    <3> HIDE DEF Upto
    <3> QED
      BY <3>1
  <2>2. ASSUME NEW n \in T PROVE n + 1 \in T
    <3>1. PICK f \in [0 .. n -> S] : Upto(f, n)
      BY <2>2
    <3> DEFINE g == [i \in 0 .. (n + 1) |-> IF i = n + 1 THEN G[f[n]] ELSE f[i]]
    <3>2. n \in Nat /\ n \in 0 .. n /\ n + 1 \in Nat
      BY <2>2
    <3>3. g \in [0 .. (n + 1) -> S]
      BY <3>2
    <3>4. Upto(g, n + 1)
      <4>1. g[0] = a
        BY <3>1, <3>2
      <4>2. ASSUME NEW i \in 0 .. n PROVE g[i + 1] = G[g[i]]
        <5>1. g[i] = f[i]
          BY <3>2
        <5>2. CASE i = n
          BY <3>2, <5>1, <5>2
        <5>3. CASE i # n
          <6>1. i \in 0 .. (n - 1) /\ i + 1 \in 0 .. n
            BY <3>2, <5>3
          <6> QED
            BY <3>1, <3>2, <5>1, <6>1
        <5> QED
          BY <5>2, <5>3
      <4>3. 0 .. ((n + 1) - 1) = 0 .. n
        BY <3>2
      <4> HIDE DEF g
      <4> QED
        BY <4>1, <4>2, <4>3
    <3> HIDE DEF g, Upto
    <3> QED
      BY <3>2, <3>3, <3>4
  <2> HIDE DEF Upto
  <2>3. T \in SUBSET Nat
    OBVIOUS
  <2> HIDE DEF T
  <2> QED
    BY <2>1, <2>2, <2>3, NatSetInduction
<1>2. ASSUME NEW n \in Nat, NEW m \in Nat, NEW f, NEW g, Upto(f, n), Upto(g, m)
      PROVE  \A i \in Nat : i <= n /\ i <= m => f[i] = g[i]
  <2> DEFINE A == {i \in Nat : i <= n /\ i <= m => f[i] = g[i]}
  <2>1. 0 \in A
    BY <1>2
  <2>2. ASSUME NEW i \in A PROVE i + 1 \in A
    <3> SUFFICES ASSUME i + 1 <= n, i + 1 <= m PROVE f[i + 1] = g[i + 1]
      BY <2>2
    <3>1. i \in Nat /\ i \in 0 .. (n - 1) /\ i \in 0 .. (m - 1) /\ f[i] = g[i]
      BY <2>2
    <3> QED
      BY <1>2, <3>1
  <2>3. A \in SUBSET Nat
    OBVIOUS
  <2>4. A = Nat
    <3> HIDE DEF A
    <3> QED
      BY <2>1, <2>2, <2>3, NatSetInduction
  <2> QED
    BY <2>4
<1>3. \A n \in Nat : \E f \in [0 .. n -> S] : Upto(f, n)
  <2> HIDE DEF Upto
  <2> QED
    BY <1>1
<1> DEFINE F(n) == CHOOSE f \in [0 .. n -> S] : Upto(f, n)
           h == [n \in Nat |-> F(n)[n]]
<1>4. \A n \in Nat : F(n) \in [0 .. n -> S] /\ Upto(F(n), n)
  <2> HIDE DEF Upto
  <2> QED
    BY <1>3
<1>5. \A n \in Nat : F(n)[n] \in S
  <2> HIDE DEF F, Upto
  <2> QED
    BY <1>4
<1>6. h[0] = a
  <2> HIDE DEF F
  <2> QED
    BY <1>4
<1>7. ASSUME NEW n \in Nat PROVE h[n + 1] = G[h[n]]
  <2>1. Upto(F(n), n) /\ Upto(F(n + 1), n + 1)
    <3>1. n + 1 \in Nat
      OBVIOUS
    <3> HIDE DEF F, Upto
    <3> QED
      BY <1>4, <3>1
  <2> HIDE DEF F
  <2>2. F(n + 1)[n] = F(n)[n]
    <3> HIDE DEF Upto
    <3>1. n + 1 \in Nat /\ n <= n /\ n <= n + 1
      OBVIOUS
    <3> QED
      BY <1>2, <2>1, <3>1
  <2>3. F(n + 1)[n + 1] = G[F(n + 1)[n]]
    BY <2>1
  <2> QED
    BY <2>2, <2>3
<1>8. h \in [Nat -> S]
  <2> HIDE DEF F
  <2> QED
    BY <1>5
<1> HIDE DEF h
<1> QED
  BY <1>6, <1>7, <1>8 DEF Iterates

-----------------------------------------------------------------------------
(* The tree of organisations.                                              *)

Tree == [Orgs -> OrgRow \cup {NoRow}]

(* H tells for every n what hangs below o at most n steps down.            *)
Depths(H, o, t) ==
    /\ H \in [Nat -> [Orgs \cup {None} -> BOOLEAN]]
    /\ \A x \in Orgs \cup {None} : H[0][x] <=> x = o
    /\ \A n \in Nat : \A x \in Orgs \cup {None} :
          H[n + 1][x] <=> x = o \/ (x # None /\ t[x] # NoRow /\ H[n][t[x].parent])

LEMMA ParentThere ==
  ASSUME NEW t \in Tree, NEW x \in Orgs, t[x] # NoRow
  PROVE  t[x].parent \in Orgs \cup {None}
  BY DEF Tree, OrgRow

LEMMA UnderDepths ==
  ASSUME NEW t \in Tree, NEW o \in Orgs
  PROVE  \E H : Depths(H, o, t) /\ Under(o, t) = {x \in Orgs : H[Cardinality(Orgs)][x]}
<1> DEFINE X == Orgs \cup {None}
           S == [X -> BOOLEAN]
           a == [x \in X |-> x = o]
           G == [h \in S |-> [x \in X |-> x = o \/ (x # None /\ t[x] # NoRow /\ h[t[x].parent])]]
           Body(f) == [n \in Nat |->
                         [x \in X |-> x = o \/ (x # None /\ n > 0 /\ t[x] # NoRow /\ f[n - 1][t[x].parent])]]
<1>1. a \in S
  OBVIOUS
<1>2. G \in [S -> S]
  <2>1. ASSUME NEW h \in S, NEW x \in X
        PROVE  (x = o \/ (x # None /\ t[x] # NoRow /\ h[t[x].parent])) \in BOOLEAN
    BY Zenon
  <2> QED
    BY <2>1
<1>3. PICK f \in [Nat -> S] : f[0] = a /\ \A n \in Nat : f[n + 1] = G[f[n]]
  <2> HIDE DEF S, a, G
  <2>1. PICK f : Iterates(f, S, G, a)
    BY <1>1, <1>2, Iteration
  <2> QED
    BY <2>1 DEF Iterates
<1>4. f = Body(f)
  <2>1. ASSUME NEW n \in Nat PROVE f[n] = Body(f)[n]
    <3>1. CASE n = 0
      <4>0. ~(n > 0)
        BY <3>1
      <4>1. \A x \in X : (x = o) = (x = o \/ (x # None /\ n > 0 /\ t[x] # NoRow /\ f[n - 1][t[x].parent]))
        BY <4>0, Zenon
      <4>2. Body(f)[n] = [x \in X |-> x = o \/ (x # None /\ n > 0 /\ t[x] # NoRow /\ f[n - 1][t[x].parent])]
        OBVIOUS
      <4>3. [x \in X |-> x = o \/ (x # None /\ n > 0 /\ t[x] # NoRow /\ f[n - 1][t[x].parent])] = a
        BY <4>1
      <4> QED
        BY <1>3, <3>1, <4>2, <4>3
    <3>2. CASE n # 0
      <4>1. PICK m \in Nat : n = m + 1
        <5>1. n - 1 \in Nat /\ n = (n - 1) + 1
          BY <3>2
        <5> QED
          BY <5>1
      <4>2. f[n] = G[f[m]] /\ f[m] \in S
        BY <1>3, <4>1
      <4>3. n > 0 /\ n - 1 = m
        BY <4>1
      <4>4. G[f[m]] = [x \in X |-> x = o \/ (x # None /\ t[x] # NoRow /\ f[m][t[x].parent])]
        BY <4>2
      <4>5. Body(f)[n] = [x \in X |-> x = o \/ (x # None /\ n > 0 /\ t[x] # NoRow /\ f[n - 1][t[x].parent])]
        OBVIOUS
      <4> QED
        BY <4>2, <4>3, <4>4, <4>5
    <3> QED
      BY <3>1, <3>2
  <2>2. f = [n \in Nat |-> f[n]]
    BY <1>3
  <2>3. Body(f) = [n \in Nat |-> Body(f)[n]]
    OBVIOUS
  <2> HIDE DEF Body
  <2> QED
    BY <2>1, <2>2, <2>3
<1> DEFINE H == CHOOSE F : F = Body(F)
<1>5. H = Body(H)
  <2> HIDE DEF Body
  <2> QED
    BY <1>4
<1>6. Under(o, t) = {x \in Orgs : H[Cardinality(Orgs)][x]}
  BY DEF Under
<1> HIDE DEF H
<1>7. \A n \in Nat : H[n] = [x \in X |-> x = o \/ (x # None /\ n > 0 /\ t[x] # NoRow /\ H[n - 1][t[x].parent])]
  <2>1. \A n \in Nat : Body(H)[n] = [x \in X |-> x = o \/ (x # None /\ n > 0 /\ t[x] # NoRow /\ H[n - 1][t[x].parent])]
    OBVIOUS
  <2> HIDE DEF Body
  <2> QED
    BY <1>5, <2>1
<1>8. ASSUME NEW n \in Nat PROVE H[n] \in S
  <2> DEFINE Row(x) == x = o \/ (x # None /\ n > 0 /\ t[x] # NoRow /\ H[n - 1][t[x].parent])
  <2>1. \A x \in X : Row(x) \in BOOLEAN
    BY Zenon
  <2>2. H[n] = [x \in X |-> Row(x)]
    BY <1>7
  <2> HIDE DEF Row
  <2> QED
    BY <2>1, <2>2
<1>9. H \in [Nat -> S]
  <2>1. H = [n \in Nat |-> H[n]]
    BY <1>5
  <2> HIDE DEF S
  <2> QED
    BY <1>8, <2>1
<1>10. \A x \in X : H[0][x] <=> x = o
  <2>1. 0 \in Nat /\ ~(0 > 0)
    OBVIOUS
  <2>2. H[0] = [x \in X |-> x = o \/ (x # None /\ 0 > 0 /\ t[x] # NoRow /\ H[0 - 1][t[x].parent])]
    BY <1>7, <2>1, Zenon
  <2>3. \A x \in X : H[0][x] = (x = o \/ (x # None /\ 0 > 0 /\ t[x] # NoRow /\ H[0 - 1][t[x].parent]))
    BY <2>2, Zenon
  <2> QED
    BY <2>1, <2>3, Zenon
<1>11. ASSUME NEW n \in Nat, NEW x \in X
       PROVE  H[n + 1][x] <=> x = o \/ (x # None /\ t[x] # NoRow /\ H[n][t[x].parent])
  <2>1. n + 1 \in Nat /\ n + 1 > 0 /\ (n + 1) - 1 = n
    OBVIOUS
  <2>2. H[n + 1] = [y \in X |-> y = o \/ (y # None /\ n + 1 > 0 /\ t[y] # NoRow /\ H[(n + 1) - 1][t[y].parent])]
    BY <1>7, <2>1, Zenon
  <2>3. H[n + 1][x] = (x = o \/ (x # None /\ n + 1 > 0 /\ t[x] # NoRow /\ H[(n + 1) - 1][t[x].parent]))
    BY <2>2, Zenon
  <2> QED
    BY <2>1, <2>3, Zenon
<1>12. Depths(H, o, t)
  BY <1>9, <1>10, <1>11 DEF Depths
<1> QED
  BY <1>6, <1>12

(* A depth has o, never NULL, and all that the depth before it has.        *)
LEMMA DepthsGrow ==
  ASSUME NEW t \in Tree, NEW o \in Orgs, NEW H, Depths(H, o, t)
  PROVE  /\ \A n \in Nat : H[n][o] /\ ~H[n][None]
         /\ \A n \in Nat : \A x \in Orgs \cup {None} : H[n][x] => H[n + 1][x]
<1>1. \A n \in Nat : H[n][o] /\ ~H[n][None]
  <2>1. o \in Orgs \cup {None} /\ None \in Orgs \cup {None} /\ o # None
    BY Markers
  <2>2. H[0][o] /\ ~H[0][None]
    BY <2>1 DEF Depths
  <2>3. \A n \in Nat : H[n + 1][o] /\ ~H[n + 1][None]
    BY <2>1 DEF Depths
  <2>4. \A n \in Nat : n = 0 \/ \E m \in Nat : n = m + 1
    <3>1. \A n \in Nat : n # 0 => n - 1 \in Nat /\ n = (n - 1) + 1
      OBVIOUS
    <3> QED
      BY <3>1
  <2> QED
    BY <2>2, <2>3, <2>4
<1>2. \A n \in Nat : \A x \in Orgs \cup {None} : H[n][x] => H[n + 1][x]
  <2> DEFINE A == {n \in Nat : \A x \in Orgs \cup {None} : H[n][x] => H[n + 1][x]}
  <2>1. 0 \in A
    <3>1. \A x \in Orgs \cup {None} : H[0][x] => x = o
      BY DEF Depths
    <3>2. 0 + 1 = 1
      OBVIOUS
    <3> QED
      BY <1>1, <3>1, <3>2
  <2>2. ASSUME NEW n \in A PROVE n + 1 \in A
    <3>1. n \in Nat /\ n + 1 \in Nat
      BY <2>2
    <3> SUFFICES ASSUME NEW x \in Orgs \cup {None}, H[n + 1][x] PROVE H[(n + 1) + 1][x]
      BY <3>1
    <3>2. x = o \/ (x # None /\ t[x] # NoRow /\ H[n][t[x].parent])
      BY <3>1 DEF Depths
    <3>3. x # None /\ t[x] # NoRow /\ H[n][t[x].parent] => H[n + 1][t[x].parent]
      BY <2>2, ParentThere
    <3>4. H[(n + 1) + 1][x] <=> x = o \/ (x # None /\ t[x] # NoRow /\ H[n + 1][t[x].parent])
      BY <3>1 DEF Depths
    <3> QED
      BY <3>2, <3>3, <3>4
  <2>3. A \in SUBSET Nat
    OBVIOUS
  <2>4. A = Nat
    <3> HIDE DEF A
    <3> QED
      BY <2>1, <2>2, <2>3, NatSetInduction
  <2> QED
    BY <2>4
<1> QED
  BY <1>1, <1>2

(* The tree below o: o, and what has its parent there.                     *)
LEMMA UnderTree ==
  ASSUME NEW t \in Tree, NEW o \in Orgs
  PROVE  /\ Under(o, t) \subseteq Orgs
         /\ o \in Under(o, t)
         /\ \A x \in Under(o, t) \ {o} : t[x] # NoRow /\ t[x].parent \in Under(o, t)
<1>1. PICK H : Depths(H, o, t) /\ Under(o, t) = {x \in Orgs : H[Cardinality(Orgs)][x]}
  BY UnderDepths
<1>2. Cardinality(Orgs) \in Nat
  BY Apart, FS_CardinalityType
<1>3. PICK N \in Nat : N = Cardinality(Orgs)
  BY <1>2
<1>4. /\ \A n \in Nat : H[n][o] /\ ~H[n][None]
      /\ \A n \in Nat : \A x \in Orgs \cup {None} : H[n][x] => H[n + 1][x]
  BY <1>1, DepthsGrow
<1>6. ASSUME NEW x \in Under(o, t) \ {o}
      PROVE  t[x] # NoRow /\ t[x].parent \in Under(o, t)
  <2>1. x \in Orgs /\ x # o /\ H[N][x]
    BY <1>1, <1>3
  <2>2. N # 0
    BY <1>1, <2>1 DEF Depths
  <2>3. PICK m \in Nat : N = m + 1
    <3>1. N - 1 \in Nat /\ N = (N - 1) + 1
      BY <2>2
    <3> QED
      BY <3>1
  <2>4. x # None /\ t[x] # NoRow /\ H[m][t[x].parent]
    BY <1>1, <2>1, <2>3 DEF Depths
  <2>5. t[x].parent \in Orgs \cup {None}
    BY <2>1, <2>4, ParentThere
  <2>6. H[N][t[x].parent]
    BY <1>4, <2>3, <2>4, <2>5
  <2> QED
    BY <1>1, <1>3, <1>4, <2>4, <2>5, <2>6
<1> QED
  BY <1>1, <1>3, <1>4, <1>6

(* Nothing else is below o but what every set has that is closed.          *)
LEMMA UnderLeast ==
  ASSUME NEW t \in Tree, NEW o \in Orgs, NEW X, o \in X,
         \A x \in Orgs : t[x] # NoRow /\ t[x].parent \in X => x \in X
  PROVE  Under(o, t) \subseteq X
<1>1. PICK H : Depths(H, o, t) /\ Under(o, t) = {x \in Orgs : H[Cardinality(Orgs)][x]}
  BY UnderDepths
<1> DEFINE A == {n \in Nat : \A x \in Orgs : H[n][x] => x \in X}
<1>2. 0 \in A
  BY <1>1 DEF Depths
<1>3. ASSUME NEW n \in A PROVE n + 1 \in A
  <2>1. n \in Nat /\ n + 1 \in Nat
    BY <1>3
  <2> SUFFICES ASSUME NEW x \in Orgs, H[n + 1][x] PROVE x \in X
    BY <2>1
  <2>2. x = o \/ (t[x] # NoRow /\ H[n][t[x].parent])
    BY <1>1, <2>1 DEF Depths
  <2>3. t[x] # NoRow /\ H[n][t[x].parent] => t[x].parent \in Orgs
    BY <1>1, <2>1, ParentThere, DepthsGrow
  <2>4. QED
    BY <1>3, <2>2, <2>3
<1>4. A = Nat
  <2>1. A \in SUBSET Nat
    OBVIOUS
  <2> HIDE DEF A
  <2>2. QED
    BY <1>2, <1>3, <2>1, NatSetInduction
<1>5. Cardinality(Orgs) \in A
  BY <1>4, Apart, FS_CardinalityType
<1>6. QED
  BY <1>1, <1>5

(* As many steps down as there are organisations are enough: a depth that  *)
(* adds none is the last to, and one that adds some has more than its      *)
(* number.                                                                 *)
LEMMA DepthsEnd ==
  ASSUME NEW t \in Tree, NEW o \in Orgs, NEW H, Depths(H, o, t)
  PROVE  \A x \in Orgs : H[Cardinality(Orgs) + 1][x] => H[Cardinality(Orgs)][x]
<1> DEFINE D(n) == {x \in Orgs : H[n][x]}
           A == {n \in Nat : D(n + 1) \subseteq D(n) \/ Cardinality(D(n)) >= n + 1}
<1>1. \A n \in Nat : D(n) \subseteq D(n + 1) /\ o \in D(n)
  BY DepthsGrow
<1>2. \A n \in Nat : /\ IsFiniteSet(D(n)) /\ Cardinality(D(n)) \in Nat
                     /\ Cardinality(D(n)) <= Cardinality(Orgs)
  <2>1. \A n \in Nat : D(n) \in SUBSET Orgs
    OBVIOUS
  <2> HIDE DEF D
  <2>2. QED
    BY <2>1, Apart, FS_Subset, FS_CardinalityType
<1>3. 0 \in A
  <2>1. D(0) = {o}
    BY DEF Depths
  <2>2. Cardinality(D(0)) = 1
    BY <2>1, FS_Singleton
  <2> HIDE DEF D
  <2>3. QED
    BY <2>2
<1>4. ASSUME NEW n \in A PROVE n + 1 \in A
  <2>1. n \in Nat /\ n + 1 \in Nat
    BY <1>4
  <2>2. CASE D(n + 1) \subseteq D(n)
    <3>1. ASSUME NEW x \in Orgs, H[(n + 1) + 1][x] PROVE H[n + 1][x]
      <4>1. x = o \/ (x # None /\ t[x] # NoRow /\ H[n + 1][t[x].parent])
        BY <2>1, <3>1 DEF Depths
      <4>2. t[x] # NoRow /\ H[n + 1][t[x].parent] => t[x].parent \in Orgs
        BY <2>1, ParentThere, DepthsGrow
      <4>3. x = o \/ (x # None /\ t[x] # NoRow /\ H[n][t[x].parent])
        BY <2>2, <4>1, <4>2
      <4>4. QED
        BY <2>1, <4>3 DEF Depths
    <3>2. QED
      BY <2>1, <3>1
  <2>3. CASE ~(D(n + 1) \subseteq D(n))
    <3>1. Cardinality(D(n)) >= n + 1
      BY <1>4, <2>3
    <3>2. D(n) \in SUBSET D(n + 1) /\ D(n) # D(n + 1)
      BY <1>1, <2>1, <2>3
    <3>3. /\ Cardinality(D(n)) <= Cardinality(D(n + 1))
          /\ Cardinality(D(n)) # Cardinality(D(n + 1))
      <4> HIDE DEF D
      <4>1. QED
        BY <1>2, <2>1, <3>2, FS_Subset
    <3>4. Cardinality(D(n + 1)) >= (n + 1) + 1
      <4> HIDE DEF D
      <4>1. QED
        BY <1>2, <2>1, <3>1, <3>3
    <3>5. QED
      BY <2>1, <3>4
  <2>4. QED
    BY <2>2, <2>3
<1>5. A = Nat
  <2>1. A \in SUBSET Nat
    OBVIOUS
  <2> HIDE DEF A
  <2>2. QED
    BY <1>3, <1>4, <2>1, NatSetInduction
<1>6. PICK N \in Nat : N = Cardinality(Orgs)
  BY Apart, FS_CardinalityType
<1>7. D(N + 1) \subseteq D(N)
  <2>1. Cardinality(D(N)) <= N /\ Cardinality(D(N)) \in Nat
    <3> HIDE DEF D
    <3>1. QED
      BY <1>2, <1>6
  <2>2. D(N + 1) \subseteq D(N) \/ Cardinality(D(N)) >= N + 1
    BY <1>5
  <2> HIDE DEF D
  <2>3. QED
    BY <1>6, <2>1, <2>2
<1>8. QED
  BY <1>6, <1>7

LEMMA UnderClosed ==
  ASSUME NEW t \in Tree, NEW o \in Orgs, NEW x \in Orgs, t[x] # NoRow,
         t[x].parent \in Under(o, t)
  PROVE  x \in Under(o, t)
<1>1. PICK H : Depths(H, o, t) /\ Under(o, t) = {y \in Orgs : H[Cardinality(Orgs)][y]}
  BY UnderDepths
<1>2. PICK N \in Nat : N = Cardinality(Orgs)
  BY Apart, FS_CardinalityType
<1>3. H[N + 1][x]
  BY <1>1, <1>2, Markers DEF Depths
<1>4. QED
  BY <1>1, <1>2, <1>3, DepthsEnd

(* The tree from the root down.                                            *)
Grown(t) == t \in Tree /\ t[Root] # NoRow /\ t[Root].parent = None

LEMMA BelowTree ==
  ASSUME NEW t, Grown(t)
  PROVE  /\ Below(t) \subseteq Orgs /\ Root \in Below(t)
         /\ \A x \in Below(t) : t[x] \in OrgRow
         /\ \A x \in Below(t) : t[x].parent = None <=> x = Root
         /\ \A x \in Below(t) \ {Root} : t[x].parent \in Below(t)
<1>1. Root \in Orgs /\ t \in Tree
  BY SystemOrgs DEF Grown
<1>2. /\ Below(t) \subseteq Orgs /\ Root \in Below(t)
      /\ \A x \in Below(t) \ {Root} : t[x] # NoRow /\ t[x].parent \in Below(t)
  BY <1>1, UnderTree DEF Below
<1>3. \A x \in Below(t) : t[x] # NoRow
  BY <1>2 DEF Grown
<1>4. \A x \in Below(t) \ {Root} : t[x].parent # None
  BY <1>2, Markers
<1> QED
  BY <1>1, <1>2, <1>3, <1>4 DEF Grown, Tree

(* One organisation's path from its parent's.                              *)
PathStep(f, o, t, soon) ==
    IF t[o].parent = None THEN <<o>>
    ELSE Append(IF o \in soon THEN t[t[o].parent].path ELSE f[t[o].parent], o)

LEMMA PathStepPath ==
  ASSUME NEW t, Grown(t), NEW f \in [Below(t) -> Seq(Orgs)], NEW o \in Below(t), NEW soon
  PROVE  PathStep(f, o, t, soon) \in Seq(Orgs)
<1>1. o \in Orgs /\ (o # Root => t[o].parent \in Below(t) /\ t[t[o].parent].path \in Seq(Orgs))
  BY BelowTree DEF OrgRow
<1>2. CASE o = Root
  BY <1>1, <1>2 DEF PathStep, Grown
<1>3. CASE o # Root
  <2>1. f[t[o].parent] \in Seq(Orgs)
    BY <1>1, <1>3
  <2>2. PathStep(f, o, t, soon) = <<o>>
        \/ PathStep(f, o, t, soon) = Append(t[t[o].parent].path, o)
        \/ PathStep(f, o, t, soon) = Append(f[t[o].parent], o)
    BY DEF PathStep
  <2>3. <<o>> \in Seq(Orgs) /\ \A s \in Seq(Orgs) : Append(s, o) \in Seq(Orgs)
    BY <1>1
  <2> QED
    BY <1>1, <1>3, <2>1, <2>2, <2>3
<1> QED
  BY <1>2, <1>3

(* The new paths are the ones their recursion describes.                   *)
LEMMA PathsExist ==
  ASSUME NEW t, Grown(t), NEW soon
  PROVE  \E f \in [Below(t) -> Seq(Orgs)] : \A o \in Below(t) : f[o] = PathStep(f, o, t, soon)
<1>1. PICK H : Depths(H, Root, t) /\ Below(t) = {x \in Orgs : H[Cardinality(Orgs)][x]}
  BY UnderDepths, SystemOrgs DEF Below, Grown
<1> DEFINE A == {n \in Nat : \E f \in [Below(t) -> Seq(Orgs)] :
                   \A o \in Below(t) : H[n][o] => f[o] = PathStep(f, o, t, soon)}
<1>2. 0 \in A
  <2> DEFINE f == [o \in Below(t) |-> <<Root>>]
  <2>1. f \in [Below(t) -> Seq(Orgs)] /\ f[Root] = <<Root>>
    BY BelowTree, SystemOrgs
  <2>2. ASSUME NEW o \in Below(t), H[0][o] PROVE f[o] = PathStep(f, o, t, soon)
    <3>1. o = Root
      BY <1>1, <2>2, BelowTree DEF Depths
    <3> HIDE DEF f
    <3> QED
      BY <2>1, <3>1 DEF PathStep, Grown
  <2> HIDE DEF f
  <2> QED
    BY <2>1, <2>2
<1>3. ASSUME NEW n \in A PROVE n + 1 \in A
  <2>1. PICK f \in [Below(t) -> Seq(Orgs)] :
              \A o \in Below(t) : H[n][o] => f[o] = PathStep(f, o, t, soon)
    BY <1>3
  <2>2. n \in Nat /\ n + 1 \in Nat
    BY <1>3
  <2> DEFINE g == [o \in Below(t) |-> PathStep(f, o, t, soon)]
  <2>3. g \in [Below(t) -> Seq(Orgs)] /\ \A o \in Below(t) : g[o] = PathStep(f, o, t, soon)
    BY PathStepPath
  <2> HIDE DEF g
  <2>4. ASSUME NEW o \in Below(t), H[n + 1][o] PROVE g[o] = PathStep(g, o, t, soon)
    <3>1. o = Root \/ H[n][t[o].parent]
      BY <1>1, <2>2, <2>4, BelowTree DEF Depths
    <3>2. CASE o = Root
      BY <2>3, <3>2 DEF PathStep, Grown
    <3>3. CASE o # Root
      <4>1. t[o].parent \in Below(t) /\ H[n][t[o].parent]
        BY <3>1, <3>3, BelowTree
      <4>2. f[t[o].parent] = g[t[o].parent]
        BY <2>1, <2>3, <4>1
      <4> QED
        BY <2>3, <4>2 DEF PathStep
    <3> QED
      BY <3>2, <3>3
  <2> QED
    BY <2>2, <2>3, <2>4
<1>4. A = Nat
  <2>1. A \in SUBSET Nat
    OBVIOUS
  <2> HIDE DEF A
  <2> QED
    BY <1>2, <1>3, <2>1, NatSetInduction
<1>5. Cardinality(Orgs) \in A
  BY <1>4, Apart, FS_CardinalityType
<1> QED
  BY <1>1, <1>5

(* What updatePaths leaves: the same tree, and each path from one path of  *)
(* the parent or the other.                                                *)
LEMMA RepathedTree ==
  ASSUME NEW t, Grown(t), NEW soon
  PROVE  LET r == Repathed(t, soon) IN
         /\ Grown(r)
         /\ \A o \in Orgs : r[o] = NoRow <=> t[o] = NoRow
         /\ \A o \in Orgs : t[o] # NoRow => r[o].parent = t[o].parent
         /\ \A o \in Orgs \ Below(t) : r[o] = t[o]
         /\ \A o \in Below(t) \ {Root} :
               r[o].path = Append(IF o \in soon THEN t[t[o].parent].path
                                  ELSE r[t[o].parent].path, o)
         /\ r[Root].path = <<Root>>
<1> DEFINE Turn(f, o) == IF t[o].parent = None THEN <<o>>
                         ELSE Append(IF o \in soon THEN t[t[o].parent].path
                                     ELSE f[t[o].parent], o)
           Body(f) == [o \in Below(t) |-> Turn(f, o)]
           New == CHOOSE F : F = Body(F)
           r == [o \in Orgs |-> IF o \in Below(t) THEN [t[o] EXCEPT !.path = New[o]] ELSE t[o]]
<1>1. New \in [Below(t) -> Seq(Orgs)] /\ \A o \in Below(t) : New[o] = Turn(New, o)
  <2>1. PICK f \in [Below(t) -> Seq(Orgs)] : \A o \in Below(t) : f[o] = PathStep(f, o, t, soon)
    BY PathsExist
  <2>2. \A h, o : PathStep(h, o, t, soon) = Turn(h, o)
    BY DEF PathStep
  <2>3. f = Body(f)
    <3> HIDE DEF Turn
    <3> QED
      BY <2>1, <2>2
  <2>4. New = Body(New)
    <3> HIDE DEF Body
    <3> QED
      BY <2>3
  <2> HIDE DEF New
  <2>5. \A o \in Below(t) : New[o] = Turn(New, o)
    <3> HIDE DEF Turn
    <3> QED
      BY <2>4
  (* Two solutions agree level by level.                                 *)
  <2>6. \A o \in Below(t) : New[o] = f[o]
    <3>1. PICK H : Depths(H, Root, t) /\ Below(t) = {x \in Orgs : H[Cardinality(Orgs)][x]}
      BY UnderDepths, SystemOrgs DEF Below, Grown
    <3> DEFINE A == {n \in Nat : \A o \in Below(t) : H[n][o] => New[o] = f[o]}
    <3>2. New[Root] = f[Root]
      <4>1. Root \in Below(t) /\ t[Root].parent = None
        BY BelowTree
      <4> QED
        BY <2>1, <2>2, <2>5, <4>1
    <3>3. 0 \in A
      BY <3>1, <3>2 DEF Depths
    <3>4. ASSUME NEW n \in A PROVE n + 1 \in A
      <4>1. n \in Nat /\ n + 1 \in Nat
        BY <3>4
      <4> SUFFICES ASSUME NEW o \in Below(t), H[n + 1][o] PROVE New[o] = f[o]
        BY <4>1
      <4>2. o = Root \/ H[n][t[o].parent]
        BY <3>1, <4>1, BelowTree DEF Depths
      <4>3. CASE o # Root
        <5>1. t[o].parent \in Below(t) /\ New[t[o].parent] = f[t[o].parent]
          BY <3>4, <4>2, <4>3, BelowTree
        <5>2. Turn(New, o) = Turn(f, o)
          BY <5>1
        <5> HIDE DEF Turn
        <5> QED
          BY <2>1, <2>2, <2>5, <5>2
      <4> QED
        BY <3>2, <4>3
    <3>5. A = Nat
      <4>1. A \in SUBSET Nat
        OBVIOUS
      <4> HIDE DEF A
      <4> QED
        BY <3>3, <3>4, <4>1, NatSetInduction
    <3>6. Cardinality(Orgs) \in A
      BY <3>5, Apart, FS_CardinalityType
    <3> QED
      BY <3>1, <3>6
  <2>7. New = [o \in Below(t) |-> New[o]]
    BY <2>4
  <2> HIDE DEF Turn
  <2> QED
    BY <2>1, <2>5, <2>6, <2>7
<1>2. Repathed(t, soon) = r
  BY DEF Repathed
<1> HIDE DEF New
<1>3. /\ Below(t) \subseteq Orgs /\ Root \in Below(t) /\ t \in Tree
      /\ \A x \in Below(t) : t[x] \in OrgRow
      /\ \A x \in Below(t) : t[x].parent = None <=> x = Root
      /\ \A x \in Below(t) \ {Root} : t[x].parent \in Below(t)
  BY BelowTree DEF Grown
<1>4. \A o \in Below(t) : /\ r[o] \in OrgRow /\ r[o].parent = t[o].parent
                          /\ r[o].path = New[o]
  BY <1>1, <1>3 DEF OrgRow
<1>5. \A o \in Orgs \ Below(t) : r[o] = t[o]
  OBVIOUS
<1>6. r \in Tree
  <2>1. r = [o \in Orgs |-> r[o]]
    OBVIOUS
  <2>2. \A o \in Orgs : r[o] \in OrgRow \cup {NoRow}
    <3> HIDE DEF r
    <3> QED
      BY <1>3, <1>4, <1>5 DEF Tree
  <2> HIDE DEF r
  <2> QED
    BY <2>1, <2>2 DEF Tree
<1>7. \A o \in Below(t) \ {Root} :
             r[o].path = Append(IF o \in soon THEN t[t[o].parent].path
                                ELSE r[t[o].parent].path, o)
  <2> SUFFICES ASSUME NEW o \in Below(t) \ {Root}
               PROVE  r[o].path = Append(IF o \in soon THEN t[t[o].parent].path
                                ELSE r[t[o].parent].path, o)
    OBVIOUS
  <2>1. New[o] = Append(IF o \in soon THEN t[t[o].parent].path ELSE New[t[o].parent], o)
    BY <1>1, <1>3
  <2>2. r[o].path = New[o] /\ r[t[o].parent].path = New[t[o].parent]
    BY <1>3, <1>4
  <2> HIDE DEF r
  <2> QED
    BY <2>1, <2>2
<1>8. r[Root].path = <<Root>>
  <2>1. New[Root] = <<Root>>
    BY <1>1, <1>3
  <2> HIDE DEF r
  <2> QED
    BY <1>3, <1>4, <2>1
<1> HIDE DEF r
<1>9. \A o \in Orgs : r[o] = NoRow <=> t[o] = NoRow
  BY <1>3, <1>4, <1>5, Apart
<1> QED
  BY <1>2, <1>3, <1>4, <1>5, <1>6, <1>7, <1>8, <1>9 DEF Grown

-----------------------------------------------------------------------------
(* Types.  What kinds of requests there are.                               *)
RowOps   == {"newAsset", "asset", "noAssets", "newDevice", "device", "noDevices"}
TreeOps  == {"newOrg", "org", "noOrgs"}
GroupOps == {"newGroup", "items", "group", "noGroups"}
UserOps  == {"users", "options", "list", "access", "newUser", "noUsers"}

LEMMA RowKinds ==
  ASSUME NEW k \in RowRequest
  PROVE  /\ k.op \in RowOps /\ k.by \in Who /\ k.step # "answer" /\ k # Idle
         /\ k.op = "newAsset" => k \in NewAssetAsked
         /\ k.op = "asset" => k \in AssetAsked
         /\ k.op = "noAssets" => k \in NoAssetsAsked
         /\ k.op = "newDevice" => k \in NewDeviceAsked
         /\ k.op = "device" => k \in DeviceAsked
         /\ k.op = "noDevices" => k \in NoDevicesAsked
  BY DEF RowRequest, RowOps, NewAssetAsked, AssetAsked, NoAssetsAsked, NewDeviceAsked,
     DeviceAsked, NoDevicesAsked, Idle

LEMMA TreeKinds ==
  ASSUME NEW k \in TreeRequest
  PROVE  /\ k.op \in TreeOps /\ k.by \in Who /\ k.step # "answer" /\ k # Idle
         /\ k.op = "newOrg" /\ k.step # "hadd" => k \in NewOrgAsked
         /\ k.op = "newOrg" /\ k.step = "hadd" => k \in NewOrgStored
         /\ k.op = "org" => k \in OrgAsked
         /\ k.op = "noOrgs" => k \in NoOrgsAsked
  BY DEF TreeRequest, TreeOps, NewOrgAsked, NewOrgStored, OrgAsked, NoOrgsAsked, Idle

LEMMA GroupKinds ==
  ASSUME NEW k \in GroupRequest
  PROVE  /\ k.op \in GroupOps /\ k.by \in Who /\ k.step # "answer" /\ k # Idle
         /\ k.op = "newGroup" => k \in NewGroupAsked
         /\ k.op = "items" => k \in ItemsAsked
         /\ k.op = "group" => k \in GroupAsked
         /\ k.op = "noGroups" => k \in NoGroupsAsked
  BY DEF GroupRequest, GroupOps, NewGroupAsked, ItemsAsked, GroupAsked, NoGroupsAsked, Idle, Who

LEMMA UserKinds ==
  ASSUME NEW k \in UserRequest
  PROVE  /\ k.op \in UserOps /\ k.by \in Who /\ k.step # "answer" /\ k # Idle
         /\ k.op = "users" => k \in UsersAsked
         /\ k.op = "options" => k \in OptionsAsked
         /\ k.op = "list" => k \in ListAsked
         /\ k.op = "access" /\ k.by = "other" => k \in AccessAsked
         /\ k.op = "access" /\ k.by = "page" => k \in AccessSaved
         /\ k.op = "newUser" => k \in NewUserAsked
         /\ k.op = "noUsers" => k \in NoUsersAsked
  BY DEF UserRequest, UserOps, UsersAsked, OptionsAsked, ListAsked, AccessAsked, AccessSaved,
     AccessSteps, NewUserAsked, NoUsersAsked, Idle, Who

(* What is under way under a kind is a request of that kind.               *)
LEMMA Kinds ==
  ASSUME NEW k, SlotOK(k), k.op # "none", k.step # "answer"
  PROVE  /\ Asking(k) /\ k \in Request /\ k.by \in Who
         /\ k.op \in RowOps => k \in RowRequest
         /\ k.op \in TreeOps => k \in TreeRequest
         /\ k.op \in GroupOps => k \in GroupRequest
         /\ k.op \in UserOps => k \in UserRequest
         /\ k.op = "profile" => k \in ProfileAsked
<1>1. Asking(k)
  BY DEF SlotOK, Answering, Idle
<1>2. k \in RowRequest \/ k \in TreeRequest \/ k \in GroupRequest \/ k \in UserRequest
        \/ k \in ProfileAsked
  BY <1>1 DEF Asking, Request
<1>3. k \in ProfileAsked => k.op = "profile" /\ k.by = "page"
  BY DEF ProfileAsked
<1> QED
  BY <1>1, <1>2, <1>3, RowKinds, TreeKinds, GroupKinds, UserKinds
     DEF Asking, RowOps, TreeOps, GroupOps, UserOps, Who

(* A slot gets one request or answer at a time.                            *)
LEMMA OneSlot ==
  ASSUME SlotsOK, NEW c \in Calls, NEW k, SlotOK(k), Sends(c, k)
  PROVE  /\ SlotsOK'
         /\ call'[c] = k
         /\ \A e \in Calls \ {c} : call'[e] = call[e]
         /\ call' = [call EXCEPT ![c] = k]
  BY DEF SlotsOK, Sends

(* What a request leaves in its slot when it is answered.                  *)
LEMMA AnsweredSlot ==
  ASSUME SlotsOK, NEW c \in Calls, Asking(call[c]), NEW b, Answers(c, b),
         b = Refused \/ BodyOK(call[c].op, b),
         call[c].op = "profile" => BodyOK("profile", b) /\ call[c].step = "devices",
         call[c].op = "noAssets" => BodyOK("noAssets", b)
  PROVE  /\ SlotsOK'
         /\ \A e \in Calls \ {c} : call'[e] = call[e]
         /\ \/ call'[c] = Idle
           \/ /\ call'[c].step = "answer" /\ call'[c].op = call[c].op
              /\ call[c].by = "page" /\ call'[c].body = b
         /\ UNCHANGED left
<1> DEFINE k == [op |-> call[c].op, step |-> "answer", by |-> "page",
                 asked |-> call[c], body |-> b]
<1>1. call[c].by = "page" => SlotOK(k)
  BY DEF SlotOK, Answering
<1>2. CASE call[c].by = "page"
  <2>1. Sends(c, k)
    BY <1>2 DEF Answers, Goes
  <2>2. k.step = "answer" /\ k.op = call[c].op /\ k.body = b
    OBVIOUS
  <2> HIDE DEF k
  <2> QED
    BY <1>1, <1>2, <2>1, <2>2, OneSlot DEF Answers, Goes
<1>3. CASE call[c].by # "page"
  <2>1. Sends(c, Idle) /\ SlotOK(Idle)
    BY <1>3 DEF Answers, Goes, SlotOK
  <2> QED
    BY <2>1, OneSlot DEF Answers, Goes
<1> QED
  BY <1>2, <1>3

LEMMA AskedSlot ==
  ASSUME SlotsOK, NEW c \in Calls, NEW k, Asking(k), Ask(c, k)
  PROVE  /\ SlotsOK' /\ call[c] = Idle
         /\ call'[c] = k
         /\ \A e \in Calls \ {c} : call'[e] = call[e]
<1>1. SlotOK(k) /\ Sends(c, k) /\ call[c] = Idle
  BY DEF SlotOK, Ask, MayAsk, Sends
<1> QED
  BY <1>1, OneSlot

(* A transaction in progress is not disturbed by a step that leaves alone  *)
(* its asset and the organisation the asset goes to.                       *)
LEMMA HoldingKept ==
  ASSUME NEW c \in Calls, \A e \in Calls : Holding(e),
         \A e \in Calls \ {c} : At(e, "asset", "commit")' => call'[e] = call[e],
         ~At(c, "asset", "commit")',
         \A e \in Calls \ {c} : At(e, "asset", "commit") =>
            /\ asset'[call[e].id] = asset[call[e].id]
            /\ org'[MovedTo(call[e])] # NoRow
  PROVE  (\A e \in Calls : Holding(e))'
<1> SUFFICES ASSUME NEW e \in Calls, At(e, "asset", "commit")'
             PROVE  Holding(e)'
  BY DEF Holding
<1>1. e # c /\ call'[e] = call[e] /\ At(e, "asset", "commit")
  BY DEF At
<1>2. \A d \in Calls : At(d, "asset", "commit")' => call'[d] = call[d] /\ At(d, "asset", "commit")
  BY DEF At
<1>3. asset'[call[e].id] = asset[call[e].id] /\ org'[MovedTo(call[e])] # NoRow
  BY <1>1
<1>4. MovedTo(call[e])' = MovedTo(call[e])
  BY <1>1, <1>3 DEF MovedTo, Final
<1>5. Holding(e)
  OBVIOUS
<1> QED
  BY <1>1, <1>2, <1>3, <1>4, <1>5 DEF Holding

LEMMA SameRows ==
  ASSUME TableOK, NEW c \in Calls, UNCHANGED rowVars,
         \A e \in Calls \ {c} : call'[e] = call[e],
         ~At(c, "asset", "commit")'
  PROVE  TableOK'
<1>1. UNCHANGED <<org, asset, device, group, user, fresh>>
  BY DEF rowVars
<1>2. (\A e \in Calls : Holding(e))'
  <2>1. \A e \in Calls : Holding(e)
    BY DEF TableOK
  <2> QED
    BY <1>1, <2>1, HoldingKept DEF Holding
<1> QED
  BY <1>1, <1>2 DEF TableOK, RowsOK, OrgRows, AssetRows, DeviceRows, GroupRows, UserRows

(* A request that goes on, or is answered without a row being written.     *)
LEMMA GoesOn ==
  ASSUME TableOK, SlotsOK, NEW c \in Calls, NEW k, Goes(c, k), SlotOK(k), UNCHANGED rowVars,
         ~(k.op = "asset" /\ k.step = "commit")
  PROVE  TableOK' /\ SlotsOK' /\ call'[c] = k /\ \A e \in Calls \ {c} : call'[e] = call[e]
<1>1. /\ SlotsOK'
      /\ call'[c] = k
      /\ \A e \in Calls \ {c} : call'[e] = call[e]
  BY OneSlot DEF Goes
<1>2. ~At(c, "asset", "commit")'
  BY <1>1 DEF At
<1> QED
  BY <1>1, <1>2, SameRows

LEMMA AnswersOnly ==
  ASSUME TableOK, SlotsOK, NEW c \in Calls, NEW b, Asking(call[c]), Answers(c, b),
         b = Refused \/ BodyOK(call[c].op, b), UNCHANGED rowVars,
         call[c].op = "profile" => BodyOK("profile", b) /\ call[c].step = "devices",
         call[c].op = "noAssets" => BodyOK("noAssets", b)
  PROVE  TableOK' /\ SlotsOK' /\ \A e \in Calls \ {c} : call'[e] = call[e]
<1>1. /\ SlotsOK'
      /\ \A e \in Calls \ {c} : call'[e] = call[e]
      /\ call'[c] = Idle \/ call'[c].step = "answer"
  BY AnsweredSlot
<1>2. ~At(c, "asset", "commit")'
  BY <1>1 DEF At, Idle
<1> QED
  BY <1>1, <1>2, SameRows

LEMMA RefusesOnly ==
  ASSUME TableOK, SlotsOK, NEW c \in Calls, Asking(call[c]), call[c].op \notin {"profile", "noAssets"}, Refuse(c)
  PROVE  TableOK' /\ SlotsOK' /\ \A e \in Calls \ {c} : call'[e] = call[e]
  BY AnswersOnly DEF Refuse

(* The tables after a write: what is left to show for it.                  *)
LEMMA TablesWritten ==
  ASSUME TableOK, NEW c \in Calls,
         \A e \in Calls \ {c} : call'[e] = call[e], ~At(c, "asset", "commit")',
         RowsOK', group' \in [Groups -> GroupRow \cup {NoRow}],
         user' \in [Users -> UserRow \cup {NoRow}],
         Root \in OrgRows', org'[Root].parent = None, Archive \in OrgRows',
         fresh' \cap (OrgRows \cup AssetRows \cup DeviceRows \cup GroupRows \cup UserRows)' = {},
         \A e \in Calls \ {c} : At(e, "asset", "commit") =>
            /\ asset'[call[e].id] = asset[call[e].id]
            /\ org'[MovedTo(call[e])] # NoRow
  PROVE  TableOK'
<1>1. (\A e \in Calls : Holding(e))'
  <2>1. \A e \in Calls : Holding(e)
    BY DEF TableOK
  <2> QED
    BY <2>1, HoldingKept
<1> QED
  BY <1>1 DEF TableOK

LEMMA WrittenRows ==
  ASSUME TableOK, SlotsOK, NEW c \in Calls, NEW b, Asking(call[c]), Answers(c, b),
         BodyOK(call[c].op, b), call[c].op # "profile",
         RowsOK', group' \in [Groups -> GroupRow \cup {NoRow}],
         user' \in [Users -> UserRow \cup {NoRow}],
         Root \in OrgRows', org'[Root].parent = None, Archive \in OrgRows',
         fresh' \cap (OrgRows \cup AssetRows \cup DeviceRows \cup GroupRows \cup UserRows)' = {},
         \A e \in Calls \ {c} : At(e, "asset", "commit") =>
            /\ asset'[call[e].id] = asset[call[e].id]
            /\ org'[MovedTo(call[e])] # NoRow
  PROVE  TableOK' /\ SlotsOK' /\ \A e \in Calls \ {c} : call'[e] = call[e]
<1>1. /\ SlotsOK'
      /\ \A e \in Calls \ {c} : call'[e] = call[e]
      /\ call'[c] = Idle \/ call'[c].step = "answer"
  BY AnsweredSlot
<1>2. ~At(c, "asset", "commit")'
  BY <1>1 DEF At, Idle
<1> QED
  BY <1>1, <1>2, TablesWritten

-----------------------------------------------------------------------------
(* The requests of module Fleet.                                           *)

LEMMA FleetSlot ==
  ASSUME SlotsOK, NEW c \in Calls, call[c].op \in RowOps, call[c].step # "answer"
  PROVE  /\ Asking(call[c])
         /\ call[c].op = "newAsset" => call[c] \in NewAssetAsked
         /\ call[c].op = "asset" => call[c] \in AssetAsked
         /\ call[c].op = "noAssets" => call[c] \in NoAssetsAsked
         /\ call[c].op = "newDevice" => call[c] \in NewDeviceAsked
         /\ call[c].op = "device" => call[c] \in DeviceAsked
         /\ call[c].op = "noDevices" => call[c] \in NoDevicesAsked
<1>1. SlotOK(call[c]) /\ call[c].op # "none"
  BY DEF SlotsOK, RowOps
<1>2. Asking(call[c]) /\ call[c] \in RowRequest
  BY <1>1, Kinds
<1> QED
  BY <1>2, RowKinds

(* Checks.                                                                 *)
LEMMA FleetChecks ==
  ASSUME TableOK, SlotsOK, NEW c \in Calls,
         \/ CheckNewAsset(c) \/ CheckAsset(c) \/ CheckNewDevice(c) \/ CheckDevice(c)
         \/ CheckNoDevices(c)
  PROVE  TableOK' /\ SlotsOK' /\ \A e \in Calls \ {c} : call'[e] = call[e]
<1> DEFINE k == call[c]
<1>1. CASE CheckNewAsset(c)
  <2>1. k \in NewAssetAsked /\ Asking(k)
    BY <1>1, FleetSlot DEF CheckNewAsset, At, RowOps
  <2>2. Asking([k EXCEPT !.step = "insert"])
    BY <2>1 DEF NewAssetAsked, Asking, Consistent, Request, RowRequest
  <2>3. CASE Refuse(c)
    BY <2>1, <2>3, RefusesOnly DEF NewAssetAsked
  <2>4. CASE Goes(c, [k EXCEPT !.step = "insert"]) /\ UNCHANGED rowVars
    <3>1. [k EXCEPT !.step = "insert"].op = "newAsset"
      BY <2>1 DEF NewAssetAsked
    <3> QED
      BY <2>2, <2>4, <3>1, GoesOn DEF SlotOK
  <2> QED
    BY <1>1, <2>3, <2>4 DEF CheckNewAsset
<1>2. CASE CheckAsset(c)
  <2>1. k \in AssetAsked /\ Asking(k)
    BY <1>2, FleetSlot DEF CheckAsset, At, RowOps
  <2> DEFINE n == [k EXCEPT !.step = "write", !.was = asset[k.id]]
  <2>2. asset[k.id] \in Orgs \cup {NoRow}
    BY <2>1 DEF AssetAsked, TableOK, RowsOK
  <2>3. n \in AssetAsked /\ n.op = "asset" /\ n.step = "write"
    BY <2>1, <2>2 DEF AssetAsked
  <2>4. Asking(n)
    BY <2>3 DEF Asking, Consistent, Request, RowRequest
  <2>5. CASE Refuse(c)
    BY <2>1, <2>5, RefusesOnly DEF AssetAsked
  <2>6. CASE Goes(c, n) /\ UNCHANGED rowVars
    <3> HIDE DEF n
    <3> QED
      BY <2>3, <2>4, <2>6, GoesOn DEF SlotOK
  <2> QED
    BY <1>2, <2>5, <2>6 DEF CheckAsset
<1>3. CASE CheckNewDevice(c)
  <2>1. k \in NewDeviceAsked /\ Asking(k)
    BY <1>3, FleetSlot DEF CheckNewDevice, At, RowOps
  <2>2. Asking([k EXCEPT !.step = "insert"])
    BY <2>1 DEF NewDeviceAsked, Asking, Consistent, Request, RowRequest
  <2>3. CASE Refuse(c)
    BY <2>1, <2>3, RefusesOnly DEF NewDeviceAsked
  <2>4. CASE Goes(c, [k EXCEPT !.step = "insert"]) /\ UNCHANGED rowVars
    <3>1. [k EXCEPT !.step = "insert"].op = "newDevice"
      BY <2>1 DEF NewDeviceAsked
    <3> QED
      BY <2>2, <2>4, <3>1, GoesOn DEF SlotOK
  <2> QED
    BY <1>3, <2>3, <2>4 DEF CheckNewDevice
<1>4. CASE CheckDevice(c)
  <2>1. k \in DeviceAsked /\ Asking(k)
    BY <1>4, FleetSlot DEF CheckDevice, At, RowOps
  <2>2. Asking([k EXCEPT !.step = "write"])
    BY <2>1 DEF DeviceAsked, Asking, Consistent, Request, RowRequest
  <2>3. CASE Refuse(c)
    BY <2>1, <2>3, RefusesOnly DEF DeviceAsked
  <2>4. CASE Goes(c, [k EXCEPT !.step = "write"]) /\ UNCHANGED rowVars
    <3>1. [k EXCEPT !.step = "write"].op = "device"
      BY <2>1 DEF DeviceAsked
    <3> QED
      BY <2>2, <2>4, <3>1, GoesOn DEF SlotOK
  <2> QED
    BY <1>4, <2>3, <2>4 DEF CheckDevice
<1>5. CASE CheckNoDevices(c)
  <2>1. k \in NoDevicesAsked /\ Asking(k)
    BY <1>5, FleetSlot DEF CheckNoDevices, At, RowOps
  <2>2. Asking([k EXCEPT !.step = "delete"])
    BY <2>1 DEF NoDevicesAsked, Asking, Consistent, Request, RowRequest
  <2>3. CASE Refuse(c)
    BY <2>1, <2>3, RefusesOnly DEF NoDevicesAsked
  <2>4. CASE Goes(c, [k EXCEPT !.step = "delete"]) /\ UNCHANGED rowVars
    <3>1. [k EXCEPT !.step = "delete"].op = "noDevices"
      BY <2>1 DEF NoDevicesAsked
    <3> QED
      BY <2>2, <2>4, <3>1, GoesOn DEF SlotOK
  <2> QED
    BY <1>5, <2>3, <2>4 DEF CheckNoDevices
<1> QED
  BY <1>1, <1>2, <1>3, <1>4, <1>5

LEMMA FreshId ==
  ASSUME NEW S, fresh \cap S # {}
  PROVE  NextId(S) \in fresh /\ NextId(S) \in S
  BY DEF NextId

LEMMA InsertsAsset ==
  ASSUME TableOK, SlotsOK, NEW c \in Calls, InsertAsset(c)
  PROVE  TableOK' /\ SlotsOK' /\ \A e \in Calls \ {c} : call'[e] = call[e]
<1> DEFINE k == call[c]
<1>1. k \in NewAssetAsked /\ Asking(k) /\ k.op = "newAsset"
  BY FleetSlot DEF InsertAsset, At, RowOps
<1>2. CASE Refuse(c)
  BY <1>1, <1>2, RefusesOnly
<1>3. CASE ~Refuse(c)
  <2> PICK a \in Assets : a = NextId(Assets) /\ a \in fresh
    BY FreshId DEF InsertAsset
  <2> PICK o \in Orgs : o = k.org
    BY <1>1 DEF NewAssetAsked
  <2> PICK d \in Devices \cup {None} : d = k.dev
    BY <1>1 DEF NewAssetAsked
  <2>1. /\ org[o] # NoRow
        /\ d # None => device[d] # NoRow /\ device[d].org = o
        /\ asset' = [asset EXCEPT ![a] = o]
        /\ device' = IF d = None THEN device ELSE [device EXCEPT ![d].asset = a]
        /\ fresh' = fresh \ {a}
        /\ UNCHANGED <<org, group, user>>
        /\ Answers(c, [id |-> a, org |-> o, held |-> {d} \ {None}])
    <3>1. d # None => OrgsMatch([device[d] EXCEPT !.asset = a], Created(a, k)) /\ device[d] # NoRow
      BY <1>3 DEF InsertAsset
    <3>2. d # None => device[d] \in DevRow
      BY <3>1, Markers DEF TableOK, RowsOK
    <3>3. d # None => device[d].org = o
      BY <3>1, <3>2, Markers DEF OrgsMatch, Created, DevRow, TableOK, RowsOK
    <3> QED
      BY <1>3, <3>1, <3>3 DEF InsertAsset, Created
  <2>2. asset[a] = NoRow
    BY DEF TableOK, AssetRows
  <2>3. BodyOK("newAsset", [id |-> a, org |-> o, held |-> {d} \ {None}])
    BY DEF BodyOK
  <2>4. /\ asset' \in [Assets -> Orgs \cup {NoRow}]
        /\ device' \in [Devices -> DevRow \cup {NoRow}]
        /\ AssetRows' = AssetRows \cup {a}
        /\ DeviceRows' = DeviceRows
        /\ \A b \in Assets : asset'[b] = IF b = a THEN o ELSE asset[b]
        /\ \A e \in DeviceRows : /\ device'[e].org = device[e].org
                                 /\ device'[e].asset = device[e].asset \/ device'[e].asset = a
    BY <2>1, Apart, SystemOrgs DEF TableOK, RowsOK, DevRow, AssetRows, DeviceRows
  <2>5. RowsOK'
    BY <2>1, <2>4 DEF TableOK, RowsOK, OrgRows, GroupRows, UserRows
  <2>6. \A e \in Calls \ {c} : At(e, "asset", "commit") =>
          /\ asset'[call[e].id] = asset[call[e].id]
          /\ org'[MovedTo(call[e])] # NoRow
    <3>1. ASSUME NEW e \in Calls, At(e, "asset", "commit")
          PROVE  asset[call[e].id] # NoRow /\ org[MovedTo(call[e])] # NoRow
                 /\ call[e].id \in Assets
      BY <3>1, FleetSlot DEF TableOK, Holding, At, RowOps, AssetAsked
    <3> QED
      BY <3>1, <2>1, <2>2, <2>4
  <2>7. fresh' \cap (OrgRows \cup AssetRows \cup DeviceRows \cup GroupRows \cup UserRows)' = {}
    BY <2>1, <2>4 DEF TableOK, OrgRows, GroupRows, UserRows
  <2> QED
    BY <1>1, <2>1, <2>3, <2>5, <2>6, <2>7, WrittenRows DEF TableOK, OrgRows
<1> QED
  BY <1>2, <1>3

(* A transaction in progress, and what it has locked.                      *)
LEMMA InProgress ==
  ASSUME TableOK, SlotsOK, NEW e \in Calls, At(e, "asset", "commit")
  PROVE  /\ call[e] \in AssetAsked /\ Asking(call[e])
         /\ call[e].id \in AssetRows /\ asset[call[e].id] \in Orgs
         /\ MovedTo(call[e]) \in OrgRows
         /\ Locked(call[e].id) /\ Locked(MovedTo(call[e]))
         /\ call[e].id \in call[e].locks
         /\ \A d \in Calls : At(d, "asset", "commit") /\ d # e => call[d].id # call[e].id
<1>1. call[e] \in AssetAsked /\ Asking(call[e]) /\ Holding(e)
  BY FleetSlot DEF TableOK, At, RowOps
<1>2. call[e].id \in AssetRows /\ asset[call[e].id] \in Orgs
  BY <1>1 DEF Holding, AssetRows, AssetAsked, TableOK, RowsOK
<1>3. MovedTo(call[e]) \in OrgRows
  <2>1. MovedTo(call[e]) \in Orgs
    BY <1>1, <1>2 DEF MovedTo, Final, AssetAsked
  <2> QED
    BY <1>1, <2>1 DEF Holding, OrgRows
<1>4. Locked(call[e].id) /\ Locked(MovedTo(call[e])) /\ call[e].id \in call[e].locks
  BY <1>1 DEF Holding, Locked
<1> QED
  BY <1>1, <1>2, <1>3, <1>4 DEF Holding

LEMMA MovesAsset ==
  ASSUME TableOK, SlotsOK, NEW c \in Calls, MoveAsset(c)
  PROVE  TableOK' /\ SlotsOK' /\ \A e \in Calls \ {c} : call'[e] = call[e]
<1> DEFINE k == call[c]
           to == MovedTo(k)
           held == Set(k.id, k.dev)
           gone == Holds(k.id) \ held
           come == held \ Holds(k.id)
           n == [k EXCEPT !.step = "commit", !.held = held,
                          !.locks = {k.id, to} \cup gone \cup come]
<1>1. k \in AssetAsked /\ Asking(k) /\ k.op = "asset"
  BY FleetSlot DEF MoveAsset, At, RowOps
<1>2. CASE Answers(c, Refused)
  BY <1>1, <1>2, AnswersOnly DEF MoveAsset
<1>3. CASE ~Answers(c, Refused)
  <2>1. /\ asset[k.id] # NoRow /\ org[to] # NoRow
        /\ Goes(c, n) /\ UNCHANGED rowVars
        /\ ~Locked(k.id)
    BY <1>3 DEF MoveAsset
  <2>2. k.id \in Assets /\ to \in Orgs
    BY <1>1, <2>1 DEF MovedTo, Final, AssetAsked, TableOK, RowsOK
  <2>3. held \subseteq Devices /\ gone \subseteq Devices /\ come \subseteq Devices
    BY DEF Set, Holds, DeviceRows
  <2>4. /\ n \in AssetAsked /\ n.op = "asset" /\ n.step = "commit" /\ n.id = k.id
        /\ n.org = k.org /\ n.locks = {k.id, to} \cup gone \cup come
    <3> HIDE DEF to, held, gone, come
    <3> QED
      BY <1>1, <2>2, <2>3 DEF AssetAsked
  <2>5. Asking(n)
    BY <2>4 DEF Asking, Consistent, Request, RowRequest
  <2>6. MovedTo(n) = to
    BY <2>4 DEF MovedTo, Final
  <2> HIDE DEF n
  <2>7. /\ SlotsOK' /\ call'[c] = n
        /\ \A e \in Calls \ {c} : call'[e] = call[e]
    BY <2>1, <2>5, OneSlot DEF Goes, SlotOK
  <2>8. UNCHANGED <<org, asset, device, group, user, fresh>>
    BY <2>1 DEF rowVars
  <2>9. (\A e \in Calls : Holding(e))'
    <3> SUFFICES ASSUME NEW e \in Calls PROVE Holding(e)'
      OBVIOUS
    <3>1. \A d \in Calls \ {c} : At(d, "asset", "commit") => call[d].id # k.id
      BY <2>1, InProgress
    <3>2. CASE e = c
      <4>1. MovedTo(call[c])' = to
        BY <2>6, <2>7, <2>8 DEF MovedTo, Final
      <4>2. \A d \in Calls : At(d, "asset", "commit")' /\ d # c => call'[d].id # k.id
        BY <2>7, <3>1 DEF At
      <4> QED
        BY <2>1, <2>4, <2>7, <2>8, <3>2, <4>1, <4>2 DEF Holding
    <3>3. CASE e # c
      <4>1. Holding(e) /\ call'[e] = call[e]
        BY <2>7, <3>3 DEF TableOK
      <4>2. MovedTo(call[e])' = MovedTo(call[e])
        BY <2>8, <4>1 DEF MovedTo, Final
      <4>3. \A d \in Calls : At(d, "asset", "commit")' /\ d # e /\ At(e, "asset", "commit")
                                => call'[d].id # call[e].id
        <5> SUFFICES ASSUME NEW d \in Calls, At(d, "asset", "commit")', d # e,
                            At(e, "asset", "commit")
                     PROVE  call'[d].id # call[e].id
          OBVIOUS
        <5>1. CASE d = c
          BY <2>4, <2>7, <3>1, <3>3, <5>1
        <5>2. CASE d # c
          BY <2>7, <4>1, <5>2 DEF Holding, At
        <5> QED
          BY <5>1, <5>2
      <4> QED
        BY <2>8, <4>1, <4>2, <4>3 DEF Holding, At
    <3> QED
      BY <3>2, <3>3
  <2> QED
    BY <2>7, <2>8, <2>9 DEF TableOK, RowsOK, OrgRows, AssetRows, DeviceRows, GroupRows, UserRows
<1> QED
  BY <1>2, <1>3

LEMMA CommitsAsset ==
  ASSUME TableOK, SlotsOK, NEW c \in Calls, CommitAsset(c)
  PROVE  TableOK' /\ SlotsOK' /\ \A e \in Calls \ {c} : call'[e] = call[e]
<1> DEFINE k == call[c]
<1>1. /\ k \in AssetAsked /\ Asking(k) /\ k.op = "asset" /\ k.id \in AssetRows
      /\ MovedTo(k) \in OrgRows
  BY InProgress DEF CommitAsset, At
<1>2. CASE Refuse(c)
  BY <1>1, <1>2, RefusesOnly
<1>3. CASE ~Refuse(c)
  <2> PICK a \in Assets : a = k.id /\ asset[a] # NoRow
    BY <1>1 DEF AssetAsked, AssetRows
  <2> PICK o \in Orgs : o = MovedTo(k) /\ org[o] # NoRow
    BY <1>1 DEF OrgRows
  <2>1. /\ asset' = [asset EXCEPT ![a] = o]
        /\ UNCHANGED <<org, group, user, fresh>>
        /\ Answers(c, [id |-> a, org |-> o, held |-> k.held])
    BY <1>3 DEF CommitAsset
  <2>2. \A d \in Devices : /\ HeldMove(k)[d] = device[d]
                              \/ HeldMove(k)[d] = [device[d] EXCEPT !.org = o]
    BY <1>1 DEF HeldMove, MovedTo, Final, TableOK, RowsOK
  <2>3. \A d \in Devices : IF device[d] = NoRow THEN device'[d] = NoRow
                           ELSE \E x \in {None, a, device[d].asset} :
                                   device'[d] = [HeldMove(k)[d] EXCEPT !.asset = x]
    BY <1>3 DEF CommitAsset
  <2>4. \A d \in DeviceRows :
           /\ device[d] \in DevRow /\ device'[d] \in DevRow
           /\ device'[d].org \in {o, device[d].org}
           /\ device'[d].asset \in {None, a, device[d].asset}
    <3> SUFFICES ASSUME NEW d \in DeviceRows
                 PROVE  /\ device[d] \in DevRow /\ device'[d] \in DevRow
                        /\ device'[d].org \in {o, device[d].org}
                        /\ device'[d].asset \in {None, a, device[d].asset}
      OBVIOUS
    <3>1. d \in Devices /\ device[d] # NoRow /\ device[d] \in DevRow
      BY DEF DeviceRows, TableOK, RowsOK
    <3>2. HeldMove(k)[d] \in DevRow /\ HeldMove(k)[d].org \in {o, device[d].org}
      BY <2>2, <3>1 DEF DevRow
    <3>3. PICK x \in {None, a, device[d].asset} :
                  device'[d] = [HeldMove(k)[d] EXCEPT !.asset = x]
      BY <2>3, <3>1
    <3> QED
      BY <3>1, <3>2, <3>3 DEF DevRow
  <2>5. device' \in [Devices -> DevRow \cup {NoRow}] /\ DeviceRows' = DeviceRows
    <3>1. DOMAIN device' = Devices /\ device' = [d \in Devices |-> device'[d]]
      BY <1>3 DEF CommitAsset
    <3>2. \A d \in Devices : device[d] = NoRow \/ d \in DeviceRows
      BY DEF DeviceRows
    <3>3. \A d \in Devices : device'[d] \in DevRow \cup {NoRow}
      BY <2>3, <2>4, <3>2
    <3>4. \A d \in Devices : device'[d] = NoRow <=> device[d] = NoRow
      <4>1. \A d \in Devices : device[d] = NoRow => device'[d] = NoRow
        BY <2>3
      <4>2. \A d \in DeviceRows : device'[d] # NoRow /\ device[d] # NoRow
        BY <2>4, Apart DEF DeviceRows
      <4> QED
        BY <3>2, <4>1, <4>2
    <3>5. DeviceRows' = DeviceRows
      BY <3>4 DEF DeviceRows
    <3> QED
      BY <3>1, <3>3, <3>5
  <2>6. /\ asset' \in [Assets -> Orgs \cup {NoRow}]
        /\ AssetRows' = AssetRows /\ OrgRows' = OrgRows /\ a \in AssetRows
        /\ \A b \in Assets : asset'[b] = IF b = a THEN o ELSE asset[b]
    BY <2>1, SystemOrgs DEF TableOK, RowsOK, AssetRows, OrgRows
  <2>7. RowsOK'
    BY <2>1, <2>4, <2>5, <2>6 DEF TableOK, RowsOK, OrgRows, GroupRows, UserRows
  <2>8. \A e \in Calls \ {c} : At(e, "asset", "commit") =>
          /\ asset'[call[e].id] = asset[call[e].id]
          /\ org'[MovedTo(call[e])] # NoRow
    <3> SUFFICES ASSUME NEW e \in Calls \ {c}, At(e, "asset", "commit")
                 PROVE  asset'[call[e].id] = asset[call[e].id] /\ org'[MovedTo(call[e])] # NoRow
      OBVIOUS
    <3>1. call[e].id # a /\ call[e].id \in Assets /\ MovedTo(call[e]) \in OrgRows
      BY InProgress DEF CommitAsset, AssetAsked
    <3> QED
      BY <2>1, <2>6, <3>1 DEF OrgRows
  <2>9. BodyOK("asset", [id |-> a, org |-> o, held |-> k.held])
    BY <1>1 DEF BodyOK, AssetAsked
  <2>10. fresh' \cap (OrgRows \cup AssetRows \cup DeviceRows \cup GroupRows \cup UserRows)' = {}
    BY <2>1, <2>5, <2>6 DEF TableOK, GroupRows, UserRows
  <2> QED
    BY <1>1, <2>1, <2>7, <2>8, <2>9, <2>10, <2>6, WrittenRows DEF TableOK
<1> QED
  BY <1>2, <1>3

LEMMA DeletesAssets ==
  ASSUME TableOK, SlotsOK, NEW c \in Calls, DeleteAssets(c)
  PROVE  TableOK' /\ SlotsOK' /\ \A e \in Calls \ {c} : call'[e] = call[e]
<1> DEFINE S == call[c].ids
<1>1. /\ call[c] \in NoAssetsAsked /\ Asking(call[c]) /\ call[c].op = "noAssets"
      /\ S \subseteq Assets
  BY FleetSlot DEF DeleteAssets, At, RowOps, NoAssetsAsked
<1>2. /\ asset' = [a \in Assets |-> IF a \in S THEN NoRow ELSE asset[a]]
      /\ Detached(S) /\ UNCHANGED <<org, fresh>>
      /\ Answers(c, S)
      /\ \A a \in S : ~Locked(a)
  BY DEF DeleteAssets, Without, TableOK, RowsOK
<1> HIDE DEF S
<1>3. /\ asset' \in [Assets -> Orgs \cup {NoRow}]
      /\ AssetRows' = AssetRows \ S
      /\ \A a \in AssetRows' : asset'[a] = asset[a]
  BY <1>2 DEF TableOK, RowsOK, AssetRows
<1>4. /\ device' \in [Devices -> DevRow \cup {NoRow}]
      /\ DeviceRows' = DeviceRows
      /\ \A d \in DeviceRows : /\ device'[d].org = device[d].org
                               /\ device'[d].asset = IF device[d].asset \in S THEN None
                                                     ELSE device[d].asset
  BY <1>2, Apart DEF Detached, TableOK, RowsOK, DeviceRows, DevRow
<1>5. /\ group' \in [Groups -> GroupRow \cup {NoRow}]
      /\ GroupRows' = GroupRows
      /\ \A g \in GroupRows : group'[g] \in GroupRow /\ group'[g].members = group[g].members \ S
  BY <1>2, Apart DEF Detached, TableOK, RowsOK, GroupRows, GroupRow
<1>6. /\ user' \in [Users -> UserRow \cup {NoRow}]
      /\ UserRows' = UserRows
      /\ \A u \in UserRows : /\ user'[u] \in UserRow
                             /\ user'[u].org = user[u].org
                             /\ user'[u].denied = user[u].denied \ S
  BY <1>2, Apart DEF Detached, TableOK, RowsOK, UserRows, UserRow
<1>7. RowsOK'
  <2>1. OrgRows' = OrgRows /\ org' = org /\ fresh' = fresh
    BY <1>2 DEF OrgRows
  <2>2. \A a \in AssetRows' : asset'[a] \in OrgRows
    BY <1>3 DEF TableOK, RowsOK
  <2>3. \A d \in DeviceRows : device'[d].org \in OrgRows /\ device'[d].asset \in AssetRows' \cup {None}
    BY <1>3, <1>4 DEF TableOK, RowsOK
  <2>4. \A g \in GroupRows : group'[g].members \subseteq AssetRows'
    BY <1>3, <1>5 DEF TableOK, RowsOK
  <2>5. \A u \in UserRows : user'[u].org \in OrgRows /\ user'[u].denied \subseteq AssetRows'
    BY <1>3, <1>6 DEF TableOK, RowsOK
  <2> QED
    BY <1>3, <1>4, <1>5, <1>6, <2>1, <2>2, <2>3, <2>4, <2>5 DEF TableOK, RowsOK
<1>8. \A e \in Calls \ {c} : At(e, "asset", "commit") =>
          /\ asset'[call[e].id] = asset[call[e].id]
          /\ org'[MovedTo(call[e])] # NoRow
  <2> SUFFICES ASSUME NEW e \in Calls \ {c}, At(e, "asset", "commit")
               PROVE  asset'[call[e].id] = asset[call[e].id] /\ org'[MovedTo(call[e])] # NoRow
    OBVIOUS
  <2>1. call[e].id \in AssetRows /\ Locked(call[e].id) /\ MovedTo(call[e]) \in OrgRows
    BY InProgress
  <2> QED
    BY <1>2, <2>1 DEF AssetRows, OrgRows
<1>9. BodyOK("noAssets", S)
  BY <1>1 DEF BodyOK
<1>10. /\ fresh' \cap (OrgRows \cup AssetRows \cup DeviceRows \cup GroupRows \cup UserRows)' = {}
       /\ Root \in OrgRows' /\ Archive \in OrgRows' /\ org'[Root].parent = None
  BY <1>2, <1>3, <1>4, <1>5, <1>6 DEF TableOK, OrgRows
<1> QED
  BY <1>1, <1>2, <1>5, <1>6, <1>7, <1>8, <1>9, <1>10, WrittenRows

(* A request that writes devices only.                                     *)
LEMMA DevicesWritten ==
  ASSUME TableOK, SlotsOK, NEW c \in Calls, NEW b, Asking(call[c]), Answers(c, b),
         BodyOK(call[c].op, b), call[c].op # "profile",
         UNCHANGED <<org, asset, group, user>>,
         device' \in [Devices -> DevRow \cup {NoRow}], fresh' \subseteq fresh,
         fresh' \cap DeviceRows' = {},
         \A d \in DeviceRows' : /\ device'[d].org \in OrgRows
                                /\ device'[d].asset \in AssetRows \cup {None}
  PROVE  TableOK' /\ SlotsOK' /\ \A e \in Calls \ {c} : call'[e] = call[e]
<1>1. /\ OrgRows' = OrgRows /\ AssetRows' = AssetRows /\ GroupRows' = GroupRows
      /\ UserRows' = UserRows
  BY DEF OrgRows, AssetRows, GroupRows, UserRows
<1>2. RowsOK'
  BY <1>1 DEF TableOK, RowsOK
<1>3. \A e \in Calls \ {c} : At(e, "asset", "commit") =>
          /\ asset'[call[e].id] = asset[call[e].id]
          /\ org'[MovedTo(call[e])] # NoRow
  BY InProgress DEF OrgRows
<1>4. fresh' \cap (OrgRows \cup AssetRows \cup DeviceRows \cup GroupRows \cup UserRows)' = {}
  BY <1>1 DEF TableOK
<1> QED
  BY <1>1, <1>2, <1>3, <1>4, WrittenRows DEF TableOK

(* What the constraints let through refers to rows.                        *)
LEMMA WrittenRefers ==
  ASSUME TableOK, NEW row \in DevRow, Written(row)
  PROVE  row.org \in OrgRows /\ row.asset \in AssetRows \cup {None}
  BY DEF Written, DevRow, OrgRows, AssetRows

LEMMA InsertsDevice ==
  ASSUME TableOK, SlotsOK, NEW c \in Calls, InsertDevice(c)
  PROVE  TableOK' /\ SlotsOK' /\ \A e \in Calls \ {c} : call'[e] = call[e]
<1> DEFINE k == call[c]
<1>1. k \in NewDeviceAsked /\ Asking(k) /\ k.op = "newDevice"
  BY FleetSlot DEF InsertDevice, At, RowOps
<1>2. CASE Refuse(c)
  BY <1>1, <1>2, RefusesOnly
<1>3. CASE ~Refuse(c)
  <2> PICK d \in Devices : d = NextId(Devices) /\ d \in fresh
    BY FreshId DEF InsertDevice
  <2> PICK row \in DevRow : row = NewDevice(k)
    BY <1>1 DEF NewDeviceAsked, NewDevice, DevRow
  <2>1. /\ Written(row)
        /\ device' = [device EXCEPT ![d] = row]
        /\ fresh' = fresh \ {d}
        /\ UNCHANGED <<org, asset, group, user>>
        /\ Answers(c, [id |-> d, row |-> row])
    BY <1>3 DEF InsertDevice
  <2>2. row.org \in OrgRows /\ row.asset \in AssetRows \cup {None}
    BY <2>1, WrittenRefers
  <2>3. /\ device' \in [Devices -> DevRow \cup {NoRow}]
        /\ DeviceRows' = DeviceRows \cup {d}
        /\ \A e \in DeviceRows' : device'[e] = IF e = d THEN row ELSE device[e]
    BY <2>1, Apart DEF TableOK, RowsOK, DeviceRows
  <2>4. BodyOK("newDevice", [id |-> d, row |-> row])
    BY DEF BodyOK
  <2>5. fresh' \subseteq fresh /\ fresh' \cap DeviceRows' = {}
    BY <2>1, <2>3 DEF TableOK
  <2>6. \A e \in DeviceRows' : /\ device'[e].org \in OrgRows
                               /\ device'[e].asset \in AssetRows \cup {None}
    BY <2>2, <2>3 DEF TableOK, RowsOK
  <2> QED
    BY <1>1, <2>1, <2>3, <2>4, <2>5, <2>6, DevicesWritten
<1> QED
  BY <1>2, <1>3

LEMMA WritesDevice ==
  ASSUME TableOK, SlotsOK, NEW c \in Calls, WriteDevice(c)
  PROVE  TableOK' /\ SlotsOK' /\ \A e \in Calls \ {c} : call'[e] = call[e]
<1> DEFINE k == call[c]
<1>1. k \in DeviceAsked /\ Asking(k) /\ k.op = "device"
  BY FleetSlot DEF WriteDevice, At, RowOps
<1>2. CASE Refuse(c)
  BY <1>1, <1>2, RefusesOnly
<1>3. CASE ~Refuse(c)
  <2> PICK d \in Devices : d = k.id
    BY <1>1 DEF DeviceAsked
  <2>1. /\ device[d] # NoRow /\ Written(PatchedDevice(k))
        /\ device' = [device EXCEPT ![d] = PatchedDevice(k)]
        /\ UNCHANGED <<org, asset, group, user, fresh>>
        /\ Answers(c, [id |-> d, row |-> PatchedDevice(k)])
    BY <1>3 DEF WriteDevice
  <2>2. device[d] \in DevRow
    BY <2>1 DEF TableOK, RowsOK
  <2>3. PatchedDevice(k) \in DevRow
    BY <1>1, <2>2 DEF PatchedDevice, DevRow, DeviceAsked, Final
  <2> PICK row \in DevRow : row = PatchedDevice(k)
    BY <2>3
  <2>4. row.org \in OrgRows /\ row.asset \in AssetRows \cup {None}
    BY <2>1, WrittenRefers
  <2>5. /\ device' \in [Devices -> DevRow \cup {NoRow}]
        /\ DeviceRows' = DeviceRows
        /\ \A e \in DeviceRows' : device'[e] = IF e = d THEN row ELSE device[e]
    BY <2>1, Apart DEF TableOK, RowsOK, DeviceRows
  <2>6. BodyOK("device", [id |-> d, row |-> row])
    BY DEF BodyOK
  <2>7. fresh' \subseteq fresh /\ fresh' \cap DeviceRows' = {}
    BY <2>1, <2>5 DEF TableOK
  <2>8. \A e \in DeviceRows' : /\ device'[e].org \in OrgRows
                               /\ device'[e].asset \in AssetRows \cup {None}
    BY <2>4, <2>5 DEF TableOK, RowsOK
  <2> QED
    BY <1>1, <2>1, <2>5, <2>6, <2>7, <2>8, DevicesWritten
<1> QED
  BY <1>2, <1>3

LEMMA DeletesDevices ==
  ASSUME TableOK, SlotsOK, NEW c \in Calls, DeleteDevices(c)
  PROVE  TableOK' /\ SlotsOK' /\ \A e \in Calls \ {c} : call'[e] = call[e]
<1> DEFINE S == call[c].ids
<1>1. /\ call[c] \in NoDevicesAsked /\ Asking(call[c]) /\ call[c].op = "noDevices"
      /\ S \subseteq Devices
  BY FleetSlot DEF DeleteDevices, At, RowOps, NoDevicesAsked
<1>2. /\ device' = [d \in Devices |-> IF d \in S THEN NoRow ELSE device[d]]
      /\ UNCHANGED <<org, asset, group, user, fresh>> /\ Answers(c, S)
  BY DEF DeleteDevices, Without, TableOK, RowsOK
<1> HIDE DEF S
<1>3. /\ device' \in [Devices -> DevRow \cup {NoRow}]
      /\ DeviceRows' \subseteq DeviceRows
      /\ \A d \in DeviceRows' : device'[d] = device[d]
  BY <1>2 DEF TableOK, RowsOK, DeviceRows
<1>4. BodyOK("noDevices", S)
  BY <1>1 DEF BodyOK
<1>5. fresh' \subseteq fresh /\ fresh' \cap DeviceRows' = {}
  BY <1>2, <1>3 DEF TableOK
<1>6. \A d \in DeviceRows' : /\ device'[d].org \in OrgRows
                             /\ device'[d].asset \in AssetRows \cup {None}
  BY <1>3 DEF TableOK, RowsOK
<1> QED
  BY <1>1, <1>2, <1>3, <1>4, <1>5, <1>6, DevicesWritten

(* Every step of the requests of module Fleet.                             *)
LEMMA FleetServed ==
  ASSUME TableOK, SlotsOK, NEW c \in Calls, FleetNext(c)
  PROVE  TableOK' /\ SlotsOK' /\ \A e \in Calls \ {c} : call'[e] = call[e]
  BY FleetChecks, InsertsAsset, MovesAsset, CommitsAsset, DeletesAssets, InsertsDevice,
     WritesDevice, DeletesDevices DEF FleetNext

-----------------------------------------------------------------------------
(* The requests of module Organisations, and the copy in Redis.            *)

LEMMA TreeSlot ==
  ASSUME SlotsOK, NEW c \in Calls, call[c].op \in TreeOps, call[c].step # "answer"
  PROVE  /\ Asking(call[c])
         /\ call[c].op = "newOrg" /\ call[c].step # "hadd" => call[c] \in NewOrgAsked
         /\ call[c].op = "newOrg" /\ call[c].step = "hadd" => call[c] \in NewOrgStored
         /\ call[c].op = "org" => call[c] \in OrgAsked
         /\ call[c].op = "noOrgs" => call[c] \in NoOrgsAsked
<1>1. SlotOK(call[c]) /\ call[c].op # "none"
  BY DEF SlotsOK, TreeOps
<1>2. Asking(call[c]) /\ call[c] \in TreeRequest
  BY <1>1, Kinds
<1> QED
  BY <1>2, TreeKinds

LEMMA TableTree ==
  ASSUME TableOK
  PROVE  /\ org \in Tree /\ Grown(org)
         /\ \A o \in OrgRows : o \in Orgs /\ org[o] \in OrgRow
  BY DEF TableOK, RowsOK, Tree, Grown, OrgRows

LEMMA SubtreeRows ==
  ASSUME TableOK, NEW o \in Orgs
  PROVE  /\ Subtree(o) \subseteq OrgRows
         /\ o \in OrgRows => o \in Subtree(o)
  BY TableTree, UnderTree DEF Subtree

LEMMA CopyKept ==
  ASSUME CopyOK, UNCHANGED hashVars
  PROVE  CopyOK'
  BY DEF CopyOK, hashVars

LEMMA TreeChecks ==
  ASSUME TableOK, SlotsOK, CopyOK, NEW c \in Calls,
         CheckNewOrg(c) \/ CheckOrg(c) \/ CheckNoOrgs(c)
  PROVE  TableOK' /\ SlotsOK' /\ CopyOK' /\ \A e \in Calls \ {c} : call'[e] = call[e]
<1> DEFINE k == call[c]
<1>0. CopyOK'
  BY CopyKept DEF CheckNewOrg, CheckOrg, CheckNoOrgs
<1>1. CASE CheckNewOrg(c)
  <2>1. k \in NewOrgAsked /\ Asking(k)
    BY <1>1, TreeSlot DEF CheckNewOrg, At, TreeOps
  <2>2. Asking([k EXCEPT !.step = "insert"])
    BY <2>1 DEF NewOrgAsked, Asking, Consistent, Request, TreeRequest
  <2>3. CASE Refuse(c)
    BY <1>0, <2>1, <2>3, RefusesOnly DEF NewOrgAsked
  <2>4. CASE Goes(c, [k EXCEPT !.step = "insert"]) /\ UNCHANGED rowVars
    <3>1. [k EXCEPT !.step = "insert"].op = "newOrg"
      BY <2>1 DEF NewOrgAsked
    <3> QED
      BY <1>0, <2>2, <2>4, <3>1, GoesOn DEF SlotOK
  <2> QED
    BY <1>1, <2>3, <2>4 DEF CheckNewOrg
<1>2. CASE CheckOrg(c)
  <2>1. k \in OrgAsked /\ Asking(k)
    BY <1>2, TreeSlot DEF CheckOrg, At, TreeOps
  <2>3. CASE Refuse(c)
    BY <1>0, <2>1, <2>3, RefusesOnly DEF OrgAsked
  <2>4. CASE ~Refuse(c)
    <3>1. /\ Goes(c, [k EXCEPT !.step = "write"]) /\ UNCHANGED rowVars
          /\ k.id \notin {Root, Archive}
      BY <1>2, <2>4 DEF CheckOrg
    <3>2. Asking([k EXCEPT !.step = "write"]) /\ [k EXCEPT !.step = "write"].op = "org"
      BY <2>1, <3>1 DEF OrgAsked, Asking, Consistent, Request, TreeRequest
    <3> QED
      BY <1>0, <3>1, <3>2, GoesOn DEF SlotOK
  <2> QED
    BY <2>3, <2>4
<1>3. CASE CheckNoOrgs(c)
  <2>1. k \in NoOrgsAsked /\ Asking(k)
    BY <1>3, TreeSlot DEF CheckNoOrgs, At, TreeOps
  <2>3. CASE Refuse(c)
    BY <1>0, <2>1, <2>3, RefusesOnly DEF NoOrgsAsked
  <2>4. CASE ~Refuse(c)
    <3>1. /\ Goes(c, [k EXCEPT !.step = "delete"]) /\ UNCHANGED rowVars
          /\ k.ids \cap OrgRows # {} /\ k.ids \cap {Root, Archive} = {}
      BY <1>3, <2>4 DEF CheckNoOrgs
    <3>2. Asking([k EXCEPT !.step = "delete"]) /\ [k EXCEPT !.step = "delete"].op = "noOrgs"
      BY <2>1, <3>1 DEF NoOrgsAsked, Asking, Consistent, Request, TreeRequest
    <3> QED
      BY <1>0, <3>1, <3>2, GoesOn DEF SlotOK
  <2> QED
    BY <2>3, <2>4
<1> QED
  BY <1>1, <1>2, <1>3

LEMMA PathTyped ==
  ASSUME TableOK, NEW o \in Orgs, NEW p \in OrgRows \cup {None}
  PROVE  NewOrg(o, p) \in OrgRow /\ NewOrg(o, p).parent = p
<1>1. p = None => PathUnder(o, p, org) = <<o>>
  BY DEF PathUnder
<1>2. p # None => PathUnder(o, p, org) = Append(org[p].path, o) /\ org[p].path \in Seq(Orgs)
  BY TableTree DEF OrgRow, OrgRows, PathUnder
<1>3. PathUnder(o, p, org) \in Seq(Orgs) /\ p \in Orgs \cup {None}
  <2>1. CASE p = None
    <3>1. <<o>> \in Seq(Orgs)
      OBVIOUS
    <3>2. QED
      BY <1>1, <2>1, <3>1
  <2>2. CASE p # None
    <3> PICK s \in Seq(Orgs) : PathUnder(o, p, org) = Append(s, o)
      BY <1>2, <2>2
    <3> QED
      BY <2>2 DEF OrgRows
  <2>3. QED
    BY <2>1, <2>2
<1> QED
  BY <1>3 DEF NewOrg, OrgRow

LEMMA InsertsOrg ==
  ASSUME TableOK, SlotsOK, CopyOK, NEW c \in Calls, InsertOrg(c)
  PROVE  TableOK' /\ SlotsOK' /\ CopyOK' /\ \A e \in Calls \ {c} : call'[e] = call[e]
<1> DEFINE k == call[c]
<1>0. CopyOK'
  BY DEF CopyOK, InsertOrg
<1>1. k \in NewOrgAsked /\ Asking(k) /\ k.op = "newOrg"
  BY TreeSlot DEF InsertOrg, At, TreeOps
<1>2. CASE Refuse(c)
  BY <1>0, <1>1, <1>2, RefusesOnly
<1>3. CASE ~Refuse(c)
  <2> PICK o \in Orgs : o = NextId(Orgs) /\ o \in fresh
    BY FreshId DEF InsertOrg
  <2> PICK p \in Orgs : p = k.parent /\ org[p] # NoRow
    BY <1>1, <1>3 DEF NewOrgAsked, InsertOrg
  <2> PICK row \in OrgRow : row = NewOrg(o, p) /\ row.parent = p
    BY PathTyped DEF OrgRows
  <2> DEFINE n == [op |-> "newOrg", step |-> "hadd", by |-> k.by, parent |-> p,
                   id |-> o, row |-> row]
  <2>1. /\ org' = [org EXCEPT ![o] = row]
        /\ fresh' = fresh \ {o}
        /\ UNCHANGED <<asset, device, group, user>>
        /\ Goes(c, n)
    BY <1>3 DEF InsertOrg
  <2>2. Asking(n) /\ n.op = "newOrg"
    BY <1>1 DEF NewOrgAsked, NewOrgStored, Asking, Consistent, Request, TreeRequest
  <2> HIDE DEF n
  <2>3. /\ SlotsOK' /\ call'[c] = n
        /\ \A e \in Calls \ {c} : call'[e] = call[e]
    BY <2>1, <2>2, OneSlot DEF Goes, SlotOK
  <2>4. /\ org' \in [Orgs -> OrgRow \cup {NoRow}]
        /\ OrgRows' = OrgRows \cup {o}
        /\ org[o] = NoRow
        /\ \A x \in Orgs : org'[x] = IF x = o THEN row ELSE org[x]
    BY <2>1, Apart DEF TableOK, RowsOK, OrgRows
  <2>5. RowsOK'
    <3>1. \A x \in OrgRows' : org'[x].parent \in OrgRows' \cup {None}
      BY <2>4 DEF TableOK, RowsOK, OrgRows
    <3> QED
      BY <2>1, <2>4, <3>1 DEF TableOK, RowsOK, AssetRows, DeviceRows, GroupRows, UserRows
  <2>6. fresh' \cap (OrgRows \cup AssetRows \cup DeviceRows \cup GroupRows \cup UserRows)' = {}
    BY <2>1, <2>4 DEF TableOK, AssetRows, DeviceRows, GroupRows, UserRows
  <2>7. Root \in OrgRows' /\ Archive \in OrgRows' /\ org'[Root].parent = None
    BY <2>4 DEF TableOK, OrgRows
  <2>8. \A e \in Calls \ {c} : At(e, "asset", "commit") =>
          asset'[call[e].id] = asset[call[e].id] /\ org'[MovedTo(call[e])] # NoRow
    <3>1. \A e \in Calls : At(e, "asset", "commit") => MovedTo(call[e]) \in OrgRows
      BY InProgress
    <3>2. \A x \in OrgRows : org'[x] # NoRow
      BY <2>4 DEF OrgRows
    <3> QED
      BY <2>1, <3>1, <3>2
  <2>9. ~At(c, "asset", "commit")'
    BY <2>2, <2>3 DEF At
  <2>10. group' \in [Groups -> GroupRow \cup {NoRow}] /\ user' \in [Users -> UserRow \cup {NoRow}]
    BY <2>1 DEF TableOK
  <2> QED
    BY <1>0, <2>3, <2>5, <2>6, <2>7, <2>8, <2>9, <2>10, TablesWritten
<1> QED
  BY <1>2, <1>3

LEMMA FailsOnce ==
  ASSUME CopyOK, Fails
  PROVE  failures' \in 0 .. MaxFaults
  BY FaultBound DEF CopyOK, Fails

LEMMA HashesNewOrg ==
  ASSUME TableOK, SlotsOK, CopyOK, NEW c \in Calls, HashNewOrg(c) \/ HashNewOrgFails(c)
  PROVE  TableOK' /\ SlotsOK' /\ CopyOK' /\ \A e \in Calls \ {c} : call'[e] = call[e]
<1> DEFINE k == call[c]
<1>1. k \in NewOrgStored /\ Asking(k) /\ k.op = "newOrg"
  BY TreeSlot DEF HashNewOrg, HashNewOrgFails, At, TreeOps
<1> PICK o \in Orgs : o = k.id
  BY <1>1 DEF NewOrgStored
<1> PICK row \in OrgRow : row = k.row
  BY <1>1 DEF NewOrgStored
<1>2. CASE HashNewOrg(c)
  <2>1. BodyOK("newOrg", [x \in {o} |-> row])
    <3>1. [x \in {o} |-> row] \in [{o} -> OrgRow] /\ {o} \in SUBSET Orgs
      OBVIOUS
    <3> HIDE DEF k
    <3> QED
      BY <3>1 DEF BodyOK
  <2>2. hash' \in HashTable
    BY <1>2 DEF CopyOK, HashNewOrg, HashTable
  <2>3. Answers(c, [x \in {o} |-> row]) /\ UNCHANGED <<rowVars, jobs, sync, failures>>
    BY <1>2 DEF HashNewOrg
  <2> QED
    BY <1>1, <2>1, <2>2, <2>3, AnswersOnly DEF CopyOK
<1>3. CASE HashNewOrgFails(c)
  <2>1. Answers(c, Refused) /\ UNCHANGED <<rowVars, hash, jobs, sync>>
    BY <1>3 DEF HashNewOrgFails
  <2> QED
    BY <1>1, <1>3, <2>1, AnswersOnly, FailsOnce DEF CopyOK, HashNewOrgFails
<1> QED
  BY <1>2, <1>3

(* The tree under a new parent, before any path is written again.          *)
LEMMA ReparentedTree ==
  ASSUME TableOK, NEW k, k.id \in Orgs \ {Root}, org[k.id] # NoRow,
         k.parent \in OrgRows \cup {None}
  PROVE  /\ Grown(Reparented(k))
         /\ \A o \in Orgs : Reparented(k)[o] = NoRow <=> org[o] = NoRow
         /\ \A o \in Orgs \ {k.id} : Reparented(k)[o] = org[o]
         /\ Reparented(k)[k.id].parent = k.parent
<1>1. NewOrg(k.id, k.parent) \in OrgRow /\ NewOrg(k.id, k.parent).parent = k.parent
  BY PathTyped
<1>2. org \in Tree /\ org[Root] # NoRow /\ org[Root].parent = None /\ Root \in Orgs
  BY TableTree, SystemOrgs DEF Grown
<1> QED
  BY <1>1, <1>2, Apart DEF Reparented, Grown, Tree

(* What the tree is after an organisation was written.                     *)
LEMMA WrittenTree ==
  ASSUME TableOK, SlotsOK, NEW c \in Calls, WriteOrg(c), ~Refuse(c)
  PROVE  /\ org' \in Tree /\ OrgRows' = OrgRows
         /\ \A o \in OrgRows : org'[o] \in OrgRow /\ org'[o].parent \in OrgRows \cup {None}
         /\ org'[Root].parent = None
         /\ call[c].id \in OrgRows
<1> DEFINE k == call[c]
<1>1. k \in OrgAsked /\ Asking(k) /\ k.op = "org" /\ k.step = "write"
  BY TreeSlot DEF WriteOrg, At, TreeOps
<1>2. k.id \in Orgs \ {Root} /\ org[k.id] # NoRow
  BY <1>1 DEF OrgAsked, Asking, Consistent, WriteOrg
<1>3. /\ org \in Tree /\ org[Root].parent = None /\ Root \in OrgRows
      /\ \A o \in OrgRows : org[o] \in OrgRow /\ org[o].parent \in OrgRows \cup {None}
  BY TableTree DEF Grown, TableOK, RowsOK
<1>4. CASE k.parent = Keep
  <2>1. org' = org
    BY <1>4 DEF WriteOrg
  <2> QED
    BY <1>2, <1>3, <2>1 DEF OrgRows
<1>5. CASE k.parent # Keep
  <2>1. k.parent \in OrgRows \cup {None}
    BY <1>1, <1>5 DEF OrgAsked, WriteOrg, OrgRows
  <2>2. PICK soon : org' = Repathed(Reparented(k), soon)
    BY <1>5 DEF WriteOrg
  <2> PICK t : t = Reparented(k)
    OBVIOUS
  <2>3. /\ Grown(t) /\ \A o \in Orgs : t[o] = NoRow <=> org[o] = NoRow
        /\ \A o \in Orgs \ {k.id} : t[o] = org[o]
        /\ t[k.id].parent = k.parent
    BY <1>2, <2>1, ReparentedTree
  <2>4. /\ Grown(org')
        /\ \A o \in Orgs : org'[o] = NoRow <=> t[o] = NoRow
        /\ \A o \in Orgs : t[o] # NoRow => org'[o].parent = t[o].parent
    BY <2>2, <2>3, RepathedTree
  <2>5. \A o \in Orgs : org'[o] = NoRow <=> org[o] = NoRow
    BY <2>3, <2>4
  <2>6. org' \in Tree /\ OrgRows' = OrgRows /\ org'[Root].parent = None
    <3>1. org' \in Tree /\ org'[Root].parent = None
      BY <2>4 DEF Grown
    <3>2. OrgRows' = OrgRows
      BY <2>5 DEF OrgRows
    <3>3. QED
      BY <3>1, <3>2
  <2>7. \A o \in OrgRows : org'[o] \in OrgRow
    BY <2>6 DEF Tree, OrgRows
  <2>8. \A o \in OrgRows : org'[o].parent \in OrgRows \cup {None}
    BY <1>2, <1>3, <2>1, <2>3, <2>4 DEF OrgRows
  <2> QED
    BY <1>2, <2>6, <2>7, <2>8 DEF OrgRows
<1> QED
  BY <1>4, <1>5

LEMMA WritesOrg ==
  ASSUME TableOK, SlotsOK, CopyOK, NEW c \in Calls, WriteOrg(c)
  PROVE  TableOK' /\ SlotsOK' /\ CopyOK' /\ \A e \in Calls \ {c} : call'[e] = call[e]
<1> DEFINE k == call[c]
<1>1. k \in OrgAsked /\ Asking(k) /\ k.op = "org"
  BY TreeSlot DEF WriteOrg, At, TreeOps
<1>2. CASE Refuse(c)
  <2>1. CopyOK'
    <3>1. jobs' = jobs \/ ~Refuse(c) \/ \E S \in (SUBSET Orgs) \ {{}} :
                      jobs' = jobs \cup {[o \in S |-> org'[o]]} /\ org' = org /\ S \subseteq OrgRows
      <4>1. CASE jobs' = jobs
        BY <4>1
      <4>2. CASE jobs' # jobs
        <5>1. org[k.id] # NoRow /\ jobs' = jobs \cup {[o \in Subtree(k.id) |-> org'[o]]}
          BY <4>2 DEF WriteOrg
        <5>2. org' = org
          BY <1>2 DEF Refuse, rowVars
        <5>3. k.id \in Orgs /\ k.id \in OrgRows
          BY <1>1, <5>1 DEF OrgAsked, OrgRows
        <5>4. Subtree(k.id) \subseteq OrgRows /\ k.id \in Subtree(k.id) /\ OrgRows \subseteq Orgs
          BY <5>3, SubtreeRows DEF OrgRows
        <5> QED
          BY <5>1, <5>2, <5>4
      <4> QED
        BY <4>1, <4>2
    <3>2. \A j \in jobs' : \E S \in (SUBSET Orgs) \ {{}} : j \in [S -> OrgRow \cup {NoRow}]
      <4>1. CASE jobs' = jobs
        BY <4>1 DEF CopyOK
      <4>2. CASE jobs' # jobs
        <5>1. PICK S \in (SUBSET Orgs) \ {{}} :
                 jobs' = jobs \cup {[o \in S |-> org'[o]]} /\ org' = org /\ S \subseteq OrgRows
          BY <1>2, <3>1, <4>2
        <5>2. [o \in S |-> org'[o]] \in [S -> OrgRow \cup {NoRow}]
          BY <5>1, TableTree
        <5> QED
          BY <5>1, <5>2 DEF CopyOK
      <4> QED
        BY <4>1, <4>2
    <3> QED
      BY <3>2 DEF CopyOK, WriteOrg
  <2> QED
    BY <1>1, <1>2, <2>1, RefusesOnly
<1>3. CASE ~Refuse(c)
  <2>1. /\ org' \in Tree /\ OrgRows' = OrgRows
        /\ \A o \in OrgRows : org'[o] \in OrgRow /\ org'[o].parent \in OrgRows \cup {None}
        /\ org'[Root].parent = None
        /\ k.id \in OrgRows
    BY <1>3, WrittenTree
  <2> PICK S \in (SUBSET Orgs) \ {{}} : S = Subtree(k.id) /\ S \subseteq OrgRows
    BY <2>1, SubtreeRows DEF OrgRows
  <2> PICK j : j = [o \in S |-> org'[o]]
    OBVIOUS
  <2>2. /\ jobs' = jobs \cup {j}
        /\ UNCHANGED <<asset, device, group, user, fresh, hash, sync, failures>>
        /\ Answers(c, j)
    BY <1>3 DEF WriteOrg
  <2>3. j \in [S -> OrgRow]
    BY <2>1
  <2>4. CopyOK'
    BY <2>2, <2>3 DEF CopyOK
  <2>5. BodyOK("org", j)
    BY <2>3 DEF BodyOK
  <2>6. RowsOK'
    BY <2>1, <2>2 DEF TableOK, RowsOK, AssetRows, DeviceRows, GroupRows, UserRows, Tree
  <2>7. \A e \in Calls \ {c} : At(e, "asset", "commit") =>
          asset'[call[e].id] = asset[call[e].id] /\ org'[MovedTo(call[e])] # NoRow
    <3>1. \A e \in Calls : At(e, "asset", "commit") => MovedTo(call[e]) \in OrgRows
      BY InProgress
    <3>2. \A o \in OrgRows : org'[o] # NoRow
      BY <2>1, Apart
    <3> QED
      BY <2>2, <3>1, <3>2
  <2>8. fresh' \cap (OrgRows \cup AssetRows \cup DeviceRows \cup GroupRows \cup UserRows)' = {}
    BY <2>1, <2>2 DEF TableOK, AssetRows, DeviceRows, GroupRows, UserRows
  <2> QED
    BY <1>1, <2>1, <2>2, <2>4, <2>5, <2>6, <2>7, <2>8, WrittenRows DEF TableOK
<1> QED
  BY <1>2, <1>3

LEMMA DeletesOrgs ==
  ASSUME TableOK, SlotsOK, CopyOK, NEW c \in Calls, DeleteOrgs(c)
  PROVE  TableOK' /\ SlotsOK' /\ CopyOK' /\ \A e \in Calls \ {c} : call'[e] = call[e]
<1> DEFINE k == call[c]
<1>1. k \in NoOrgsAsked /\ Asking(k) /\ k.op = "noOrgs" /\ k.step = "delete"
  BY TreeSlot DEF DeleteOrgs, At, TreeOps
<1> PICK S \in (SUBSET Orgs) \ {{}} : S = k.ids /\ S \cap {Root, Archive} = {}
  BY <1>1 DEF NoOrgsAsked, Asking, Consistent
<1>2. /\ jobs' = jobs \/ jobs' = jobs \cup {[o \in S |-> NoRow]}
      /\ UNCHANGED <<hash, sync, failures>>
  BY DEF DeleteOrgs, Forget
<1>3. CopyOK'
  <2>1. [o \in S |-> NoRow] \in [S -> OrgRow \cup {NoRow}]
    OBVIOUS
  <2> QED
    BY <1>2, <2>1 DEF CopyOK
<1>4. CASE Refuse(c)
  BY <1>1, <1>3, <1>4, RefusesOnly
<1>5. CASE ~Refuse(c)
  <2>1. /\ \A o \in S : Children(o) \subseteq S
        /\ \A u \in UserRows : user[u].org \notin S
        /\ \A o \in S : ~Locked(o)
        /\ \A a \in AssetRows : asset[a] \in S => ~Locked(a)
        /\ org' = [o \in Orgs |-> IF o \in S THEN NoRow ELSE org[o]]
        /\ Archived(S)
        /\ UNCHANGED <<group, user, fresh>>
        /\ Answers(c, S)
    BY <1>5 DEF DeleteOrgs, Without, TableOK, RowsOK
  <2>2. /\ org' \in [Orgs -> OrgRow \cup {NoRow}]
        /\ OrgRows' = OrgRows \ S
        /\ \A o \in OrgRows' : org'[o] = org[o]
        /\ Root \in OrgRows' /\ Archive \in OrgRows' /\ org'[Root].parent = None
    BY <2>1 DEF TableOK, RowsOK, OrgRows
  <2>3. \A o \in OrgRows' : org'[o].parent \in OrgRows' \cup {None}
    <3> SUFFICES ASSUME NEW o \in OrgRows' PROVE org'[o].parent \in OrgRows' \cup {None}
      OBVIOUS
    <3>1. o \in OrgRows /\ o \notin S /\ org'[o] = org[o]
      BY <2>2
    <3>2. org[o].parent \in OrgRows \cup {None}
      BY <3>1 DEF TableOK, RowsOK
    <3>3. org[o].parent \notin S
      BY <2>1, <3>1 DEF Children
    <3> QED
      BY <2>2, <3>1, <3>2, <3>3
  <2>4. /\ asset' \in [Assets -> Orgs \cup {NoRow}]
        /\ AssetRows' = AssetRows
        /\ \A a \in AssetRows : asset'[a] = IF asset[a] \in S THEN Archive ELSE asset[a]
    BY <2>1, SystemOrgs DEF Archived, TableOK, RowsOK, AssetRows
  <2>5. /\ device' \in [Devices -> DevRow \cup {NoRow}]
        /\ DeviceRows' = DeviceRows
        /\ \A d \in DeviceRows : /\ device'[d].org = IF device[d].org \in S THEN Archive ELSE device[d].org
                                 /\ device'[d].asset = device[d].asset
    BY <2>1, SystemOrgs, Apart DEF Archived, TableOK, RowsOK, DeviceRows, DevRow
  <2>6. RowsOK'
    <3>1. \A a \in AssetRows : asset'[a] \in OrgRows'
      BY <2>2, <2>4 DEF TableOK, RowsOK
    <3>2. \A d \in DeviceRows : device'[d].org \in OrgRows' /\ device'[d].asset \in AssetRows \cup {None}
      BY <2>2, <2>5 DEF TableOK, RowsOK
    <3>3. GroupRows' = GroupRows /\ UserRows' = UserRows
      BY <2>1 DEF GroupRows, UserRows
    <3>4. \A u \in UserRows : user[u].org \in OrgRows'
      BY <2>1, <2>2 DEF TableOK, RowsOK
    <3> QED
      BY <2>1, <2>2, <2>3, <2>4, <2>5, <3>1, <3>2, <3>3, <3>4 DEF TableOK, RowsOK
  <2>7. \A e \in Calls \ {c} : At(e, "asset", "commit") =>
          asset'[call[e].id] = asset[call[e].id] /\ org'[MovedTo(call[e])] # NoRow
    <3> SUFFICES ASSUME NEW e \in Calls \ {c}, At(e, "asset", "commit")
                 PROVE  asset'[call[e].id] = asset[call[e].id] /\ org'[MovedTo(call[e])] # NoRow
      OBVIOUS
    <3>1. /\ call[e].id \in AssetRows /\ Locked(call[e].id)
          /\ MovedTo(call[e]) \in OrgRows /\ Locked(MovedTo(call[e]))
      BY InProgress
    <3>2. asset[call[e].id] \notin S /\ MovedTo(call[e]) \notin S
      BY <2>1, <3>1
    <3> QED
      BY <2>2, <2>4, <3>1, <3>2 DEF OrgRows
  <2>8. fresh' \cap (OrgRows \cup AssetRows \cup DeviceRows \cup GroupRows \cup UserRows)' = {}
    BY <2>1, <2>2, <2>4, <2>5 DEF TableOK, GroupRows, UserRows
  <2>9. BodyOK("noOrgs", S)
    BY DEF BodyOK
  <2> QED
    BY <1>1, <1>3, <2>1, <2>2, <2>6, <2>7, <2>8, <2>9, WrittenRows DEF TableOK
<1> QED
  BY <1>4, <1>5

LEMMA TreeServed ==
  ASSUME TableOK, SlotsOK, CopyOK, NEW c \in Calls, OrgNext(c)
  PROVE  TableOK' /\ SlotsOK' /\ CopyOK' /\ \A e \in Calls \ {c} : call'[e] = call[e]
  BY TreeChecks, InsertsOrg, HashesNewOrg, WritesOrg, DeletesOrgs DEF OrgNext

(* What writes the hash on its own.                                        *)
LEMMA HashWritten ==
  ASSUME TableOK, CopyOK, HashNext
  PROVE  CopyOK' /\ UNCHANGED <<rowVars, callVars>>
<1>1. ASSUME NEW j \in jobs, HashJob(j)
      PROVE  CopyOK' /\ UNCHANGED <<rowVars, callVars>>
  <2>1. PICK S \in (SUBSET Orgs) \ {{}} : j \in [S -> OrgRow \cup {NoRow}]
    BY DEF CopyOK
  <2> PICK o \in S : o = CHOOSE x \in DOMAIN j : TRUE
    BY <2>1
  <2>2. /\ hash' = [hash EXCEPT ![o] = j[o]]
        /\ jobs' = (jobs \ {j}) \cup
             (IF DOMAIN j = {o} THEN {} ELSE {[x \in DOMAIN j \ {o} |-> j[x]]})
        /\ UNCHANGED <<rowVars, callVars, sync, failures>>
    BY <1>1 DEF HashJob
  <2>3. hash' \in HashTable
    BY <2>1, <2>2 DEF CopyOK, HashTable
  <2>4. DOMAIN j # {o} => S \ {o} \in (SUBSET Orgs) \ {{}}
    BY <2>1
  <2>5. [x \in DOMAIN j \ {o} |-> j[x]] \in [S \ {o} -> OrgRow \cup {NoRow}]
    BY <2>1
  <2>6. \A i \in jobs' : \E T \in (SUBSET Orgs) \ {{}} : i \in [T -> OrgRow \cup {NoRow}]
    BY <2>2, <2>4, <2>5 DEF CopyOK
  <2> QED
    BY <2>2, <2>3, <2>6 DEF CopyOK
<1>2. ASSUME NEW j \in jobs, HashJobFails(j)
      PROVE  CopyOK' /\ UNCHANGED <<rowVars, callVars>>
  BY <1>2, FailsOnce DEF HashJobFails, CopyOK
<1>3. ASSUME NEW s \in Copiers, SelectOrgs(s) \/ ReplaceOrgs(s)
      PROVE  CopyOK' /\ UNCHANGED <<rowVars, callVars>>
  BY <1>3, TableTree DEF SelectOrgs, ReplaceOrgs, Copying, CopyOK, HashTable, Tree
<1> QED
  BY <1>1, <1>2, <1>3 DEF HashNext

-----------------------------------------------------------------------------
(* The requests of module Groups.                                          *)

LEMMA UserSlot ==
  ASSUME SlotsOK, NEW c \in Calls, call[c].op \in UserOps, call[c].step # "answer"
  PROVE  /\ Asking(call[c])
         /\ call[c].op = "users" => call[c] \in UsersAsked
         /\ call[c].op = "options" => call[c] \in OptionsAsked
         /\ call[c].op = "list" => call[c] \in ListAsked
         /\ call[c].op = "access" => call[c] \in AccessAsked \cup AccessSaved
         /\ call[c].op = "newUser" => call[c] \in NewUserAsked
         /\ call[c].op = "noUsers" => call[c] \in NoUsersAsked
<1>1. SlotOK(call[c]) /\ call[c].op # "none"
  BY DEF SlotsOK, UserOps
<1>2. Asking(call[c]) /\ call[c] \in UserRequest /\ call[c].by \in Who
  BY <1>1, Kinds
<1> QED
  BY <1>2, UserKinds DEF Who

LEMMA GroupSlot ==
  ASSUME SlotsOK, NEW c \in Calls, call[c].op \in GroupOps, call[c].step # "answer"
  PROVE  /\ Asking(call[c])
         /\ call[c].op = "newGroup" => call[c] \in NewGroupAsked
         /\ call[c].op = "items" => call[c] \in ItemsAsked
         /\ call[c].op = "group" => call[c] \in GroupAsked
         /\ call[c].op = "noGroups" => call[c] \in NoGroupsAsked
<1>1. SlotOK(call[c]) /\ call[c].op # "none"
  BY DEF SlotsOK, GroupOps
<1>2. Asking(call[c]) /\ call[c] \in GroupRequest
  BY <1>1, Kinds
<1> QED
  BY <1>2, GroupKinds

(* What a commit does to the transaction of another update of the same     *)
(* group, or user.                                                         *)
Overtaken(k, n) == \E D \in SUBSET k.doomed : n = [k EXCEPT !.doomed = D, !.met = TRUE]
Joined(k, n)    == \E T \in SUBSET Assets : n = [k EXCEPT !.theirs = T]

OthersKept(c) ==
    \A e \in Calls \ {c} :
        \/ call'[e] = call[e]
        \/ At(e, "group", "commit") /\ Overtaken(call[e], call'[e])
        \/ At(e, "access", "commit") /\ Joined(call[e], call'[e])

LEMMA OvertakenAsked ==
  ASSUME NEW k, k \in GroupAsked, Asking(k), NEW n, Overtaken(k, n)
  PROVE  /\ n \in GroupAsked /\ Asking(n)
         /\ n.op = k.op /\ n.step = k.step /\ n.by = k.by /\ n.id = k.id
         /\ n.members = k.members /\ n.doomed \subseteq k.doomed /\ n.met
<1> PICK D \in SUBSET k.doomed : n = [k EXCEPT !.doomed = D, !.met = TRUE]
  BY DEF Overtaken
<1>1. /\ n \in GroupAsked /\ n.op = k.op /\ n.step = k.step /\ n.by = k.by /\ n.id = k.id
      /\ n.members = k.members /\ n.doomed \subseteq k.doomed /\ n.met /\ k.op = "group"
  BY DEF GroupAsked
<1> QED
  BY <1>1 DEF Asking, Consistent, Request, GroupRequest

LEMMA JoinedAsked ==
  ASSUME NEW k, k \in AccessAsked \cup AccessSaved, Asking(k), k.step = "commit",
         NEW n, Joined(k, n)
  PROVE  /\ n \in AccessAsked \cup AccessSaved /\ Asking(n)
         /\ n.op = k.op /\ n.step = k.step /\ n.by = k.by /\ n.id = k.id
         /\ n.org = k.org /\ n.denied = k.denied /\ n.named = k.named
         /\ k.by = "page" => n.all = k.all /\ n.base = k.base /\ n.shown = k.shown
<1> PICK T \in SUBSET Assets : n = [k EXCEPT !.theirs = T]
  BY DEF Joined
<1>1. CASE k \in AccessAsked
  <2>1. /\ n \in AccessAsked /\ n.op = "access" /\ n.step = k.step /\ n.by = k.by /\ n.id = k.id
        /\ n.org = k.org /\ n.denied = k.denied /\ n.named = k.named /\ k.op = "access"
        /\ k.by = "other"
    BY <1>1 DEF AccessAsked
  <2> QED
    BY <2>1 DEF Asking, Consistent, Request, UserRequest
<1>2. CASE k \in AccessSaved
  <2>1. /\ n \in AccessSaved /\ n.op = "access" /\ n.step = k.step /\ n.by = k.by /\ n.id = k.id
        /\ n.org = k.org /\ n.denied = k.denied /\ n.named = k.named /\ k.op = "access"
        /\ n.all = k.all /\ n.base = k.base /\ n.shown = k.shown
    BY <1>2 DEF AccessSaved
  <2> QED
    BY <2>1 DEF Asking, Consistent, Request, UserRequest
<1> QED
  BY <1>1, <1>2

(* A request that another's commit changes stays what it is.               *)
LEMMA OtherChanged ==
  ASSUME SlotsOK, NEW c \in Calls, OthersKept(c), NEW e \in Calls \ {c}, call'[e] # call[e]
  PROVE  /\ Asking(call[e]) /\ Asking(call'[e])
         /\ call[e].op \in {"group", "access"} /\ call[e].step = "commit"
         /\ call'[e].op = call[e].op /\ call'[e].step = "commit"
         /\ call'[e].by = call[e].by /\ call'[e].id = call[e].id
         /\ call[e].op = "group" =>
               /\ call[e] \in GroupAsked /\ call'[e] \in GroupAsked
               /\ call'[e].members = call[e].members
               /\ call'[e].doomed \subseteq call[e].doomed /\ call'[e].met
         /\ call[e].op = "access" =>
               /\ call[e] \in AccessAsked \cup AccessSaved
               /\ call'[e] \in AccessAsked \cup AccessSaved
               /\ Joined(call[e], call'[e])
<1>1. CASE At(e, "group", "commit") /\ Overtaken(call[e], call'[e])
  <2>1. call[e] \in GroupAsked /\ Asking(call[e])
    BY <1>1, GroupSlot DEF At, GroupOps
  <2> QED
    BY <1>1, <2>1, OvertakenAsked DEF At
<1>2. CASE At(e, "access", "commit") /\ Joined(call[e], call'[e])
  <2>1. call[e] \in AccessAsked \cup AccessSaved /\ Asking(call[e])
    BY <1>2, UserSlot DEF At, UserOps
  <2> QED
    BY <1>2, <2>1, JoinedAsked DEF At
<1> QED
  BY <1>1, <1>2 DEF OthersKept

(* A request that writes groups only.                                      *)
LEMMA GroupsWritten ==
  ASSUME TableOK, SlotsOK, NEW c \in Calls, OthersKept(c), ~At(c, "asset", "commit")',
         UNCHANGED <<org, asset, device, user>>,
         group' \in [Groups -> GroupRow \cup {NoRow}], fresh' \subseteq fresh,
         fresh' \cap GroupRows' = {},
         \A g \in GroupRows' : group'[g].members \subseteq AssetRows
  PROVE  TableOK'
<1>1. /\ OrgRows' = OrgRows /\ AssetRows' = AssetRows /\ DeviceRows' = DeviceRows
      /\ UserRows' = UserRows
  BY DEF OrgRows, AssetRows, DeviceRows, UserRows
<1>2. RowsOK'
  BY <1>1 DEF TableOK, RowsOK, GroupRows
<1>3. (\A e \in Calls : Holding(e))'
  <2>1. \A e \in Calls : Holding(e)
    BY DEF TableOK
  <2>2. \A e \in Calls \ {c} : At(e, "asset", "commit") =>
          asset'[call[e].id] = asset[call[e].id] /\ org'[MovedTo(call[e])] # NoRow
    BY <2>1 DEF Holding
  <2>3. \A e \in Calls \ {c} : At(e, "asset", "commit")' => call'[e] = call[e]
    BY OtherChanged DEF At
  <2> QED
    BY <2>1, <2>2, <2>3, HoldingKept
<1> QED
  BY <1>1, <1>2, <1>3 DEF TableOK

LEMMA InsertsGroup ==
  ASSUME TableOK, SlotsOK, NEW c \in Calls, InsertGroup(c)
  PROVE  TableOK' /\ SlotsOK' /\ OthersKept(c)
<1>1. call[c] \in NewGroupAsked /\ Asking(call[c]) /\ call[c].op = "newGroup"
  BY GroupSlot DEF InsertGroup, At, GroupOps
<1>2. CASE Refuse(c)
  BY <1>1, <1>2, RefusesOnly DEF OthersKept
<1>3. CASE ~Refuse(c)
  <2> PICK g \in Groups : g = NextId(Groups) /\ g \in fresh
    BY <1>3, FreshId DEF InsertGroup
  <2> PICK row \in GroupRow : row = [members |-> {}, items |-> 0]
    BY DEF GroupRow
  <2>1. /\ group' = [group EXCEPT ![g] = row]
        /\ fresh' = fresh \ {g}
        /\ UNCHANGED <<org, asset, device, user>>
        /\ Answers(c, [id |-> g, items |-> 0])
    BY <1>3 DEF InsertGroup
  <2>2. /\ group' \in [Groups -> GroupRow \cup {NoRow}]
        /\ GroupRows' = GroupRows \cup {g}
        /\ \A h \in GroupRows' : group'[h] = IF h = g THEN row ELSE group[h]
    <3>1. row # NoRow
      BY Apart
    <3>2. group \in [Groups -> GroupRow \cup {NoRow}]
      BY DEF TableOK
    <3>3. /\ group' \in [Groups -> GroupRow \cup {NoRow}]
          /\ \A h \in Groups : group'[h] = IF h = g THEN row ELSE group[h]
      BY <2>1, <3>2
    <3>4. QED
      BY <3>1, <3>3 DEF GroupRows
  <2>3. BodyOK("newGroup", [id |-> g, items |-> 0])
    BY DEF BodyOK
  <2>4. /\ SlotsOK' /\ \A e \in Calls \ {c} : call'[e] = call[e]
        /\ call'[c] = Idle \/ call'[c].step = "answer"
    BY <1>1, <2>1, <2>3, AnsweredSlot
  <2>5. fresh' \subseteq fresh /\ fresh' \cap GroupRows' = {}
    BY <2>1, <2>2 DEF TableOK
  <2>6. \A h \in GroupRows' : group'[h].members \subseteq AssetRows
    BY <2>2 DEF TableOK, RowsOK
  <2>7. ~At(c, "asset", "commit")'
    BY <2>4 DEF At, Idle
  <2> QED
    BY <2>1, <2>2, <2>4, <2>5, <2>6, <2>7, GroupsWritten DEF OthersKept
<1> QED
  BY <1>2, <1>3

LEMMA ReadsItems ==
  ASSUME TableOK, SlotsOK, NEW c \in Calls, ReadItems(c)
  PROVE  TableOK' /\ SlotsOK' /\ OthersKept(c)
<1>1. call[c] \in ItemsAsked /\ Asking(call[c]) /\ call[c].op = "items"
  BY GroupSlot DEF ReadItems, At, GroupOps
<1> PICK g \in Groups : g = call[c].id
  BY <1>1 DEF ItemsAsked
<1> PICK b : b = IF group[g] = NoRow THEN Refused ELSE group[g].members
  OBVIOUS
<1>2. b = Refused \/ BodyOK("items", b)
  BY DEF BodyOK, TableOK, GroupRow
<1>3. Answers(c, b) /\ UNCHANGED rowVars
  BY DEF ReadItems
<1> QED
  BY <1>1, <1>2, <1>3, AnswersOnly DEF OthersKept

LEMMA DeletesMembers ==
  ASSUME TableOK, SlotsOK, NEW c \in Calls, DeleteMembers(c)
  PROVE  TableOK' /\ SlotsOK' /\ OthersKept(c)
<1> DEFINE k == call[c]
<1>1. k \in GroupAsked /\ Asking(k) /\ k.op = "group"
  BY GroupSlot DEF DeleteMembers, At, GroupOps
<1>2. CASE Refuse(c)
  BY <1>1, <1>2, RefusesOnly DEF OthersKept
<1>3. CASE ~Refuse(c)
  <2> DEFINE n == [k EXCEPT !.step = "commit", !.doomed = Deleted(k.id)]
  <2>1. group[k.id] # NoRow /\ Goes(c, n) /\ UNCHANGED rowVars
    BY <1>3 DEF DeleteMembers
  <2>2. Deleted(k.id) \in SUBSET Assets
    BY <1>1, <2>1 DEF Deleted, GroupAsked, TableOK, GroupRow
  <2>3. Asking(n) /\ n.op = "group"
    BY <1>1, <2>2 DEF GroupAsked, Asking, Consistent, Request, GroupRequest
  <2> HIDE DEF n
  <2> QED
    BY <2>1, <2>3, GoesOn DEF SlotOK, OthersKept
<1> QED
  BY <1>2, <1>3

LEMMA CommitsGroup ==
  ASSUME TableOK, SlotsOK, NEW c \in Calls, CommitGroup(c)
  PROVE  TableOK' /\ SlotsOK' /\ OthersKept(c)
<1> DEFINE k == call[c]
<1>1. k \in GroupAsked /\ Asking(k) /\ k.op = "group"
  BY Zenon, GroupSlot DEF CommitGroup, At, GroupOps
<1> PICK g \in Groups : g = k.id
  BY <1>1 DEF GroupAsked
<1>2. CASE Refuse(c)
  BY <1>1, <1>2, RefusesOnly DEF OthersKept
<1>3. CASE ~Refuse(c) /\ k.members = Keep
  <2>1. /\ group[g] # NoRow /\ Answers(c, [id |-> g, items |-> group[g].items])
        /\ UNCHANGED rowVars
    BY <1>3 DEF CommitGroup
  <2>2. BodyOK("group", [id |-> g, items |-> group[g].items])
    BY <2>1 DEF BodyOK, TableOK, GroupRow
  <2> QED
    BY <1>1, <2>1, <2>2, AnswersOnly DEF OthersKept
<1>4. CASE ~Refuse(c) /\ k.members # Keep
  <2> DEFINE rest == {e \in Calls \ {c} : At(e, "group", "commit") /\ call[e].id = g}
             kept == group[g].members \ k.doomed
             row == [members |-> kept \cup k.members, items |-> Cardinality(k.members)]
             body == [id |-> g, items |-> Cardinality(k.members)]
             Over(e) == [call[e] EXCEPT !.doomed = @ \cap kept, !.met = TRUE]
             ans == [op |-> "group", step |-> "answer", by |-> "page", asked |-> k, body |-> body]
  <2>1. /\ group[g] # NoRow /\ k.members \subseteq AssetRows
        /\ group' = [group EXCEPT ![g] = row]
        /\ UNCHANGED <<org, asset, device, user, fresh>>
        /\ call' = [e \in Calls |->
                        IF e = c THEN IF k.by = "page" THEN ans ELSE Idle
                        ELSE IF e \in rest THEN Over(e) ELSE call[e]]
    BY Zenon, <1>4 DEF CommitGroup
  <2>2. Cardinality(k.members) \in Nat
    <3>1. k.members \in SUBSET Assets
      BY <1>1, <1>4 DEF GroupAsked
    <3>2. IsFiniteSet(k.members)
      BY <3>1, Apart, FS_Subset
    <3> QED
      BY <3>2, FS_CardinalityType
  <2>3. group[g] \in GroupRow
    BY <2>1 DEF TableOK
  <2>4. row \in GroupRow /\ row.members \subseteq AssetRows
    BY <1>1, <1>4, <2>1, <2>2, <2>3 DEF GroupRow, GroupAsked, TableOK, RowsOK, GroupRows
  <2>5. BodyOK("group", body)
    BY <2>2 DEF BodyOK
  <2>6. k.by = "page" => SlotOK(ans)
    BY <1>1, <2>5 DEF SlotOK, Answering
  <2>7. \A e \in Calls : call'[e] = IF e = c THEN IF k.by = "page" THEN ans ELSE Idle
                                    ELSE IF e \in rest THEN Over(e) ELSE call[e]
    BY <2>1
  <2>8. \A e \in rest : /\ Overtaken(call[e], Over(e)) /\ Asking(Over(e))
                        /\ Over(e).op = "group" /\ Over(e).step = "commit"
    <3> TAKE e \in rest
    <3>1. Overtaken(call[e], Over(e)) /\ call[e].op = "group" /\ call[e].step = "commit"
      BY DEF Overtaken, At
    <3> HIDE DEF Over
    <3> QED
      BY <3>1, GroupSlot, OvertakenAsked DEF GroupOps
  <2> HIDE DEF Over
  <2>9. ~At(c, "asset", "commit")'
    <3>1. ans.step = "answer"
      OBVIOUS
    <3> HIDE DEF ans, rest
    <3> QED
      BY <2>7, <3>1 DEF At, Idle
  <2> HIDE DEF ans, row, body
  <2>10. SlotsOK'
    <3>1. SlotOK(Idle)
      BY DEF SlotOK
    <3>2. \A e \in Calls : SlotOK(call'[e])
      <4> HIDE DEF rest
      <4> QED
        BY <2>6, <2>7, <2>8, <3>1 DEF SlotsOK, SlotOK
    <3>3. call' = [e \in Calls |-> call'[e]]
      <4> HIDE DEF rest
      <4> QED
        BY <2>1
    <3>4. call' \in [Calls -> {call'[e] : e \in Calls}]
      BY <3>3
    <3> QED
      BY <3>2, <3>4 DEF SlotsOK
  <2>11. OthersKept(c)
    BY <2>7, <2>8 DEF OthersKept
  <2>12. /\ group' \in [Groups -> GroupRow \cup {NoRow}] /\ GroupRows' = GroupRows
         /\ \A h \in GroupRows : group'[h] = IF h = g THEN row ELSE group[h]
    BY <2>1, <2>4, Apart DEF TableOK, GroupRows
  <2>13. \A h \in GroupRows' : group'[h].members \subseteq AssetRows
    BY <2>4, <2>12 DEF TableOK, RowsOK
  <2>14. fresh' \subseteq fresh /\ fresh' \cap GroupRows' = {}
    BY <2>1, <2>12 DEF TableOK
  <2> QED
    BY <2>1, <2>9, <2>10, <2>11, <2>12, <2>13, <2>14, GroupsWritten
<1> QED
  BY <1>2, <1>3, <1>4

LEMMA DeletesGroups ==
  ASSUME TableOK, SlotsOK, NEW c \in Calls, DeleteGroups(c)
  PROVE  TableOK' /\ SlotsOK' /\ OthersKept(c)
<1>1. call[c] \in NoGroupsAsked /\ Asking(call[c]) /\ call[c].op = "noGroups"
  BY GroupSlot DEF DeleteGroups, At, GroupOps
<1> PICK S \in SUBSET Groups : S = call[c].ids
  BY <1>1 DEF NoGroupsAsked
<1>2. CASE Refuse(c)
  BY <1>1, <1>2, RefusesOnly DEF OthersKept
<1>3. CASE ~Refuse(c)
  <2>1. /\ group' = [g \in Groups |-> IF g \in S THEN NoRow ELSE group[g]]
        /\ UNCHANGED <<org, asset, device, user, fresh>>
        /\ Answers(c, S)
    BY <1>3 DEF DeleteGroups, Without, TableOK
  <2>2. /\ group' \in [Groups -> GroupRow \cup {NoRow}]
        /\ GroupRows' \subseteq GroupRows
        /\ \A h \in GroupRows' : group'[h] = group[h]
    BY <2>1 DEF TableOK, GroupRows
  <2>3. BodyOK("noGroups", S)
    BY DEF BodyOK
  <2>4. /\ SlotsOK' /\ \A e \in Calls \ {c} : call'[e] = call[e]
        /\ call'[c] = Idle \/ call'[c].step = "answer"
    BY <1>1, <2>1, <2>3, AnsweredSlot
  <2>5. fresh' \subseteq fresh /\ fresh' \cap GroupRows' = {}
    BY <2>1, <2>2 DEF TableOK
  <2>6. \A h \in GroupRows' : group'[h].members \subseteq AssetRows
    BY <2>2 DEF TableOK, RowsOK
  <2>7. ~At(c, "asset", "commit")'
    BY <2>4 DEF At, Idle
  <2> QED
    BY <2>1, <2>2, <2>4, <2>5, <2>6, <2>7, GroupsWritten DEF OthersKept
<1> QED
  BY <1>2, <1>3

LEMMA GroupServed ==
  ASSUME TableOK, SlotsOK, NEW c \in Calls, GroupNext(c)
  PROVE  TableOK' /\ SlotsOK' /\ OthersKept(c)
  BY InsertsGroup, ReadsItems, DeletesMembers, CommitsGroup, DeletesGroups DEF GroupNext

-----------------------------------------------------------------------------
(* The requests of module Access.                                          *)

(* The next step of an update of a user, and of the read of a list.        *)
Further(k, s, r) == [k EXCEPT !.step = s, !.row = r]

LEMMA AccessGoesOn ==
  ASSUME NEW k \in AccessAsked \cup AccessSaved \cup ListAsked, Asking(k),
         NEW s \in AccessSteps, k.op = "list" => s = "assets",
         NEW r \in UserRow \cup {NoRow}, s = "assets" => r # NoRow
  PROVE  /\ Asking(Further(k, s, r)) /\ Further(k, s, r).op = k.op
         /\ Further(k, s, r).step = s
<1> PICK n : n = Further(k, s, r)
  OBVIOUS
<1>1. CASE k \in AccessAsked
  <2>1. /\ n \in AccessAsked /\ n.op = "access" /\ k.op = "access" /\ n.step = s /\ n.row = r
        /\ n.denied = k.denied /\ n.named = k.named
    BY <1>1 DEF AccessAsked, Further
  <2> QED
    BY <2>1 DEF Asking, Consistent, Request, UserRequest
<1>2. CASE k \in AccessSaved
  <2>1. /\ n \in AccessSaved /\ n.op = "access" /\ k.op = "access" /\ n.step = s /\ n.row = r
        /\ n.denied = k.denied /\ n.named = k.named
    BY <1>2 DEF AccessSaved, Further
  <2> QED
    BY <2>1 DEF Asking, Consistent, Request, UserRequest
<1>3. CASE k \in ListAsked
  <2>1. s = "assets" /\ n \in ListAsked /\ n.op = "list" /\ k.op = "list" /\ n.step = s /\ n.row = r
    BY <1>3 DEF ListAsked, Further
  <2> QED
    BY <2>1 DEF Asking, Consistent, Request, UserRequest
<1> QED
  BY <1>1, <1>2, <1>3

LEMMA AssignableAssets ==
  ASSUME NEW o
  PROVE  Assignable(o) \in SUBSET Assets
  BY DEF Assignable, AssetRows

LEMMA UserReads ==
  ASSUME TableOK, SlotsOK, NEW c \in Calls,
         ReadUsers(c) \/ ReadOptions(c) \/ ReadDenied(c) \/ ReadList(c)
  PROVE  TableOK' /\ SlotsOK' /\ \A e \in Calls \ {c} : call'[e] = call[e]
<1> DEFINE k == call[c]
<1>1. CASE ReadUsers(c)
  <2>1. k \in UsersAsked /\ Asking(k) /\ k.op = "users"
    BY <1>1, UserSlot DEF ReadUsers, At, UserOps
  <2> PICK b : b = [u \in Users |-> IF UserShown[u] \in Scope THEN UserShown[u] ELSE NoRow]
    OBVIOUS
  <2>2. b \in [Users -> Orgs \cup {NoRow}]
    <3>1. UserShown \in [Users -> Orgs \cup {NoRow}]
      BY DEF UserShown, TableOK, UserRow
    <3> QED
      BY <3>1
  <2>3. BodyOK("users", b)
    BY <2>2 DEF BodyOK
  <2> QED
    BY <1>1, <2>1, <2>3, AnswersOnly DEF ReadUsers
<1>2. CASE ReadOptions(c)
  <2>1. k \in OptionsAsked /\ Asking(k) /\ k.op = "options"
    BY <1>2, UserSlot DEF ReadOptions, At, UserOps
  <2>2. BodyOK("options", Assignable(k.org))
    BY AssignableAssets DEF BodyOK
  <2>3. CASE Refuse(c)
    BY <2>1, <2>3, RefusesOnly
  <2>4. CASE Answers(c, Assignable(k.org)) /\ UNCHANGED rowVars
    BY <2>1, <2>2, <2>4, AnswersOnly
  <2> QED
    BY <1>2, <2>3, <2>4 DEF ReadOptions
<1>3. CASE ReadDenied(c)
  <2>1. k \in AccessAsked \cup AccessSaved \cup ListAsked /\ Asking(k)
        /\ k.op \in {"list", "access"}
    BY <1>3, UserSlot DEF ReadDenied, At, UserOps
  <2>2. CASE Refuse(c)
    BY <2>1, <2>2, RefusesOnly
  <2>3. CASE ~Refuse(c)
    <3> PICK r : r = user[k.id]
      OBVIOUS
    <3> PICK n : n = [k EXCEPT !.step = "assets", !.row = r]
      OBVIOUS
    <3>1. Goes(c, n) /\ UNCHANGED rowVars /\ r # NoRow
      BY <1>3, <2>3 DEF ReadDenied
    <3>2. k.id \in Users
      BY <2>1 DEF AccessAsked, AccessSaved, ListAsked
    <3>3. r \in UserRow \cup {NoRow}
      BY <3>2 DEF TableOK
    <3>4. Asking(n) /\ n.op = k.op
      <4>1. "assets" \in AccessSteps
        BY DEF AccessSteps
      <4>2. n = Further(k, "assets", r)
        BY DEF Further
      <4> HIDE DEF k
      <4> QED
        BY <2>1, <3>1, <3>3, <4>1, <4>2, AccessGoesOn
    <3> QED
      BY <2>1, <3>1, <3>4, GoesOn DEF SlotOK
  <2> QED
    BY <2>2, <2>3
<1>4. CASE ReadList(c)
  <2>1. k \in AccessAsked \cup AccessSaved \cup ListAsked /\ Asking(k)
        /\ k.op \in {"list", "access"} /\ k.step = "assets"
    BY <1>4, UserSlot DEF ReadList, At, UserOps
  <2>2. k.row # NoRow
    BY <2>1 DEF Asking, Consistent
  <2>3. k.id \in Users /\ k.row \in UserRow
    BY <2>1, <2>2 DEF AccessAsked, AccessSaved, ListAsked
  <2> PICK b : b = [id |-> k.id, org |-> k.row.org,
                    list |-> Assignable(k.row.org) \ k.row.denied]
    OBVIOUS
  <2>4. b \in [id : Users, org : Orgs, list : SUBSET Assets]
    BY <2>3, AssignableAssets DEF UserRow
  <2>5. BodyOK(k.op, b)
    BY <2>1, <2>4 DEF BodyOK
  <2>6. Answers(c, b) /\ UNCHANGED rowVars
    BY <1>4 DEF ReadList
  <2> QED
    BY <2>1, <2>5, <2>6, AnswersOnly
<1> QED
  BY <1>1, <1>2, <1>3, <1>4

LEMMA UserChecks ==
  ASSUME TableOK, SlotsOK, NEW c \in Calls,
         CheckAccess(c) \/ CheckNewUser(c) \/ CheckNoUsers(c)
  PROVE  TableOK' /\ SlotsOK' /\ \A e \in Calls \ {c} : call'[e] = call[e]
<1> DEFINE k == call[c]
<1>1. CASE CheckAccess(c)
  <2>1. k \in AccessAsked \cup AccessSaved /\ Asking(k) /\ k.op = "access"
    BY <1>1, UserSlot DEF CheckAccess, At, UserOps
  <2>2. CASE Refuse(c)
    BY <2>1, <2>2, RefusesOnly
  <2>3. CASE ~Refuse(c)
    <3>1. Goes(c, [k EXCEPT !.step = "write"]) /\ UNCHANGED rowVars
      BY <1>1, <2>3 DEF CheckAccess
    <3>2. k.row \in UserRow \cup {NoRow}
      BY <2>1 DEF AccessAsked, AccessSaved
    <3>3. [k EXCEPT !.step = "write"] = [k EXCEPT !.step = "write", !.row = k.row]
      BY <2>1 DEF AccessAsked, AccessSaved
    <3> PICK n : n = [k EXCEPT !.step = "write"]
      OBVIOUS
    <3>4. Asking(n) /\ n.op = "access"
      <4>1. "write" \in AccessSteps /\ "write" # "assets" /\ k.op # "list"
        BY <2>1 DEF AccessSteps
      <4>2. n = Further(k, "write", k.row)
        BY <3>3 DEF Further
      <4> HIDE DEF k
      <4> QED
        BY <2>1, <3>2, <4>1, <4>2, AccessGoesOn
    <3> QED
      BY <3>1, <3>4, GoesOn DEF SlotOK
  <2> QED
    BY <2>2, <2>3
<1>2. CASE CheckNewUser(c)
  <2>1. k \in NewUserAsked /\ Asking(k) /\ k.op = "newUser"
    BY <1>2, UserSlot DEF CheckNewUser, At, UserOps
  <2>2. CASE Refuse(c)
    BY <2>1, <2>2, RefusesOnly
  <2>3. CASE ~Refuse(c)
    <3> PICK n : n = [k EXCEPT !.step = "insert"]
      OBVIOUS
    <3>1. Goes(c, n) /\ UNCHANGED rowVars
      BY <1>2, <2>3 DEF CheckNewUser
    <3>2. n \in NewUserAsked /\ n.op = "newUser" /\ n.denied = k.denied /\ n.named = k.named
      BY <2>1 DEF NewUserAsked
    <3>3. Asking(n)
      BY <2>1, <3>2 DEF Asking, Consistent, Request, UserRequest
    <3> QED
      BY <3>1, <3>2, <3>3, GoesOn DEF SlotOK
  <2> QED
    BY <2>2, <2>3
<1>3. CASE CheckNoUsers(c)
  <2>1. k \in NoUsersAsked /\ Asking(k) /\ k.op = "noUsers"
    BY <1>3, UserSlot DEF CheckNoUsers, At, UserOps
  <2>2. CASE Refuse(c)
    BY <2>1, <2>2, RefusesOnly
  <2>3. CASE ~Refuse(c)
    <3> PICK n : n = [k EXCEPT !.step = "delete"]
      OBVIOUS
    <3>1. Goes(c, n) /\ UNCHANGED rowVars
      BY <1>3, <2>3 DEF CheckNoUsers
    <3>2. n \in NoUsersAsked /\ n.op = "noUsers"
      BY <2>1 DEF NoUsersAsked
    <3>3. Asking(n)
      BY <2>1, <3>2 DEF Asking, Consistent, Request, UserRequest
    <3> QED
      BY <3>1, <3>2, <3>3, GoesOn DEF SlotOK
  <2> QED
    BY <2>2, <2>3
<1> QED
  BY <1>1, <1>2, <1>3

(* A request that writes users only.                                       *)
LEMMA UsersWritten ==
  ASSUME TableOK, SlotsOK, NEW c \in Calls, OthersKept(c), ~At(c, "asset", "commit")',
         UNCHANGED <<org, asset, device, group>>,
         user' \in [Users -> UserRow \cup {NoRow}], fresh' \subseteq fresh,
         fresh' \cap UserRows' = {},
         \A u \in UserRows' : user'[u].org \in OrgRows /\ user'[u].denied \subseteq AssetRows
  PROVE  TableOK'
<1>1. /\ OrgRows' = OrgRows /\ AssetRows' = AssetRows /\ DeviceRows' = DeviceRows
      /\ GroupRows' = GroupRows
  BY DEF OrgRows, AssetRows, DeviceRows, GroupRows
<1>2. \A u \in UserRows' : user'[u] \in UserRow
  BY DEF UserRows
<1>3. RowsOK'
  BY <1>1, <1>2 DEF TableOK, RowsOK
<1>4. (\A e \in Calls : Holding(e))'
  <2>1. \A e \in Calls : Holding(e)
    BY DEF TableOK
  <2>2. \A e \in Calls \ {c} : At(e, "asset", "commit") =>
          asset'[call[e].id] = asset[call[e].id] /\ org'[MovedTo(call[e])] # NoRow
    BY <2>1 DEF Holding
  <2>3. \A e \in Calls \ {c} : At(e, "asset", "commit")' => call'[e] = call[e]
    BY OtherChanged DEF At
  <2> QED
    BY <2>1, <2>2, <2>3, HoldingKept
<1> QED
  BY <1>1, <1>3, <1>4 DEF TableOK

LEMMA AccessLocks ==
  ASSUME NEW k \in AccessAsked \cup AccessSaved, Asking(k), NEW L \in SUBSET (Users \cup Orgs),
         NEW n, n = [k EXCEPT !.step = "commit", !.locks = L]
  PROVE  /\ Asking(n) /\ n.op = "access" /\ n.step = "commit" /\ n.by = k.by
         /\ n.denied = k.denied /\ n.org = k.org
         /\ k.by = "page" => n.all = k.all /\ n.base = k.base /\ n.shown = k.shown
<1>1. CASE k \in AccessAsked
  <2>1. /\ n \in AccessAsked /\ n.op = "access" /\ k.op = "access" /\ n.step = "commit"
        /\ n.denied = k.denied /\ n.named = k.named /\ n.org = k.org
        /\ n.by = k.by /\ k.by = "other"
    BY <1>1 DEF AccessAsked, AccessSteps
  <2> QED
    BY <2>1 DEF Asking, Consistent, Request, UserRequest
<1>2. CASE k \in AccessSaved
  <2>1. /\ n \in AccessSaved /\ n.op = "access" /\ k.op = "access" /\ n.step = "commit"
        /\ n.denied = k.denied /\ n.named = k.named /\ n.org = k.org
        /\ n.all = k.all /\ n.base = k.base /\ n.shown = k.shown /\ n.by = k.by
    BY <1>2 DEF AccessSaved, AccessSteps
  <2> QED
    BY <2>1 DEF Asking, Consistent, Request, UserRequest
<1> QED
  BY <1>1, <1>2

LEMMA WritesAccess ==
  ASSUME TableOK, SlotsOK, NEW c \in Calls, WriteAccess(c)
  PROVE  TableOK' /\ SlotsOK' /\ \A e \in Calls \ {c} : call'[e] = call[e]
<1> DEFINE k == call[c]
           L == IF k.org = Keep THEN {} ELSE {k.id, k.org}
<1>1. k \in AccessAsked \cup AccessSaved /\ Asking(k) /\ k.op = "access"
  BY UserSlot DEF WriteAccess, At, UserOps
<1>2. CASE Refuse(c)
  BY <1>1, <1>2, RefusesOnly
<1>3. CASE ~Refuse(c)
  <2>1. L \in SUBSET (Users \cup Orgs)
    BY <1>1 DEF AccessAsked, AccessSaved
  <2> PICK n : n = [k EXCEPT !.step = "commit", !.locks = L]
    OBVIOUS
  <2>2. Goes(c, n) /\ UNCHANGED rowVars
    BY <1>3 DEF WriteAccess
  <2> HIDE DEF L
  <2>3. Asking(n) /\ n.op = "access"
    BY <1>1, <2>1, AccessLocks
  <2> QED
    BY <2>2, <2>3, GoesOn DEF SlotOK
<1> QED
  BY <1>2, <1>3

(* The denials that others have stored since the DELETE stay.              *)
LEMMA CommitsAccess ==
  ASSUME TableOK, SlotsOK, NEW c \in Calls, CommitAccess(c)
  PROVE  TableOK' /\ SlotsOK' /\ OthersKept(c)
<1> DEFINE k == call[c]
<1>1. k \in AccessAsked \cup AccessSaved /\ Asking(k) /\ k.op = "access"
  BY UserSlot DEF CommitAccess, At, UserOps
<1>2. CASE Refuse(c)
  BY <1>1, <1>2, RefusesOnly DEF OthersKept
<1>3. CASE ~Refuse(c)
  <2> DEFINE denied == IF k.denied = Keep THEN user[k.id].denied
                       ELSE (user[k.id].denied \cap k.theirs) \cup (k.denied \ k.theirs)
             row == [org |-> Final(k.org, user[k.id].org), denied |-> denied]
             rest == {e \in Calls \ {c} : At(e, "access", "commit") /\ call[e].id = k.id}
             T(e) == (call[e].theirs \cap k.theirs) \cup (k.named \ k.theirs)
             n == [k EXCEPT !.step = "denied"]
             Met(e) == [call[e] EXCEPT !.theirs = T(e)]
  <2>1. /\ user[k.id] # NoRow
        /\ k.org \in OrgRows \cup {Keep}
        /\ k.denied # Keep => k.named \subseteq AssetRows
        /\ user' = [user EXCEPT ![k.id] = row]
        /\ UNCHANGED <<org, asset, device, group, fresh>>
        /\ call' = [e \in Calls |-> IF e = c THEN n
                                   ELSE IF e \in rest /\ k.denied # Keep THEN Met(e) ELSE call[e]]
    BY <1>3 DEF CommitAccess
  <2> PICK u \in Users : u = k.id
    BY <1>1 DEF AccessAsked, AccessSaved
  <2>2. u \in UserRows /\ user[u] \in UserRow /\ user[u].org \in OrgRows /\ user[u].denied \subseteq AssetRows
    BY <2>1 DEF UserRows, TableOK, RowsOK
  <2>3. k.denied # Keep => k.denied \subseteq AssetRows
    BY <1>1, <2>1 DEF Asking, Consistent
  <2>4. row.org \in OrgRows /\ row.denied \subseteq AssetRows
    BY <2>1, <2>2, <2>3 DEF Final
  <2>5. row \in UserRow
    BY <2>4 DEF UserRow, OrgRows, AssetRows
  <2>6. Asking(n) /\ n.op = "access" /\ n.step = "denied"
    <3>1. k.row \in UserRow \cup {NoRow}
      BY <1>1 DEF AccessAsked, AccessSaved
    <3>2. n = Further(k, "denied", k.row)
      BY <1>1 DEF AccessAsked, AccessSaved, Further
    <3>3. "denied" \in AccessSteps /\ "denied" # "assets" /\ k.op # "list"
      BY <1>1 DEF AccessSteps
    <3> HIDE DEF k, n
    <3> QED
      BY <1>1, <3>1, <3>2, <3>3, AccessGoesOn
  <2>7. \A e \in rest : At(e, "access", "commit") /\ Joined(call[e], Met(e)) /\ Asking(Met(e))
    <3> TAKE e \in rest
    <3>1. call[e] \in AccessAsked \cup AccessSaved /\ Asking(call[e]) /\ call[e].step = "commit"
      BY UserSlot DEF At, UserOps
    <3>2. T(e) \subseteq Assets
      BY <1>1, <3>1 DEF AccessAsked, AccessSaved
    <3>3. Joined(call[e], Met(e))
      BY <3>2 DEF Joined
    <3> HIDE DEF Met
    <3> QED
      BY <3>1, <3>3, JoinedAsked
  <2> HIDE DEF row, n, Met
  <2>8. \A e \in Calls : call'[e] = IF e = c THEN n
                                    ELSE IF e \in rest /\ k.denied # Keep THEN Met(e) ELSE call[e]
    BY <2>1
  <2>9. OthersKept(c)
    BY <2>7, <2>8 DEF OthersKept
  <2>10. SlotsOK'
    <3>1. \A e \in Calls : SlotOK(call'[e])
      <4> HIDE DEF rest
      <4> QED
        BY <2>6, <2>7, <2>8 DEF SlotsOK, SlotOK
    <3>2. call' = [e \in Calls |-> call'[e]]
      <4> HIDE DEF rest
      <4> QED
        BY <2>1
    <3> QED
      BY <3>1, <3>2 DEF SlotsOK
  <2>11. /\ user' \in [Users -> UserRow \cup {NoRow}]
         /\ UserRows' = UserRows
         /\ \A v \in UserRows' : user'[v] = IF v = u THEN row ELSE user[v]
    BY <2>1, <2>2, <2>5, Apart DEF UserRows, TableOK
  <2>12. ~At(c, "asset", "commit")'
    BY <2>6, <2>8 DEF At
  <2>13. fresh' \subseteq fresh /\ fresh' \cap UserRows' = {}
    BY <2>1, <2>11 DEF TableOK
  <2>14. \A v \in UserRows' : user'[v].org \in OrgRows /\ user'[v].denied \subseteq AssetRows
    BY <2>4, <2>11 DEF TableOK, RowsOK
  <2> QED
    BY <2>1, <2>9, <2>10, <2>11, <2>12, <2>13, <2>14, UsersWritten
<1> QED
  BY <1>2, <1>3

LEMMA InsertsUser ==
  ASSUME TableOK, SlotsOK, NEW c \in Calls, InsertUser(c)
  PROVE  TableOK' /\ SlotsOK' /\ \A e \in Calls \ {c} : call'[e] = call[e]
<1> DEFINE k == call[c]
<1>1. k \in NewUserAsked /\ Asking(k) /\ k.op = "newUser"
  BY UserSlot DEF InsertUser, At, UserOps
<1>2. CASE Refuse(c)
  BY <1>1, <1>2, RefusesOnly
<1>3. CASE ~Refuse(c)
  <2> PICK u \in Users : u = NextId(Users) /\ u \in fresh
    BY FreshId DEF InsertUser
  <2> PICK row : row = [org |-> k.org, denied |-> k.denied]
    OBVIOUS
  <2>1. /\ org[k.org] # NoRow /\ k.named \subseteq AssetRows
        /\ user' = [user EXCEPT ![u] = row]
        /\ fresh' = fresh \ {u}
        /\ UNCHANGED <<org, asset, device, group>>
        /\ Answers(c, [id |-> u, org |-> k.org])
    BY <1>3 DEF InsertUser
  <2>2. row.org \in OrgRows /\ row.denied \subseteq AssetRows /\ row \in UserRow
    BY <1>1, <2>1 DEF Asking, Consistent, NewUserAsked, UserRow, OrgRows
  <2>3. /\ user' \in [Users -> UserRow \cup {NoRow}]
        /\ UserRows' = UserRows \cup {u}
        /\ \A v \in UserRows' : user'[v] = IF v = u THEN row ELSE user[v]
    BY <2>1, <2>2, Apart DEF UserRows, TableOK
  <2>4. BodyOK("newUser", [id |-> u, org |-> k.org])
    BY <1>1 DEF BodyOK, NewUserAsked
  <2>5. /\ SlotsOK' /\ \A e \in Calls \ {c} : call'[e] = call[e]
        /\ call'[c] = Idle \/ call'[c].step = "answer"
    BY <1>1, <2>1, <2>4, AnsweredSlot
  <2>6. ~At(c, "asset", "commit")'
    BY <2>5 DEF At, Idle
  <2>7. fresh' \subseteq fresh /\ fresh' \cap UserRows' = {}
    BY <2>1, <2>3 DEF TableOK
  <2>8. \A v \in UserRows' : user'[v].org \in OrgRows /\ user'[v].denied \subseteq AssetRows
    BY <2>2, <2>3 DEF TableOK, RowsOK
  <2> QED
    BY <2>1, <2>3, <2>5, <2>6, <2>7, <2>8, UsersWritten DEF OthersKept
<1> QED
  BY <1>2, <1>3

LEMMA DeletesUsers ==
  ASSUME TableOK, SlotsOK, NEW c \in Calls, DeleteUsers(c)
  PROVE  TableOK' /\ SlotsOK' /\ \A e \in Calls \ {c} : call'[e] = call[e]
<1>1. call[c] \in NoUsersAsked /\ Asking(call[c]) /\ call[c].op = "noUsers"
  BY UserSlot DEF DeleteUsers, At, UserOps
<1> PICK S \in SUBSET Users : S = call[c].ids
  BY <1>1 DEF NoUsersAsked
<1>2. /\ user' = [u \in Users |-> IF u \in S THEN NoRow ELSE user[u]]
      /\ UNCHANGED <<org, asset, device, group, fresh>>
      /\ Answers(c, S)
  BY DEF DeleteUsers
<1>3. /\ user' \in [Users -> UserRow \cup {NoRow}]
      /\ UserRows' \subseteq UserRows
      /\ \A u \in UserRows' : user'[u] = user[u]
  BY <1>2 DEF UserRows, TableOK
<1>4. BodyOK("noUsers", S)
  BY DEF BodyOK
<1>5. /\ SlotsOK' /\ \A e \in Calls \ {c} : call'[e] = call[e]
      /\ call'[c] = Idle \/ call'[c].step = "answer"
  BY <1>1, <1>2, <1>4, AnsweredSlot
<1>6. ~At(c, "asset", "commit")'
  BY <1>5 DEF At, Idle
<1>7. fresh' \subseteq fresh /\ fresh' \cap UserRows' = {}
  BY <1>2, <1>3 DEF TableOK
<1>8. \A v \in UserRows' : user'[v].org \in OrgRows /\ user'[v].denied \subseteq AssetRows
  BY <1>3 DEF TableOK, RowsOK
<1> QED
  BY <1>2, <1>3, <1>5, <1>6, <1>7, <1>8, UsersWritten DEF OthersKept

LEMMA UserServed ==
  ASSUME TableOK, SlotsOK, NEW c \in Calls, AccessNext(c)
  PROVE  TableOK' /\ SlotsOK' /\ OthersKept(c)
  BY UserReads, UserChecks, WritesAccess, CommitsAccess, InsertsUser, DeletesUsers
     DEF AccessNext, OthersKept

-----------------------------------------------------------------------------
(* The requests a view or somebody else sends.                             *)

Sent(c, op, who) ==
    /\ TableOK' /\ SlotsOK'
    /\ call[c] = Idle /\ call'[c].op = op /\ call'[c].by = who
    /\ \A e \in Calls \ {c} : call'[e] = call[e]
    /\ UNCHANGED rowVars

LEMMA SentSlot ==
  ASSUME TableOK, SlotsOK, NEW c \in Calls, NEW k, Asking(k), Ask(c, k), UNCHANGED rowVars,
         ~(k.op = "asset" /\ k.step = "commit")
  PROVE  Sent(c, k.op, k.by)
<1>1. /\ SlotsOK' /\ call[c] = Idle /\ call'[c] = k
      /\ \A e \in Calls \ {c} : call'[e] = call[e]
  BY AskedSlot
<1>2. ~At(c, "asset", "commit")'
  BY <1>1 DEF At
<1> QED
  BY <1>1, <1>2, SameRows DEF Sent

LEMMA SentFleet ==
  ASSUME TableOK, SlotsOK, NEW c \in Calls, NEW who \in Who
  PROVE  /\ \A o \in Orgs, d \in Devices \cup {None} :
                AskNewAsset(c, who, o, d) => Sent(c, "newAsset", who)
         /\ \A a \in Assets, o \in Orgs \cup {Keep}, d \in Devices \cup {Keep, Detach} :
                AskAsset(c, who, a, o, d) => Sent(c, "asset", who)
         /\ \A S \in SUBSET Assets : AskNoAssets(c, who, S) => Sent(c, "noAssets", who)
         /\ \A o \in Orgs, a \in Assets \cup {None} :
                AskNewDevice(c, who, o, a) => Sent(c, "newDevice", who)
         /\ \A d \in Devices, o \in Orgs \cup {Keep}, a \in Assets \cup {Keep, None} :
                AskDevice(c, who, d, o, a) => Sent(c, "device", who)
         /\ \A S \in SUBSET Devices : AskNoDevices(c, who, S) => Sent(c, "noDevices", who)
<1>1. ASSUME NEW o \in Orgs, NEW d \in Devices \cup {None}, AskNewAsset(c, who, o, d)
      PROVE  Sent(c, "newAsset", who)
  <2> PICK k : k = [op |-> "newAsset", step |-> "check", by |-> who, org |-> o, dev |-> d]
    OBVIOUS
  <2>1. k \in NewAssetAsked /\ k.op = "newAsset" /\ k.by = who
    BY DEF NewAssetAsked
  <2>2. Asking(k)
    BY <2>1 DEF Asking, Consistent, Request, RowRequest
  <2> QED
    BY <1>1, <2>1, <2>2, SentSlot DEF AskNewAsset
<1>2. ASSUME NEW a \in Assets, NEW o \in Orgs \cup {Keep},
             NEW d \in Devices \cup {Keep, Detach}, AskAsset(c, who, a, o, d)
      PROVE  Sent(c, "asset", who)
  <2> PICK k : k = [op |-> "asset", step |-> "check", by |-> who, id |-> a, org |-> o,
                    dev |-> d, was |-> NoRow, locks |-> {}, held |-> {}]
    OBVIOUS
  <2>1. k \in AssetAsked /\ k.op = "asset" /\ k.by = who /\ k.step = "check"
    BY DEF AssetAsked
  <2>2. Asking(k)
    BY <2>1 DEF Asking, Consistent, Request, RowRequest
  <2> QED
    BY <1>2, <2>1, <2>2, SentSlot DEF AskAsset
<1>3. ASSUME NEW S \in SUBSET Assets, AskNoAssets(c, who, S)
      PROVE  Sent(c, "noAssets", who)
  <2> PICK k : k = [op |-> "noAssets", step |-> "delete", by |-> who, ids |-> S]
    OBVIOUS
  <2>1. k \in NoAssetsAsked /\ k.op = "noAssets" /\ k.by = who
    BY DEF NoAssetsAsked
  <2>2. Asking(k)
    BY <2>1 DEF Asking, Consistent, Request, RowRequest
  <2> QED
    BY <1>3, <2>1, <2>2, SentSlot DEF AskNoAssets
<1>4. ASSUME NEW o \in Orgs, NEW a \in Assets \cup {None}, AskNewDevice(c, who, o, a)
      PROVE  Sent(c, "newDevice", who)
  <2> PICK k : k = [op |-> "newDevice", step |-> "check", by |-> who, org |-> o, asset |-> a]
    OBVIOUS
  <2>1. k \in NewDeviceAsked /\ k.op = "newDevice" /\ k.by = who
    BY DEF NewDeviceAsked
  <2>2. Asking(k)
    BY <2>1 DEF Asking, Consistent, Request, RowRequest
  <2> QED
    BY <1>4, <2>1, <2>2, SentSlot DEF AskNewDevice
<1>5. ASSUME NEW d \in Devices, NEW o \in Orgs \cup {Keep}, NEW a \in Assets \cup {Keep, None},
             AskDevice(c, who, d, o, a)
      PROVE  Sent(c, "device", who)
  <2> PICK k : k = [op |-> "device", step |-> "check", by |-> who, id |-> d, org |-> o,
                    asset |-> a]
    OBVIOUS
  <2>1. k \in DeviceAsked /\ k.op = "device" /\ k.by = who
    BY DEF DeviceAsked
  <2>2. Asking(k)
    BY <2>1 DEF Asking, Consistent, Request, RowRequest
  <2> QED
    BY <1>5, <2>1, <2>2, SentSlot DEF AskDevice
<1>6. ASSUME NEW S \in SUBSET Devices, AskNoDevices(c, who, S)
      PROVE  Sent(c, "noDevices", who)
  <2> PICK k : k = [op |-> "noDevices", step |-> "check", by |-> who, ids |-> S]
    OBVIOUS
  <2>1. k \in NoDevicesAsked /\ k.op = "noDevices" /\ k.by = who
    BY DEF NoDevicesAsked
  <2>2. Asking(k)
    BY <2>1 DEF Asking, Consistent, Request, RowRequest
  <2> QED
    BY <1>6, <2>1, <2>2, SentSlot DEF AskNoDevices
<1> QED
  BY <1>1, <1>2, <1>3, <1>4, <1>5, <1>6

LEMMA SentTree ==
  ASSUME TableOK, SlotsOK, NEW c \in Calls, NEW who \in Who
  PROVE  /\ \A p \in Orgs : AskNewOrg(c, who, p) => Sent(c, "newOrg", who)
         /\ \A o \in Orgs, p \in Orgs \cup {Keep, None} :
               AskOrg(c, who, o, p) => Sent(c, "org", who)
         /\ \A S \in SUBSET Orgs : AskNoOrgs(c, who, S) => Sent(c, "noOrgs", who)
<1>1. ASSUME NEW p \in Orgs, AskNewOrg(c, who, p) PROVE Sent(c, "newOrg", who)
  <2> PICK k : k = [op |-> "newOrg", step |-> "check", by |-> who, parent |-> p]
    OBVIOUS
  <2>1. k \in NewOrgAsked /\ k.op = "newOrg" /\ k.by = who
    BY DEF NewOrgAsked
  <2>2. Asking(k)
    BY <2>1 DEF Asking, Consistent, Request, TreeRequest
  <2> QED
    BY <1>1, <2>1, <2>2, SentSlot DEF AskNewOrg
<1>2. ASSUME NEW o \in Orgs, NEW p \in Orgs \cup {Keep, None}, AskOrg(c, who, o, p)
      PROVE  Sent(c, "org", who)
  <2> PICK k : k = [op |-> "org", step |-> "check", by |-> who, id |-> o, parent |-> p]
    OBVIOUS
  <2>1. k \in OrgAsked /\ k.op = "org" /\ k.by = who /\ k.step = "check"
    BY DEF OrgAsked
  <2>2. Asking(k)
    BY <2>1 DEF Asking, Consistent, Request, TreeRequest
  <2> QED
    BY <1>2, <2>1, <2>2, SentSlot DEF AskOrg
<1>3. ASSUME NEW S \in SUBSET Orgs, AskNoOrgs(c, who, S) PROVE Sent(c, "noOrgs", who)
  <2> PICK k : k = [op |-> "noOrgs", step |-> "check", by |-> who, ids |-> S]
    OBVIOUS
  <2>1. k \in NoOrgsAsked /\ k.op = "noOrgs" /\ k.by = who /\ k.step = "check"
    BY DEF NoOrgsAsked
  <2>2. Asking(k)
    BY <2>1 DEF Asking, Consistent, Request, TreeRequest
  <2> QED
    BY <1>3, <2>1, <2>2, SentSlot DEF AskNoOrgs
<1> QED
  BY <1>1, <1>2, <1>3

LEMMA SentGroups ==
  ASSUME TableOK, SlotsOK, NEW c \in Calls, NEW who \in Who
  PROVE  /\ AskNewGroup(c, who) => Sent(c, "newGroup", who)
         /\ \A g \in Groups : who = "page" /\ AskItems(c, who, g) => Sent(c, "items", who)
         /\ \A g \in Groups, S \in (SUBSET Assets) \cup {Keep} :
                AskGroup(c, who, g, S) /\ (who = "page" => S \in SUBSET Assets)
                => Sent(c, "group", who)
         /\ \A S \in SUBSET Groups : AskNoGroups(c, who, S) => Sent(c, "noGroups", who)
<1>1. ASSUME AskNewGroup(c, who) PROVE Sent(c, "newGroup", who)
  <2> PICK k : k = [op |-> "newGroup", step |-> "insert", by |-> who]
    OBVIOUS
  <2>1. k \in NewGroupAsked /\ k.op = "newGroup" /\ k.by = who
    BY DEF NewGroupAsked
  <2>2. Asking(k)
    BY <2>1 DEF Asking, Consistent, Request, GroupRequest
  <2> QED
    BY <1>1, <2>1, <2>2, SentSlot DEF AskNewGroup
<1>2. ASSUME NEW g \in Groups, who = "page", AskItems(c, who, g) PROVE Sent(c, "items", who)
  <2> PICK k : k = [op |-> "items", step |-> "read", by |-> who, id |-> g]
    OBVIOUS
  <2>1. k \in ItemsAsked /\ k.op = "items" /\ k.by = who
    BY <1>2 DEF ItemsAsked
  <2>2. Asking(k)
    BY <2>1 DEF Asking, Consistent, Request, GroupRequest
  <2> QED
    BY <1>2, <2>1, <2>2, SentSlot DEF AskItems
<1>3. ASSUME NEW g \in Groups, NEW S \in (SUBSET Assets) \cup {Keep}, AskGroup(c, who, g, S),
             who = "page" => S \in SUBSET Assets
      PROVE  Sent(c, "group", who)
  <2> PICK k : k = [op |-> "group", step |-> "check", by |-> who, id |-> g,
                    members |-> S, doomed |-> {}, met |-> FALSE]
    OBVIOUS
  <2>1. k \in GroupAsked /\ k.op = "group" /\ k.by = who /\ k.members = S
    BY DEF GroupAsked
  <2>2. Asking(k)
    BY <1>3, <2>1 DEF Asking, Consistent, Request, GroupRequest
  <2> QED
    BY <1>3, <2>1, <2>2, SentSlot DEF AskGroup
<1>4. ASSUME NEW S \in SUBSET Groups, AskNoGroups(c, who, S) PROVE Sent(c, "noGroups", who)
  <2> PICK k : k = [op |-> "noGroups", step |-> "delete", by |-> who, ids |-> S]
    OBVIOUS
  <2>1. k \in NoGroupsAsked /\ k.op = "noGroups" /\ k.by = who
    BY DEF NoGroupsAsked
  <2>2. Asking(k)
    BY <2>1 DEF Asking, Consistent, Request, GroupRequest
  <2> QED
    BY <1>4, <2>1, <2>2, SentSlot DEF AskNoGroups
<1> QED
  BY <1>1, <1>2, <1>3, <1>4

LEMMA SentUsers ==
  ASSUME TableOK, SlotsOK, NEW c \in Calls, NEW who \in Who
  PROVE  /\ \A u \in Users, o \in Orgs \cup {Keep}, N \in SUBSET Assets,
                D \in (SUBSET Assets) \cup {Keep} :
                who = "other" /\ AskAccess(c, who, u, o, N, D) /\ (D # Keep => D \subseteq N)
                => Sent(c, "access", who)
         /\ \A S \in SUBSET Users : AskNoUsers(c, who, S) => Sent(c, "noUsers", who)
<1>1. ASSUME NEW u \in Users, NEW o \in Orgs \cup {Keep}, NEW N \in SUBSET Assets,
             NEW D \in (SUBSET Assets) \cup {Keep}, who = "other",
             AskAccess(c, who, u, o, N, D), D # Keep => D \subseteq N
      PROVE  Sent(c, "access", who)
  <2> PICK k : k = [op |-> "access", step |-> "check", by |-> who, id |-> u, org |-> o,
                    named |-> N, denied |-> D, row |-> NoRow, locks |-> {}, theirs |-> {}]
    OBVIOUS
  <2>1. /\ k \in AccessAsked /\ k.op = "access" /\ k.by = who /\ k.step = "check"
        /\ k.denied = D /\ k.named = N
    BY <1>1 DEF AccessAsked, AccessSteps
  <2>2. Asking(k)
    BY <1>1, <2>1 DEF Asking, Consistent, Request, UserRequest
  <2> QED
    BY <1>1, <2>1, <2>2, SentSlot DEF AskAccess
<1>2. ASSUME NEW S \in SUBSET Users, AskNoUsers(c, who, S) PROVE Sent(c, "noUsers", who)
  <2> PICK k : k = [op |-> "noUsers", step |-> "check", by |-> who, ids |-> S]
    OBVIOUS
  <2>1. k \in NoUsersAsked /\ k.op = "noUsers" /\ k.by = who
    BY DEF NoUsersAsked
  <2>2. Asking(k)
    BY <2>1 DEF Asking, Consistent, Request, UserRequest
  <2> QED
    BY <1>2, <2>1, <2>2, SentSlot DEF AskNoUsers
<1> QED
  BY <1>1, <1>2

-----------------------------------------------------------------------------
(* Steps of the page.                                                      *)

ViewOps == {"options", "list", "access", "newUser", "noUsers"}

LEMMA StoresKept ==
  ASSUME StoresOK, UNCHANGED <<pOrg, pAsset, pDevice, pItems, accessVars>>, unseen' \subseteq Ids
  PROVE  StoresOK'
  BY DEF StoresOK, accessVars

LEMMA EditorKept ==
  ASSUME EditorOK, UNCHANGED editor
  PROVE  EditorOK'
  BY DEF EditorOK

LEMMA FormKept ==
  ASSUME FormOK, UNCHANGED form
  PROVE  FormOK'
  BY DEF FormOK

(* A new request leaves what the views of users wait for.                  *)
LEMMA SentApart ==
  ASSUME UsersFirst, RunsOK, EditorOK, NEW c \in Calls, NEW op, NEW who, Sent(c, op, who),
         who = "page" => op \notin ViewOps \/ pUser # NoRow, UNCHANGED accessVars
  PROVE  UsersFirst' /\ RunsOK'
<1>1. UNCHANGED <<pUser, editor>>
  BY DEF accessVars
<1>2. /\ call[c] = Idle /\ call'[c].op = op /\ call'[c].by = who
      /\ \A e \in Calls \ {c} : call'[e] = call[e]
  BY DEF Sent
<1>3. UsersFirst'
  BY <1>1, <1>2 DEF UsersFirst, Mine, ViewOps
<1>4. editor.mode = "edit" => editor.runs \subseteq Calls
  BY DEF EditorOK, NoEditor
<1>5. editor.mode = "edit" => c \notin editor.runs
  BY <1>2 DEF RunsOK, Watching, Idle
<1>6. RunsOK'
  BY <1>1, <1>2, <1>4, <1>5 DEF RunsOK, Watching
<1> QED
  BY <1>3, <1>6

LEMMA ViewSteps ==
  ASSUME ConsoleInv, NEW c \in Calls, ViewAsks(c)
  PROVE  ConsoleInv'
<1>1. /\ UNCHANGED <<hashVars, accessVars, pOrg, pAsset, pDevice, pItems, unseen>>
      /\ TableOK /\ SlotsOK /\ CopyOK /\ StoresOK /\ FormOK /\ EditorOK /\ RunsOK /\ UsersFirst
  BY DEF ViewAsks, ConsoleInv
<1>2. CopyOK' /\ StoresOK' /\ EditorOK'
  BY <1>1, CopyKept, StoresKept, EditorKept DEF StoresOK, accessVars
<1>3. "page" \in Who
  BY DEF Who
<1>4. /\ pOrgs \subseteq Orgs /\ pAssets \subseteq Assets /\ pDevices \subseteq Devices
      /\ pGroups \subseteq Groups
  BY DEF pOrgs, pAssets, pDevices, pGroups
<1>5. \A a \in pAssets : pAsset[a].org \in Orgs /\ pAsset[a].held \subseteq Devices
  BY <1>1 DEF StoresOK, PageAsset, pAssets
<1>6. \A S : Selections(S) \subseteq SUBSET S
  BY DEF Selections
<1>7. CASE ~UNCHANGED form /\ OpenGroup(c)
  <2>1. PICK g \in pGroups :
          /\ AskItems(c, "page", g)
          /\ form' = [id |-> g, step |-> "loading", fetch |-> c, clean |-> FALSE,
                      shown  |-> IF form = Closed THEN {} ELSE form.shown,
                      hidden |-> IF form = Closed THEN {} ELSE form.hidden]
    BY <1>7 DEF OpenGroup
  <2>2. Sent(c, "items", "page")
    BY <1>1, <1>3, <1>4, <2>1, SentGroups
  <2>3. FormOK'
    BY <1>1, <1>4, <2>1 DEF FormOK
  <2> QED
    BY <1>1, <1>2, <2>2, <2>3, SentApart DEF ConsoleInv, Sent, ViewOps
<1>8. CASE ~UNCHANGED form /\ SaveGroup(c)
  <2>1. PICK S \in SUBSET Assets : AskGroup(c, "page", form.id, Payload(S))
    BY <1>1, <1>4, <1>8 DEF SaveGroup, FormOK
  <2>2. /\ form # Closed
        /\ \E b \in BOOLEAN : form' = [form EXCEPT !.step  = IF @ = "loaded" THEN "saving" ELSE @,
                                                  !.clean = b]
    BY <1>8 DEF SaveGroup
  <2>3. form.id \in Groups /\ Payload(S) \in SUBSET Assets /\ FormOK'
    BY <1>1, <2>2 DEF FormOK, Payload
  <2>4. Sent(c, "group", "page")
    BY <1>1, <1>3, <2>1, <2>3, SentGroups
  <2> QED
    BY <1>1, <1>2, <2>3, <2>4, SentApart DEF ConsoleInv, Sent, ViewOps
<1>9. ASSUME UNCHANGED form, NEW op \in {"newAsset", "asset", "noAssets", "newDevice", "device",
               "noDevices", "newOrg", "org", "noOrgs", "newGroup", "noGroups", "items", "group"},
             Sent(c, op, "page")
      PROVE  ConsoleInv'
  BY <1>1, <1>2, <1>9, FormKept, SentApart DEF ConsoleInv, Sent, ViewOps
<1>10. CASE UNCHANGED form
  <2>1. SaveNewAsset(c) => Sent(c, "newAsset", "page")
    BY <1>1, <1>3, <1>4, SentFleet DEF SaveNewAsset, Free
  <2>2. SaveAsset(c) => Sent(c, "asset", "page")
    <3> SUFFICES ASSUME SaveAsset(c) PROVE Sent(c, "asset", "page")
      OBVIOUS
    <3>1. PICK a \in pAssets : \E o \in (pOrgs \ {pAsset[a].org}) \cup {Keep} :
            \E d \in (Free(Final(o, pAsset[a].org)) \ pAsset[a].held) \cup {Keep}
                   \cup (IF pAsset[a].held = {} THEN {} ELSE {Detach}) :
               AskAsset(c, "page", a, o, d)
      BY DEF SaveAsset, AssetForm
    <3>2. \A x : Free(x) \subseteq Devices
      BY <1>4 DEF Free
    <3>4. PICK o \in Orgs \cup {Keep} :
            \E d \in (Free(Final(o, pAsset[a].org)) \ pAsset[a].held) \cup {Keep}
                   \cup (IF pAsset[a].held = {} THEN {} ELSE {Detach}) :
               AskAsset(c, "page", a, o, d)
      BY <1>4, <3>1
    <3>3. PICK d \in Devices \cup {Keep, Detach} : AskAsset(c, "page", a, o, d)
      BY <3>2, <3>4
    <3> QED
      BY <1>1, <1>3, <1>4, <3>3, SentFleet
  <2>3. SaveNewDevice(c) => Sent(c, "newDevice", "page")
    BY <1>1, <1>3, <1>4, SentFleet DEF SaveNewDevice
  <2>4. SaveDevice(c) => Sent(c, "device", "page")
    BY <1>1, <1>3, <1>4, SentFleet DEF SaveDevice
  <2>5. SaveNewOrg(c) => Sent(c, "newOrg", "page")
    BY <1>1, <1>3, <1>4, SentTree DEF SaveNewOrg
  <2>6. SaveOrg(c) => Sent(c, "org", "page")
    BY <1>1, <1>3, <1>4, SentTree DEF SaveOrg
  <2>7. SaveNewGroup(c) => Sent(c, "newGroup", "page")
    BY <1>1, <1>3, SentGroups DEF SaveNewGroup
  <2>8. RemoveAssets(c) => Sent(c, "noAssets", "page")
    BY <1>1, <1>3, <1>4, <1>6, SentFleet DEF RemoveAssets
  <2>9. RemoveDevices(c) => Sent(c, "noDevices", "page")
    BY <1>1, <1>3, <1>4, <1>6, SentFleet DEF RemoveDevices
  <2>10. RemoveOrgs(c) => Sent(c, "noOrgs", "page")
    BY <1>1, <1>3, <1>4, <1>6, SentTree DEF RemoveOrgs
  <2>11. RemoveGroups(c) => Sent(c, "noGroups", "page")
    BY <1>1, <1>3, <1>4, <1>6, SentGroups DEF RemoveGroups
  <2>12. OpenGroup(c) => Sent(c, "items", "page")
    BY <1>1, <1>3, <1>4, SentGroups DEF OpenGroup
  <2>13. SaveGroup(c) => Sent(c, "group", "page")
    <3> SUFFICES ASSUME SaveGroup(c) PROVE Sent(c, "group", "page")
      OBVIOUS
    <3>1. PICK S \in SUBSET Assets : AskGroup(c, "page", form.id, Payload(S))
      BY <1>1, <1>4 DEF SaveGroup, FormOK
    <3>2. form # Closed
      BY DEF SaveGroup
    <3>3. form.id \in Groups /\ Payload(S) \in SUBSET Assets
      BY <1>1, <3>2 DEF FormOK, Payload
    <3> QED
      BY <1>1, <1>3, <3>1, <3>3, SentGroups
  <2> QED
    BY <1>9, <1>10, <2>1, <2>2, <2>3, <2>4, <2>5, <2>6, <2>7, <2>8, <2>9, <2>10, <2>11, <2>12,
       <2>13 DEF ViewAsks
<1> QED
  BY <1>7, <1>8, <1>10 DEF ViewAsks

LEMMA OthersSteps ==
  ASSUME ConsoleInv, NEW c \in Calls, OthersAsk(c)
  PROVE  ConsoleInv'
<1>1. /\ UNCHANGED <<hashVars, accessVars, pageVars>>
      /\ TableOK /\ SlotsOK /\ CopyOK /\ StoresOK /\ FormOK /\ EditorOK /\ RunsOK /\ UsersFirst
  BY DEF OthersAsk, ConsoleInv
<1>2. CopyOK' /\ StoresOK' /\ EditorOK' /\ FormOK'
  BY <1>1, CopyKept, StoresKept, EditorKept, FormKept DEF StoresOK, accessVars, pageVars
<1>3. "other" \in Who /\ "other" # "page"
  BY DEF Who
<1>4. /\ OrgRows \subseteq Orgs /\ AssetRows \subseteq Assets /\ DeviceRows \subseteq Devices
      /\ GroupRows \subseteq Groups /\ UserRows \subseteq Users
  BY DEF OrgRows, AssetRows, DeviceRows, GroupRows, UserRows
<1>5. ASSUME NEW op, Sent(c, op, "other")
      PROVE  ConsoleInv'
  BY <1>1, <1>2, <1>3, <1>5, SentApart DEF ConsoleInv, Sent
<1>6. CASE \/ \E o \in OrgRows, d \in DeviceRows \cup {None} : AskNewAsset(c, "other", o, d)
           \/ \E a \in AssetRows, o \in OrgRows \cup {Keep},
                 d \in DeviceRows \cup {Keep, Detach} : AskAsset(c, "other", a, o, d)
           \/ \E a \in AssetRows : AskNoAssets(c, "other", {a})
  <2>1. \A o \in OrgRows, d \in DeviceRows \cup {None} :
           AskNewAsset(c, "other", o, d) => Sent(c, "newAsset", "other")
    BY <1>1, <1>3, <1>4, SentFleet
  <2>2. \A a \in AssetRows, o \in OrgRows \cup {Keep}, d \in DeviceRows \cup {Keep, Detach} :
           AskAsset(c, "other", a, o, d) => Sent(c, "asset", "other")
    BY <1>1, <1>3, <1>4, SentFleet
  <2>3. \A a \in AssetRows : AskNoAssets(c, "other", {a}) => Sent(c, "noAssets", "other")
    BY <1>1, <1>3, <1>4, SentFleet
  <2> QED
    BY <1>5, <1>6, <2>1, <2>2, <2>3
<1>10. CASE \/ \E o \in OrgRows, a \in AssetRows \cup {None} : AskNewDevice(c, "other", o, a)
            \/ \E d \in DeviceRows, o \in OrgRows \cup {Keep},
                  a \in AssetRows \cup {Keep, None} : AskDevice(c, "other", d, o, a)
            \/ \E d \in DeviceRows : AskNoDevices(c, "other", {d})
  <2>1. \A o \in OrgRows, a \in AssetRows \cup {None} :
           AskNewDevice(c, "other", o, a) => Sent(c, "newDevice", "other")
    BY <1>1, <1>3, <1>4, SentFleet
  <2>2. \A d \in DeviceRows, o \in OrgRows \cup {Keep}, a \in AssetRows \cup {Keep, None} :
           AskDevice(c, "other", d, o, a) => Sent(c, "device", "other")
    BY <1>1, <1>3, <1>4, SentFleet
  <2>3. \A d \in DeviceRows : AskNoDevices(c, "other", {d}) => Sent(c, "noDevices", "other")
    BY <1>1, <1>3, <1>4, SentFleet
  <2> QED
    BY <1>5, <1>10, <2>1, <2>2, <2>3
<1>7. CASE \/ \E o \in OrgRows : AskNewOrg(c, "other", o) \/ AskNoOrgs(c, "other", {o})
           \/ \E o \in OrgRows, p \in OrgRows \cup {Keep, None} : AskOrg(c, "other", o, p)
  <2>1. \E op : Sent(c, op, "other")
    BY <1>1, <1>3, <1>4, <1>7, SentTree
  <2> QED
    BY <1>5, <2>1
<1>8. CASE \/ AskNewGroup(c, "other")
           \/ \E g \in GroupRows : \E S \in (SUBSET AssetRows) \cup {Keep} :
                 AskGroup(c, "other", g, S)
           \/ \E g \in GroupRows : AskNoGroups(c, "other", {g})
  <2>1. \E op : Sent(c, op, "other")
    BY <1>1, <1>3, <1>4, <1>8, SentGroups
  <2> QED
    BY <1>5, <2>1
<1>9. CASE \/ \E u \in UserRows : \/ \E N \in SUBSET AssetRows : \E D \in SUBSET N :
                                       AskAccess(c, "other", u, Keep, N, D)
                                  \/ \E o \in OrgRows : AskAccess(c, "other", u, o, {}, Keep)
           \/ \E u \in UserRows : AskNoUsers(c, "other", {u})
  <2>1. \E op : Sent(c, op, "other")
    BY <1>1, <1>3, <1>4, <1>9, SentUsers
  <2> QED
    BY <1>5, <2>1
<1> QED
  BY <1>6, <1>7, <1>8, <1>9, <1>10 DEF OthersAsk

-----------------------------------------------------------------------------
(* The forms of users.                                                     *)

LEMMA EditorForms ==
  /\ EditorOK <=> editor = NoEditor \/ editor \in EditForms \cup NewForms
  /\ \A e \in EditForms : e.mode = "edit" /\ e.for \in Users /\ e.runs \subseteq Calls
  /\ \A e \in NewForms : e.mode = "new"
  /\ NoEditor.mode = "closed"
  BY DEF EditorOK, EditForms, NewForms, NoEditor

LEMMA EditorForms2 ==
  EditorOK' <=> editor' = NoEditor \/ editor' \in EditForms \cup NewForms
  BY DEF EditorOK, EditForms, NewForms, NoEditor

LEMMA MountedForms ==
  /\ \A u \in Users : Mounted("edit", u) \in EditForms /\ Mounted("edit", u).runs = {}
  /\ \A S \in SUBSET Assets :
        Loaded([Mounted("new", NoRow) EXCEPT !.org = Root], S) \in NewForms
  BY Zenon, SystemOrgs DEF Mounted, EditForms, NewForms, Loaded

LEMMA KnownAssets ==
  ASSUME StoresOK, NEW o \in Orgs \cup {NoRow}
  PROVE  Known(o) \in SUBSET Assets
  BY DEF StoresOK, Known

LEMMA SelectedForm ==
  ASSUME NEW e, NEW o, NEW S \in SUBSET Assets
  PROVE  /\ e \in EditForms => Selected(e, o, S) \in EditForms /\ Selected(e, o, S).runs = e.runs
         /\ e \in NewForms => Selected(e, o, S) \in NewForms
         /\ e = NoEditor => Selected(e, o, S) = NoEditor
<1>1. ASSUME e \in EditForms
      PROVE  Selected(e, o, S) \in EditForms /\ Selected(e, o, S).runs = e.runs
  BY <1>1 DEF EditForms, Selected
<1>2. ASSUME e \in NewForms
      PROVE  Selected(e, o, S) \in NewForms
  BY <1>2 DEF NewForms, Selected
<1>3. e = NoEditor => Selected(e, o, S) = NoEditor
  BY DEF Selected, NoEditor
<1> QED
  BY <1>1, <1>2, <1>3

(* What a watcher leaves in its slot and in the form e.                    *)
Watches(c, e) ==
    /\ SlotsOK' /\ \A x \in Calls \ {c} : call'[x] = call[x]
    /\ call'[c] = Idle \/ Watching(call'[c])
    /\ editor' \in EditForms /\ editor'.runs \subseteq e.runs \cup {c}
    /\ c \in editor'.runs => Watching(call'[c])

LEMMA ListAskedFor ==
  ASSUME NEW u \in Users
  PROVE  Asking(ListRequest(u)) /\ Watching(ListRequest(u)) /\ ListRequest(u).op = "list"
<1> PICK k : k = ListRequest(u)
  OBVIOUS
<1>1. k \in ListAsked /\ k.op = "list" /\ k.step = "denied" /\ k.by = "page"
  BY DEF ListAsked, ListRequest
<1> QED
  BY <1>1 DEF Asking, Consistent, Request, UserRequest, Watching

LEMMA OptionsAskedFor ==
  ASSUME NEW o \in Orgs, NEW u \in Users \cup {NoRow}
  PROVE  /\ Asking(OptionsRequest(o, u)) /\ OptionsRequest(o, u).op = "options"
         /\ OptionsRequest(o, u).by = "page"
         /\ u \in Users => Watching(OptionsRequest(o, u))
<1> PICK k : k = OptionsRequest(o, u)
  OBVIOUS
<1>1. /\ k \in OptionsAsked /\ k.op = "options" /\ k.step = "read" /\ k.by = "page"
      /\ k.for = u
  BY DEF OptionsAsked, OptionsRequest
<1> QED
  BY <1>1 DEF Asking, Consistent, Request, UserRequest, Watching

LEMMA IdleSlot == SlotOK(Idle)
  BY DEF SlotOK

LEMMA ShowsForm ==
  ASSUME SlotsOK, lists' \in [Users -> SUBSET Assets], NEW c \in Calls, NEW e \in EditForms,
         NEW u \in Users, NEW o \in Orgs, NEW again, Show(c, e, u, o, again)
  PROVE  Watches(c, e)
<1> PICK e1 : e1 = [e EXCEPT !.user = u, !.org = o]
  OBVIOUS
<1>1. e1 \in EditForms /\ e1.runs = e.runs
  BY SystemOrgs DEF EditForms
<1>2. CASE /\ editor' = [e1 EXCEPT !.runs = @ \ {c}]
           /\ Sends(c, Idle)
  <2>1. editor' \in EditForms /\ editor'.runs = e.runs \ {c}
    BY <1>1, <1>2 DEF EditForms
  <2> QED
    BY <1>2, <2>1, IdleSlot, OneSlot DEF Watches
<1>3. CASE /\ editor' = [e1 EXCEPT !.runs = @ \cup {c}]
           /\ Sends(c, ListRequest(u))
  <2>1. editor' \in EditForms /\ editor'.runs = e.runs \cup {c}
    BY <1>1, <1>3 DEF EditForms
  <2> QED
    BY <1>3, <2>1, ListAskedFor, OneSlot DEF Watches, SlotOK
<1>4. CASE /\ editor' = [Loaded(e1, lists'[u]) EXCEPT !.runs = @ \ {c}]
           /\ Sends(c, Idle)
  <2>1. editor' \in EditForms /\ editor'.runs = e.runs \ {c}
    <3>1. PICK list \in SUBSET Assets : list = lists'[u]
      OBVIOUS
    <3>2. editor' = [e1 EXCEPT !.base = list, !.shown = list, !.runs = e.runs \ {c}]
      BY <1>1, <1>4, <3>1 DEF Loaded, EditForms
    <3>3. QED
      BY <1>1, <3>2 DEF EditForms
  <2> QED
    BY <1>4, <2>1, IdleSlot, OneSlot DEF Watches
<1> QED
  BY SMTT(30), <1>2, <1>3, <1>4 DEF Show

LEMMA LoadsForm ==
  ASSUME SlotsOK, StoresOK, lists' \in [Users -> SUBSET Assets], NEW c \in Calls,
         NEW e \in EditForms, NEW u \in Users, pUser'[u] \in Orgs, NEW again,
         Load(c, e, u, again)
  PROVE  Watches(c, e) /\ UNCHANGED options /\ chosen' \in Orgs \cup {NoRow}
<1> PICK o \in Orgs : o = pUser'[u]
  OBVIOUS
<1>1. UNCHANGED options
  BY DEF Load
<1>2. CASE options[o] = NoRow
  <2>1. /\ editor' = [e EXCEPT !.runs = @ \cup {c}]
        /\ Sends(c, OptionsRequest(o, u))
        /\ UNCHANGED chosen
    BY <1>2 DEF Load
  <2>2. editor' \in EditForms /\ editor'.runs = e.runs \cup {c}
    BY <2>1 DEF EditForms
  <2> QED
    BY <1>1, <2>1, <2>2, OptionsAskedFor, OneSlot DEF Watches, SlotOK, StoresOK
<1>3. CASE options[o] # NoRow
  <2>1. chosen' = o /\ Show(c, Selected(e, o, options[o]), u, o, again)
    BY <1>3 DEF Load
  <2>2. options[o] \in SUBSET Assets
    BY <1>3 DEF StoresOK
  <2>3. Selected(e, o, options[o]) \in EditForms /\ Selected(e, o, options[o]).runs = e.runs
    BY <2>2, SelectedForm
  <2>4. Watches(c, Selected(e, o, options[o]))
    BY <2>1, <2>3, ShowsForm
  <2> QED
    BY <1>1, <2>1, <2>3, <2>4 DEF Watches
<1> QED
  BY <1>2, <1>3

(* The watcher goes on: its form waits for it, and for what it waited.     *)
LEMMA WatchesOn ==
  ASSUME NEW c \in Calls, NEW e, Watches(c, e), pUser' # NoRow,
         \A x \in e.runs \ {c} : Watching(call[x]), e.runs \subseteq Calls
  PROVE  RunsOK' /\ UsersFirst' /\ EditorOK' /\ SlotsOK'
<1>1. UsersFirst'
  BY DEF UsersFirst
<1>2. ASSUME NEW x \in editor'.runs
      PROVE  Watching(call'[x])
  BY DEF Watches
<1>3. RunsOK'
  BY <1>2 DEF RunsOK, Watching
<1> QED
  BY <1>1, <1>3, EditorForms2 DEF Watches

(* The rows while a watcher works.                                         *)
LEMMA WatchesRows ==
  ASSUME TableOK, NEW c \in Calls, NEW e, Watches(c, e), UNCHANGED rowVars
  PROVE  TableOK'
<1>1. ~At(c, "asset", "commit")'
  BY DEF Watches, Watching, Idle, At
<1> QED
  BY <1>1, SameRows DEF Watches

-----------------------------------------------------------------------------
(* The views of users.                                                     *)

LEMMA StoresParts ==
  ASSUME StoresOK, UNCHANGED <<pOrg, pAsset, pDevice, pItems>>, unseen' \subseteq Ids,
         pUser' = NoRow \/ pUser' \in [Users -> Orgs \cup {NoRow}],
         lists' \in [Users -> SUBSET Assets],
         options' \in [Orgs -> (SUBSET Assets) \cup {NoRow}],
         chosen' \in Orgs \cup {NoRow}
  PROVE  StoresOK'
  BY DEF StoresOK

LEMMA PageUsers ==
  ASSUME StoresOK, pUser # NoRow, NEW u \in Users, pUser[u] # NoRow
  PROVE  pUser \in [Users -> Orgs \cup {NoRow}] /\ pUser[u] \in Orgs
  BY DEF StoresOK

(* What a form held open waits for.                                        *)
LEMMA EditorRuns ==
  ASSUME EditorOK, RunsOK, editor.mode = "edit"
  PROVE  /\ editor \in EditForms /\ editor.runs \subseteq Calls
         /\ \A x \in editor.runs : Watching(call[x])
<1>1. editor \in EditForms
  BY EditorForms
<1> QED
  BY <1>1, EditorForms DEF RunsOK

LEMMA OpensUser ==
  ASSUME ConsoleInv, NEW c \in Calls, OpenUser(c), UNCHANGED rowVars
  PROVE  /\ TableOK' /\ SlotsOK' /\ EditorOK' /\ RunsOK' /\ UsersFirst'
         /\ UNCHANGED <<pUser, lists, options>> /\ chosen' \in Orgs \cup {NoRow}
<1>1. TableOK /\ SlotsOK /\ StoresOK /\ EditorOK /\ RunsOK
  BY DEF ConsoleInv
<1>2. PICK u \in Users :
        /\ pUser # NoRow /\ pUser[u] # NoRow /\ editor.mode \in {"closed", "edit"}
        /\ UNCHANGED <<pUser, lists>>
        /\ Load(c, IF editor.mode = "edit" THEN [editor EXCEPT !.for = u]
                   ELSE Mounted("edit", u), u, FALSE)
  BY DEF OpenUser
<1>3. PICK e : e = (IF editor.mode = "edit" THEN [editor EXCEPT !.for = u]
                    ELSE Mounted("edit", u))
  OBVIOUS
<1>4. /\ e \in EditForms /\ e.runs \subseteq Calls
      /\ \A x \in e.runs \ {c} : Watching(call[x])
  <2>1. CASE editor.mode = "edit"
    <3>1. /\ editor \in EditForms /\ editor.runs \subseteq Calls
          /\ \A x \in editor.runs : Watching(call[x])
      BY <1>1, <2>1, EditorRuns
    <3>2. e \in EditForms /\ e.runs = editor.runs
      BY <1>3, <2>1, <3>1 DEF EditForms
    <3> QED
      BY <3>1, <3>2
  <2>2. CASE editor.mode # "edit"
    BY <1>3, <2>2, MountedForms
  <2> QED
    BY <2>1, <2>2
<1>5. lists' \in [Users -> SUBSET Assets] /\ pUser'[u] \in Orgs /\ pUser' # NoRow
  BY <1>1, <1>2, PageUsers DEF StoresOK
<1>6. Load(c, e, u, FALSE)
  BY <1>2, <1>3
<1>7. Watches(c, e) /\ UNCHANGED options /\ chosen' \in Orgs \cup {NoRow}
  BY <1>1, <1>4, <1>5, <1>6, LoadsForm
<1>8. RunsOK' /\ UsersFirst' /\ EditorOK' /\ SlotsOK'
  BY <1>4, <1>5, <1>7, WatchesOn
<1>9. TableOK'
  BY <1>1, <1>7, WatchesRows
<1> QED
  BY <1>2, <1>7, <1>8, <1>9

(* A form whose request does not keep it waiting.                          *)
LEMMA OptionsOnly ==
  ASSUME TableOK, SlotsOK, RunsOK, EditorOK, NEW c \in Calls, call[c] = Idle,
         NEW k, Sends(c, k), k = Idle \/ \E o \in Orgs : k = OptionsRequest(o, NoRow),
         UNCHANGED <<rowVars, pUser>>, pUser # NoRow,
         editor' \in EditForms \cup NewForms,
         editor'.mode = "edit" => editor.mode = "edit" /\ editor'.runs = editor.runs
  PROVE  TableOK' /\ SlotsOK' /\ EditorOK' /\ RunsOK' /\ UsersFirst'
<1>1. SlotOK(k) /\ ~(k.op = "asset" /\ k.step = "commit")
  <2>1. CASE k = Idle
    BY <2>1, IdleSlot DEF Idle
  <2>2. ASSUME NEW o \in Orgs, k = OptionsRequest(o, NoRow)
        PROVE  SlotOK(k) /\ ~(k.op = "asset" /\ k.step = "commit")
    BY <2>2, OptionsAskedFor DEF SlotOK
  <2> QED
    BY <2>1, <2>2
<1>2. SlotsOK' /\ call'[c] = k /\ \A x \in Calls \ {c} : call'[x] = call[x]
  BY <1>1, OneSlot
<1>3. TableOK'
  BY <1>1, <1>2, SameRows DEF At
<1>4. EditorOK'
  BY EditorForms2
<1>5. RunsOK'
  <2>1. SUFFICES ASSUME editor'.mode = "edit", NEW x \in editor'.runs
                 PROVE  Watching(call'[x])
    BY DEF RunsOK, Watching
  <2>2. Watching(call[x]) /\ x \in Calls
    BY <2>1, EditorRuns
  <2>3. x # c
    BY <2>2 DEF Watching, Idle
  <2> QED
    BY <1>2, <2>2, <2>3
<1> QED
  BY <1>2, <1>3, <1>4, <1>5 DEF UsersFirst

LEMMA OpensNew ==
  ASSUME ConsoleInv, NEW c \in Calls, call[c] = Idle, OpenNew(c), UNCHANGED rowVars
  PROVE  /\ TableOK' /\ SlotsOK' /\ EditorOK' /\ RunsOK' /\ UsersFirst'
         /\ UNCHANGED <<pUser, lists, options>> /\ chosen' \in Orgs \cup {NoRow}
<1>1. TableOK /\ SlotsOK /\ StoresOK /\ EditorOK /\ RunsOK
  BY DEF ConsoleInv
<1>2. Known(chosen) \in SUBSET Assets /\ Root \in Orgs /\ chosen \in Orgs \cup {NoRow}
  BY <1>1, KnownAssets, SystemOrgs DEF StoresOK
<1>3. PICK e \in NewForms :
        e = Loaded([Mounted("new", NoRow) EXCEPT !.org = Root], Known(chosen))
  BY <1>2, MountedForms
<1>4. UNCHANGED <<pUser, lists, options>> /\ pUser # NoRow
  BY DEF OpenNew
<1>5. CASE options[Root] = NoRow
  <2>1. editor' = e /\ Sends(c, OptionsRequest(Root, NoRow)) /\ UNCHANGED chosen
    BY <1>3, <1>5 DEF OpenNew
  <2>2. editor'.mode # "edit"
    BY <1>3, <2>1, EditorForms
  <2> QED
    BY <1>1, <1>2, <1>3, <1>4, <2>1, <2>2, OptionsOnly
<1>6. CASE options[Root] # NoRow
  <2>1. chosen' = Root /\ editor' = Selected(e, Root, options[Root]) /\ Sends(c, Idle)
    BY <1>3, <1>6 DEF OpenNew
  <2>2. options[Root] \in SUBSET Assets
    BY <1>1, <1>2, <1>6 DEF StoresOK
  <2>3. editor' \in NewForms /\ editor'.mode # "edit"
    BY <1>3, <2>1, <2>2, EditorForms, SelectedForm
  <2> QED
    BY <1>1, <1>2, <1>4, <2>1, <2>3, OptionsOnly
<1> QED
  BY <1>5, <1>6

LEMMA ChoosesOrg ==
  ASSUME ConsoleInv, NEW c \in Calls, call[c] = Idle, ChooseOrg(c, pOrgs), UNCHANGED rowVars
  PROVE  /\ TableOK' /\ SlotsOK' /\ EditorOK' /\ RunsOK' /\ UsersFirst'
         /\ UNCHANGED <<pUser, lists, options>> /\ chosen' \in Orgs \cup {NoRow}
<1>1. TableOK /\ SlotsOK /\ StoresOK /\ EditorOK /\ RunsOK /\ UsersFirst
  BY DEF ConsoleInv
<1>2. /\ editor.mode # "closed" /\ UNCHANGED <<pUser, lists, options>>
      /\ editor # NoEditor /\ pUser # NoRow /\ chosen \in Orgs \cup {NoRow}
  BY <1>1 DEF ChooseOrg, NoEditor, UsersFirst, StoresOK
<1>3. PICK o \in Orgs :
        LET e == [editor EXCEPT !.org = o, !.flag = TRUE] IN
        IF options[o] = NoRow
        THEN editor' = e /\ Sends(c, OptionsRequest(o, NoRow)) /\ UNCHANGED chosen
        ELSE /\ editor' = Selected(e, o, options[o]) /\ chosen' = o
             /\ Sends(c, Idle)
  BY Zenon DEF ChooseOrg, pOrgs
<1> PICK e : e = [editor EXCEPT !.org = o, !.flag = TRUE]
  OBVIOUS
<1>4. \/ /\ editor \in EditForms /\ e \in EditForms /\ e.runs = editor.runs
         /\ editor.mode = "edit"
      \/ e \in NewForms
  <2>1. editor \in EditForms \cup NewForms
    BY <1>1, <1>2, EditorForms
  <2>2. CASE editor \in EditForms
    BY <2>2, SystemOrgs DEF EditForms
  <2>3. CASE editor \in NewForms
    BY <2>3 DEF NewForms
  <2> QED
    BY <2>1, <2>2, <2>3
<1>5. CASE options[o] = NoRow
  <2>1. editor' = e /\ Sends(c, OptionsRequest(o, NoRow)) /\ UNCHANGED chosen
    BY <1>3, <1>5
  <2>2. /\ editor' \in EditForms \cup NewForms
        /\ editor'.mode = "edit" => editor.mode = "edit" /\ editor'.runs = editor.runs
    BY <1>4, <2>1, EditorForms
  <2> QED
    BY <1>1, <1>2, <2>1, <2>2, OptionsOnly
<1>6. CASE options[o] # NoRow
  <2>1. chosen' = o /\ editor' = Selected(e, o, options[o]) /\ Sends(c, Idle)
    BY <1>3, <1>6
  <2>2. options[o] \in SUBSET Assets
    BY <1>1, <1>6 DEF StoresOK
  <2>3. /\ editor' \in EditForms \cup NewForms
        /\ editor'.mode = "edit" => editor.mode = "edit" /\ editor'.runs = editor.runs
    BY <1>4, <2>1, <2>2, EditorForms, SelectedForm
  <2> QED
    BY <1>1, <1>2, <2>1, <2>3, OptionsOnly
<1> QED
  BY <1>5, <1>6

(* A save from a form, which stays open.                                   *)
LEMMA SavesUserForm ==
  ASSUME ConsoleInv, NEW c \in Calls, NEW op, Sent(c, op, "page"), editor # NoEditor,
         NEW S \in SUBSET Assets, editor' = [editor EXCEPT !.shown = S],
         UNCHANGED <<pUser, lists, options, chosen>>
  PROVE  /\ TableOK' /\ SlotsOK' /\ EditorOK' /\ RunsOK' /\ UsersFirst'
         /\ UNCHANGED <<pUser, lists, options>> /\ chosen' \in Orgs \cup {NoRow}
<1>1. EditorOK /\ RunsOK /\ UsersFirst /\ StoresOK
  BY DEF ConsoleInv
<1>2. /\ editor' \in EditForms \cup NewForms
      /\ editor'.mode = "edit" => editor.mode = "edit" /\ editor'.runs = editor.runs
  <2>1. editor \in EditForms \cup NewForms
    BY <1>1, EditorForms
  <2>2. CASE editor \in EditForms
    <3>1. editor' \in EditForms /\ editor'.runs = editor.runs /\ editor'.mode = editor.mode
      BY <2>2 DEF EditForms
    <3> QED
      BY <3>1
  <2>3. CASE editor \in NewForms
    <3>1. editor' \in NewForms
      BY <2>3 DEF NewForms
    <3> QED
      BY <3>1, EditorForms
  <2> QED
    BY <2>1, <2>2, <2>3
<1>3. RunsOK'
  <2>1. SUFFICES ASSUME editor'.mode = "edit", NEW x \in editor'.runs
                 PROVE  Watching(call'[x])
    BY DEF RunsOK, Watching
  <2>2. Watching(call[x]) /\ x \in Calls
    BY <1>1, <1>2, <2>1, EditorRuns
  <2>3. x # c
    BY <2>2 DEF Watching, Idle, Sent
  <2> QED
    BY <2>2, <2>3 DEF Sent
<1>4. UsersFirst'
  BY <1>1 DEF UsersFirst
<1> QED
  BY <1>1, <1>2, <1>3, <1>4, EditorForms2 DEF Sent, StoresOK

LEMMA UserViewSteps ==
  ASSUME ConsoleInv, NEW c \in Calls, UserViewAsks(c)
  PROVE  ConsoleInv'
<1>1. /\ UNCHANGED <<rowVars, hashVars, pOrg, pAsset, pDevice, pItems, form>>
      /\ TableOK /\ SlotsOK /\ CopyOK /\ StoresOK /\ FormOK /\ EditorOK /\ RunsOK /\ UsersFirst
  BY DEF UserViewAsks, ConsoleInv
<1>2. CopyOK' /\ FormOK'
  BY <1>1, CopyKept, FormKept
<1>3. unseen' \subseteq Ids
  BY <1>1 DEF UserViewAsks, StoresOK, Ids
<1>4. "page" \in Who
  BY DEF Who
<1>5. CASE OpenUser(c) \/ (call[c] = Idle /\ (OpenNew(c) \/ ChooseOrg(c, pOrgs)))
  <2>1. /\ TableOK' /\ SlotsOK' /\ EditorOK' /\ RunsOK' /\ UsersFirst'
        /\ UNCHANGED <<pUser, lists, options>> /\ chosen' \in Orgs \cup {NoRow}
    BY <1>1, <1>5, OpensUser, OpensNew, ChoosesOrg
  <2> QED
    BY <1>1, <1>2, <1>3, <2>1, StoresParts DEF ConsoleInv, StoresOK
<1>6. CASE AskUsers(c)
  <2> PICK k : k = [op |-> "users", step |-> "read", by |-> "page"]
    OBVIOUS
  <2>1. k \in UsersAsked /\ k.op = "users" /\ k.by = "page"
    BY DEF UsersAsked
  <2>2. Asking(k)
    BY <2>1 DEF Asking, Consistent, Request, UserRequest
  <2>3. Sent(c, "users", "page") /\ UNCHANGED accessVars
    BY <1>1, <1>6, <2>1, <2>2, SentSlot DEF AskUsers
  <2>4. UsersFirst' /\ RunsOK'
    BY <1>1, <2>3, SentApart DEF ViewOps
  <2> QED
    BY <1>1, <1>2, <1>3, <2>3, <2>4, StoresKept, EditorKept DEF ConsoleInv, Sent, accessVars
<1>7. CASE RemoveUsers(c)
  <2>1. PICK u \in Users : pUser # NoRow /\ AskNoUsers(c, "page", {u}) /\ UNCHANGED accessVars
    BY <1>7 DEF RemoveUsers
  <2>2. Sent(c, "noUsers", "page")
    BY <1>1, <1>4, <2>1, SentUsers
  <2>3. UsersFirst' /\ RunsOK'
    BY <1>1, <2>1, <2>2, SentApart
  <2> QED
    BY <1>1, <1>2, <1>3, <2>1, <2>2, <2>3, StoresKept, EditorKept
       DEF ConsoleInv, Sent, accessVars
<1>8. ASSUME NEW op, Sent(c, op, "page"), editor # NoEditor, NEW S \in SUBSET Assets,
             editor' = [editor EXCEPT !.shown = S],
             UNCHANGED <<pUser, lists, options, chosen>>
      PROVE  ConsoleInv'
  <2>1. /\ TableOK' /\ SlotsOK' /\ EditorOK' /\ RunsOK' /\ UsersFirst'
        /\ UNCHANGED <<pUser, lists, options>> /\ chosen' \in Orgs \cup {NoRow}
    BY <1>8, SavesUserForm
  <2> QED
    BY <1>1, <1>2, <1>3, <2>1, StoresParts DEF ConsoleInv, StoresOK
<1>9. editor # NoEditor => Ticks \subseteq SUBSET Assets
  <2>1. Known(chosen) \in SUBSET Assets
    BY <1>1, KnownAssets DEF StoresOK
  <2>2. editor # NoEditor => editor.shown \in SUBSET Assets
    BY <1>1 DEF EditorOK
  <2> QED
    BY <2>1, <2>2 DEF Ticks
<1>10. CASE SaveUser(c)
  <2>1. editor.mode = "edit" /\ editor.user # NoRow /\ editor # NoEditor
    BY <1>10 DEF SaveUser, NoEditor
  <2>2. editor \in EditForms /\ editor.user \in Users /\ editor.org \in Orgs
    BY <1>1, <2>1, EditorRuns DEF EditForms
  <2> PICK u \in Users : u = editor.user
    BY <2>2
  <2> PICK all \in SUBSET Assets : all = Known(editor.org)
    BY <1>1, <2>2, KnownAssets
  <2> PICK base \in SUBSET Assets : base = editor.base
    BY <2>2 DEF EditForms
  <2>3. PICK S \in SUBSET Assets :
          /\ Ask(c, [op |-> "access", step |-> "check", by |-> "page", id |-> u,
                     org    |-> IF editor.org # pUser[u] THEN editor.org ELSE Keep,
                     denied |-> IF editor.org # pUser[u] \/ ~(Differing(all, base, S) =
                                           Differing(all, base, base))
                                THEN Differing(all, base, S).denied ELSE Keep,
                     named  |-> Differing(all, base, S).named, row |-> NoRow, locks |-> {}, theirs |-> {},
                     all |-> all, base |-> base, shown |-> S])
          /\ editor' = [editor EXCEPT !.shown = S]
    BY <1>9, <1>10, <2>1 DEF SaveUser
  <2> PICK D \in (SUBSET Assets) \cup {Keep} :
           D = (IF editor.org # pUser[u] \/ ~(Differing(all, base, S) =
                                           Differing(all, base, base))
                THEN Differing(all, base, S).denied ELSE Keep)
    BY DEF Differing
  <2> PICK N \in SUBSET Assets : N = Differing(all, base, S).named
    BY DEF Differing
  <2>4. D # Keep => D \subseteq N
    BY DEF Differing
  <2> PICK o \in Orgs \cup {Keep} : o = (IF editor.org # pUser[u] THEN editor.org ELSE Keep)
    BY <2>2
  <2> PICK k : k = [op |-> "access", step |-> "check", by |-> "page", id |-> u, org |-> o,
                    denied |-> D, named |-> N, row |-> NoRow, locks |-> {}, theirs |-> {},
                    all |-> all, base |-> base,
                    shown |-> S]
    OBVIOUS
  <2>5. /\ k \in AccessSaved /\ k.op = "access" /\ k.by = "page" /\ k.step = "check"
        /\ k.denied = D /\ k.named = N
    BY DEF AccessSaved, AccessSteps
  <2>6. Asking(k)
    BY <2>4, <2>5 DEF Asking, Consistent, Request, UserRequest
  <2>7. Ask(c, k)
    BY <2>3
  <2>8. Sent(c, "access", "page")
    BY <1>1, <2>5, <2>6, <2>7, SentSlot
  <2> QED
    BY <1>8, <1>10, <2>1, <2>3, <2>8 DEF SaveUser
<1>11. CASE CreateUser(c)
  <2>1. editor.mode = "new" /\ editor # NoEditor
    BY <1>11 DEF CreateUser, NoEditor
  <2>2. editor \in NewForms
    BY <1>1, <2>1, EditorForms
  <2> PICK base \in SUBSET Assets : base = editor.base
    BY <2>2 DEF NewForms
  <2> PICK o \in Orgs : o = editor.org
    BY <2>2 DEF NewForms
  <2>3. PICK S \in SUBSET Assets :
          /\ Ask(c, [op |-> "newUser", step |-> "check", by |-> "page", org |-> o,
                     denied |-> Differing(base, base, S).denied,
                     named |-> Differing(base, base, S).named, all |-> base, shown |-> S])
          /\ editor' = [editor EXCEPT !.shown = S]
    BY <1>9, <1>11, <2>1 DEF CreateUser
  <2> PICK D \in SUBSET Assets : D = Differing(base, base, S).denied
    BY DEF Differing
  <2> PICK N \in SUBSET Assets : N = Differing(base, base, S).named
    BY DEF Differing
  <2>4. D \subseteq N
    BY DEF Differing
  <2> PICK k : k = [op |-> "newUser", step |-> "check", by |-> "page", org |-> o,
                    denied |-> D, named |-> N, all |-> base, shown |-> S]
    OBVIOUS
  <2>5. /\ k \in NewUserAsked /\ k.op = "newUser" /\ k.by = "page" /\ k.step = "check"
        /\ k.denied = D /\ k.named = N
    BY DEF NewUserAsked
  <2>6. Asking(k)
    BY <2>4, <2>5 DEF Asking, Consistent, Request, UserRequest
  <2>7. Ask(c, k)
    BY <2>3
  <2>8. Sent(c, "newUser", "page")
    BY <1>1, <2>5, <2>6, <2>7, SentSlot
  <2> QED
    BY <1>8, <1>11, <2>1, <2>3, <2>8 DEF CreateUser
<1> QED
  BY <1>5, <1>6, <1>7, <1>10, <1>11 DEF UserViewAsks

LEMMA Closes ==
  ASSUME ConsoleInv, CloseGroup \/ CloseUser
  PROVE  ConsoleInv'
<1>1. UNCHANGED <<rowVars, callVars, hashVars, pOrg, pAsset, pDevice, pItems, unseen>>
  BY DEF CloseGroup, CloseUser, fleetVars, pageVars
<1>2. UNCHANGED <<pUser, lists, options, chosen>>
  BY DEF CloseGroup, CloseUser, accessVars, CloseEditor
<1>3. TableOK'
  BY <1>1 DEF ConsoleInv, TableOK, RowsOK, OrgRows, AssetRows, DeviceRows, GroupRows,
     UserRows, Holding, At, MovedTo, rowVars, callVars
<1>4. SlotsOK' /\ CopyOK'
  BY <1>1, CopyKept DEF ConsoleInv, SlotsOK, callVars
<1>5. StoresOK'
  BY <1>1, <1>2 DEF ConsoleInv, StoresOK
<1>6. FormOK'
  BY FormKept DEF ConsoleInv, CloseGroup, CloseUser, pageVars, FormOK
<1>7. EditorOK' /\ RunsOK' /\ UsersFirst'
  <2>1. editor' = editor \/ editor' = NoEditor
    BY DEF CloseGroup, CloseUser, accessVars, CloseEditor
  <2>2. NoEditor.mode = "closed" /\ UNCHANGED call
    BY <1>1 DEF NoEditor, callVars
  <2> QED
    BY <1>2, <2>1, <2>2 DEF ConsoleInv, EditorOK, RunsOK, UsersFirst, Watching, Mine
<1> QED
  BY <1>3, <1>4, <1>5, <1>6, <1>7 DEF ConsoleInv

(* A slot no form waits for.                                               *)
LEMMA OtherSlot ==
  ASSUME SlotsOK, UsersFirst, RunsOK, EditorOK, NEW c \in Calls, OthersKept(c),
         UNCHANGED <<pUser, editor>>, ~Watching(call[c]),
         Mine(c)' => call'[c].op \notin ViewOps
  PROVE  UsersFirst' /\ RunsOK'
<1>1. \A e \in Calls \ {c} :
          /\ call'[e].op = call[e].op /\ call'[e].by = call[e].by
          /\ call[e].op \in {"options", "list"} => call'[e] = call[e]
          /\ Mine(e)' => Mine(e)
  BY OtherChanged DEF Mine, Idle
<1>2. UsersFirst'
  BY <1>1 DEF UsersFirst, ViewOps
<1>3. RunsOK'
  <2>1. SUFFICES ASSUME editor.mode = "edit", NEW x \in editor.runs
                 PROVE  Watching(call'[x])
    BY DEF RunsOK, Watching
  <2>2. Watching(call[x]) /\ x \in Calls /\ x # c
    BY <2>1, EditorRuns
  <2> QED
    BY <1>1, <2>2 DEF Watching
<1> QED
  BY <1>2, <1>3

-----------------------------------------------------------------------------
(* The access profile.                                                     *)

LEMMA LoadsPage ==
  ASSUME ConsoleInv, NEW c \in Calls, LoadPage(c)
  PROVE  ConsoleInv'
<1> PICK k : k = [op |-> "profile", step |-> "scope", by |-> "page", ids |-> {},
                  orgs |-> {}, assets |-> {}]
  OBVIOUS
<1>1. /\ Ask(c, k) /\ UNCHANGED <<rowVars, hashVars, form>>
      /\ TableOK /\ SlotsOK /\ CopyOK /\ FormOK
      /\ \A e \in Calls : ~Mine(e)
  BY DEF LoadPage, ConsoleInv
<1>2. k \in ProfileAsked /\ k.op = "profile" /\ k.step = "scope" /\ k.by = "page"
  BY DEF ProfileAsked
<1>3. Asking(k)
  BY <1>2 DEF Asking, Consistent, Request
<1>4. Sent(c, "profile", "page")
  BY <1>1, <1>2, <1>3, SentSlot
<1>5. StoresOK'
  BY DEF LoadPage, StoresOK, PageOrg, PageAsset
<1>6. UsersFirst'
  BY <1>1, <1>4 DEF LoadPage, UsersFirst, Sent, Mine
<1>7. EditorOK' /\ RunsOK'
  BY DEF LoadPage, EditorOK, RunsOK, NoEditor
<1> QED
  BY <1>1, <1>4, <1>5, <1>6, <1>7, CopyKept, FormKept DEF ConsoleInv, Sent

LEMMA ProfileSlot ==
  ASSUME SlotsOK, NEW c \in Calls, call[c].op = "profile", call[c].step # "answer"
  PROVE  Asking(call[c]) /\ call[c] \in ProfileAsked
<1>1. SlotOK(call[c])
  BY DEF SlotsOK
<1> QED
  BY <1>1, Kinds

LEMMA ShownRows ==
  ASSUME TableOK
  PROVE  /\ OrgShown \in [Orgs -> PageOrg] /\ AssetShown \in [Assets -> PageAsset]
         /\ ItemsShown \in [Groups -> Nat \cup {NoRow}]
         /\ \A a \in Assets : asset[a] = NoRow <=> AssetShown[a] = NoRow
         /\ Scope \subseteq Orgs
<1>1. OrgShown \in [Orgs -> PageOrg]
  BY DEF TableOK, RowsOK, OrgRow, OrgShown, PageOrg
<1>2. \A a \in Assets : Holds(a) \in SUBSET Devices
  BY DEF Holds, DeviceRows
<1>3. \A a \in Assets : asset[a] # NoRow =>
         [org |-> asset[a], held |-> Holds(a)] \in [org : Orgs, held : SUBSET Devices]
  BY <1>2 DEF TableOK, RowsOK
<1>4. /\ AssetShown \in [Assets -> PageAsset]
      /\ \A a \in Assets : asset[a] = NoRow <=> AssetShown[a] = NoRow
  BY <1>3, Apart DEF AssetShown, PageAsset
<1>5. ItemsShown \in [Groups -> Nat \cup {NoRow}]
  BY DEF TableOK, GroupRow, ItemsShown
<1>6. Scope \subseteq Orgs
  BY DEF Scope, Below, Under
<1> QED
  BY <1>1, <1>4, <1>5, <1>6

LEMMA ProfileReads ==
  ASSUME TableOK, SlotsOK, CopyOK, NEW c \in Calls,
         ReadScope(c) \/ ReadOrgInfo(c) \/ ReadAssets(c) \/ ReadDevices(c),
         UNCHANGED rowVars, unseen \subseteq Ids
  PROVE  /\ TableOK' /\ SlotsOK' /\ OthersKept(c) /\ unseen' \subseteq Ids
         /\ call[c].op = "profile" /\ call'[c].op \in {"profile", "none"}
<1>0. call[c].op = "profile" /\ call[c].step # "answer"
  BY DEF ReadScope, ReadOrgInfo, ReadAssets, ReadDevices, At
<1>1. Asking(call[c]) /\ call[c] \in ProfileAsked
  BY <1>0, ProfileSlot
<1>2. ASSUME NEW k, Goes(c, k), k \in ProfileAsked, k.op = "profile", Consistent(k)
      PROVE  /\ TableOK' /\ SlotsOK' /\ OthersKept(c)
             /\ call'[c].op \in {"profile", "none"}
  <2>1. Asking(k)
    BY <1>2 DEF Asking, Request
  <2> QED
    BY <1>2, <2>1, GoesOn DEF SlotOK, OthersKept
<1>3. CASE ReadScope(c)
  <2> PICK k : k = [call[c] EXCEPT !.step = "orgs", !.ids = Scope]
    OBVIOUS
  <2>1. k \in ProfileAsked /\ k.op = "profile" /\ k.step = "orgs"
    BY <1>0, <1>1, ShownRows DEF ProfileAsked
  <2>2. Consistent(k)
    BY <2>1 DEF Consistent
  <2>3. Goes(c, k)
    BY <1>3 DEF ReadScope
  <2>4. unseen' \subseteq Ids
    BY <1>3 DEF ReadScope, Ids, OrgRows, AssetRows, DeviceRows
  <2> QED
    BY <1>0, <1>2, <2>1, <2>2, <2>3, <2>4
<1>4. CASE ReadOrgInfo(c)
  <2> PICK orgs \in [Orgs -> PageOrg] :
           orgs = [o \in Orgs |-> IF o \in call[c].ids /\ hash[o] # NoRow THEN hash[o].parent
                                  ELSE NoRow]
    BY DEF CopyOK, HashTable, OrgRow, PageOrg
  <2> PICK k : k = [call[c] EXCEPT !.step = "assets", !.orgs = orgs]
    BY Zenon
  <2>1. k \in ProfileAsked /\ k.op = "profile" /\ k.step = "assets" /\ k.orgs = orgs
    BY Zenon, <1>0, <1>1 DEF ProfileAsked
  <2>2. Consistent(k)
    BY <2>1 DEF Consistent
  <2>3. Goes(c, k)
    BY <1>4 DEF ReadOrgInfo
  <2>4. unseen' \subseteq Ids
    BY <1>4 DEF ReadOrgInfo, Ids
  <2> QED
    BY <1>0, <1>2, <2>1, <2>2, <2>3, <2>4
<1>5. CASE ReadAssets(c)
  <2> PICK assets \in [Assets -> PageAsset] :
           assets = [a \in Assets |-> IF asset[a] \in call[c].ids THEN AssetShown[a]
                                      ELSE NoRow]
    BY ShownRows DEF PageAsset
  <2> PICK k : k = [call[c] EXCEPT !.step = "devices", !.assets = assets]
    BY Zenon
  <2>1. /\ k \in ProfileAsked /\ k.op = "profile" /\ k.step = "devices" /\ k.assets = assets
        /\ k.orgs = call[c].orgs
    BY Zenon, <1>0, <1>1 DEF ProfileAsked
  <2>2. Consistent(k)
    BY <1>0, <1>1, <1>5, <2>1 DEF Consistent, Asking, ReadAssets, At
  <2>3. Goes(c, k)
    BY <1>5 DEF ReadAssets
  <2>4. unseen' \subseteq Ids
    BY <1>5 DEF ReadAssets
  <2> QED
    BY <1>0, <1>2, <2>1, <2>2, <2>3, <2>4
<1>6. CASE ReadDevices(c)
  <2> PICK devices \in [Devices -> DevRow \cup {NoRow}] :
           devices = [d \in Devices |->
                      IF d \in DeviceRows /\ device[d].org \in call[c].ids
                      THEN device[d] ELSE NoRow]
    BY DEF TableOK, RowsOK
  <2> PICK b : b = [devices |-> devices, items |-> ItemsShown]
    OBVIOUS
  <2>1. Answers(c, b) /\ call[c].step = "devices"
    BY <1>6 DEF ReadDevices, At
  <2>2. b \in [devices : [Devices -> DevRow \cup {NoRow}], items : [Groups -> Nat \cup {NoRow}]]
    BY ShownRows
  <2>3. BodyOK(call[c].op, b)
    BY <1>0, <2>2 DEF BodyOK
  <2>5. /\ SlotsOK' /\ \A e \in Calls \ {c} : call'[e] = call[e]
        /\ call'[c] = Idle \/ (call'[c].step = "answer" /\ call'[c].op = call[c].op)
    BY <1>0, <1>1, <2>1, <2>3, AnsweredSlot
  <2>6. TableOK'
    BY <2>5, SameRows DEF At, Idle
  <2>7. unseen' \subseteq Ids
    BY <1>6 DEF ReadDevices
  <2> QED
    BY <1>0, <2>5, <2>6, <2>7 DEF OthersKept, Idle
<1> QED
  BY <1>3, <1>4, <1>5, <1>6

LEMMA ProfileSteps ==
  ASSUME ConsoleInv, NEW c \in Calls, Profile(c)
  PROVE  ConsoleInv'
<1>1. /\ UNCHANGED <<rowVars, hashVars, pOrg, pAsset, pDevice, pItems, form, accessVars>>
      /\ ReadScope(c) \/ ReadOrgInfo(c) \/ ReadAssets(c) \/ ReadDevices(c)
      /\ TableOK /\ SlotsOK /\ CopyOK /\ StoresOK /\ FormOK /\ EditorOK /\ RunsOK /\ UsersFirst
  BY DEF Profile, ConsoleInv
<1>2. /\ TableOK' /\ SlotsOK' /\ OthersKept(c) /\ unseen' \subseteq Ids
      /\ call[c].op = "profile" /\ call'[c].op \in {"profile", "none"}
  BY <1>1, ProfileReads DEF StoresOK
<1>3. UNCHANGED <<pUser, editor>>
  BY <1>1 DEF accessVars
<1>4. UsersFirst' /\ RunsOK'
  BY <1>1, <1>2, <1>3, OtherSlot DEF Watching, ViewOps
<1> QED
  BY <1>1, <1>2, <1>3, <1>4, CopyKept, StoresKept, FormKept, EditorKept DEF ConsoleInv

-----------------------------------------------------------------------------
(* A step of the API keeps the kind and the sender of its request.         *)

Stays(c) ==
    \/ call'[c] = Idle /\ call[c].by # "page"
    \/ /\ call'[c].op = call[c].op /\ call'[c].by = call[c].by
       /\ call[c].op = "options" => call'[c].step = "answer" /\ call'[c].asked = call[c]

LEMMA AnswersStays ==
  ASSUME SlotsOK, NEW c \in Calls, NEW b, Answers(c, b)
  PROVE  Stays(c)
<1>1. call[c].by = "page" =>
         call'[c] = [op |-> call[c].op, step |-> "answer", by |-> "page",
                     asked |-> call[c], body |-> b]
  BY DEF Answers, Goes, Sends, SlotsOK
<1>2. call[c].by # "page" => call'[c] = Idle
  BY DEF Answers, Goes, Sends, SlotsOK
<1> QED
  BY <1>1, <1>2 DEF Stays

LEMMA GoesStays ==
  ASSUME SlotsOK, NEW c \in Calls, NEW k, Goes(c, k), k.op = call[c].op, k.by = call[c].by,
         k.op # "options"
  PROVE  Stays(c)
  BY DEF Goes, Sends, Stays, SlotsOK

(* The request is answered, or goes on.                                    *)
Proceeds(c) ==
    \/ \E b : Answers(c, b)
    \/ \E k : Goes(c, k) /\ k.op = call[c].op /\ k.by = call[c].by /\ k.op # "options"

LEMMA ProceedsStays ==
  ASSUME SlotsOK, NEW c \in Calls, Proceeds(c)
  PROVE  Stays(c)
  BY AnswersStays, GoesStays DEF Proceeds

LEMMA RefuseProceeds ==
  ASSUME NEW c \in Calls
  PROVE  /\ Refuse(c) => Proceeds(c)
         /\ \A b : Answers(c, b) => Proceeds(c)
  BY DEF Refuse, Proceeds

LEMMA FleetStays ==
  ASSUME SlotsOK, NEW c \in Calls, FleetNext(c)
  PROVE  Stays(c) /\ call[c].op \in RowOps /\ call[c].step # "answer"
<1>0. call[c].step # "answer"
  BY Zenon DEF FleetNext, CheckNewAsset, InsertAsset, CheckAsset, MoveAsset, CommitAsset,
     DeleteAssets, CheckNewDevice, InsertDevice, CheckDevice, WriteDevice, CheckNoDevices,
     DeleteDevices,
     At
<1>1. CASE CheckNewAsset(c)
  <2>1. call[c] \in NewAssetAsked /\ call[c].op = "newAsset"
    BY <1>1, FleetSlot DEF CheckNewAsset, At, RowOps
  <2>2. Goes(c, [call[c] EXCEPT !.step = "insert"]) => Proceeds(c)
    BY <2>1 DEF Proceeds, NewAssetAsked
  <2>3. Proceeds(c)
    BY <1>1, <2>2, RefuseProceeds DEF CheckNewAsset
  <2> QED
    BY <1>0, <2>1, <2>3, ProceedsStays DEF RowOps
<1>2. CASE CheckAsset(c)
  <2>1. call[c] \in AssetAsked /\ call[c].op = "asset"
    BY <1>2, FleetSlot DEF CheckAsset, At, RowOps
  <2> PICK k : k = [call[c] EXCEPT !.step = "write", !.was = asset[call[c].id]]
    OBVIOUS
  <2>4. k.op = "asset" /\ k.by = call[c].by
    BY <2>1 DEF AssetAsked
  <2>2. Goes(c, k) => Proceeds(c)
    BY <2>1, <2>4 DEF Proceeds
  <2>3. Proceeds(c)
    BY <1>2, <2>2, RefuseProceeds DEF CheckAsset
  <2> QED
    BY <1>0, <2>1, <2>3, ProceedsStays DEF RowOps
<1>3. CASE CheckNewDevice(c)
  <2>1. call[c] \in NewDeviceAsked /\ call[c].op = "newDevice"
    BY <1>3, FleetSlot DEF CheckNewDevice, At, RowOps
  <2>2. Goes(c, [call[c] EXCEPT !.step = "insert"]) => Proceeds(c)
    BY <2>1 DEF Proceeds, NewDeviceAsked
  <2>3. Proceeds(c)
    BY <1>3, <2>2, RefuseProceeds DEF CheckNewDevice
  <2> QED
    BY <1>0, <2>1, <2>3, ProceedsStays DEF RowOps
<1>4. CASE CheckDevice(c)
  <2>1. call[c] \in DeviceAsked /\ call[c].op = "device"
    BY <1>4, FleetSlot DEF CheckDevice, At, RowOps
  <2>2. Goes(c, [call[c] EXCEPT !.step = "write"]) => Proceeds(c)
    BY <2>1 DEF Proceeds, DeviceAsked
  <2>3. Proceeds(c)
    BY <1>4, <2>2, RefuseProceeds DEF CheckDevice
  <2> QED
    BY <1>0, <2>1, <2>3, ProceedsStays DEF RowOps
<1>5. CASE CheckNoDevices(c)
  <2>1. call[c] \in NoDevicesAsked /\ call[c].op = "noDevices"
    BY <1>5, FleetSlot DEF CheckNoDevices, At, RowOps
  <2>2. Goes(c, [call[c] EXCEPT !.step = "delete"]) => Proceeds(c)
    BY <2>1 DEF Proceeds, NoDevicesAsked
  <2>3. Proceeds(c)
    BY <1>5, <2>2, RefuseProceeds DEF CheckNoDevices
  <2> QED
    BY <1>0, <2>1, <2>3, ProceedsStays DEF RowOps
<1>6. CASE MoveAsset(c)
  <2>1. call[c] \in AssetAsked /\ call[c].op = "asset"
    BY <1>6, FleetSlot DEF MoveAsset, At, RowOps
  <2> DEFINE h == Set(call[c].id, call[c].dev)
             l == {call[c].id, MovedTo(call[c])} \cup (Holds(call[c].id) \ h)
                      \cup (h \ Holds(call[c].id))
  <2> PICK k : k = [call[c] EXCEPT !.step = "commit", !.held = h, !.locks = l]
    OBVIOUS
  <2>4. k.op = "asset" /\ k.by = call[c].by
    BY <2>1 DEF AssetAsked
  <2>2. Goes(c, k) => Proceeds(c)
    BY <2>1, <2>4 DEF Proceeds
  <2>3. Proceeds(c)
    BY <1>6, <2>2, RefuseProceeds DEF MoveAsset
  <2> QED
    BY <1>0, <2>1, <2>3, ProceedsStays DEF RowOps
<1>7. CASE InsertAsset(c) \/ CommitAsset(c) \/ DeleteAssets(c)
  <2>1. call[c].op \in RowOps
    BY <1>7 DEF InsertAsset, CommitAsset, DeleteAssets, At, RowOps
  <2>2. Proceeds(c)
    BY <1>7, RefuseProceeds DEF InsertAsset, CommitAsset, DeleteAssets
  <2> QED
    BY <1>0, <2>1, <2>2, ProceedsStays
<1>8. CASE InsertDevice(c) \/ WriteDevice(c) \/ DeleteDevices(c)
  <2>1. call[c].op \in RowOps
    BY <1>8 DEF InsertDevice, WriteDevice, DeleteDevices, At, RowOps
  <2>2. Proceeds(c)
    BY <1>8, RefuseProceeds DEF InsertDevice, WriteDevice, DeleteDevices
  <2> QED
    BY <1>0, <2>1, <2>2, ProceedsStays
<1> QED
  BY <1>0, <1>1, <1>2, <1>3, <1>4, <1>5, <1>6, <1>7, <1>8 DEF FleetNext

LEMMA TreeStays ==
  ASSUME SlotsOK, NEW c \in Calls, OrgNext(c)
  PROVE  Stays(c) /\ call[c].op \in TreeOps /\ call[c].step # "answer"
<1>0. call[c].step # "answer"
  BY DEF OrgNext, CheckNewOrg, InsertOrg, HashNewOrg, HashNewOrgFails, CheckOrg, WriteOrg,
     CheckNoOrgs, DeleteOrgs,
     At
<1>1. CASE CheckNewOrg(c)
  <2>1. call[c] \in NewOrgAsked /\ call[c].op = "newOrg"
    BY <1>1, TreeSlot DEF CheckNewOrg, At, TreeOps
  <2>2. Goes(c, [call[c] EXCEPT !.step = "insert"]) => Proceeds(c)
    BY <2>1 DEF Proceeds, NewOrgAsked
  <2>3. Proceeds(c)
    BY <1>1, <2>2, RefuseProceeds DEF CheckNewOrg
  <2> QED
    BY <1>0, <2>1, <2>3, ProceedsStays DEF TreeOps
<1>2. CASE InsertOrg(c)
  <2>1. call[c].op = "newOrg"
    BY <1>2 DEF InsertOrg, At
  <2>2. \A p, o, r : Goes(c, [op |-> "newOrg", step |-> "hadd", by |-> call[c].by,
                             parent |-> p, id |-> o, row |-> r]) => Proceeds(c)
    BY <2>1 DEF Proceeds
  <2>3. Proceeds(c)
    BY <1>2, <2>2, RefuseProceeds DEF InsertOrg
  <2> QED
    BY <1>0, <2>1, <2>3, ProceedsStays DEF TreeOps
<1>3. CASE CheckOrg(c)
  <2>1. call[c] \in OrgAsked /\ call[c].op = "org"
    BY <1>3, TreeSlot DEF CheckOrg, At, TreeOps
  <2>2. Goes(c, [call[c] EXCEPT !.step = "write"]) => Proceeds(c)
    BY <2>1 DEF Proceeds, OrgAsked
  <2>3. Proceeds(c)
    BY <1>3, <2>2, RefuseProceeds DEF CheckOrg
  <2> QED
    BY <1>0, <2>1, <2>3, ProceedsStays DEF TreeOps
<1>4. CASE CheckNoOrgs(c)
  <2>1. call[c] \in NoOrgsAsked /\ call[c].op = "noOrgs"
    BY <1>4, TreeSlot DEF CheckNoOrgs, At, TreeOps
  <2>2. Goes(c, [call[c] EXCEPT !.step = "delete"]) => Proceeds(c)
    BY <2>1 DEF Proceeds, NoOrgsAsked
  <2>3. Proceeds(c)
    BY <1>4, <2>2, RefuseProceeds DEF CheckNoOrgs
  <2> QED
    BY <1>0, <2>1, <2>3, ProceedsStays DEF TreeOps
<1>5. CASE HashNewOrg(c) \/ HashNewOrgFails(c) \/ WriteOrg(c) \/ DeleteOrgs(c)
  <2>1. call[c].op \in TreeOps
    BY <1>5 DEF HashNewOrg, HashNewOrgFails, WriteOrg, DeleteOrgs, At, TreeOps
  <2>2. Proceeds(c)
    BY <1>5, RefuseProceeds DEF HashNewOrg, HashNewOrgFails, WriteOrg, DeleteOrgs
  <2> QED
    BY <1>0, <2>1, <2>2, ProceedsStays
<1> QED
  BY <1>0, <1>1, <1>2, <1>3, <1>4, <1>5 DEF OrgNext

LEMMA GroupStays ==
  ASSUME SlotsOK, NEW c \in Calls, GroupNext(c)
  PROVE  Stays(c) /\ call[c].op \in GroupOps /\ call[c].step # "answer"
<1>0. call[c].step # "answer"
  BY Zenon DEF GroupNext, InsertGroup, ReadItems, DeleteMembers, CommitGroup, DeleteGroups,
     At
<1>1. CASE DeleteMembers(c)
  <2>1. call[c] \in GroupAsked /\ call[c].op = "group"
    BY <1>1, GroupSlot DEF DeleteMembers, At, GroupOps
  <2> PICK k : k = [call[c] EXCEPT !.step = "commit", !.doomed = Deleted(call[c].id)]
    OBVIOUS
  <2>4. k.op = "group" /\ k.by = call[c].by
    BY <2>1 DEF GroupAsked
  <2>2. Goes(c, k) => Proceeds(c)
    BY <2>1, <2>4 DEF Proceeds
  <2>3. Proceeds(c)
    BY <1>1, <2>2, RefuseProceeds DEF DeleteMembers
  <2> QED
    BY <1>0, <2>1, <2>3, ProceedsStays DEF GroupOps
<1>2. CASE InsertGroup(c) \/ ReadItems(c) \/ DeleteGroups(c)
  <2>1. call[c].op \in GroupOps
    BY <1>2 DEF InsertGroup, ReadItems, DeleteGroups, At, GroupOps
  <2>2. Proceeds(c)
    BY <1>2, RefuseProceeds DEF InsertGroup, ReadItems, DeleteGroups
  <2> QED
    BY <1>0, <2>1, <2>2, ProceedsStays
<1>3. CASE CommitGroup(c)
  <2>1. call[c].op = "group"
    BY Zenon, <1>3 DEF CommitGroup, At
  <2>2. CASE Proceeds(c)
    BY <1>0, <2>1, <2>2, ProceedsStays DEF GroupOps
  <2>3. CASE ~Proceeds(c)
    <3> DEFINE k == call[c]
    <3>1. ~Refuse(c) /\ \A b : ~Answers(c, b)
      BY <2>3, RefuseProceeds
    <3>2. call'[c] = IF k.by = "page"
                     THEN [op |-> "group", step |-> "answer", by |-> "page", asked |-> k,
                           body |-> [id |-> k.id, items |-> Cardinality(k.members)]]
                     ELSE Idle
      BY Zenon, <1>3, <3>1 DEF CommitGroup
    <3> QED
      BY <1>0, <2>1, <3>2 DEF Stays, GroupOps
  <2> QED
    BY <2>2, <2>3
<1> QED
  BY <1>0, <1>1, <1>2, <1>3 DEF GroupNext

LEMMA UserStays ==
  ASSUME SlotsOK, NEW c \in Calls, AccessNext(c)
  PROVE  Stays(c) /\ call[c].op \in UserOps /\ call[c].step # "answer"
<1>0. call[c].step # "answer"
  BY DEF AccessNext, ReadUsers, ReadOptions, ReadDenied, ReadList, CheckAccess, WriteAccess,
     CommitAccess, CheckNewUser, InsertUser, CheckNoUsers, DeleteUsers, At
<1>1. CASE ReadDenied(c)
  <2>1. call[c] \in ListAsked \cup AccessAsked \cup AccessSaved /\ call[c].op \in {"list", "access"}
    BY <1>1, UserSlot DEF ReadDenied, At, UserOps
  <2> PICK k : k = [call[c] EXCEPT !.step = "assets", !.row = user[call[c].id]]
    OBVIOUS
  <2>4. k.op = call[c].op /\ k.by = call[c].by
    BY <2>1 DEF ListAsked, AccessAsked, AccessSaved
  <2>2. Goes(c, k) => Proceeds(c)
    BY <2>1, <2>4 DEF Proceeds
  <2>3. Proceeds(c)
    BY <1>1, <2>2, RefuseProceeds DEF ReadDenied
  <2> QED
    BY <1>0, <2>1, <2>3, ProceedsStays DEF UserOps
<1>2. CASE CheckAccess(c) \/ WriteAccess(c)
  <2>1. call[c] \in AccessAsked \cup AccessSaved /\ call[c].op = "access"
    BY <1>2, UserSlot DEF CheckAccess, WriteAccess, At, UserOps
  <2>2. ASSUME NEW s, NEW L, NEW k, Goes(c, k),
               \/ k = [call[c] EXCEPT !.step = s]
               \/ k = [call[c] EXCEPT !.step = s, !.locks = L]
        PROVE  Proceeds(c)
    <3>1. k.op = call[c].op /\ k.by = call[c].by /\ k.op # "options"
      BY <2>1, <2>2 DEF AccessAsked, AccessSaved
    <3>2. QED
      BY <2>2, <3>1 DEF Proceeds
  <2>3. Proceeds(c)
    BY <1>2, <2>2, RefuseProceeds DEF CheckAccess, WriteAccess
  <2> QED
    BY <1>0, <2>1, <2>3, ProceedsStays DEF UserOps
<1>6. CASE CommitAccess(c)
  <2>1. call[c] \in AccessAsked \cup AccessSaved /\ call[c].op = "access"
    BY <1>6, UserSlot DEF CommitAccess, At, UserOps
  <2>2. CASE Refuse(c)
    BY <1>0, <2>1, <2>2, RefuseProceeds, ProceedsStays DEF UserOps
  <2>3. CASE ~Refuse(c)
    <3> PICK n : n = [call[c] EXCEPT !.step = "denied"]
      OBVIOUS
    <3>1. n.op = call[c].op /\ n.by = call[c].by /\ n.step = "denied"
      BY <2>1 DEF AccessAsked, AccessSaved
    <3>2. call'[c] = n
      BY <1>6, <2>3 DEF CommitAccess
    <3> QED
      BY <1>0, <2>1, <3>1, <3>2 DEF Stays, UserOps
  <2> QED
    BY <2>2, <2>3
<1>3. CASE CheckNewUser(c)
  <2>1. call[c] \in NewUserAsked /\ call[c].op = "newUser"
    BY <1>3, UserSlot DEF CheckNewUser, At, UserOps
  <2>2. Goes(c, [call[c] EXCEPT !.step = "insert"]) => Proceeds(c)
    BY <2>1 DEF Proceeds, NewUserAsked
  <2>3. Proceeds(c)
    BY <1>3, <2>2, RefuseProceeds DEF CheckNewUser
  <2> QED
    BY <1>0, <2>1, <2>3, ProceedsStays DEF UserOps
<1>4. CASE CheckNoUsers(c)
  <2>1. call[c] \in NoUsersAsked /\ call[c].op = "noUsers"
    BY <1>4, UserSlot DEF CheckNoUsers, At, UserOps
  <2>2. Goes(c, [call[c] EXCEPT !.step = "delete"]) => Proceeds(c)
    BY <2>1 DEF Proceeds, NoUsersAsked
  <2>3. Proceeds(c)
    BY <1>4, <2>2, RefuseProceeds DEF CheckNoUsers
  <2> QED
    BY <1>0, <2>1, <2>3, ProceedsStays DEF UserOps
<1>5. CASE ReadUsers(c) \/ ReadOptions(c) \/ ReadList(c) \/ InsertUser(c) \/ DeleteUsers(c)
  <2>1. call[c].op \in UserOps
    BY <1>5 DEF ReadUsers, ReadOptions, ReadList, InsertUser, DeleteUsers, At, UserOps
  <2>2. Proceeds(c)
    BY <1>5, RefuseProceeds DEF ReadUsers, ReadOptions, ReadList, InsertUser, DeleteUsers
  <2> QED
    BY <1>0, <2>1, <2>2, ProceedsStays
<1> QED
  BY <1>0, <1>1, <1>2, <1>3, <1>4, <1>5, <1>6 DEF AccessNext

(* What the forms of users wait for, after a step of the API.              *)
LEMMA ServedSlot ==
  ASSUME SlotsOK, UsersFirst, RunsOK, EditorOK, NEW c \in Calls, OthersKept(c), Stays(c),
         UNCHANGED <<pUser, editor>>, call[c].step # "answer"
  PROVE  UsersFirst' /\ RunsOK'
<1>1. CASE ~Watching(call[c]) /\ (Mine(c) => call[c].op \notin ViewOps)
  <2>1. Mine(c)' => call'[c].op \notin ViewOps
    BY <1>1 DEF Stays, Mine, Idle, ViewOps
  <2> QED
    BY <1>1, <2>1, OtherSlot
<1>2. CASE Watching(call[c]) \/ (Mine(c) /\ call[c].op \in ViewOps)
  <2>1. Mine(c) /\ call[c].op \in ViewOps
    BY <1>2 DEF Watching, Mine, ViewOps, Idle
  <2>2. pUser # NoRow /\ pUser' # NoRow
    BY <2>1 DEF UsersFirst, ViewOps
  <2>3. UsersFirst'
    BY <2>2 DEF UsersFirst
  <2>4. RunsOK'
    <3>1. SUFFICES ASSUME editor.mode = "edit", NEW x \in editor.runs
                   PROVE  Watching(call'[x])
      BY DEF RunsOK, Watching
    <3>2. Watching(call[x]) /\ x \in Calls
      BY <3>1, EditorRuns
    <3>3. CASE x = c
      BY <3>2, <3>3 DEF Stays, Watching
    <3>4. CASE x # c
      BY <3>2, <3>4 DEF OthersKept, Watching, At
    <3> QED
      BY <3>3, <3>4
  <2> QED
    BY <2>3, <2>4
<1> QED
  BY <1>1, <1>2

LEMMA ServesSteps ==
  ASSUME ConsoleInv, NEW c \in Calls, Serves(c)
  PROVE  ConsoleInv'
<1>1. /\ UNCHANGED <<pOrg, pAsset, pDevice, pItems, accessVars>>
      /\ TableOK /\ SlotsOK /\ CopyOK /\ StoresOK /\ FormOK /\ EditorOK /\ RunsOK /\ UsersFirst
  BY DEF Serves, ConsoleInv
<1>2. /\ TableOK' /\ SlotsOK' /\ CopyOK' /\ OthersKept(c) /\ Stays(c)
      /\ call[c].step # "answer"
  <2>1. CASE FleetNext(c) /\ UNCHANGED <<hashVars, mixed>>
    BY <1>1, <2>1, FleetServed, FleetStays, CopyKept DEF OthersKept
  <2>2. CASE OrgNext(c)
    BY <1>1, <2>2, TreeServed, TreeStays DEF OthersKept
  <2>3. CASE GroupNext(c) /\ UNCHANGED <<raced, hashVars>>
    BY <1>1, <2>3, GroupServed, GroupStays, CopyKept
  <2>4. CASE AccessNext(c) /\ UNCHANGED <<raced, hashVars, mixed>>
    BY <1>1, <2>4, UserServed, UserStays, CopyKept DEF OthersKept
  <2> QED
    BY <2>1, <2>2, <2>3, <2>4 DEF Serves
<1>3. unseen' \subseteq Ids
  <2>1. Changed \subseteq Ids /\ Touched \subseteq Ids
    BY DEF Changed, Touched, Ids
  <2>2. {u \in UserRows : user[u].org \notin Scope} \subseteq Ids
    BY DEF UserRows, Ids
  <2>3. At(c, "newOrg", "hadd") => call[c].id \in Ids
    <3>1. At(c, "newOrg", "hadd") => call[c] \in NewOrgStored
      BY <1>1, TreeSlot DEF At, TreeOps
    <3> QED
      BY <3>1 DEF NewOrgStored, Ids
  <2> QED
    BY <1>1, <2>1, <2>2, <2>3 DEF Serves, StoresOK
<1>4. StoresOK' /\ EditorOK'
  BY <1>1, <1>3, StoresKept, EditorKept DEF accessVars
<1>5. FormOK'
  <2>1. \/ form' = form
        \/ form # Closed /\ \E b \in BOOLEAN : form' = [form EXCEPT !.clean = b]
    BY DEF Serves
  <2> QED
    BY <1>1, <2>1 DEF FormOK
<1>6. UsersFirst' /\ RunsOK'
  BY <1>1, <1>2, ServedSlot DEF accessVars
<1> QED
  BY <1>2, <1>4, <1>5, <1>6 DEF ConsoleInv

-----------------------------------------------------------------------------
(* The answer of a request reaches its view.                               *)

LEMMA AnswerSlot ==
  ASSUME SlotsOK, NEW c \in Calls, call[c].step = "answer"
  PROVE  /\ Answering(call[c]) /\ call[c].by = "page" /\ call[c] # Idle
         /\ call[c].body # Refused => BodyOK(call[c].op, call[c].body)
         /\ Asking(call[c].asked) /\ call[c].asked.op = call[c].op /\ call[c].asked.by = "page"
         /\ call[c].asked.step # "answer" /\ call[c].asked.op # "none"
<1>1. SlotOK(call[c]) /\ call[c] # Idle
  BY DEF SlotsOK, Idle
<1>2. \A k : Asking(k) => k.step # "answer" /\ k.op # "none"
  <2> SUFFICES ASSUME NEW k, Asking(k) PROVE k.step # "answer" /\ k.op # "none"
    OBVIOUS
  <2>1. \/ k \in RowRequest \/ k \in TreeRequest \/ k \in GroupRequest \/ k \in UserRequest
        \/ k \in ProfileAsked
    BY DEF Asking, Request
  <2>2. CASE k \in RowRequest
    BY <2>2, RowKinds DEF RowOps
  <2>3. CASE k \in TreeRequest
    BY <2>3, TreeKinds DEF TreeOps
  <2>4. CASE k \in GroupRequest
    BY <2>4, GroupKinds DEF GroupOps
  <2>5. CASE k \in UserRequest
    BY <2>5, UserKinds DEF UserOps
  <2>6. CASE k \in ProfileAsked
    BY <2>6 DEF ProfileAsked
  <2> QED
    BY <2>1, <2>2, <2>3, <2>4, <2>5, <2>6
<1>3. Answering(call[c])
  BY <1>1, <1>2 DEF SlotOK
<1>4. call[c].by = "page"
  BY <1>3 DEF Answering
<1> QED
  BY <1>1, <1>2, <1>3, <1>4 DEF Answering

LEMMA AskedFor ==
  ASSUME NEW k, Asking(k)
  PROVE  /\ k.op \in RowOps => k \in RowRequest
         /\ k.op \in TreeOps => k \in TreeRequest
         /\ k.op \in GroupOps => k \in GroupRequest
         /\ k.op \in UserOps => k \in UserRequest
         /\ k.op = "profile" => k \in ProfileAsked
<1>1. k \in RowRequest \/ k \in TreeRequest \/ k \in GroupRequest \/ k \in UserRequest
        \/ k \in ProfileAsked
  BY DEF Asking, Request
<1>2. /\ k \in RowRequest => k.op \in RowOps
      /\ k \in TreeRequest => k.op \in TreeOps
      /\ k \in GroupRequest => k.op \in GroupOps
      /\ k \in UserRequest => k.op \in UserOps
      /\ k \in ProfileAsked => k.op = "profile"
  BY RowKinds, TreeKinds, GroupKinds, UserKinds DEF ProfileAsked
<1> QED
  BY <1>1, <1>2 DEF RowOps, TreeOps, GroupOps, UserOps

(* The slot is free again.                                                 *)
LEMMA Freed ==
  ASSUME TableOK, SlotsOK, UsersFirst, RunsOK, EditorOK, NEW c \in Calls, Sends(c, Idle),
         UNCHANGED <<rowVars, pUser, editor>>, ~Watching(call[c])
  PROVE  TableOK' /\ SlotsOK' /\ UsersFirst' /\ RunsOK' /\ EditorOK'
<1>1. /\ SlotsOK' /\ call'[c] = Idle
      /\ \A e \in Calls \ {c} : call'[e] = call[e]
  BY IdleSlot, OneSlot
<1>2. TableOK'
  BY <1>1, SameRows DEF At, Idle
<1>3. UsersFirst' /\ RunsOK'
  BY <1>1, OtherSlot DEF OthersKept, Mine
<1> QED
  BY <1>1, <1>2, <1>3, EditorKept

(* An answer that patches the stores of rows.                              *)
LEMMA Patched ==
  ASSUME ConsoleInv, NEW c \in Calls, Sends(c, Idle), call[c].op \notin {"options", "list"},
         UNCHANGED <<rowVars, accessVars>>,
         CopyOK', FormOK', unseen' \subseteq Ids, pOrg' \in [Orgs -> PageOrg],
         pAsset' \in [Assets -> PageAsset], pDevice' \in [Devices -> DevRow \cup {NoRow}],
         pItems' \in [Groups -> Nat \cup {NoRow}]
  PROVE  ConsoleInv'
<1>1. UNCHANGED <<pUser, lists, options, chosen, editor>>
  BY DEF accessVars
<1>2. StoresOK'
  BY <1>1 DEF ConsoleInv, StoresOK
<1>3. TableOK' /\ SlotsOK' /\ UsersFirst' /\ RunsOK' /\ EditorOK'
  BY <1>1, Freed DEF ConsoleInv, Watching
<1> QED
  BY <1>2, <1>3 DEF ConsoleInv

-----------------------------------------------------------------------------
(* The stores of rows.                                                     *)

DevStores ==
    {f \in [Devices -> DevRow \cup {NoRow}] : \A d \in pDevices : f[d] # NoRow}

LEMMA LinkedStore ==
  ASSUME NEW f \in DevStores, NEW d, NEW a \in Assets \cup {None}
  PROVE  Linked(f, d, a) \in DevStores
<1>1. CASE d \in pDevices
  <2>1. PICK row \in DevRow : row = f[d]
    BY <1>1 DEF DevStores, pDevices
  <2>2. [row EXCEPT !.asset = a] \in DevRow
    BY DEF DevRow
  <2>3. [row EXCEPT !.asset = a] # NoRow
    BY <2>2, Apart
  <2> QED
    BY <1>1, <2>1, <2>2, <2>3 DEF Linked, DevStores, pDevices
<1> QED
  BY <1>1 DEF Linked

LEMMA MovedStore ==
  ASSUME NEW f \in DevStores, NEW d, NEW o \in Orgs
  PROVE  Moved(f, d, o) \in DevStores
<1>1. CASE d \in pDevices
  <2>1. PICK row \in DevRow : row = f[d]
    BY <1>1 DEF DevStores, pDevices
  <2>2. [row EXCEPT !.org = o] \in DevRow
    BY DEF DevRow
  <2>3. [row EXCEPT !.org = o] # NoRow
    BY <2>2, Apart
  <2> QED
    BY <1>1, <2>1, <2>2, <2>3 DEF Moved, DevStores, pDevices
<1> QED
  BY <1>1 DEF Moved

LEMMA PageStore ==
  ASSUME StoresOK
  PROVE  pDevice \in DevStores
  BY DEF StoresOK, DevStores, pDevices

(* What an answer leaves alone besides the stores.                         *)
LEMMA AnsweredFrame ==
  ASSUME ConsoleInv, NEW c \in Calls, NEW op, Answered(c, op)
  PROVE  /\ Sends(c, Idle) /\ UNCHANGED <<rowVars, accessVars>> /\ CopyOK'
         /\ call[c].op = op /\ BodyOK(op, call[c].body)
         /\ Answering(call[c]) /\ Asking(call[c].asked)
         /\ call[c].asked.op = op /\ call[c].asked.by = "page"
<1>1. call[c].step = "answer" /\ call[c].op = op /\ call[c].body # Refused
  BY DEF Answered, Arrived, At
<1>2. SlotsOK /\ CopyOK
  BY DEF ConsoleInv
<1> QED
  BY <1>1, <1>2, AnswerSlot, CopyKept DEF Answered, Goes

LEMMA AssetAnswers ==
  ASSUME ConsoleInv, NEW c \in Calls, ApplyNewAsset(c) \/ ApplyAsset(c)
  PROVE  ConsoleInv'
<1>1. /\ StoresOK /\ FormOK
  BY DEF ConsoleInv
<1>2. PICK op \in {"newAsset", "asset"} : Answered(c, op)
  BY DEF ApplyNewAsset, ApplyAsset
<1>3. /\ Sends(c, Idle) /\ UNCHANGED <<rowVars, accessVars>> /\ CopyOK'
      /\ call[c].op = op /\ BodyOK(op, call[c].body)
      /\ Asking(call[c].asked) /\ call[c].asked.op = op
  BY <1>2, AnsweredFrame
<1> PICK b \in [id : Assets, org : Orgs, held : SUBSET Devices] : b = call[c].body
  BY <1>2, <1>3 DEF BodyOK
<1>4. /\ pAsset' = [pAsset EXCEPT ![b.id] = [org |-> b.org, held |-> b.held]]
      /\ UNCHANGED <<pOrg, pItems, form>>
  BY DEF ApplyNewAsset, ApplyAsset
<1>5. pAsset' \in [Assets -> PageAsset]
  BY <1>1, <1>4 DEF StoresOK, PageAsset
<1>6. FormOK' /\ pOrg' \in [Orgs -> PageOrg] /\ pItems' \in [Groups -> Nat \cup {NoRow}]
  BY <1>1, <1>4, FormKept DEF StoresOK
<1>7. \A first : Added(b, first) \in DevStores
  BY <1>1, PageStore, LinkedStore DEF Added
<1>8. pDevice' \in DevStores /\ unseen' \subseteq Ids
  <2>1. CASE ApplyNewAsset(c)
    <3>1. pDevice' \in DevStores
      BY <1>7, <2>1 DEF ApplyNewAsset
    <3> QED
      BY <1>1, <2>1, <3>1 DEF ApplyNewAsset, StoresOK
  <2>2. CASE ApplyAsset(c)
    <3> DEFINE k == call[c].asked
    <3>1. k \in AssetAsked
      <4>1. call[c].op = "asset"
        BY Zenon, <2>2 DEF ApplyAsset, Answered, Arrived, At
      <4> QED
        BY <1>3, <4>1, AskedFor, RowKinds DEF RowOps
    <3>2. PICK first \in Firsts(b.held), old \in Firsts(pAsset[b.id].held) :
            LET linked  == IF k.dev \in Devices THEN Linked(Added(b, first), k.dev, b.id)
                           ELSE Added(b, first)
                swapped == IF k.dev = Keep \/ old = k.dev THEN linked
                           ELSE Unlinked(linked, old)
            IN  pDevice' = IF k.org = Keep THEN swapped ELSE Moved(swapped, first, k.org)
      BY Zenon, <2>2 DEF ApplyAsset
    <3>3. PICK linked : linked = (IF k.dev \in Devices
                                  THEN Linked(Added(b, first), k.dev, b.id)
                                  ELSE Added(b, first))
      OBVIOUS
    <3>4. linked \in DevStores
      BY <1>7, <3>3, LinkedStore
    <3>5. PICK swapped : swapped = (IF k.dev = Keep \/ old = k.dev THEN linked
                                    ELSE Unlinked(linked, old))
      OBVIOUS
    <3>6. swapped \in DevStores
      BY <3>4, <3>5, LinkedStore DEF Unlinked
    <3>7. pDevice' = IF k.org = Keep THEN swapped ELSE Moved(swapped, first, k.org)
      BY <3>2, <3>3, <3>5
    <3>8. pDevice' \in DevStores
      BY <3>1, <3>6, <3>7, MovedStore DEF AssetAsked
    <3>9. unseen' \subseteq Ids
      BY Zenon, <1>1, <2>2 DEF ApplyAsset, Several, Ids, StoresOK
    <3> QED
      BY <3>8, <3>9
  <2> QED
    BY <2>1, <2>2
<1> QED
  BY <1>2, <1>3, <1>5, <1>6, <1>8, Patched DEF DevStores

LEMMA DropsAssets ==
  ASSUME ConsoleInv, NEW c \in Calls, ApplyNoAssets(c)
  PROVE  ConsoleInv'
<1>1. /\ StoresOK /\ FormOK /\ SlotsOK /\ CopyOK
  BY DEF ConsoleInv
<1>2. /\ call[c].op = "noAssets" /\ call[c].step = "answer"
      /\ Sends(c, Idle) /\ UNCHANGED <<rowVars, hash, jobs, sync, pOrg, pItems, form, accessVars>>
  BY DEF ApplyNoAssets, At, Goes
<1> PICK S \in SUBSET Assets : S = call[c].body
  BY <1>1, <1>2, AnswerSlot DEF Answering, BodyOK
<1>3. \/ Dropped(S) /\ UNCHANGED <<failures, unseen>>
      \/ Fails /\ \E T \in (SUBSET S) \ {{}} :
           /\ Dropped(T)
           /\ unseen' = unseen \cup ((S \ T) \cup UNION {pAsset[a].held :
                                                        a \in (S \ T) \cap pAssets})
  BY DEF ApplyNoAssets
<1>4. ASSUME NEW T \in SUBSET Assets, Dropped(T)
      PROVE  /\ pAsset' \in [Assets -> PageAsset]
             /\ pDevice' \in [Devices -> DevRow \cup {NoRow}]
  <2>1. pAsset' \in [Assets -> PageAsset]
    BY <1>1, <1>4 DEF Dropped, StoresOK, PageAsset
  <2>2. \A d : Linked(pDevice, d, None) \in [Devices -> DevRow \cup {NoRow}]
    BY <1>1, PageStore, LinkedStore DEF DevStores
  <2>3. pDevice \in [Devices -> DevRow \cup {NoRow}]
    BY <1>1 DEF StoresOK
  <2>4. pDevice' = [d \in Devices |->
                    IF \E a \in T : d \in pAsset[a].held
                    THEN Linked(pDevice, d, None)[d] ELSE pDevice[d]]
    BY <1>4 DEF Dropped
  <2>5. ASSUME NEW d \in Devices
        PROVE  Linked(pDevice, d, None)[d] \in DevRow \cup {NoRow}
               /\ pDevice[d] \in DevRow \cup {NoRow}
    BY <2>2, <2>3
  <2> QED
    BY <2>1, <2>4, <2>5
<1>5. \A a \in pAssets : pAsset[a].held \subseteq Devices
  BY <1>1 DEF pAssets, StoresOK, PageAsset
<1>6. /\ pAsset' \in [Assets -> PageAsset]
      /\ pDevice' \in [Devices -> DevRow \cup {NoRow}]
      /\ unseen' \subseteq Ids
      /\ failures' = failures \/ Fails
  BY <1>1, <1>3, <1>4, <1>5 DEF Ids, StoresOK
<1>7. CopyOK'
  BY <1>1, <1>2, <1>6, FailsOnce DEF CopyOK
<1> QED
  BY <1>1, <1>2, <1>6, <1>7, FormKept, Patched DEF StoresOK

LEMMA DeviceAnswers ==
  ASSUME ConsoleInv, NEW c \in Calls, ApplyNewDevice(c) \/ ApplyDevice(c) \/ ApplyNoDevices(c)
  PROVE  ConsoleInv'
<1>1. /\ StoresOK /\ FormOK
  BY DEF ConsoleInv
<1>2. PICK op \in {"newDevice", "device", "noDevices"} : Answered(c, op)
  BY DEF ApplyNewDevice, ApplyDevice, ApplyNoDevices
<1>3. /\ Sends(c, Idle) /\ UNCHANGED <<rowVars, accessVars>> /\ CopyOK'
      /\ call[c].op = op /\ BodyOK(op, call[c].body)
  BY <1>2, AnsweredFrame
<1>4. UNCHANGED <<pOrg, pAsset, pItems, form, unseen>>
  BY DEF ApplyNewDevice, ApplyDevice, ApplyNoDevices, Stored
<1>5. pDevice' \in [Devices -> DevRow \cup {NoRow}]
  <2>1. CASE ApplyNoDevices(c)
    BY <1>1, <2>1 DEF ApplyNoDevices, StoresOK
  <2>2. CASE ApplyNewDevice(c) \/ ApplyDevice(c)
    <3>1. op \in {"newDevice", "device"}
      BY <1>3, <2>2 DEF ApplyNewDevice, ApplyDevice, Answered, Arrived, At
    <3>2. call[c].body \in [id : Devices, row : DevRow]
      BY <1>3, <3>1 DEF BodyOK
    <3> QED
      BY <1>1, <2>2, <3>2 DEF ApplyNewDevice, ApplyDevice, Stored, StoresOK
  <2> QED
    BY <2>1, <2>2
<1> QED
  BY <1>1, <1>2, <1>3, <1>4, <1>5, FormKept, Patched DEF StoresOK

LEMMA OrgAnswers ==
  ASSUME ConsoleInv, NEW c \in Calls, ApplyNewOrg(c) \/ ApplyOrgs(c) \/ ApplyNoOrgs(c)
  PROVE  ConsoleInv'
<1>1. /\ StoresOK /\ FormOK
  BY DEF ConsoleInv
<1>2. PICK op \in {"newOrg", "org", "noOrgs"} : Answered(c, op)
  BY DEF ApplyNewOrg, ApplyOrgs, ApplyNoOrgs
<1>3. /\ Sends(c, Idle) /\ UNCHANGED <<rowVars, accessVars>> /\ CopyOK'
      /\ call[c].op = op /\ BodyOK(op, call[c].body)
  BY <1>2, AnsweredFrame
<1>4. UNCHANGED <<pAsset, pDevice, pItems, form>>
  BY DEF ApplyNewOrg, ApplyOrgs, ApplyNoOrgs, Rows
<1>5. pOrg' \in [Orgs -> PageOrg] /\ unseen' \subseteq Ids
  <2>1. CASE ApplyNoOrgs(c)
    BY <1>1, <2>1 DEF ApplyNoOrgs, StoresOK, PageOrg, Ids, pAssets, pDevices
  <2>2. CASE ApplyNewOrg(c) \/ ApplyOrgs(c)
    <3>1. op \in {"newOrg", "org"} /\ Rows(call[c].body)
      BY <1>3, <2>2 DEF ApplyNewOrg, ApplyOrgs, Answered, Arrived, At
    <3>2. PICK S \in SUBSET Orgs : call[c].body \in [S -> OrgRow]
      BY <1>3, <3>1 DEF BodyOK
    <3>3. \A o \in S : call[c].body[o].parent \in PageOrg
      BY <3>2 DEF OrgRow, PageOrg
    <3>4. DOMAIN call[c].body = S
      BY <3>2
    <3> QED
      BY <1>1, <3>1, <3>3, <3>4 DEF Rows, StoresOK
  <2> QED
    BY <2>1, <2>2
<1> QED
  BY <1>1, <1>2, <1>3, <1>4, <1>5, FormKept, Patched DEF StoresOK

LEMMA GroupAnswers ==
  ASSUME ConsoleInv, NEW c \in Calls,
         ApplyNewGroup(c) \/ ApplyGroup(c) \/ ApplyNoGroups(c) \/ ApplyItems(c)
  PROVE  ConsoleInv'
<1>1. /\ StoresOK /\ FormOK
  BY DEF ConsoleInv
<1>2. PICK op \in {"newGroup", "group", "noGroups", "items"} : Answered(c, op)
  BY DEF ApplyNewGroup, ApplyGroup, ApplyNoGroups, ApplyItems
<1>3. /\ Sends(c, Idle) /\ UNCHANGED <<rowVars, accessVars>> /\ CopyOK'
      /\ call[c].op = op /\ BodyOK(op, call[c].body)
      /\ Asking(call[c].asked) /\ call[c].asked.op = op /\ call[c].asked.by = "page"
  BY <1>2, AnsweredFrame
<1>4. UNCHANGED <<pOrg, pAsset, pDevice, unseen>>
  BY DEF ApplyNewGroup, ApplyGroup, ApplyNoGroups, ApplyItems
<1>5. pItems' \in [Groups -> Nat \cup {NoRow}]
  <2>1. CASE ApplyNoGroups(c) \/ ApplyItems(c)
    BY <1>1, <2>1 DEF ApplyNoGroups, ApplyItems, StoresOK
  <2>2. CASE ApplyNewGroup(c) \/ ApplyGroup(c)
    <3>1. op \in {"newGroup", "group"}
      BY <1>3, <2>2 DEF ApplyNewGroup, ApplyGroup, Answered, Arrived, At
    <3>2. call[c].body \in [id : Groups, items : Nat]
      BY <1>3, <3>1 DEF BodyOK
    <3> QED
      BY <1>1, <2>2, <3>2 DEF ApplyNewGroup, ApplyGroup, StoresOK
  <2> QED
    BY <2>1, <2>2
<1>6. FormOK'
  <2>1. CASE ApplyNewGroup(c) \/ ApplyNoGroups(c)
    BY <1>1, <2>1, FormKept DEF ApplyNewGroup, ApplyNoGroups
  <2>2. CASE ApplyGroup(c)
    <3>1. call[c].asked.members \in SUBSET Assets
      BY <1>3, <2>2 DEF ApplyGroup, Answered, Arrived, At, Asking, Consistent
    <3>2. form' = form \/ (form.step = "saving" /\
             form' = [form EXCEPT !.step = "loaded", !.shown = call[c].asked.members])
      BY <2>2 DEF ApplyGroup
    <3>3. form' = form \/ form # Closed
      BY <3>2 DEF Closed
    <3> QED
      BY <1>1, <3>1, <3>2, <3>3 DEF FormOK
  <2>3. CASE ApplyItems(c)
    <3>1. call[c].body \in SUBSET Assets
      BY <1>3, <2>3 DEF ApplyItems, Answered, Arrived, At, BodyOK
    <3>2. \/ form' = form
          \/ /\ form # Closed
             /\ form' = [form EXCEPT !.step = "loaded", !.shown = call[c].body \cap pAssets,
                                     !.hidden = call[c].body \ pAssets]
      BY <2>3 DEF ApplyItems, Current
    <3>3. call[c].body \cap pAssets \in SUBSET Assets /\ call[c].body \ pAssets \in SUBSET Assets
      BY <3>1
    <3> QED
      BY <1>1, <3>2, <3>3 DEF FormOK
  <2> QED
    BY <2>1, <2>2, <2>3
<1> QED
  BY <1>1, <1>2, <1>3, <1>4, <1>5, <1>6, Patched DEF StoresOK

LEMMA ProfileAnswer ==
  ASSUME ConsoleInv, NEW c \in Calls, ApplyProfile(c)
  PROVE  ConsoleInv'
<1>1. /\ StoresOK /\ FormOK /\ SlotsOK /\ CopyOK
  BY DEF ConsoleInv
<1>2. /\ call[c].op = "profile" /\ call[c].step = "answer"
      /\ Sends(c, Idle) /\ UNCHANGED <<rowVars, hashVars, form, unseen, accessVars>>
  BY DEF ApplyProfile, At, Goes
<1>3. /\ Asking(call[c].asked) /\ call[c].asked.op = "profile" /\ call[c].asked.step = "devices"
      /\ BodyOK("profile", call[c].body)
  BY <1>1, <1>2, AnswerSlot DEF Answering
<1>4. /\ pOrg' \in [Orgs -> PageOrg] /\ pAsset' \in [Assets -> PageAsset]
      /\ pDevice' \in [Devices -> DevRow \cup {NoRow}]
      /\ pItems' \in [Groups -> Nat \cup {NoRow}]
  BY <1>3 DEF ApplyProfile, Asking, Consistent, BodyOK
<1> QED
  BY <1>1, <1>2, <1>4, CopyKept, FormKept, Patched DEF StoresOK

(* A form that no longer waits for the slot c.                             *)
LEMMA RunEnds ==
  ASSUME ConsoleInv, NEW c \in Calls, Sends(c, Idle), EndRun(c), UNCHANGED rowVars
  PROVE  TableOK' /\ SlotsOK' /\ UsersFirst' /\ RunsOK' /\ EditorOK'
         /\ UNCHANGED <<pUser, lists, options, chosen>>
<1>1. TableOK /\ SlotsOK /\ EditorOK /\ RunsOK /\ UsersFirst
  BY DEF ConsoleInv
<1>2. /\ SlotsOK' /\ call'[c] = Idle
      /\ \A e \in Calls \ {c} : call'[e] = call[e]
  BY <1>1, IdleSlot, OneSlot
<1>3. TableOK'
  BY <1>1, <1>2, SameRows DEF At, Idle
<1>4. UNCHANGED <<pUser, lists, options, chosen>>
  BY DEF EndRun
<1>5. CASE editor.mode = "edit"
  <2>1. /\ editor \in EditForms /\ editor.runs \subseteq Calls
        /\ \A x \in editor.runs : Watching(call[x])
    BY <1>1, <1>5, EditorRuns
  <2>2. editor' = [editor EXCEPT !.runs = @ \ {c}]
    BY <1>5 DEF EndRun
  <2>3. editor' \in EditForms /\ editor'.runs = editor.runs \ {c}
    BY <2>1, <2>2 DEF EditForms
  <2>4. RunsOK'
    BY <1>2, <2>1, <2>3 DEF RunsOK, Watching
  <2>5. editor # NoEditor
    BY <1>5 DEF NoEditor
  <2>6. UsersFirst'
    BY <1>1, <1>2, <1>4, <2>5 DEF UsersFirst
  <2> QED
    BY <1>2, <1>3, <1>4, <2>3, <2>4, <2>6, EditorForms2
<1>6. CASE editor.mode # "edit"
  <2>1. UNCHANGED editor
    BY <1>6 DEF EndRun
  <2>2. RunsOK'
    BY <1>6, <2>1 DEF RunsOK
  <2>3. UsersFirst'
    BY <1>1, <1>2, <1>4, <2>1 DEF UsersFirst, Mine
  <2> QED
    BY <1>1, <1>2, <1>3, <1>4, <2>1, <2>2, <2>3, EditorKept
<1> QED
  BY <1>5, <1>6

LEMMA NoAnswers ==
  ASSUME ConsoleInv, NEW c \in Calls, Shrug(c) \/ LoseAnswer(c)
  PROVE  ConsoleInv'
<1>1. /\ StoresOK /\ FormOK /\ SlotsOK /\ CopyOK
  BY DEF ConsoleInv
<1>2. UNCHANGED <<rowVars, pOrg, pAsset, pDevice, pItems>> /\ Sends(c, Idle)
  BY DEF Shrug, LoseAnswer, Goes
<1>3. FormOK'
  <2>1. \/ form' = form
        \/ form.step = "saving" /\ form' = [form EXCEPT !.step = "loaded"]
        \/ form.step = "saving" /\ form' = [form EXCEPT !.step = "loaded", !.clean = FALSE]
    BY DEF Shrug, LoseAnswer
  <2>2. form' = form \/ form # Closed
    BY <2>1 DEF Closed
  <2> QED
    BY <1>1, <2>1, <2>2 DEF FormOK
<1>4. CASE Shrug(c)
  <2>1. /\ TableOK' /\ SlotsOK' /\ UsersFirst' /\ RunsOK' /\ EditorOK'
        /\ UNCHANGED <<pUser, lists, options, chosen>>
    BY <1>2, <1>4, RunEnds DEF Shrug
  <2>2. CopyOK' /\ UNCHANGED unseen
    BY <1>1, <1>4, CopyKept DEF Shrug
  <2>3. StoresOK'
    BY <1>1, <1>2, <2>1, <2>2 DEF StoresOK
  <2> QED
    BY <1>3, <2>1, <2>2, <2>3 DEF ConsoleInv
<1>5. CASE LoseAnswer(c)
  <2>1. CopyOK'
    BY <1>1, <1>5, FailsOnce DEF LoseAnswer, CopyOK
  <2>2. unseen' \subseteq Ids
    BY <1>1, <1>5 DEF LoseAnswer, Differs, ListsDiffer, Ids, StoresOK
  <2>3. call[c].op \notin {"options", "list"} /\ UNCHANGED accessVars
    BY <1>5 DEF LoseAnswer
  <2> QED
    BY <1>1, <1>2, <1>3, <2>1, <2>2, <2>3, Patched DEF StoresOK
<1> QED
  BY <1>4, <1>5

-----------------------------------------------------------------------------
(* The answers the views of users wait for.                                *)

(* Nothing but the slot and the views of users changes.                    *)
LEMMA UserPatched ==
  ASSUME ConsoleInv, UNCHANGED <<rowVars, hashVars, pageVars>>,
         TableOK', SlotsOK', UsersFirst', RunsOK', EditorOK',
         pUser' = NoRow \/ pUser' \in [Users -> Orgs \cup {NoRow}],
         lists' \in [Users -> SUBSET Assets],
         options' \in [Orgs -> (SUBSET Assets) \cup {NoRow}],
         chosen' \in Orgs \cup {NoRow}
  PROVE  ConsoleInv'
<1>1. UNCHANGED <<pOrg, pAsset, pDevice, pItems, form, unseen>>
  BY DEF pageVars
<1>2. StoresOK'
  BY <1>1, StoresParts DEF ConsoleInv, StoresOK
<1>3. CopyOK' /\ FormOK'
  BY <1>1, CopyKept, FormKept DEF ConsoleInv
<1> QED
  BY <1>2, <1>3 DEF ConsoleInv

LEMMA ArrivedFrame ==
  ASSUME ConsoleInv, NEW c \in Calls, NEW op, Arrived(c, op)
  PROVE  /\ call[c].op = op /\ BodyOK(op, call[c].body) /\ Mine(c)
         /\ Answering(call[c]) /\ Asking(call[c].asked) /\ call[c].step = "answer"
         /\ call[c].asked.op = op /\ call[c].asked.by = "page"
<1>1. call[c].step = "answer" /\ call[c].op = op /\ call[c].body # Refused
  BY DEF Arrived, At
<1>2. SlotsOK
  BY DEF ConsoleInv
<1> QED
  BY <1>1, <1>2, AnswerSlot DEF Mine

(* A list of users, or a new one, arrives: no form waits for it.           *)
LEMMA UsersArrive ==
  ASSUME ConsoleInv, NEW c \in Calls, ApplyUsers(c) \/ ApplyNewUser(c),
         UNCHANGED <<rowVars, hashVars, pageVars>>
  PROVE  ConsoleInv'
<1>1. StoresOK /\ TableOK /\ SlotsOK /\ UsersFirst /\ RunsOK /\ EditorOK
  BY DEF ConsoleInv
<1>2. Sends(c, Idle) /\ UNCHANGED <<lists, options, chosen, editor>>
  BY DEF ApplyUsers, ApplyNewUser, Goes
<1>3. PICK op \in {"users", "newUser"} : Arrived(c, op)
  BY DEF ApplyUsers, ApplyNewUser
<1>4. call[c].op = op /\ BodyOK(op, call[c].body) /\ Mine(c)
  BY <1>3, ArrivedFrame
<1>5. pUser' \in [Users -> Orgs \cup {NoRow}]
  <2>1. CASE ApplyUsers(c)
    BY <1>4, <2>1 DEF ApplyUsers, Arrived, At, BodyOK
  <2>2. CASE ApplyNewUser(c)
    <3>1. op = "newUser"
      BY <1>4, <2>2 DEF ApplyNewUser, Arrived, At
    <3>2. call[c].body \in [id : Users, org : Orgs]
      BY <1>4, <3>1 DEF BodyOK
    <3>3. pUser \in [Users -> Orgs \cup {NoRow}]
      BY <1>1, <1>4, <3>1 DEF UsersFirst, StoresOK
    <3> QED
      BY <2>2, <3>2, <3>3 DEF ApplyNewUser
  <2> QED
    BY <2>1, <2>2
<1>6. /\ SlotsOK' /\ call'[c] = Idle
      /\ \A e \in Calls \ {c} : call'[e] = call[e]
  BY <1>1, <1>2, IdleSlot, OneSlot
<1>7. TableOK'
  BY <1>1, <1>6, SameRows DEF At, Idle
<1>8. EditorOK'
  BY <1>1, <1>2, EditorKept
<1>9. RunsOK'
  <2>1. SUFFICES ASSUME editor.mode = "edit", NEW x \in editor.runs
                 PROVE  Watching(call'[x])
    BY <1>2 DEF RunsOK, Watching
  <2>2. Watching(call[x]) /\ x \in Calls
    BY <1>1, <2>1, EditorRuns
  <2>3. x # c
    BY <1>4, <2>2 DEF Watching
  <2> QED
    BY <1>6, <2>2, <2>3
<1>10. UsersFirst'
  <2>1. pUser' # NoRow
    BY <1>5, Apart
  <2> QED
    BY <2>1 DEF UsersFirst
<1> QED
  BY <1>1, <1>2, <1>5, <1>6, <1>7, <1>8, <1>9, <1>10, UserPatched DEF StoresOK

(* A watcher goes on with the form e for the user u.                       *)
LEMMA WatcherLoads ==
  ASSUME ConsoleInv, NEW c \in Calls, UNCHANGED <<rowVars, hashVars, pageVars>>,
         editor.mode = "edit", pUser' \in [Users -> Orgs \cup {NoRow}],
         lists' \in [Users -> SUBSET Assets], pUser'[editor.for] # NoRow,
         NEW again, Load(c, editor, editor.for, again)
  PROVE  ConsoleInv'
<1>1. StoresOK /\ TableOK /\ SlotsOK /\ UsersFirst /\ RunsOK /\ EditorOK
  BY DEF ConsoleInv
<1>2. /\ editor \in EditForms /\ editor.runs \subseteq Calls
      /\ \A x \in editor.runs : Watching(call[x])
  BY <1>1, EditorRuns
<1> PICK u \in Users : u = editor.for
  BY <1>2 DEF EditForms
<1>3. pUser'[u] \in Orgs /\ pUser' # NoRow
  BY Apart
<1>4. Watches(c, editor) /\ UNCHANGED options /\ chosen' \in Orgs \cup {NoRow}
  BY <1>1, <1>2, <1>3, LoadsForm
<1>5. RunsOK' /\ UsersFirst' /\ EditorOK' /\ SlotsOK'
  BY <1>2, <1>3, <1>4, WatchesOn
<1>6. TableOK'
  BY <1>1, <1>4, WatchesRows
<1> QED
  BY <1>1, <1>4, <1>5, <1>6, UserPatched DEF StoresOK

(* No watcher: the slot is free, and the form as it was.                   *)
LEMMA NoWatcher ==
  ASSUME ConsoleInv, NEW c \in Calls, UNCHANGED <<rowVars, hashVars, pageVars>>,
         pUser' \in [Users -> Orgs \cup {NoRow}], lists' \in [Users -> SUBSET Assets],
         Sends(c, Idle), UNCHANGED <<options, chosen, editor>>, ~Watching(call[c])
  PROVE  ConsoleInv'
<1>1. StoresOK /\ TableOK /\ SlotsOK /\ UsersFirst /\ RunsOK /\ EditorOK
  BY DEF ConsoleInv
<1>2. /\ SlotsOK' /\ call'[c] = Idle
      /\ \A e \in Calls \ {c} : call'[e] = call[e]
  BY <1>1, IdleSlot, OneSlot
<1>3. TableOK'
  BY <1>1, <1>2, SameRows DEF At, Idle
<1>4. EditorOK'
  BY <1>1, EditorKept
<1>5. RunsOK'
  <2>1. SUFFICES ASSUME editor.mode = "edit", NEW x \in editor.runs
                 PROVE  Watching(call'[x])
    BY DEF RunsOK, Watching
  <2>2. Watching(call[x]) /\ x \in Calls
    BY <1>1, <2>1, EditorRuns
  <2> QED
    BY <1>2, <2>2
<1>6. UsersFirst'
  BY Apart DEF UsersFirst
<1> QED
  BY <1>1, <1>2, <1>3, <1>4, <1>5, <1>6, UserPatched DEF StoresOK

LEMMA AccessArrives ==
  ASSUME ConsoleInv, NEW c \in Calls, ApplyAccess(c) \/ ApplyNoUsers(c),
         UNCHANGED <<rowVars, hashVars, pageVars>>
  PROVE  ConsoleInv'
<1>1. StoresOK /\ UsersFirst
  BY DEF ConsoleInv
<1>2. PICK op \in {"access", "noUsers"} : Arrived(c, op)
  BY DEF ApplyAccess, ApplyNoUsers
<1>3. call[c].op = op /\ BodyOK(op, call[c].body) /\ Mine(c)
  BY <1>2, ArrivedFrame
<1>4. pUser \in [Users -> Orgs \cup {NoRow}] /\ lists \in [Users -> SUBSET Assets]
  BY <1>1, <1>2, <1>3 DEF UsersFirst, StoresOK
<1>5. pUser' \in [Users -> Orgs \cup {NoRow}] /\ lists' \in [Users -> SUBSET Assets]
  <2>1. CASE ApplyNoUsers(c)
    BY <1>4, <2>1 DEF ApplyNoUsers
  <2>2. CASE ApplyAccess(c)
    <3>1. op = "access"
      BY <1>3, <2>2 DEF ApplyAccess, Arrived, At
    <3>2. call[c].body \in [id : Users, org : Orgs, list : SUBSET Assets]
      BY <1>3, <3>1 DEF BodyOK
    <3> QED
      BY <1>4, <2>2, <3>2 DEF ApplyAccess
  <2> QED
    BY <2>1, <2>2
<1>6. ~Watching(call[c])
  BY <1>2, <1>3 DEF Watching
<1>7. \/ /\ editor.mode = "edit" /\ pUser'[editor.for] # NoRow
         /\ \E again : Load(c, editor, editor.for, again)
      \/ Sends(c, Idle) /\ UNCHANGED <<options, chosen, editor>>
  BY DEF ApplyAccess, ApplyNoUsers
<1> QED
  BY <1>5, <1>6, <1>7, WatcherLoads, NoWatcher

LEMMA ListArrives ==
  ASSUME ConsoleInv, NEW c \in Calls, ApplyList(c), UNCHANGED <<rowVars, hashVars, pageVars>>
  PROVE  ConsoleInv'
<1>1. StoresOK /\ TableOK /\ SlotsOK /\ UsersFirst /\ RunsOK /\ EditorOK
  BY DEF ConsoleInv
<1>2. call[c].op = "list" /\ BodyOK("list", call[c].body) /\ Mine(c)
  BY ArrivedFrame DEF ApplyList
<1> PICK b \in [id : Users, org : Orgs, list : SUBSET Assets] : b = call[c].body
  BY <1>2 DEF BodyOK
<1>3. /\ lists' = [lists EXCEPT ![b.id] = b.list]
      /\ Sends(c, Idle) /\ UNCHANGED <<pUser, options, chosen>>
      /\ editor' = IF editor.mode = "edit" /\ c \in editor.runs
                   THEN [Loaded(editor, b.list) EXCEPT !.runs = @ \ {c}] ELSE editor
  BY DEF ApplyList, Goes
<1>4. pUser # NoRow /\ UsersFirst'
  BY <1>1, <1>2, <1>3 DEF UsersFirst
<1>5. lists' \in [Users -> SUBSET Assets]
  BY <1>1, <1>3 DEF StoresOK
<1>6. /\ SlotsOK' /\ call'[c] = Idle
      /\ \A e \in Calls \ {c} : call'[e] = call[e]
  BY <1>1, <1>3, IdleSlot, OneSlot
<1>7. TableOK'
  BY <1>1, <1>6, SameRows DEF At, Idle
<1>8. EditorOK' /\ RunsOK'
  <2>1. CASE editor.mode = "edit"
    <3>1. /\ editor \in EditForms /\ editor.runs \subseteq Calls
          /\ \A x \in editor.runs : Watching(call[x])
      BY <1>1, <2>1, EditorRuns
    <3>2. editor' \in EditForms /\ editor'.runs = editor.runs \ {c}
      BY <1>3, <2>1, <3>1 DEF EditForms, Loaded
    <3> QED
      BY <1>6, <3>1, <3>2, EditorForms2 DEF RunsOK, Watching
  <2>2. CASE editor.mode # "edit"
    <3>1. editor' = editor
      BY <1>3, <2>2
    <3> QED
      BY <1>1, <2>2, <3>1, EditorKept DEF RunsOK
  <2> QED
    BY <2>1, <2>2
<1> QED
  BY <1>1, <1>3, <1>4, <1>5, <1>6, <1>7, <1>8, UserPatched DEF StoresOK

LEMMA OptionsArrive ==
  ASSUME ConsoleInv, NEW c \in Calls, ApplyOptions(c), UNCHANGED <<rowVars, hashVars, pageVars>>
  PROVE  ConsoleInv'
<1>1. StoresOK /\ TableOK /\ SlotsOK /\ UsersFirst /\ RunsOK /\ EditorOK
  BY DEF ConsoleInv
<1>2. /\ call[c].op = "options" /\ BodyOK("options", call[c].body) /\ Mine(c)
      /\ call[c].step = "answer"
      /\ Asking(call[c].asked) /\ call[c].asked.op = "options"
  BY ArrivedFrame DEF ApplyOptions
<1>3. call[c].asked \in OptionsAsked
  BY <1>2, AskedFor, UserKinds DEF UserOps
<1> PICK S \in SUBSET Assets : S = call[c].body
  BY <1>2 DEF BodyOK
<1> PICK o \in Orgs : o = call[c].asked.org
  BY <1>3 DEF OptionsAsked
<1>4. /\ options' = [options EXCEPT ![o] = S] /\ chosen' = o
      /\ UNCHANGED <<pUser, lists>>
  BY DEF ApplyOptions
<1>5. pUser # NoRow /\ UsersFirst'
  BY <1>1, <1>2, <1>4 DEF UsersFirst
<1>6. lists' \in [Users -> SUBSET Assets]
      /\ options' \in [Orgs -> (SUBSET Assets) \cup {NoRow}]
  BY <1>1, <1>4 DEF StoresOK
<1>7. TableOK' /\ SlotsOK' /\ RunsOK' /\ EditorOK'
  <2>1. CASE editor.mode = "edit" /\ c \in editor.runs
    <3>1. /\ editor \in EditForms /\ editor.runs \subseteq Calls
          /\ \A x \in editor.runs : Watching(call[x])
      BY <1>1, <2>1, EditorRuns
    <3>2. call[c].asked.for \in Users
      BY <1>2, <2>1, <3>1 DEF Watching
    <3>3. PICK e : e = Selected(editor, o, S)
      OBVIOUS
    <3>4. e \in EditForms /\ e.runs = editor.runs
      BY <3>1, <3>3, SelectedForm
    <3>5. Show(c, e, call[c].asked.for, o, FALSE)
      BY <2>1, <3>3 DEF ApplyOptions
    <3>6. Watches(c, e)
      BY <1>1, <1>6, <3>2, <3>4, <3>5, ShowsForm
    <3>7. RunsOK' /\ EditorOK' /\ SlotsOK'
      BY <1>4, <1>5, <3>1, <3>4, <3>6, WatchesOn
    <3> QED
      BY <1>1, <3>6, <3>7, WatchesRows
  <2>2. CASE ~(editor.mode = "edit" /\ c \in editor.runs)
    <3>1. editor' = Selected(editor, o, S) /\ Sends(c, Idle)
      BY <2>2 DEF ApplyOptions
    <3>2. /\ SlotsOK' /\ call'[c] = Idle
          /\ \A e \in Calls \ {c} : call'[e] = call[e]
      BY <1>1, <3>1, IdleSlot, OneSlot
    <3>3. TableOK'
      BY <1>1, <3>2, SameRows DEF At, Idle
    <3>4. editor = NoEditor \/ editor \in EditForms \/ editor \in NewForms
      BY <1>1, EditorForms
    <3>5. CASE editor \in EditForms
      <4>1. /\ editor.mode = "edit" /\ editor.runs \subseteq Calls
            /\ \A x \in editor.runs : Watching(call[x])
        BY <1>1, <3>5, EditorForms, EditorRuns
      <4>2. editor' \in EditForms /\ editor'.runs = editor.runs
        BY <3>1, <3>5, SelectedForm
      <4>3. RunsOK'
        BY <2>2, <3>2, <4>1, <4>2 DEF RunsOK, Watching
      <4> QED
        BY <3>2, <3>3, <4>2, <4>3, EditorForms2
    <3>6. CASE editor = NoEditor \/ editor \in NewForms
      <4>1. editor' = NoEditor \/ editor' \in NewForms
        BY <3>1, <3>6, SelectedForm
      <4>2. editor'.mode # "edit"
        BY <4>1, EditorForms
      <4> QED
        BY <3>2, <3>3, <4>1, <4>2, EditorForms2 DEF RunsOK
    <3> QED
      BY <3>4, <3>5, <3>6
  <2> QED
    BY <2>1, <2>2
<1> QED
  BY <1>1, <1>4, <1>5, <1>6, <1>7, UserPatched DEF StoresOK

(* The page's own answers on users.                                        *)
LEMMA UserAnswers ==
  ASSUME ConsoleInv, NEW c \in Calls, UserApplies(c)
  PROVE  ConsoleInv'
<1>1. UNCHANGED <<rowVars, hashVars, pageVars>>
  BY DEF UserApplies
<1>2. CASE ApplyUsers(c) \/ ApplyNewUser(c)
  BY <1>1, <1>2, UsersArrive
<1>3. CASE ApplyOptions(c)
  BY <1>1, <1>3, OptionsArrive
<1>4. CASE ApplyList(c)
  BY <1>1, <1>4, ListArrives
<1>5. CASE ApplyAccess(c) \/ ApplyNoUsers(c)
  BY <1>1, <1>5, AccessArrives
<1>6. QED
  BY <1>2, <1>3, <1>4, <1>5 DEF UserApplies

LEMMA AppliesSteps ==
  ASSUME ConsoleInv, NEW c \in Calls, Applies(c)
  PROVE  ConsoleInv'
<1>1. CASE ApplyNewAsset(c) \/ ApplyAsset(c)
  BY <1>1, AssetAnswers
<1>2. CASE ApplyNoAssets(c)
  BY <1>2, DropsAssets
<1>3. CASE ApplyNewDevice(c) \/ ApplyDevice(c) \/ ApplyNoDevices(c)
  BY <1>3, DeviceAnswers
<1>4. CASE ApplyNewOrg(c) \/ ApplyOrgs(c) \/ ApplyNoOrgs(c)
  BY <1>4, OrgAnswers
<1>5. CASE ApplyNewGroup(c) \/ ApplyGroup(c) \/ ApplyNoGroups(c) \/ ApplyItems(c)
  BY <1>5, GroupAnswers
<1>6. CASE ApplyProfile(c)
  BY <1>6, ProfileAnswer
<1>7. CASE UserApplies(c)
  BY <1>7, UserAnswers
<1>8. CASE Shrug(c) \/ LoseAnswer(c)
  BY <1>8, NoAnswers
<1>9. QED
  BY <1>1, <1>2, <1>3, <1>4, <1>5, <1>6, <1>7, <1>8 DEF Applies

-----------------------------------------------------------------------------
(* Steps that serve no request leave every request and every row.          *)
LEMMA QuietSteps ==
  ASSUME ConsoleInv, UNCHANGED <<rowVars, callVars, pageVars, accessVars>>, CopyOK'
  PROVE  ConsoleInv'
<1>1. UNCHANGED <<call, pUser, editor>>
  BY DEF callVars, accessVars
<1>2. TableOK'
  BY DEF ConsoleInv, TableOK, rowVars, callVars, RowsOK, Holding, At, MovedTo, Final,
         OrgRows, AssetRows, DeviceRows, GroupRows, UserRows
<1>3. SlotsOK'
  BY <1>1 DEF ConsoleInv, SlotsOK
<1>4. StoresOK' /\ FormOK'
  BY StoresKept, FormKept DEF ConsoleInv, pageVars, StoresOK
<1>5. EditorOK' /\ RunsOK' /\ UsersFirst'
  BY <1>1, EditorKept DEF ConsoleInv, RunsOK, UsersFirst, Mine
<1>6. QED
  BY <1>2, <1>3, <1>4, <1>5 DEF ConsoleInv

LEMMA HashSteps ==
  ASSUME ConsoleInv, HashNext, UNCHANGED <<pageVars, accessVars>>
  PROVE  ConsoleInv'
<1>1. CopyOK' /\ UNCHANGED <<rowVars, callVars>>
  BY HashWritten DEF ConsoleInv
<1>2. QED
  BY <1>1, QuietSteps

LEMMA StillSteps ==
  ASSUME ConsoleInv, UNCHANGED <<fleetVars, hashVars, pageVars, accessVars>>
  PROVE  ConsoleInv'
<1>1. CopyOK'
  BY DEF ConsoleInv, CopyOK, hashVars
<1>2. UNCHANGED <<rowVars, callVars>>
  BY DEF fleetVars
<1>3. QED
  BY <1>1, <1>2, QuietSteps

LEMMA ConsoleStart == ConsoleInit => ConsoleInv
<1> SUFFICES ASSUME ConsoleInit
             PROVE  ConsoleInv
  OBVIOUS
<1>1. /\ org = InitOrg /\ asset = InitAsset /\ device = InitDevice
      /\ group = InitGroup /\ user = InitUser
      /\ call = [c \in Calls |-> Idle] /\ left \in Budgets
  BY DEF ConsoleInit, RowsInit
<1>2. RowsOK
  <2>1. /\ org \in [Orgs -> OrgRow \cup {NoRow}]
        /\ asset \in [Assets -> Orgs \cup {NoRow}]
        /\ device \in [Devices -> DevRow \cup {NoRow}]
        /\ group \in [Groups -> GroupRow \cup {NoRow}]
        /\ user \in [Users -> UserRow \cup {NoRow}]
    BY <1>1, StartRows
  <2>2. \A o \in OrgRows : org[o].parent \in OrgRows \cup {None}
    <3> SUFFICES ASSUME NEW o \in OrgRows PROVE org[o].parent \in OrgRows \cup {None}
      OBVIOUS
    <3>1. o \in Orgs /\ org[o] # NoRow /\ org[o] \in OrgRow
      BY <2>1 DEF OrgRows
    <3>2. org[o].parent \in Orgs \cup {None}
      BY <3>1 DEF OrgRow
    <3>3. org[o].parent # None => org[org[o].parent] # NoRow
      BY <1>1, <3>1, StartRows
    <3>4. QED
      BY <3>2, <3>3 DEF OrgRows
  <2>3. \A a \in AssetRows : asset[a] \in OrgRows
    BY <1>1, <2>1, StartRows DEF AssetRows, OrgRows
  <2>4. \A d \in DeviceRows : device[d].org \in OrgRows
                                  /\ device[d].asset \in AssetRows \cup {None}
    <3> SUFFICES ASSUME NEW d \in DeviceRows
                 PROVE  device[d].org \in OrgRows /\ device[d].asset \in AssetRows \cup {None}
      OBVIOUS
    <3>1. d \in Devices /\ device[d] # NoRow /\ device[d] \in DevRow
      BY <2>1 DEF DeviceRows
    <3>2. device[d].org \in Orgs /\ device[d].asset \in Assets \cup {None}
      BY <3>1 DEF DevRow
    <3>3. org[device[d].org] # NoRow
      BY <1>1, <3>1, StartRows
    <3>4. device[d].asset # None => asset[device[d].asset] = device[d].org
      BY <1>1, <3>1, StartRows
    <3>5. QED
      BY <3>2, <3>3, <3>4, SystemOrgs DEF OrgRows, AssetRows
  <2>5. \A g \in GroupRows : group[g] \in GroupRow /\ group[g].members \subseteq AssetRows
    <3> SUFFICES ASSUME NEW g \in GroupRows
                 PROVE  group[g] \in GroupRow /\ group[g].members \subseteq AssetRows
      OBVIOUS
    <3>1. g \in Groups /\ group[g] # NoRow /\ group[g] \in GroupRow
      BY <2>1 DEF GroupRows
    <3>2. group[g].members \subseteq Assets
      BY <3>1 DEF GroupRow
    <3>3. \A a \in group[g].members : asset[a] # NoRow
      BY <1>1, <3>1, StartRows
    <3>4. QED
      BY <3>1, <3>2, <3>3 DEF AssetRows
  <2>6. \A u \in UserRows : user[u] \in UserRow /\ user[u].org \in OrgRows
                               /\ user[u].denied \subseteq AssetRows
    <3> SUFFICES ASSUME NEW u \in UserRows
                 PROVE  user[u] \in UserRow /\ user[u].org \in OrgRows
                            /\ user[u].denied \subseteq AssetRows
      OBVIOUS
    <3>1. u \in Users /\ user[u] # NoRow /\ user[u] \in UserRow
      BY <2>1 DEF UserRows
    <3>2. user[u].org \in Orgs /\ user[u].denied \subseteq Assets
      BY <3>1 DEF UserRow
    <3>3. org[user[u].org] # NoRow /\ \A a \in user[u].denied : asset[a] # NoRow
      BY <1>1, <3>1, StartRows
    <3>4. QED
      BY <3>1, <3>2, <3>3 DEF AssetRows, OrgRows
  <2>7. fresh \subseteq Orgs \cup Assets \cup Devices \cup Groups \cup Users
    BY DEF ConsoleInit, RowsInit
  <2>8. QED
    BY <2>1, <2>2, <2>3, <2>4, <2>5, <2>6, <2>7 DEF RowsOK
<1>3. fresh \cap (OrgRows \cup AssetRows \cup DeviceRows \cup GroupRows \cup UserRows) = {}
  <2>1. fresh = (Orgs \ OrgRows) \cup (Assets \ AssetRows) \cup (Devices \ DeviceRows)
                    \cup (Groups \ GroupRows) \cup (Users \ UserRows)
    BY DEF ConsoleInit, RowsInit
  <2>2. /\ OrgRows \subseteq Orgs /\ AssetRows \subseteq Assets /\ DeviceRows \subseteq Devices
        /\ GroupRows \subseteq Groups /\ UserRows \subseteq Users
    BY DEF OrgRows, AssetRows, DeviceRows, GroupRows, UserRows
  <2>3. QED
    BY <2>1, <2>2, Apart
<1>4. TableOK
  <2>1. \A c \in Calls : Holding(c)
    BY <1>1 DEF Holding, At, Idle
  <2>2. QED
    BY <1>1, <1>2, <1>3, <2>1, StartRows, SystemOrgs DEF TableOK, OrgRows
<1>5. SlotsOK
  BY <1>1 DEF SlotsOK, SlotOK
<1>6. CopyOK
  BY <1>1, StartRows, FaultBound DEF ConsoleInit, HashInit, CopyOK, HashTable
<1>7. StoresOK
  <2>1. /\ OrgShown \in [Orgs -> PageOrg] /\ AssetShown \in [Assets -> PageAsset]
        /\ ItemsShown \in [Groups -> Nat \cup {NoRow}]
    BY <1>4, ShownRows
  <2>2. pAsset \in [Assets -> PageAsset]
    BY <2>1 DEF ConsoleInit, PageAsset
  <2>3. unseen \subseteq Ids
    BY <1>1, Bounds DEF ConsoleInit, Ids
  <2>4. QED
    BY <1>1, <2>1, <2>2, <2>3, StartRows DEF StoresOK, ConsoleInit, AccessInit
<1>8. FormOK /\ EditorOK /\ RunsOK /\ UsersFirst
  BY <1>1 DEF ConsoleInit, AccessInit, FormOK, EditorOK, RunsOK, UsersFirst, Mine, NoEditor
<1>9. QED
  BY <1>4, <1>5, <1>6, <1>7, <1>8 DEF ConsoleInv

LEMMA ConsoleSteps ==
  ASSUME ConsoleInv, [ConsoleNext]_consoleVars
  PROVE  ConsoleInv'
<1>1. ASSUME NEW c \in Calls, ViewAsks(c) PROVE ConsoleInv'
  BY <1>1, ViewSteps
<1>2. ASSUME NEW c \in Calls, UserViewAsks(c) PROVE ConsoleInv'
  BY <1>2, UserViewSteps
<1>3. ASSUME NEW c \in Calls, OthersAsk(c) PROVE ConsoleInv'
  BY <1>3, OthersSteps
<1>4. ASSUME NEW c \in Calls, LoadPage(c) PROVE ConsoleInv'
  BY <1>4, LoadsPage
<1>5. ASSUME NEW c \in Calls, Profile(c) PROVE ConsoleInv'
  BY <1>5, ProfileSteps
<1>6. ASSUME NEW c \in Calls, Serves(c) PROVE ConsoleInv'
  BY <1>6, ServesSteps
<1>7. ASSUME NEW c \in Calls, Applies(c) PROVE ConsoleInv'
  BY <1>7, AppliesSteps
<1>8. CASE CloseGroup \/ CloseUser
  BY <1>8, Closes
<1>9. CASE HashNext /\ UNCHANGED <<raced, mixed, pageVars, accessVars>>
  BY <1>9, HashSteps
<1>10. CASE ReportsNext
  BY <1>10, StillSteps DEF ReportsNext
<1>11. CASE UNCHANGED consoleVars
  BY <1>11, StillSteps DEF consoleVars
<1>12. QED
  BY <1>1, <1>2, <1>3, <1>4, <1>5, <1>6, <1>7, <1>8, <1>9, <1>10, <1>11 DEF ConsoleNext, ConsoleStep

LEMMA ConsoleInvariant == ConsoleSpec => []ConsoleInv
<1>1. ConsoleInit => ConsoleInv
  BY ConsoleStart
<1>2. ConsoleInv /\ [ConsoleNext]_consoleVars => ConsoleInv'
  BY ConsoleSteps
<1>3. QED
  BY <1>1, <1>2, PTL DEF ConsoleSpec

(* Rows, stores and failures keep their types, and every reference in the  *)
(* tables names a row, whatever the page, other administrators and lost    *)
(* answers do: the triggers, checks and locks of the handlers are enough.  *)
THEOREM TypeOKCorrect == ConsoleSpec => []TypeOK
<1>1. ConsoleInv => TypeOK
  <2> SUFFICES ASSUME ConsoleInv
               PROVE  TypeOK
    OBVIOUS
  <2>1. \A a \in pAssets : pAsset[a].org \in Orgs /\ pAsset[a].held \subseteq Devices
    BY DEF ConsoleInv, StoresOK, pAssets, PageAsset
  <2>2. QED
    BY <2>1 DEF ConsoleInv, TableOK, CopyOK, StoresOK, TypeOK, PageOrg
<1>2. QED
  BY <1>1, ConsoleInvariant, PTL

-----------------------------------------------------------------------------
LEMMA OthersSettled ==
  ASSUME NEW k, k.step \notin {"commit", "hadd"}, k.op \notin {"access", "newUser"}
  PROVE  Settled(k)
  BY DEF Settled, Ticked

LEMMA LandsOutside ==
  ASSUME SlotsOK, NEW c \in Calls, Lands(c), UNCHANGED <<raced, mixed>>
  PROVE  Outside
<1>1. PICK k : Settled(k) /\ call' = [call EXCEPT ![c] = k]
  BY DEF Lands, Sends
<1>2. \A e \in Calls : call'[e] = call[e] \/ (Vacant(e) /\ Settled(call'[e]))
  BY <1>1 DEF SlotsOK, Lands
<1>3. QED
  BY <1>2 DEF Outside, Lands

LEMMA AskLands ==
  ASSUME NEW c \in Calls, NEW k, Settled(k), UNCHANGED rowVars,
         Ask(c, k) \/ (Vacant(c) /\ Sends(c, k) /\ Ungrouped(k))
  PROVE  Lands(c)
  BY DEF Ask, MayAsk, Sends, Lands, Vacant

LEMMA AskedLands ==
  ASSUME NEW c \in Calls, NEW who, Asked(c, who)
  PROVE  Lands(c)
  BY AskLands DEF Asked

LEMMA AsksLand ==
  ASSUME NEW c \in Calls, NEW who
  PROVE  /\ \A o, d : AskNewAsset(c, who, o, d) => Asked(c, who)
         /\ \A a, o, d : AskAsset(c, who, a, o, d) => Asked(c, who)
         /\ \A S : AskNoAssets(c, who, S) => Asked(c, who)
         /\ \A o, a : AskNewDevice(c, who, o, a) => Asked(c, who)
         /\ \A d, o, a : AskDevice(c, who, d, o, a) => Asked(c, who)
         /\ \A S : AskNoDevices(c, who, S) => Asked(c, who)
         /\ \A p : AskNewOrg(c, who, p) => Asked(c, who)
         /\ \A o, p : AskOrg(c, who, o, p) => Asked(c, who)
         /\ \A S : AskNoOrgs(c, who, S) => Asked(c, who)
         /\ AskNewGroup(c, who) => Asked(c, who)
         /\ \A g, S : AskGroup(c, who, g, S) => Asked(c, who)
         /\ \A S : AskNoGroups(c, who, S) => Asked(c, who)
         /\ \A S : AskNoUsers(c, who, S) => Asked(c, who)
<1>1. ASSUME NEW o, NEW d, AskNewAsset(c, who, o, d) PROVE Asked(c, who)
  <2>1. PICK k : k = [op |-> "newAsset", step |-> "check", by |-> who, org |-> o, dev |-> d]
    OBVIOUS
  <2>2. Settled(k) /\ Ask(c, k) /\ UNCHANGED rowVars
    BY <1>1, <2>1 DEF AskNewAsset, Settled, Ticked
  <2>3. QED
    BY <2>1, <2>2 DEF Asked
<1>2. ASSUME NEW a, NEW o, NEW d, AskAsset(c, who, a, o, d) PROVE Asked(c, who)
  <2>1. PICK k : k = [op |-> "asset", step |-> "check", by |-> who, id |-> a, org |-> o,
              dev |-> d, was |-> NoRow, locks |-> {}, held |-> {}]
    OBVIOUS
  <2>2. Settled(k) /\ Ask(c, k) /\ UNCHANGED rowVars
    BY <1>2, <2>1 DEF AskAsset, Settled, Ticked
  <2>3. QED
    BY <2>1, <2>2 DEF Asked
<1>3. ASSUME NEW S, AskNoAssets(c, who, S) PROVE Asked(c, who)
  <2>1. PICK k : k = [op |-> "noAssets", step |-> "delete", by |-> who, ids |-> S]
    OBVIOUS
  <2>2. Settled(k) /\ Ask(c, k) /\ UNCHANGED rowVars
    BY <1>3, <2>1 DEF AskNoAssets, Settled, Ticked
  <2>3. QED
    BY <2>1, <2>2 DEF Asked
<1>4. ASSUME NEW o, NEW a, AskNewDevice(c, who, o, a) PROVE Asked(c, who)
  <2>1. PICK k : k = [op |-> "newDevice", step |-> "check", by |-> who, org |-> o, asset |-> a]
    OBVIOUS
  <2>2. Settled(k) /\ Ask(c, k) /\ UNCHANGED rowVars
    BY <1>4, <2>1 DEF AskNewDevice, Settled, Ticked
  <2>3. QED
    BY <2>1, <2>2 DEF Asked
<1>5. ASSUME NEW d, NEW o, NEW a, AskDevice(c, who, d, o, a) PROVE Asked(c, who)
  <2>1. PICK k : k = [op |-> "device", step |-> "check", by |-> who, id |-> d, org |-> o,
              asset |-> a]
    OBVIOUS
  <2>2. Settled(k) /\ Ask(c, k) /\ UNCHANGED rowVars
    BY <1>5, <2>1 DEF AskDevice, Settled, Ticked
  <2>3. QED
    BY <2>1, <2>2 DEF Asked
<1>6. ASSUME NEW S, AskNoDevices(c, who, S) PROVE Asked(c, who)
  <2>1. PICK k : k = [op |-> "noDevices", step |-> "check", by |-> who, ids |-> S]
    OBVIOUS
  <2>2. Settled(k) /\ Ask(c, k) /\ UNCHANGED rowVars
    BY <1>6, <2>1 DEF AskNoDevices, Settled, Ticked
  <2>3. QED
    BY <2>1, <2>2 DEF Asked
<1>7. ASSUME NEW p, AskNewOrg(c, who, p) PROVE Asked(c, who)
  <2>1. PICK k : k = [op |-> "newOrg", step |-> "check", by |-> who, parent |-> p]
    OBVIOUS
  <2>2. Settled(k) /\ Ask(c, k) /\ UNCHANGED rowVars
    BY <1>7, <2>1 DEF AskNewOrg, Settled, Ticked
  <2>3. QED
    BY <2>1, <2>2 DEF Asked
<1>8. ASSUME NEW o, NEW p, AskOrg(c, who, o, p) PROVE Asked(c, who)
  <2>1. PICK k : k = [op |-> "org", step |-> "check", by |-> who, id |-> o, parent |-> p]
    OBVIOUS
  <2>2. Settled(k) /\ Ask(c, k) /\ UNCHANGED rowVars
    BY <1>8, <2>1 DEF AskOrg, Settled, Ticked
  <2>3. QED
    BY <2>1, <2>2 DEF Asked
<1>9. ASSUME NEW S, AskNoOrgs(c, who, S) PROVE Asked(c, who)
  <2>1. PICK k : k = [op |-> "noOrgs", step |-> "check", by |-> who, ids |-> S]
    OBVIOUS
  <2>2. Settled(k) /\ Ask(c, k) /\ UNCHANGED rowVars
    BY <1>9, <2>1 DEF AskNoOrgs, Settled, Ticked
  <2>3. QED
    BY <2>1, <2>2 DEF Asked
<1>10. ASSUME AskNewGroup(c, who) PROVE Asked(c, who)
  <2>1. PICK k : k = [op |-> "newGroup", step |-> "insert", by |-> who]
    OBVIOUS
  <2>2. Settled(k) /\ Ask(c, k) /\ UNCHANGED rowVars
    BY <1>10, <2>1 DEF AskNewGroup, Settled, Ticked
  <2>3. QED
    BY <2>1, <2>2 DEF Asked
<1>12. ASSUME NEW g, NEW S, AskGroup(c, who, g, S) PROVE Asked(c, who)
  <2>1. PICK k : k = [op |-> "group", step |-> "check", by |-> who, id |-> g,
              members |-> S, doomed |-> {}, met |-> FALSE]
    OBVIOUS
  <2>2. Settled(k) /\ Ask(c, k) /\ UNCHANGED rowVars
    BY <1>12, <2>1 DEF AskGroup, Settled, Ticked
  <2>3. QED
    BY <2>1, <2>2 DEF Asked
<1>13. ASSUME NEW S, AskNoGroups(c, who, S) PROVE Asked(c, who)
  <2>1. PICK k : k = [op |-> "noGroups", step |-> "delete", by |-> who, ids |-> S]
    OBVIOUS
  <2>2. Settled(k) /\ Ask(c, k) /\ UNCHANGED rowVars
    BY <1>13, <2>1 DEF AskNoGroups, Settled, Ticked
  <2>3. QED
    BY <2>1, <2>2 DEF Asked
<1>14. ASSUME NEW S, AskNoUsers(c, who, S) PROVE Asked(c, who)
  <2>1. PICK k : k = [op |-> "noUsers", step |-> "check", by |-> who, ids |-> S]
    OBVIOUS
  <2>2. Settled(k) /\ Ask(c, k) /\ UNCHANGED rowVars
    BY <1>14, <2>1 DEF AskNoUsers, Settled, Ticked
  <2>3. QED
    BY <2>1, <2>2 DEF Asked
<1>15. QED
  BY <1>1, <1>2, <1>3, <1>4, <1>5, <1>6, <1>7, <1>8, <1>9, <1>10, <1>12, <1>13, <1>14

LEMMA ViewLands ==
  ASSUME NEW c \in Calls, ViewAsks(c)
  PROVE  Lands(c) /\ UNCHANGED <<raced, mixed>>
<1>1. UNCHANGED <<raced, mixed>>
  BY DEF ViewAsks
<1>2. CASE SaveNewAsset(c) \/ SaveAsset(c) \/ SaveNewDevice(c) \/ SaveDevice(c)
  BY <1>1, <1>2, AsksLand, AskedLands DEF SaveNewAsset, SaveAsset, SaveNewDevice, SaveDevice
<1>3. CASE SaveNewOrg(c) \/ SaveOrg(c) \/ SaveNewGroup(c) \/ SaveGroup(c)
  BY <1>1, <1>3, AsksLand, AskedLands DEF SaveNewOrg, SaveOrg, SaveNewGroup, SaveGroup
<1>6. CASE OpenGroup(c)
  <2>1. PICK g : AskItems(c, "page", g)
    BY <1>6 DEF OpenGroup
  <2>2. PICK k : k = [op |-> "items", step |-> "read", by |-> "page", id |-> g]
    OBVIOUS
  <2>3. Settled(k) /\ Ask(c, k) /\ UNCHANGED rowVars
    BY <2>1, <2>2 DEF AskItems, Settled, Ticked
  <2>4. QED
    BY <1>1, <2>3, AskLands
<1>4. CASE RemoveAssets(c) \/ RemoveDevices(c) \/ RemoveOrgs(c) \/ RemoveGroups(c)
  BY <1>1, <1>4, AsksLand, AskedLands DEF RemoveAssets, RemoveDevices, RemoveOrgs, RemoveGroups
<1>5. QED
  BY <1>1, <1>2, <1>3, <1>4, <1>6 DEF ViewAsks

LEMMA AskAccessLands ==
  ASSUME NEW c \in Calls, NEW u, NEW o, NEW N, NEW D, AskAccess(c, "other", u, o, N, D)
  PROVE  Asked(c, "other")
<1>1. PICK k : k = [op |-> "access", step |-> "check", by |-> "other", id |-> u, org |-> o,
              named |-> N, denied |-> D, row |-> NoRow, locks |-> {}, theirs |-> {}]
  OBVIOUS
<1>2. Settled(k) /\ Ask(c, k) /\ UNCHANGED rowVars
  BY <1>1 DEF AskAccess, Settled, Ticked
<1>3. QED
  BY <1>1, <1>2 DEF Asked

LEMMA OthersLand ==
  ASSUME NEW c \in Calls, OthersAsk(c)
  PROVE  Asked(c, "other") /\ Lands(c) /\ UNCHANGED <<raced, mixed>>
<1>1. Asked(c, "other") /\ UNCHANGED <<raced, mixed>>
  BY AsksLand, AskAccessLands DEF OthersAsk
<1>2. QED
  BY <1>1, AskedLands

LEMMA FollowUps ==
  ASSUME NEW o, NEW u
  PROVE  /\ Settled(Idle) /\ Settled(ListRequest(u)) /\ Settled(OptionsRequest(o, u))
         /\ Ungrouped(Idle) /\ Ungrouped(ListRequest(u)) /\ Ungrouped(OptionsRequest(o, u))
  BY DEF Settled, Ticked, Ungrouped, Idle, ListRequest, OptionsRequest

LEMMA LoadLands ==
  ASSUME NEW c \in Calls, UNCHANGED rowVars, Vacant(c), NEW e, NEW u, NEW again,
         Load(c, e, u, again)
  PROVE  Lands(c)
<1>1. ASSUME NEW s, NEW o, Show(c, s, u, o, again)
      PROVE  Lands(c)
  <2>1. PICK k : Settled(k) /\ Sends(c, k) /\ Ungrouped(k)
    BY <1>1, FollowUps DEF Show
  <2>2. QED
    BY <2>1 DEF Lands
<1>2. ASSUME NEW o, Sends(c, OptionsRequest(o, u))
      PROVE  Lands(c)
  BY <1>2, FollowUps, AskLands
<1>3. QED
  BY <1>1, <1>2 DEF Load

LEMMA IdleLands ==
  ASSUME NEW c \in Calls, UNCHANGED rowVars, Vacant(c), Sends(c, Idle) \/ Goes(c, Idle)
  PROVE  Lands(c)
  BY FollowUps, AskLands DEF Goes

LEMMA UserViewLands ==
  ASSUME StoresOK, EditorOK, NEW c \in Calls, UserViewAsks(c)
  PROVE  Lands(c) /\ UNCHANGED <<raced, mixed>>
<1>1. UNCHANGED <<rowVars, raced, mixed>>
  BY DEF UserViewAsks
<1>2. CASE call[c] = Idle /\ (OpenUser(c) \/ OpenNew(c) \/ ChooseOrg(c, pOrgs))
  <2>1. Vacant(c)
    BY <1>2 DEF Vacant
  <2>2. OpenUser(c) => Lands(c)
    BY <1>1, <2>1, LoadLands DEF OpenUser
  <2>3. OpenNew(c) => Lands(c)
    BY <1>1, <2>1, FollowUps, AskLands DEF OpenNew
  <2>4. ChooseOrg(c, pOrgs) => Lands(c)
    BY <1>1, <2>1, FollowUps, AskLands DEF ChooseOrg
  <2>5. QED
    BY <1>1, <1>2, <2>2, <2>3, <2>4
<1>6. CASE AskUsers(c)
  <2>1. PICK k : k = [op |-> "users", step |-> "read", by |-> "page"]
    OBVIOUS
  <2>2. Settled(k)
    BY <2>1, OthersSettled
  <2>3. QED
    BY <1>1, <1>6, <2>1, <2>2, AskLands DEF AskUsers
<1>7. CASE SaveUser(c)
  <2> PICK all, base : all = Known(editor.org) /\ base = editor.base
    OBVIOUS
  <2>1. PICK S \in Ticks :
          LET u     == editor.user
              diff  == Differing(all, base, S)
              moved == editor.org # pUser[u]
              same  == diff = Differing(all, base, base) IN
          Ask(c, [op |-> "access", step |-> "check", by |-> "page", id |-> u,
                  org    |-> IF moved THEN editor.org ELSE Keep,
                  denied |-> IF moved \/ ~same THEN diff.denied ELSE Keep,
                  named  |-> diff.named, row |-> NoRow, locks |-> {}, theirs |-> {},
                  all |-> all, base |-> base, shown |-> S])
    BY <1>7 DEF SaveUser
  <2>2. PICK moved : moved = (editor.org # pUser[editor.user])
    OBVIOUS
  <2>3. PICK same : same = (Differing(all, base, S) = Differing(all, base, base))
    OBVIOUS
  <2>4. PICK k : k = [op |-> "access", step |-> "check", by |-> "page", id |-> editor.user,
                      org    |-> IF moved THEN editor.org ELSE Keep,
                      denied |-> IF moved \/ ~same THEN all \ S ELSE Keep,
                      named  |-> Differing(all, base, S).named, row |-> NoRow, locks |-> {}, theirs |-> {},
                      all |-> all, base |-> base, shown |-> S]
    OBVIOUS
  <2>5. Ask(c, k)
    BY <2>1, <2>2, <2>3, <2>4 DEF Differing
  <2>6. same => all \ S = all \ base
    BY <2>3 DEF Differing
  <2>7. same => S \cap all = base \cap all
    BY <2>6
  <2>8. /\ k.all = all /\ k.base = base /\ k.shown = S /\ k.step = "check" /\ k.op = "access"
        /\ k.denied = (IF moved \/ ~same THEN all \ S ELSE Keep)
        /\ k.org = (IF moved THEN editor.org ELSE Keep)
    BY <2>4
  <2>9. CASE moved \/ ~same
    <3>1. k.denied = all \ S
      BY <2>8, <2>9
    <3>2. k.denied # Keep
      <4>1. editor.org \in Orgs \cup {NoRow}
        BY <1>7 DEF SaveUser, EditorOK, NoEditor
      <4>2. all \in SUBSET Assets
        BY <4>1, KnownAssets
      <4>3. QED
        BY <3>1, <4>2, Apart
    <3>3. Settled(k)
      BY <2>8, <3>1, <3>2 DEF Settled, Ticked
    <3>4. QED
      BY <1>1, <2>5, <3>3, AskLands
  <2>10. CASE ~moved /\ same
    <3>1. k.denied = Keep /\ k.org = Keep
      BY <2>8, <2>10
    <3>2. Settled(k)
      BY <2>7, <2>8, <2>10, <3>1 DEF Settled, Ticked
    <3>3. QED
      BY <1>1, <2>5, <3>2, AskLands
  <2>11. QED
    BY <2>9, <2>10
<1>8. CASE CreateUser(c)
  <2>1. PICK S \in Ticks :
          LET diff == Differing(editor.base, editor.base, S) IN
          Ask(c, [op |-> "newUser", step |-> "check", by |-> "page", org |-> editor.org,
                  denied |-> diff.denied, named |-> diff.named,
                  all |-> editor.base, shown |-> S])
    BY <1>8 DEF CreateUser
  <2>2. PICK k : k = [op |-> "newUser", step |-> "check", by |-> "page", org |-> editor.org,
                      denied |-> editor.base \ S,
                      named |-> Differing(editor.base, editor.base, S).named,
                      all |-> editor.base, shown |-> S]
    OBVIOUS
  <2>3. Settled(k) /\ Ask(c, k)
    BY <2>1, <2>2 DEF Settled, Ticked, Differing
  <2>4. QED
    BY <1>1, <2>3, AskLands
<1>9. CASE RemoveUsers(c)
  BY <1>1, <1>9, AsksLand, AskedLands DEF RemoveUsers
<1>10. QED
  BY <1>1, <1>2, <1>6, <1>7, <1>8, <1>9 DEF UserViewAsks

LEMMA LoadPageLands ==
  ASSUME NEW c \in Calls, LoadPage(c)
  PROVE  Lands(c) /\ UNCHANGED <<raced, mixed>>
<1>1. PICK k : k = [op |-> "profile", step |-> "scope", by |-> "page", ids |-> {},
                    orgs |-> {}, assets |-> {}]
  OBVIOUS
<1>2. Settled(k) /\ Ask(c, k) /\ UNCHANGED <<rowVars, raced, mixed>>
  BY <1>1, OthersSettled DEF LoadPage
<1>3. QED
  BY <1>2, AskLands

LEMMA AnswersLand ==
  ASSUME NEW c \in Calls, UNCHANGED rowVars, call[c].op = "profile", NEW b, Answers(c, b)
  PROVE  Lands(c)
<1>1. PICK k : Settled(k) /\ Sends(c, k) /\ Ungrouped(k)
  BY DEF Answers, Goes, Idle, Settled, Ticked, Ungrouped
<1>2. QED
  BY <1>1, AskLands DEF Vacant

LEMMA ProfileLands ==
  ASSUME SlotsOK, NEW c \in Calls, Profile(c)
  PROVE  Lands(c) /\ UNCHANGED <<raced, mixed>>
<1>1. UNCHANGED <<rowVars, raced, mixed>>
  BY DEF Profile
<1>2. CASE ReadScope(c) \/ ReadOrgInfo(c) \/ ReadAssets(c) \/ ReadDevices(c)
  <2>0. Vacant(c)
    BY <1>2 DEF ReadScope, ReadOrgInfo, ReadAssets, ReadDevices, At, Vacant
  <2>1. ReadDevices(c) => Lands(c)
    BY <1>1, AnswersLand DEF ReadDevices, At
  <2>2. call[c].step # "answer" /\ call[c].op = "profile" => call[c] \in ProfileAsked
    BY ProfileSlot
  <2>3. ReadScope(c) => Lands(c)
    <3> SUFFICES ASSUME ReadScope(c) PROVE Lands(c)
      OBVIOUS
    <3>1. PICK k : k = [call[c] EXCEPT !.step = "orgs", !.ids = Scope]
      OBVIOUS
    <3>2. k.step = "orgs" /\ k.op = "profile" /\ Sends(c, k)
      BY <2>2, <3>1 DEF ReadScope, At, Goes, ProfileAsked
    <3>3. QED
      BY <1>1, <2>0, <3>2, AskLands, OthersSettled DEF Ungrouped
  <2>4. ReadOrgInfo(c) => Lands(c)
    <3> SUFFICES ASSUME ReadOrgInfo(c) PROVE Lands(c)
      OBVIOUS
    <3>1. PICK f : Sends(c, [call[c] EXCEPT !.step = "assets", !.orgs = f])
      BY Zenon DEF ReadOrgInfo, Goes
    <3>2. PICK k : k = [call[c] EXCEPT !.step = "assets", !.orgs = f]
      OBVIOUS
    <3>3. k.step = "assets" /\ k.op = "profile" /\ Sends(c, k)
      BY <2>2, <3>1, <3>2 DEF ReadOrgInfo, At, ProfileAsked
    <3>4. QED
      BY <1>1, <2>0, <3>3, AskLands, OthersSettled DEF Ungrouped
  <2>5. ReadAssets(c) => Lands(c)
    <3> SUFFICES ASSUME ReadAssets(c) PROVE Lands(c)
      OBVIOUS
    <3>1. PICK f : Sends(c, [call[c] EXCEPT !.step = "devices", !.assets = f])
      BY Zenon DEF ReadAssets, Goes
    <3>2. PICK k : k = [call[c] EXCEPT !.step = "devices", !.assets = f]
      OBVIOUS
    <3>3. k.step = "devices" /\ k.op = "profile" /\ Sends(c, k)
      BY <2>2, <3>1, <3>2 DEF ReadAssets, At, ProfileAsked
    <3>4. QED
      BY <1>1, <2>0, <3>3, AskLands, OthersSettled DEF Ungrouped
  <2>6. QED
    BY <1>1, <1>2, <2>1, <2>3, <2>4, <2>5
<1>3. QED
  BY <1>1, <1>2 DEF Profile

LEMMA AppliesLand ==
  ASSUME NEW c \in Calls, Applies(c)
  PROVE  Lands(c) /\ UNCHANGED <<raced, mixed>>
<1>0. Vacant(c)
  BY Zenon DEF Applies, Answered, Arrived, At, Vacant, ApplyNewAsset, ApplyAsset, ApplyNoAssets,
     ApplyNewDevice, ApplyDevice, ApplyNoDevices, ApplyNewOrg, ApplyOrgs, ApplyNoOrgs,
     ApplyNewGroup, ApplyGroup, ApplyNoGroups, ApplyItems, ApplyProfile, UserApplies,
     ApplyUsers, ApplyOptions, ApplyList, ApplyAccess, ApplyNewUser, ApplyNoUsers, Shrug,
     LoseAnswer
<1>1. ASSUME NEW op, Answered(c, op) PROVE Lands(c) /\ UNCHANGED <<raced, mixed>>
  BY <1>0, <1>1, IdleLands DEF Answered
<1>2. CASE UserApplies(c)
  <2>1. UNCHANGED <<rowVars, raced, mixed>>
    BY <1>2 DEF UserApplies
  <2>2. CASE ApplyUsers(c) \/ ApplyNewUser(c) \/ ApplyList(c)
    BY <1>0, <2>1, <2>2, IdleLands DEF ApplyUsers, ApplyNewUser, ApplyList
  <2>3. CASE ApplyAccess(c) \/ ApplyNoUsers(c)
    BY <1>0, <2>1, <2>3, IdleLands, LoadLands DEF ApplyAccess, ApplyNoUsers
  <2>4. CASE ApplyOptions(c)
    <3>1. ASSUME NEW s, NEW u, NEW o, Show(c, s, u, o, FALSE) PROVE Lands(c)
      <4>1. PICK k : Settled(k) /\ Sends(c, k) /\ Ungrouped(k)
        BY <3>1, FollowUps DEF Show
      <4>2. QED
        BY <1>0, <2>1, <4>1, AskLands
    <3>2. QED
      BY <1>0, <2>1, <2>4, <3>1, IdleLands DEF ApplyOptions
  <2>5. QED
    BY <1>2, <2>1, <2>2, <2>3, <2>4 DEF UserApplies
<1>3. CASE ApplyNewAsset(c) \/ ApplyAsset(c) \/ ApplyNewDevice(c) \/ ApplyDevice(c)
              \/ ApplyNoDevices(c) \/ ApplyNewOrg(c) \/ ApplyOrgs(c) \/ ApplyNoOrgs(c)
              \/ ApplyNewGroup(c) \/ ApplyGroup(c) \/ ApplyNoGroups(c) \/ ApplyItems(c)
  BY <1>1, <1>3 DEF ApplyNewAsset, ApplyAsset, ApplyNewDevice, ApplyDevice, ApplyNoDevices,
     ApplyNewOrg, ApplyOrgs, ApplyNoOrgs, ApplyNewGroup, ApplyGroup, ApplyNoGroups, ApplyItems
<1>4. CASE ApplyNoAssets(c) \/ ApplyProfile(c) \/ Shrug(c) \/ LoseAnswer(c)
  BY <1>0, <1>4, IdleLands DEF ApplyNoAssets, ApplyProfile, Shrug, LoseAnswer
<1>5. QED
  BY <1>2, <1>3, <1>4 DEF Applies

(* Every step of the console serves a request, or stays outside.           *)
LEMMA ServedOrOutside ==
  ASSUME ConsoleInv, [ConsoleNext]_consoleVars
  PROVE  Outside \/ \E c \in Calls : Serves(c)
<1>1. ASSUME NEW c \in Calls,
             ViewAsks(c) \/ UserViewAsks(c) \/ OthersAsk(c) \/ LoadPage(c) \/ Profile(c)
                 \/ Applies(c)
      PROVE  Outside
  BY <1>1, ViewLands, UserViewLands, OthersLand, LoadPageLands, ProfileLands, AppliesLand,
     LandsOutside DEF ConsoleInv
<1>2. ASSUME UNCHANGED fleetVars, UNCHANGED mixed PROVE Outside
  BY <1>2 DEF fleetVars, callVars, Outside
<1>3. CloseGroup \/ CloseUser \/ ReportsNext \/ UNCHANGED consoleVars => Outside
  BY <1>2 DEF CloseGroup, CloseUser, ReportsNext, consoleVars
<1>4. HashNext /\ UNCHANGED <<raced, mixed>> => Outside
  BY DEF HashNext, HashJob, HashJobFails, SelectOrgs, ReplaceOrgs, callVars, Outside
<1>5. QED
  BY <1>1, <1>3, <1>4 DEF ConsoleNext, ConsoleStep

-----------------------------------------------------------------------------
(* The count of a group.                                                   *)

(* Members can only leave, and transactions go on as they were.            *)
LEMMA CountKept ==
  ASSUME TableOK, CountInv, UNCHANGED mixed, GroupRows' = GroupRows,
         \A g \in GroupRows : /\ group'[g].members \subseteq group[g].members
                              /\ group'[g].items = group[g].items,
         \A e \in Calls : At(e, "group", "commit")' => call'[e] = call[e],
         \A e \in Calls : At(e, "group", "commit") => call[e].id \in Groups
  PROVE  CountInv'
<1>1. ASSUME NEW g \in (GroupRows \ mixed)'
      PROVE  Cardinality(group'[g].members) <= group'[g].items
  <2>1. /\ g \in GroupRows \ mixed /\ group[g] \in GroupRow
        /\ group'[g].members \subseteq group[g].members /\ group'[g].items = group[g].items
    BY <1>1 DEF TableOK, RowsOK
  <2>2. Cardinality(group[g].members) <= group[g].items
    BY <2>1 DEF CountInv, CountCovers
  <2>3. IsFiniteSet(group[g].members)
    BY <2>1, Apart, FS_Subset DEF GroupRow
  <2>4. /\ Cardinality(group'[g].members) <= Cardinality(group[g].members)
        /\ Cardinality(group'[g].members) \in Nat /\ Cardinality(group[g].members) \in Nat
    BY <2>1, <2>3, FS_Subset, FS_CardinalityType
  <2>5. group[g].items \in Nat
    BY <2>1 DEF GroupRow
  <2>6. QED
    BY <2>1, <2>2, <2>4, <2>5
<1>2. ASSUME NEW e \in Calls
      PROVE  Snapshot(e)'
  <2> SUFFICES ASSUME At(e, "group", "commit")', ~call'[e].met, group'[call'[e].id] # NoRow
               PROVE  group'[call'[e].id].members \subseteq call'[e].doomed
    BY DEF Snapshot
  <2>1. call'[e] = call[e] /\ At(e, "group", "commit")
    BY DEF At
  <2>2. call[e].id \in GroupRows
    BY <2>1 DEF GroupRows
  <2>3. Snapshot(e)
    BY DEF CountInv
  <2>4. QED
    BY <2>1, <2>2, <2>3 DEF Snapshot, GroupRows
<1>3. QED
  BY <1>1, <1>2 DEF CountInv, CountCovers

LEMMA CommitGroups ==
  ASSUME SlotsOK, NEW e \in Calls, At(e, "group", "commit")
  PROVE  call[e] \in GroupAsked /\ call[e].id \in Groups /\ call[e].met \in BOOLEAN
<1>1. call[e] \in GroupAsked
  BY GroupSlot DEF At, GroupOps
<1>2. QED
  BY <1>1 DEF GroupAsked

(* Requests of the other modules touch a group through an asset that goes. *)
Aside(c) ==
    /\ OthersKept(c)
    /\ \A e \in Calls \ {c} : call[e].op = "access" \/ call'[e] = call[e]
    /\ UNCHANGED group \/ \E S : Detached(S)

LEMMA AsideApart ==
  ASSUME SlotsOK, NEW c \in Calls, Aside(c), NEW e \in Calls \ {c}
  PROVE  call'[e] = call[e] \/ (/\ call[e].op = "access" /\ call[e].step = "commit"
                              /\ call'[e].op = "access" /\ call'[e].step = "commit")
BY OtherChanged DEF Aside

LEMMA CountApart ==
  ASSUME TableOK, SlotsOK, CountInv, NEW c \in Calls,
         UNCHANGED mixed, Aside(c), Stays(c), call[c].op # "group"
  PROVE  CountInv'
<1>0. UNCHANGED group \/ \E S : Detached(S)
  BY DEF Aside
<1>1. \A e \in Calls : At(e, "group", "commit")' => call'[e] = call[e]
  BY AsideApart DEF At, Stays, Idle
<1>2. GroupRows' = GroupRows /\ \A g \in GroupRows :
         group'[g].members \subseteq group[g].members /\ group'[g].items = group[g].items
  <2>1. CASE UNCHANGED group
    BY <2>1 DEF GroupRows
  <2>2. CASE \E S : Detached(S)
    <3>1. PICK S : group' = [g \in Groups |->
                                IF group[g] # NoRow
                                THEN [group[g] EXCEPT !.members = @ \ S] ELSE group[g]]
      BY <2>2 DEF Detached
    <3>2. ASSUME NEW g \in GroupRows
          PROVE  /\ group'[g] # NoRow /\ group'[g].members \subseteq group[g].members
                 /\ group'[g].items = group[g].items
      <4>1. g \in Groups /\ group[g] # NoRow /\ group[g] \in GroupRow
        BY DEF GroupRows, TableOK
      <4>2. PICK row : row = [group[g] EXCEPT !.members = @ \ S]
        OBVIOUS
      <4>3. group'[g] = row
        BY <3>1, <4>1, <4>2
      <4>4. row \in GroupRow /\ row.members = group[g].members \ S /\ row.items = group[g].items
        BY <4>1, <4>2 DEF GroupRow
      <4>5. QED
        BY <4>3, <4>4, Apart
    <3>3. \A g \in Groups : group[g] = NoRow => group'[g] = NoRow
      BY <3>1
    <3>4. GroupRows' = GroupRows
      BY <3>2, <3>3 DEF GroupRows
    <3>5. QED
      BY <3>2, <3>4
  <2>3. QED
    BY <1>0, <2>1, <2>2
<1>3. QED
  BY <1>1, <1>2, CountKept, CommitGroups

LEMMA OutsideKeepsCount ==
  ASSUME TableOK, SlotsOK, CountInv, Outside
  PROVE  CountInv'
<1>1. \A e \in Calls : At(e, "group", "commit")' => call'[e] = call[e]
  BY DEF Outside, At, Settled
<1>2. GroupRows' = GroupRows /\ UNCHANGED <<group, mixed>>
  BY DEF Outside, rowVars, GroupRows
<1>3. QED
  BY <1>1, <1>2, CountKept, CommitGroups

LEMMA InsertKeepsCount ==
  ASSUME TableOK, SlotsOK, CountInv, NEW c \in Calls, InsertGroup(c)
  PROVE  CountInv'
<1>1. call[c].op = "newGroup" /\ UNCHANGED mixed /\ Stays(c)
  BY GroupStays DEF InsertGroup, At, GroupNext
<1>2. \A e \in Calls \ {c} : call'[e] = call[e]
  BY DEF InsertGroup, Answers, Refuse, Goes, Sends, SlotsOK
<1>3. \A e \in Calls : At(e, "group", "commit")' => call'[e] = call[e]
  BY <1>1, <1>2 DEF At, Stays, Idle
<1>4. CASE Refuse(c)
  <2>1. UNCHANGED group /\ GroupRows' = GroupRows
    BY <1>4 DEF Refuse, rowVars, GroupRows
  <2>2. QED
    BY <1>1, <1>3, <2>1, CountKept, CommitGroups
<1>5. CASE ~Refuse(c)
  <2>1. PICK g \in Groups : g = NextId(Groups) /\ g \in fresh
    BY <1>5, FreshId DEF InsertGroup
  <2>2. PICK row \in GroupRow : row = [members |-> {}, items |-> 0]
    BY DEF GroupRow
  <2>3. group' = [group EXCEPT ![g] = row]
    BY <1>5, <2>1, <2>2 DEF InsertGroup
  <2>4. GroupRows' = GroupRows \cup {g}
        /\ \A h \in GroupRows' : group'[h] = IF h = g THEN row ELSE group[h]
    BY <2>3, Apart DEF TableOK, GroupRows
  <2>5. Cardinality(row.members) <= row.items
    BY <2>2, FS_EmptySet
  <2>6. CountCovers'
    BY <1>1, <2>4, <2>5 DEF CountInv, CountCovers
  <2>7. ASSUME NEW e \in Calls, At(e, "group", "commit")', ~call'[e].met,
               group'[call'[e].id] # NoRow
        PROVE  group'[call'[e].id].members \subseteq call'[e].doomed
    <3>1. call'[e] = call[e] /\ At(e, "group", "commit") /\ call[e].id \in Groups
      BY <1>3, <2>7, CommitGroups DEF At
    <3>2. call[e].id \in GroupRows'
      BY <2>7, <3>1 DEF GroupRows
    <3>3. Snapshot(e)
      BY DEF CountInv
    <3>4. CASE call[e].id = g
      BY <2>2, <2>4, <3>1, <3>2, <3>4
    <3>5. CASE call[e].id # g
      BY <2>4, <2>7, <3>1, <3>2, <3>3, <3>5 DEF Snapshot, GroupRows
    <3>6. QED
      BY <3>4, <3>5
  <2>8. QED
    BY <2>6, <2>7 DEF CountInv, Snapshot
<1>6. QED
  BY <1>4, <1>5

LEMMA DeletesKeepCount ==
  ASSUME TableOK, SlotsOK, CountInv, NEW c \in Calls, DeleteMembers(c)
  PROVE  CountInv'
<1>1. UNCHANGED mixed /\ UNCHANGED group /\ GroupRows' = GroupRows
  BY DEF DeleteMembers, Refuse, rowVars, GroupRows
<1>2. \A e \in Calls \ {c} : call'[e] = call[e]
  BY DEF DeleteMembers, Answers, Refuse, Goes, Sends, SlotsOK
<1>3. call[c] \in GroupAsked /\ call[c].op = "group"
  BY GroupSlot DEF DeleteMembers, At, GroupOps
<1>4. CASE Refuse(c)
  <2>1. ~At(c, "group", "commit")'
    BY <1>4 DEF Refuse, Answers, Goes, Sends, SlotsOK, At, Idle
  <2>2. \A e \in Calls : At(e, "group", "commit")' => call'[e] = call[e]
    BY <1>2, <2>1
  <2>3. QED
    BY <1>1, <2>2, CountKept, CommitGroups
<1>5. CASE ~Refuse(c)
  <2>1. CountCovers'
    BY <1>1 DEF CountInv, CountCovers
  <2>2. \A e \in Calls \ {c} : Snapshot(e)'
    BY <1>1, <1>2 DEF CountInv, Snapshot, At
  <2>3. Snapshot(c)'
    <3>1. PICK k : k = [call[c] EXCEPT !.step = "commit", !.doomed = Deleted(call[c].id)]
      OBVIOUS
    <3>2. call'[c] = k
      BY <1>5, <3>1 DEF DeleteMembers, Goes, Sends, SlotsOK
    <3>3. k.id = call[c].id /\ k.doomed = group[k.id].members
      BY <1>3, <3>1 DEF GroupAsked, Deleted
    <3>4. QED
      BY <1>1, <3>2, <3>3 DEF Snapshot
  <2>4. QED
    BY <2>1, <2>2, <2>3 DEF CountInv
<1>6. QED
  BY <1>4, <1>5

LEMMA CommitKeepsCount ==
  ASSUME TableOK, SlotsOK, CountInv, NEW c \in Calls, CommitGroup(c)
  PROVE  CountInv'
<1>1. PICK k : k = call[c]
  OBVIOUS
<1>2. k \in GroupAsked /\ k.op = "group" /\ k.id \in Groups
      /\ k.members \in (SUBSET Assets) \cup {Keep} /\ k.met \in BOOLEAN
      /\ At(c, "group", "commit")
  <2>1. At(c, "group", "commit")
    BY Zenon DEF CommitGroup
  <2>2. QED
    BY <1>1, <2>1, CommitGroups DEF GroupAsked, At
<1>3. CASE UNCHANGED <<group, mixed>> /\ \E b : Answers(c, b)
  <2>1. \A e \in Calls \ {c} : call'[e] = call[e]
    BY <1>3 DEF Answers, Goes, Sends, SlotsOK
  <2>2. ~At(c, "group", "commit")'
    BY <1>3 DEF Answers, Goes, Sends, SlotsOK, At, Idle
  <2>3. GroupRows' = GroupRows
    BY <1>3 DEF GroupRows
  <2>4. \A e \in Calls : At(e, "group", "commit")' => call'[e] = call[e]
    BY <2>1, <2>2
  <2>5. QED
    BY <1>3, <2>3, <2>4, CountKept, CommitGroups
<1>4. CASE ~(UNCHANGED <<group, mixed>> /\ \E b : Answers(c, b))
  <2> DEFINE kept == group[k.id].members \ k.doomed
             rest == {e \in Calls \ {c} : At(e, "group", "commit") /\ call[e].id = k.id}
             row  == [members |-> kept \cup k.members, items |-> Cardinality(k.members)]
             body == [id |-> k.id, items |-> Cardinality(k.members)]
             Over(e) == [call[e] EXCEPT !.doomed = @ \cap kept, !.met = TRUE]
             ans  == [op |-> "group", step |-> "answer", by |-> "page", asked |-> k, body |-> body]
  <2>1. /\ group[k.id] # NoRow /\ k.members # Keep
        /\ group' = [group EXCEPT ![k.id] = row]
        /\ mixed' = IF k.met THEN mixed \cup {k.id} ELSE mixed \ {k.id}
        /\ call' = [e \in Calls |->
                        IF e = c THEN IF k.by = "page" THEN ans ELSE Idle
                        ELSE IF e \in rest THEN Over(e) ELSE call[e]]
    <3>1. ~Refuse(c) \/ ~UNCHANGED mixed
      BY <1>4 DEF Refuse, rowVars
    <3>2. ~(UNCHANGED <<rowVars, mixed>> /\ \E b : Answers(c, b))
      BY <1>4 DEF rowVars
    <3>3. QED
      BY Zenon, <1>1, <3>1, <3>2 DEF CommitGroup
  <2>2. /\ k.members \in SUBSET Assets /\ IsFiniteSet(k.members)
        /\ Cardinality(k.members) \in Nat
    <3>1. k.members \in SUBSET Assets
      BY <1>2, <2>1
    <3>2. QED
      BY <3>1, Apart, FS_Subset, FS_CardinalityType
  <2>3. group[k.id] \in GroupRow
    BY <1>2, <2>1 DEF TableOK
  <2>4. row \in GroupRow
    BY <2>2, <2>3 DEF GroupRow
  <2>5. PICK r : r = row
    OBVIOUS
  <2>6. /\ GroupRows' = GroupRows
        /\ \A h \in Groups : group'[h] = IF h = k.id THEN r ELSE group[h]
        /\ r # NoRow /\ r.members = kept \cup k.members /\ r.items = Cardinality(k.members)
    BY <1>2, <2>1, <2>4, <2>5, Apart DEF TableOK, GroupRows
  <2>7. \A e \in Calls : call'[e] = IF e = c THEN IF k.by = "page" THEN ans ELSE Idle
                                    ELSE IF e \in rest THEN Over(e) ELSE call[e]
    BY <2>1
  <2>8. ~k.met => kept = {}
    BY <1>1, <1>2, <2>1 DEF CountInv, Snapshot
  <2>9. ~At(c, "group", "commit")'
    <3>1. call'[c] = ans \/ call'[c] = Idle
      BY <2>7
    <3>2. ans.step = "answer"
      OBVIOUS
    <3>3. QED
      BY <3>1, <3>2 DEF At, Idle
  <2>10. \A e \in rest : Over(e).met
    BY CommitGroups DEF GroupAsked
  <2> HIDE DEF row, body, ans, Over
  <2>11. CountCovers'
    <3> SUFFICES ASSUME NEW g \in (GroupRows \ mixed)'
                 PROVE  Cardinality(group'[g].members) <= group'[g].items
      BY DEF CountCovers
    <3>1. g \in GroupRows /\ g \in Groups
      BY <2>6 DEF GroupRows
    <3>2. CASE g = k.id
      <4>1. ~k.met
        BY <2>1, <3>2
      <4>2. r.members = k.members
        BY <2>6, <2>8, <4>1
      <4>3. QED
        BY <2>2, <2>6, <3>1, <3>2, <4>2
    <3>3. CASE g # k.id
      <4>1. g \notin mixed
        BY <2>1, <3>3
      <4>2. QED
        BY <2>6, <3>1, <3>3, <4>1 DEF CountInv, CountCovers
    <3>4. QED
      BY <3>2, <3>3
  <2>12. ASSUME NEW e \in Calls
         PROVE  Snapshot(e)'
    <3> SUFFICES ASSUME At(e, "group", "commit")', ~call'[e].met, group'[call'[e].id] # NoRow
                 PROVE  group'[call'[e].id].members \subseteq call'[e].doomed
      BY DEF Snapshot
    <3>1. e # c /\ e \notin rest
      <4>1. e # c
        BY <2>9
      <4>2. e \in rest => call'[e].met
        BY <2>7, <2>10, <4>1
      <4>3. QED
        BY <4>1, <4>2
    <3>2. call'[e] = call[e] /\ At(e, "group", "commit")
      BY <2>7, <3>1 DEF At
    <3>3. call[e].id # k.id /\ call[e].id \in Groups
      BY <3>1, <3>2, CommitGroups
    <3>4. QED
      BY <2>6, <3>2, <3>3 DEF CountInv, Snapshot
  <2>13. QED
    BY <2>11, <2>12 DEF CountInv
<1>5. QED
  BY <1>3, <1>4

LEMMA OtherGroupsKeepCount ==
  ASSUME TableOK, SlotsOK, CountInv, NEW c \in Calls, ReadItems(c) \/ DeleteGroups(c)
  PROVE  CountInv'
<1>1. /\ call[c].op # "group" /\ Stays(c) /\ UNCHANGED mixed
      /\ \A e \in Calls \ {c} : call'[e] = call[e]
  BY GroupStays DEF ReadItems, DeleteGroups, At, GroupNext, Refuse, Answers, Goes, Sends, SlotsOK
<1>2. \A e \in Calls : At(e, "group", "commit")' => call'[e] = call[e]
  BY <1>1 DEF At, Stays, Idle
<1>3. \A g \in GroupRows' : g \in GroupRows /\ group'[g] = group[g]
  <2>1. CASE UNCHANGED group
    BY <2>1 DEF GroupRows
  <2>2. CASE group' = Without(group, call[c].ids)
    BY <2>2 DEF Without, GroupRows, TableOK
  <2>3. QED
    BY <2>1, <2>2 DEF ReadItems, DeleteGroups, Refuse, rowVars
<1>4. CountCovers'
  BY <1>1, <1>3 DEF CountInv, CountCovers
<1>5. \A e \in Calls : Snapshot(e)'
  <2> SUFFICES ASSUME NEW e \in Calls, At(e, "group", "commit")', ~call'[e].met,
                      group'[call'[e].id] # NoRow
               PROVE  group'[call'[e].id].members \subseteq call'[e].doomed
    BY DEF Snapshot
  <2>1. call'[e] = call[e] /\ At(e, "group", "commit") /\ call[e].id \in Groups
    BY <1>2, CommitGroups DEF At
  <2>2. call[e].id \in GroupRows'
    BY <2>1 DEF GroupRows
  <2>3. QED
    BY <1>3, <2>1, <2>2 DEF CountInv, Snapshot, GroupRows
<1>6. QED
  BY <1>4, <1>5 DEF CountInv

LEMMA AnswersApart ==
  ASSUME SlotsOK, NEW c \in Calls
  PROVE  /\ \A b : Answers(c, b) => \A e \in Calls \ {c} : call'[e] = call[e]
         /\ \A k : Goes(c, k) => \A e \in Calls \ {c} : call'[e] = call[e]
         /\ Refuse(c) => UNCHANGED rowVars /\ \A e \in Calls \ {c} : call'[e] = call[e]
  BY DEF Answers, Refuse, Goes, Sends, SlotsOK

LEMMA FleetAside ==
  ASSUME SlotsOK, NEW c \in Calls, FleetNext(c)
  PROVE  Aside(c)
<1>1. CASE CheckNewAsset(c) \/ CheckAsset(c) \/ CheckNewDevice(c) \/ CheckDevice(c)
               \/ CheckNoDevices(c)
  BY <1>1, AnswersApart DEF CheckNewAsset, CheckAsset, CheckNewDevice, CheckDevice,
     CheckNoDevices, Aside, OthersKept, rowVars
<1>2. CASE InsertAsset(c) \/ InsertDevice(c) \/ WriteDevice(c) \/ DeleteDevices(c)
  BY <1>2, AnswersApart DEF InsertAsset, InsertDevice, WriteDevice, DeleteDevices, Aside, OthersKept, rowVars
<1>3. CASE MoveAsset(c) \/ CommitAsset(c)
  BY <1>3, AnswersApart DEF MoveAsset, CommitAsset, Aside, OthersKept, rowVars
<1>4. CASE DeleteAssets(c)
  BY <1>4, AnswersApart DEF DeleteAssets, Aside, OthersKept
<1>5. QED
  BY <1>1, <1>2, <1>3, <1>4 DEF FleetNext

LEMMA OrgAside ==
  ASSUME SlotsOK, NEW c \in Calls, OrgNext(c)
  PROVE  Aside(c)
<1>1. CASE CheckNewOrg(c) \/ CheckOrg(c) \/ CheckNoOrgs(c)
  BY <1>1, AnswersApart DEF CheckNewOrg, CheckOrg, CheckNoOrgs, Aside, OthersKept, rowVars
<1>2. CASE InsertOrg(c) \/ HashNewOrg(c) \/ HashNewOrgFails(c)
  BY <1>2, AnswersApart DEF InsertOrg, HashNewOrg, HashNewOrgFails, Aside, OthersKept, rowVars
<1>3. CASE WriteOrg(c) \/ DeleteOrgs(c)
  BY <1>3, AnswersApart DEF WriteOrg, DeleteOrgs, Aside, OthersKept, rowVars
<1>4. QED
  BY <1>1, <1>2, <1>3 DEF OrgNext

LEMMA AccessAside ==
  ASSUME TableOK, SlotsOK, NEW c \in Calls, AccessNext(c)
  PROVE  Aside(c)
<1>1. UNCHANGED group
  BY DEF AccessNext, ReadUsers, ReadOptions, ReadDenied, ReadList, CheckAccess, WriteAccess,
     CommitAccess, CheckNewUser, InsertUser, CheckNoUsers, DeleteUsers, Refuse, rowVars
<1>2. OthersKept(c)
  BY UserServed
<1>3. CASE CommitAccess(c)
  BY <1>1, <1>2, <1>3, AnswersApart DEF CommitAccess, Aside, At
<1>4. CASE ~CommitAccess(c)
  <2>1. \A e \in Calls \ {c} : call'[e] = call[e]
    BY <1>4, AnswersApart DEF AccessNext, ReadUsers, ReadOptions, ReadDenied, ReadList,
       CheckAccess, WriteAccess, CheckNewUser, InsertUser, CheckNoUsers, DeleteUsers
  <2>2. QED
    BY <1>1, <1>2, <2>1 DEF Aside
<1>5. QED
  BY <1>3, <1>4

LEMMA ServesKeepCount ==
  ASSUME TableOK, SlotsOK, CountInv, NEW c \in Calls, Serves(c)
  PROVE  CountInv'
<1>1. ASSUME Aside(c), Stays(c), call[c].op # "group", UNCHANGED mixed
      PROVE  CountInv'
  BY <1>1, CountApart
<1>2. CASE FleetNext(c) /\ UNCHANGED <<hashVars, mixed>>
  BY <1>1, <1>2, FleetAside, FleetStays DEF RowOps
<1>3. CASE OrgNext(c) /\ UNCHANGED <<raced, mixed>>
  BY <1>1, <1>3, OrgAside, TreeStays DEF TreeOps
<1>4. CASE AccessNext(c) /\ UNCHANGED <<raced, hashVars, mixed>>
  BY <1>1, <1>4, AccessAside, UserStays DEF UserOps
<1>5. CASE GroupNext(c)
  BY <1>5, InsertKeepsCount, DeletesKeepCount, CommitKeepsCount, OtherGroupsKeepCount
  DEF GroupNext
<1>6. QED
  BY <1>2, <1>3, <1>4, <1>5 DEF Serves

LEMMA ConsoleCount == ConsoleSpec => []CountInv
<1>1. ConsoleInit => CountInv
  <2> SUFFICES ASSUME ConsoleInit PROVE CountInv
    OBVIOUS
  <2>1. group = InitGroup /\ call = [c \in Calls |-> Idle]
    BY DEF ConsoleInit, RowsInit
  <2>2. CountCovers
    BY <2>1, StartRows DEF CountCovers, GroupRows
  <2>3. \A c \in Calls : Snapshot(c)
    BY <2>1 DEF Snapshot, At, Idle
  <2>4. QED
    BY <2>2, <2>3 DEF CountInv
<1>2. ConsoleInv /\ CountInv /\ [ConsoleNext]_consoleVars => CountInv'
  BY ServedOrOutside, OutsideKeepsCount, ServesKeepCount DEF ConsoleInv
<1>3. QED
  BY <1>1, <1>2, ConsoleInvariant, PTL DEF ConsoleSpec

(* The number stored with a group never falls below its members: updates   *)
(* that overlap, which both commit, are the only way to uncounted ones.    *)
THEOREM CountCoversCorrect == ConsoleSpec => []CountCovers
<1>1. CountInv => CountCovers
  BY DEF CountInv
<1>2. QED
  BY <1>1, ConsoleCount, PTL

-----------------------------------------------------------------------------
LEMMA AgreeStep ==
  ASSUME AgreeInv, raced \subseteq raced', AttachedAgree',
         \A e \in Calls : At(e, "asset", "commit")' => call'[e] = call[e],
         \A e \in Calls : At(e, "asset", "commit") /\ call'[e] = call[e] =>
            /\ asset'[call[e].id] = asset[call[e].id]
            /\ \A d \in Devices \cap call[e].locks : device'[d] = device[d]
            /\ \A d \in DeviceRows' : device'[d].asset = call[e].id =>
                  \/ d \in DeviceRows /\ device[d].asset = call[e].id
                  \/ call[e].id \in raced'
  PROVE  AgreeInv'
<1>1. ASSUME NEW e \in Calls
      PROVE  Moving(e)'
  <2> SUFFICES ASSUME At(e, "asset", "commit")'
               PROVE  /\ call'[e].org = call'[e].was /\ asset'[call'[e].id] # call'[e].was
                            => call'[e].id \in raced'
                      /\ \A d \in Devices \cap call'[e].locks :
                            device'[d] # NoRow
                            /\ (d \in call'[e].held => device'[d].org = MovedTo(call[e])')
                      /\ \A d \in DeviceRows' : device'[d].asset = call'[e].id =>
                            d \in call'[e].held \cup call'[e].locks \/ call'[e].id \in raced'
    BY DEF Moving
  <2>1. call'[e] = call[e] /\ At(e, "asset", "commit") /\ Moving(e)
    BY DEF At, AgreeInv
  <2>2. asset'[call[e].id] = asset[call[e].id]
    BY <2>1
  <2>3. MovedTo(call[e])' = MovedTo(call[e])
    BY <2>1, <2>2 DEF MovedTo, Final
  <2>4. \A d \in Devices \cap call[e].locks :
           device'[d] # NoRow /\ (d \in call[e].held => device'[d].org = MovedTo(call[e]))
    BY <2>1 DEF Moving
  <2>5. \A d \in DeviceRows' : device'[d].asset = call[e].id =>
           d \in call[e].held \cup call[e].locks \/ call[e].id \in raced'
    BY <2>1 DEF Moving
  <2>6. call[e].org = call[e].was /\ asset'[call[e].id] # call[e].was => call[e].id \in raced'
    BY <2>1, <2>2 DEF Moving
  <2>7. QED
    BY <2>1, <2>3, <2>4, <2>5, <2>6
<1>2. LocksApart'
  BY DEF AgreeInv, LocksApart, At
<1>3. QED
  BY <1>1, <1>2 DEF AgreeInv

(* Assets and devices are left alone.                                      *)
LEMMA AgreeFrame ==
  ASSUME AgreeInv, UNCHANGED <<asset, device, raced>>,
         \A e \in Calls : At(e, "asset", "commit")' => call'[e] = call[e]
  PROVE  AgreeInv'
<1>1. DeviceRows' = DeviceRows
  BY DEF DeviceRows
<1>2. AttachedAgree'
  BY <1>1 DEF AgreeInv, AttachedAgree, OrgsMatch
<1>3. QED
  BY <1>1, <1>2, AgreeStep

LEMMA OutsideKeepsAgree ==
  ASSUME AgreeInv, Outside
  PROVE  AgreeInv'
<1>1. UNCHANGED <<asset, device, raced>>
      /\ \A e \in Calls : At(e, "asset", "commit")' => call'[e] = call[e]
  BY DEF Outside, rowVars, At, Settled
<1>2. QED
  BY <1>1, AgreeFrame

(* An answered request has left its transaction.                           *)
LEMMA AnsweredLeaves ==
  ASSUME SlotsOK, NEW c \in Calls, NEW b, Answers(c, b)
  PROVE  \A e \in Calls : At(e, "asset", "commit")' => e # c /\ call'[e] = call[e]
<1>1. call'[c] = Idle \/ call'[c].step = "answer"
  BY DEF Answers, Goes, Sends, SlotsOK
<1>2. \A e \in Calls \ {c} : call'[e] = call[e]
  BY AnswersApart
<1>3. ~At(c, "asset", "commit")'
  BY <1>1 DEF At, Idle
<1>4. QED
  BY <1>2, <1>3

LEMMA GoesLeaves ==
  ASSUME SlotsOK, NEW c \in Calls, NEW k, Goes(c, k), ~(k.op = "asset" /\ k.step = "commit")
  PROVE  \A e \in Calls : At(e, "asset", "commit")' => e # c /\ call'[e] = call[e]
<1>1. call'[c] = k /\ \A e \in Calls \ {c} : call'[e] = call[e]
  BY DEF Goes, Sends, SlotsOK
<1>2. QED
  BY <1>1 DEF At

LEMMA RefusesAgree ==
  ASSUME SlotsOK, AgreeInv, NEW c \in Calls, Refuse(c), UNCHANGED raced
  PROVE  AgreeInv'
<1>1. UNCHANGED <<asset, device>> /\ Answers(c, Refused)
  BY DEF Refuse, rowVars
<1>2. QED
  BY <1>1, AnsweredLeaves, AgreeFrame

LEMMA StayedLeaves ==
  ASSUME SlotsOK, NEW c \in Calls, Stays(c), call[c].op # "asset", Aside(c)
  PROVE  \A e \in Calls : At(e, "asset", "commit")' => e # c /\ call'[e] = call[e]
  BY AsideApart DEF Stays, At, Idle

(* The checks of the handlers of assets and devices.                       *)
LEMMA ChecksAgree ==
  ASSUME SlotsOK, AgreeInv, NEW c \in Calls,
         CheckNewAsset(c) \/ CheckAsset(c) \/ CheckNewDevice(c) \/ CheckDevice(c)
             \/ CheckNoDevices(c)
  PROVE  AgreeInv'
<1>1. UNCHANGED <<asset, device, raced>>
  BY DEF CheckNewAsset, CheckAsset, CheckNewDevice, CheckDevice, CheckNoDevices, Refuse, rowVars
<1>2. CASE Refuse(c)
  BY <1>1, <1>2, RefusesAgree
<1>3. CASE CheckAsset(c) /\ ~Refuse(c)
  <2>1. call[c] \in AssetAsked
    BY <1>3, FleetSlot DEF CheckAsset, At, RowOps
  <2>2. PICK k : k = [call[c] EXCEPT !.step = "write", !.was = asset[call[c].id]]
    OBVIOUS
  <2>3. Goes(c, k) /\ k.step = "write"
    BY <1>3, <2>1, <2>2 DEF CheckAsset, AssetAsked
  <2>4. QED
    BY <1>1, <2>3, GoesLeaves, AgreeFrame
<1>4. CASE ~CheckAsset(c) /\ ~Refuse(c)
  <2>1. Stays(c) /\ call[c].op # "asset" /\ Aside(c)
    BY <1>4, FleetStays, FleetAside DEF FleetNext, CheckNewAsset, CheckNewDevice, CheckDevice,
       CheckNoDevices, At
  <2>2. QED
    BY <1>1, <2>1, StayedLeaves, AgreeFrame
<1>5. QED
  BY <1>2, <1>3, <1>4

LEMMA InsertAgrees ==
  ASSUME TableOK, SlotsOK, AgreeInv, NEW c \in Calls, InsertAsset(c)
  PROVE  AgreeInv'
<1>1. PICK k : k = call[c]
  OBVIOUS
<1>2. k \in NewAssetAsked /\ k.dev \in Devices \cup {None} /\ k.org \in Orgs
  BY <1>1, FleetSlot DEF InsertAsset, At, RowOps, NewAssetAsked
<1>3. CASE Refuse(c)
  BY <1>3, RefusesAgree DEF InsertAsset
<1>4. CASE ~Refuse(c)
  <2>1. PICK a \in Assets : a = NextId(Assets) /\ a \in fresh
    BY FreshId DEF InsertAsset
  <2>2. a \notin AssetRows
    BY <2>1 DEF TableOK
  <2>3. /\ k.dev # None => /\ device[k.dev] # NoRow
                           /\ OrgsMatch([device[k.dev] EXCEPT !.asset = a], Created(a, k))
        /\ asset' = Created(a, k)
        /\ device' = IF k.dev = None THEN device ELSE [device EXCEPT ![k.dev].asset = a]
        /\ UNCHANGED raced /\ ~Locked(k.dev)
        /\ \E b : Answers(c, b)
    BY <1>1, <1>4, <2>1 DEF InsertAsset
  <2>4. \A x \in Assets : asset'[x] = IF x = a THEN k.org ELSE asset[x]
    BY <2>3 DEF Created, TableOK, RowsOK
  <2>5. ASSUME NEW d \in DeviceRows
        PROVE  /\ device[d] \in DevRow /\ device[d].asset \in AssetRows \cup {None}
               /\ d # k.dev => device'[d] = device[d]
               /\ d = k.dev => device'[d].asset = a /\ device'[d].org = k.org
    <3>1. device[d] \in DevRow /\ device[d].asset \in AssetRows \cup {None} /\ d \in Devices
      BY DEF TableOK, RowsOK, DeviceRows
    <3>2. d # k.dev => device'[d] = device[d]
      BY <2>3 DEF TableOK, RowsOK
    <3>3. CASE d = k.dev
      <4>1. PICK row : row = [device[d] EXCEPT !.asset = a]
        OBVIOUS
      <4>2. d # None
        BY <1>2, <3>1, Markers
      <4>3. device'[d] = row /\ OrgsMatch(row, Created(a, k))
        BY <2>3, <3>1, <3>3, <4>1, <4>2 DEF TableOK, RowsOK
      <4>4. row.asset = a /\ row.org = device[d].org
        BY <3>1, <4>1 DEF DevRow
      <4>5. a # None
        BY Markers
      <4>6. row.org = k.org
        BY <2>3, <2>4, <4>3, <4>4, <4>5 DEF OrgsMatch
      <4>7. QED
        BY <3>1, <3>3, <4>3, <4>4, <4>6
    <3>4. QED
      BY <3>1, <3>2, <3>3
  <2>6. DeviceRows' = DeviceRows
    <3>1. \A d \in Devices : d # k.dev => device'[d] = device[d]
      BY <2>3 DEF TableOK, RowsOK
    <3>2. k.dev \in DeviceRows => device'[k.dev] # NoRow
      <4> SUFFICES ASSUME k.dev \in DeviceRows PROVE device'[k.dev] # NoRow
        OBVIOUS
      <4>1. k.dev \in Devices /\ device[k.dev] \in DevRow
        BY DEF DeviceRows, TableOK, RowsOK
      <4>2. PICK row \in DevRow : row = [device[k.dev] EXCEPT !.asset = a]
        BY <4>1 DEF DevRow
      <4>3. device'[k.dev] = row
        BY <2>3, <4>1, <4>2, Markers DEF TableOK, RowsOK
      <4>4. QED
        BY <4>3, Apart
    <3>3. k.dev \in Devices => k.dev \in DeviceRows
      BY <2>3, Markers DEF DeviceRows
    <3>4. QED
      BY <3>1, <3>2, <3>3 DEF DeviceRows
  <2>7. AttachedAgree'
    <3> SUFFICES ASSUME NEW d \in DeviceRows
                 PROVE  \/ device'[d].asset = None
                        \/ asset'[device'[d].asset] = device'[d].org
                        \/ device'[d].asset \in raced
      BY <2>3, <2>6 DEF AttachedAgree, OrgsMatch
    <3>1. CASE d = k.dev
      BY <2>4, <2>5, <3>1
    <3>2. CASE d # k.dev
      <4>1. device'[d] = device[d] /\ (device[d].asset # None => device[d].asset \in AssetRows)
        BY <2>5, <3>2
      <4>2. device[d].asset # None => asset'[device[d].asset] = asset[device[d].asset]
        BY <2>2, <2>4, <4>1 DEF AssetRows
      <4>3. QED
        BY <4>1, <4>2 DEF AgreeInv, AttachedAgree, OrgsMatch
    <3>3. QED
      BY <3>1, <3>2
  <2>8. ASSUME NEW e \in Calls, At(e, "asset", "commit")
        PROVE  /\ asset'[call[e].id] = asset[call[e].id]
               /\ \A d \in Devices \cap call[e].locks : device'[d] = device[d]
               /\ \A d \in DeviceRows : device'[d].asset = call[e].id =>
                     device[d].asset = call[e].id
    <3>1. call[e].id \in AssetRows
      BY <2>8, InProgress
    <3>2. call[e].id \in Assets /\ call[e].id # a
      BY <2>2, <3>1 DEF AssetRows
    <3>3. k.dev \notin call[e].locks
      BY <2>3, <2>8 DEF Locked
    <3>4. \A d \in Devices \cap call[e].locks : device'[d] = device[d]
      BY <2>3, <3>3 DEF TableOK, RowsOK
    <3>5. QED
      BY <2>4, <2>5, <3>2, <3>4
  <2>9. QED
    BY <2>3, <2>6, <2>7, <2>8, AnsweredLeaves, AgreeStep
<1>5. QED
  BY <1>3, <1>4

LEMMA MoveAgrees ==
  ASSUME TableOK, SlotsOK, AgreeInv, NEW c \in Calls, MoveAsset(c)
  PROVE  AgreeInv'
<1>1. PICK k : k = call[c]
  OBVIOUS
<1>2. k \in AssetAsked /\ k.id \in Assets /\ k.dev \in Devices \cup {Keep, Detach}
      /\ At(c, "asset", "write")
  BY <1>1, FleetSlot DEF MoveAsset, At, RowOps, AssetAsked
<1>3. CASE Answers(c, Refused) /\ UNCHANGED raced
  BY <1>3, RefusesAgree DEF MoveAsset, Refuse
<1>4. CASE ~(Answers(c, Refused) /\ UNCHANGED raced)
  <2>1. PICK to, held, gone, come, n :
           /\ to = MovedTo(k) /\ held = Set(k.id, k.dev)
           /\ gone = Holds(k.id) \ held /\ come = held \ Holds(k.id)
           /\ n = [k EXCEPT !.step = "commit", !.held = held,
                            !.locks = {k.id, to} \cup gone \cup come]
    BY Zenon
  <2>2. /\ \A d \in gone \cup come : ~Locked(d)
        /\ UNCHANGED rowVars
        /\ asset[k.id] # NoRow
        /\ \A d \in come : device[d].org = to
        /\ Goes(c, n)
        /\ raced' = raced \cup (IF k.org = k.was /\ asset[k.id] # k.was THEN {k.id} ELSE {})
    BY <1>1, <1>4, <2>1 DEF MoveAsset
  <2>3. /\ n.id = k.id /\ n.org = k.org /\ n.was = k.was /\ n.held = held
        /\ n.locks = {k.id, to} \cup gone \cup come
    BY <1>2, <2>1 DEF AssetAsked
  <2>4. call'[c] = n /\ \A e \in Calls \ {c} : call'[e] = call[e]
    BY <2>2 DEF Goes, Sends, SlotsOK
  <2>5. UNCHANGED <<asset, device>> /\ DeviceRows' = DeviceRows
    BY <2>2 DEF rowVars, DeviceRows
  <2>6. to \in Orgs
    BY <1>2, <2>1, <2>2 DEF MovedTo, Final, AssetAsked, TableOK, RowsOK
  <2>7. held \subseteq DeviceRows /\ gone \subseteq DeviceRows /\ DeviceRows \subseteq Devices
    BY <2>1 DEF Set, Holds, DeviceRows
  <2>8. Devices \cap n.locks = gone \cup come
    <3>1. k.id \notin Devices /\ to \notin Devices
      BY <1>2, <2>6, Apart
    <3>2. QED
      BY <2>1, <2>3, <2>7, <3>1
  <2>9. AttachedAgree'
    BY <2>2, <2>5 DEF AgreeInv, AttachedAgree, OrgsMatch
  <2>10. Moving(c)'
    <3>1. MovedTo(call[c])' = to
      BY <1>1, <2>1, <2>3, <2>4, <2>5 DEF MovedTo, Final
    <3>2. n.org = n.was /\ asset[n.id] # n.was => n.id \in raced'
      BY <2>2, <2>3
    <3>3. ASSUME NEW d \in Devices \cap n.locks
          PROVE  device[d] # NoRow /\ (d \in n.held => device[d].org = to)
      <4>1. d \in DeviceRows /\ d \in gone \cup come
        BY <2>1, <2>7, <2>8
      <4>2. d \in n.held => d \in come
        BY <2>1, <2>3, <4>1
      <4>3. QED
        BY <2>2, <4>1, <4>2 DEF DeviceRows
    <3>4. ASSUME NEW d \in DeviceRows, device[d].asset = n.id
          PROVE  d \in n.held \cup n.locks
      <4>1. d \in Holds(k.id)
        BY <2>3, <3>4 DEF Holds
      <4>2. QED
        BY <2>1, <2>3, <4>1
    <3>5. QED
      BY <2>4, <2>5, <3>1, <3>2, <3>3, <3>4 DEF Moving
  <2>11. ASSUME NEW e \in Calls \ {c}
         PROVE  Moving(e)'
    <3>1. call'[e] = call[e] /\ Moving(e)
      BY <2>4 DEF AgreeInv
    <3>2. MovedTo(call[e])' = MovedTo(call[e])
      BY <2>5, <3>1 DEF MovedTo, Final
    <3>3. QED
      BY <2>2, <2>5, <3>1, <3>2 DEF Moving, At
  <2>12. LocksApart'
    <3>1. ASSUME NEW e \in Calls \ {c}, At(e, "asset", "commit")
          PROVE  Devices \cap n.locks \cap call[e].locks = {}
      BY <2>2, <2>8, <3>1 DEF Locked
    <3>2. QED
      BY <2>4, <3>1 DEF AgreeInv, LocksApart, At
  <2>13. QED
    BY <2>9, <2>10, <2>11, <2>12 DEF AgreeInv
<1>5. QED
  BY <1>3, <1>4

LEMMA CommitAgrees ==
  ASSUME TableOK, SlotsOK, AgreeInv, NEW c \in Calls, CommitAsset(c)
  PROVE  AgreeInv'
<1>1. PICK k : k = call[c]
  OBVIOUS
<1>2. /\ k \in AssetAsked /\ k.id \in AssetRows /\ k.held \subseteq Devices
      /\ k.locks \subseteq Assets \cup Orgs \cup Devices
      /\ \A e \in Calls \ {c} : At(e, "asset", "commit") => call[e].id # k.id
      /\ At(c, "asset", "commit") /\ k.id # None /\ k.id \in Assets
  BY <1>1, InProgress, Markers DEF CommitAsset, AssetAsked, AssetRows
<1>3. CASE Refuse(c)
  BY <1>3, RefusesAgree DEF CommitAsset
<1>4. CASE ~Refuse(c)
  <2> DEFINE moves == k.org # Keep /\ k.org # k.was
             gone  == {d \in Devices \cap k.locks : d \notin k.held}
             Link(d) == IF d \in gone THEN None ELSE IF d \in k.locks THEN k.id ELSE device[d].asset
  <2>1. PICK to : to = MovedTo(k)
    OBVIOUS
  <2>2. /\ moves => \A d \in k.held : /\ d \notin Taken(c) /\ device[d] # NoRow
                                      /\ OrgsMatch([org |-> to, asset |-> Link(d)],
                                                   [asset EXCEPT ![k.id] = to])
        /\ asset' = [asset EXCEPT ![k.id] = to]
        /\ device' = [d \in Devices |-> IF device[d] = NoRow THEN NoRow
                                        ELSE [HeldMove(k)[d] EXCEPT !.asset = Link(d)]]
        /\ UNCHANGED raced
        /\ \E b : Answers(c, b)
    BY <1>1, <1>4, <2>1 DEF CommitAsset
  <2>3. \A x \in Assets : asset'[x] = IF x = k.id THEN to ELSE asset[x]
    BY <2>2 DEF TableOK, RowsOK
  <2>4. moves => to = k.org
    BY <2>1 DEF MovedTo, Final
  <2>5. ASSUME NEW d \in DeviceRows
        PROVE  /\ d \in Devices /\ device[d] \in DevRow /\ device'[d] # NoRow
               /\ device[d].asset \in AssetRows \cup {None}
               /\ device'[d].asset = Link(d)
               /\ device'[d].org = IF moves /\ d \in k.held THEN to ELSE device[d].org
    <3>1. d \in Devices /\ device[d] # NoRow /\ device[d] \in DevRow
          /\ device[d].asset \in AssetRows \cup {None} /\ device[d].org \in Orgs
      BY DEF TableOK, RowsOK, DeviceRows, OrgRows
    <3>2. PICK row : row = [device[d] EXCEPT !.org = k.org]
      OBVIOUS
    <3>3. PICK was : was = IF moves /\ d \in k.held THEN row ELSE device[d]
      OBVIOUS
    <3>4. HeldMove(k)[d] = was
      BY <3>1, <3>2, <3>3 DEF HeldMove
    <3>5. PICK now : now = [was EXCEPT !.asset = Link(d)]
      OBVIOUS
    <3>6. device'[d] = now
      BY <2>2, <3>1, <3>4, <3>5
    <3>7. /\ DOMAIN row = {"org", "asset"} /\ row.org = k.org
          /\ DOMAIN device[d] = {"org", "asset"}
      BY <3>1, <3>2 DEF DevRow
    <3>8. /\ DOMAIN was = {"org", "asset"}
          /\ was.org = IF moves /\ d \in k.held THEN to ELSE device[d].org
      BY <2>4, <3>3, <3>7
    <3>9. now.asset = Link(d) /\ now.org = was.org
      BY <3>5, <3>8
    <3>10. was.org \in Orgs /\ now \in [org : Orgs, asset : {Link(d)}]
      <4>1. k.org \in Orgs \cup {Keep}
        BY <1>2 DEF AssetAsked
      <4>2. was \in DevRow
        BY <3>1, <3>2, <3>3, <4>1 DEF DevRow
      <4>3. QED
        BY <3>5, <4>2 DEF DevRow
    <3>11. Link(d) \in Assets \cup {None}
      BY <1>2, <3>1 DEF AssetRows
    <3>12. now # NoRow
      <4>1. now \in DevRow
        BY <3>10, <3>11 DEF DevRow
      <4>2. QED
        BY <4>1, Apart
    <3>13. QED
      BY <3>1, <3>6, <3>8, <3>9, <3>12
  <2>6. DeviceRows' = DeviceRows
    BY <2>2, <2>5 DEF DeviceRows
  <2>7. Moving(c)
    BY DEF AgreeInv
  <2>8. ASSUME NEW d \in DeviceRows
        PROVE  \/ device'[d].asset = None
               \/ asset'[device'[d].asset] = device'[d].org
               \/ device'[d].asset \in raced
    <3>1. CASE d \in gone
      BY <2>5, <3>1
    <3>2. CASE d \in k.locks /\ d \notin gone
      <4>1. d \in k.held /\ device[d].org = to
        BY <1>1, <1>2, <2>1, <2>5, <2>7, <3>2 DEF Moving
      <4>2. device'[d].asset = k.id /\ device'[d].org = to
        BY <2>5, <3>2, <4>1
      <4>3. QED
        BY <1>2, <2>3, <4>2
    <3>3. CASE d \notin k.locks /\ moves /\ d \in k.held
      <4>1. PICK row : row = [org |-> to, asset |-> Link(d)]
        OBVIOUS
      <4>2. OrgsMatch(row, asset') /\ row.org = to /\ row.asset = Link(d)
        BY <2>2, <3>3, <4>1
      <4>3. QED
        BY <2>5, <3>3, <4>2 DEF OrgsMatch
    <3>4. CASE d \notin k.locks /\ ~(moves /\ d \in k.held)
      <4>1. device'[d].asset = device[d].asset /\ device'[d].org = device[d].org
        BY <2>5, <3>4
      <4>2. \/ device[d].asset = None \/ asset[device[d].asset] = device[d].org
            \/ device[d].asset \in raced
        BY DEF AgreeInv, AttachedAgree, OrgsMatch
      <4>3. CASE device[d].asset = k.id /\ k.id \notin raced
        <5>1. d \in k.held
          BY <1>1, <1>2, <2>7, <3>4, <4>3 DEF Moving
        <5>2. ~moves
          BY <3>4, <5>1
        <5>3. k.org = k.was => asset[k.id] = k.was
          BY <1>1, <1>2, <2>7, <4>3 DEF Moving
        <5>4. to = asset[k.id]
          BY <2>1, <5>2, <5>3 DEF MovedTo, Final
        <5>5. QED
          BY <1>2, <2>3, <4>1, <4>2, <4>3, <5>4
      <4>4. CASE device[d].asset # k.id
        <5>1. device[d].asset # None => device[d].asset \in Assets
          BY <2>5 DEF AssetRows
        <5>2. QED
          BY <2>3, <4>1, <4>2, <4>4, <5>1
      <4>5. QED
        BY <4>1, <4>3, <4>4
    <3>5. QED
      BY <3>1, <3>2, <3>3, <3>4
  <2>9. AttachedAgree'
    BY <2>2, <2>6, <2>8 DEF AttachedAgree, OrgsMatch
  <2>10. ASSUME NEW e \in Calls, At(e, "asset", "commit"), e # c
         PROVE  /\ asset'[call[e].id] = asset[call[e].id]
                /\ \A d \in Devices \cap call[e].locks : device'[d] = device[d]
                /\ \A d \in DeviceRows : device'[d].asset = call[e].id =>
                      device[d].asset = call[e].id
    <3>1. call[e].id \in Assets /\ call[e].id # k.id /\ call[e].id # None
      BY <1>2, <2>10, InProgress, Markers DEF AssetRows
    <3>2. asset'[call[e].id] = asset[call[e].id]
      BY <2>3, <3>1
    <3>3. ASSUME NEW d \in Devices \cap call[e].locks
          PROVE  device'[d] = device[d]
      <4>1. d \notin k.locks
        BY <1>1, <1>2, <2>10 DEF AgreeInv, LocksApart
      <4>2. d \in Taken(c)
        BY <2>10 DEF Taken
      <4>3. ~(moves /\ d \in k.held)
        BY <2>2, <4>2
      <4>4. CASE device[d] = NoRow
        BY <2>2, <4>4
      <4>5. CASE device[d] # NoRow
        <5>1. d \in DeviceRows /\ device[d] \in DevRow
          BY <4>5 DEF DeviceRows, TableOK, RowsOK
        <5>2. HeldMove(k)[d] = device[d]
          BY <4>3 DEF HeldMove
        <5>3. Link(d) = device[d].asset
          BY <4>1
        <5>4. PICK now : now = [device[d] EXCEPT !.asset = device[d].asset]
          OBVIOUS
        <5>5. now = device[d]
          BY <5>1, <5>4 DEF DevRow
        <5>6. device'[d] = now
          BY <2>2, <4>5, <5>2, <5>3, <5>4
        <5>7. QED
          BY <5>5, <5>6
      <4>6. QED
        BY <4>4, <4>5
    <3>4. \A d \in DeviceRows : device'[d].asset = call[e].id => device[d].asset = call[e].id
      BY <2>5, <3>1
    <3>5. QED
      BY <3>2, <3>3, <3>4
  <2>11. ASSUME NEW e \in Calls, At(e, "asset", "commit"), call'[e] = call[e]
         PROVE  e # c
    BY <2>2, <2>11, AnsweredLeaves DEF At
  <2>12. QED
    BY <2>2, <2>6, <2>9, <2>10, <2>11, AnsweredLeaves, AgreeStep
<1>5. QED
  BY <1>3, <1>4

(* A device that no update in progress has locked, or one that is new.     *)
LEMMA LockedRow ==
  ASSUME AgreeInv, NEW e \in Calls, At(e, "asset", "commit"), NEW d \in Devices \cap call[e].locks
  PROVE  device[d] # NoRow /\ Locked(d) /\ d \in DeviceRows
<1>1. Moving(e)
  BY DEF AgreeInv
<1>2. QED
  BY <1>1 DEF Moving, Locked, DeviceRows

LEMMA DeletesAgree ==
  ASSUME TableOK, SlotsOK, AgreeInv, NEW c \in Calls, DeleteAssets(c)
  PROVE  AgreeInv'
<1>1. PICK S \in SUBSET Assets : S = call[c].ids
  BY FleetSlot DEF DeleteAssets, At, RowOps, NoAssetsAsked
<1>2. /\ asset' = [a \in Assets |-> IF a \in S THEN NoRow ELSE asset[a]]
      /\ Detached(S) /\ UNCHANGED raced /\ Answers(c, S)
      /\ \A x \in S \cup UNION {Holds(a) : a \in S} : ~Locked(x)
  BY <1>1 DEF DeleteAssets, Without, TableOK, RowsOK
<1>3. ASSUME NEW d \in DeviceRows
      PROVE  /\ device'[d] # NoRow
             /\ device[d].asset \in S => device'[d].asset = None
             /\ device[d].asset \notin S => device'[d] = device[d]
             /\ device[d].asset \in Assets \cup {None}
  <2>1. d \in Devices /\ device[d] # NoRow /\ device[d] \in DevRow
    BY DEF TableOK, RowsOK, DeviceRows
  <2>2. PICK row : row = [device[d] EXCEPT !.asset = None]
    OBVIOUS
  <2>3. row \in DevRow /\ row.asset = None
    BY <2>1, <2>2 DEF DevRow
  <2>4. device'[d] = IF device[d].asset \in S THEN row ELSE device[d]
    BY <1>2, <2>1, <2>2 DEF Detached
  <2>5. device[d].asset \in Assets \cup {None}
    BY <2>1 DEF DevRow
  <2>6. QED
    BY <2>1, <2>3, <2>4, <2>5, Apart
<1>4. DeviceRows' = DeviceRows
  <2>1. \A d \in Devices : device[d] = NoRow => device'[d] = NoRow
    BY <1>2 DEF Detached
  <2>2. QED
    BY <1>3, <2>1 DEF DeviceRows
<1>5. AttachedAgree'
  <2> SUFFICES ASSUME NEW d \in DeviceRows
               PROVE  \/ device'[d].asset = None
                      \/ asset'[device'[d].asset] = device'[d].org
                      \/ device'[d].asset \in raced
    BY <1>2, <1>4 DEF AttachedAgree, OrgsMatch
  <2>1. CASE device[d].asset \in S
    BY <1>3, <2>1
  <2>2. CASE device[d].asset \notin S
    <3>1. device'[d] = device[d] /\ device[d].asset \in Assets \cup {None}
      BY <1>3, <2>2
    <3>2. device[d].asset \in Assets => asset'[device[d].asset] = asset[device[d].asset]
      BY <1>2, <2>2
    <3>3. QED
      BY <3>1, <3>2 DEF AgreeInv, AttachedAgree, OrgsMatch
  <2>3. QED
    BY <2>1, <2>2
<1>6. ASSUME NEW e \in Calls, At(e, "asset", "commit")
      PROVE  /\ asset'[call[e].id] = asset[call[e].id]
             /\ \A d \in Devices \cap call[e].locks : device'[d] = device[d]
             /\ \A d \in DeviceRows : device'[d].asset = call[e].id =>
                   device[d].asset = call[e].id
  <2>1. call[e].id \in Assets /\ Locked(call[e].id) /\ call[e].id # None
    BY <1>6, InProgress, Markers DEF AssetRows
  <2>2. asset'[call[e].id] = asset[call[e].id]
    BY <1>2, <2>1
  <2>3. ASSUME NEW d \in Devices \cap call[e].locks
        PROVE  device'[d] = device[d]
    <3>1. d \in DeviceRows /\ Locked(d)
      BY <1>6, LockedRow
    <3>2. device[d].asset \notin S
      BY <1>2, <3>1 DEF Holds
    <3>3. QED
      BY <1>3, <3>1, <3>2
  <2>4. \A d \in DeviceRows : device'[d].asset = call[e].id => device[d].asset = call[e].id
    BY <1>3, <2>1
  <2>5. QED
    BY <2>2, <2>3, <2>4
<1>7. QED
  BY <1>2, <1>4, <1>5, <1>6, AnsweredLeaves, AgreeStep

(* A device that is written as the trigger lets it.                        *)
LEMMA WritingAgrees ==
  ASSUME TableOK, SlotsOK, AgreeInv, NEW c \in Calls, NEW b, Answers(c, b), NEW d \in Devices,
         NEW row \in DevRow, Written(row), UNCHANGED asset, ~Locked(d),
         device' = [device EXCEPT ![d] = row],
         raced \subseteq raced',
         row.asset = None \/ row.asset \in raced' \/ ~Locked(row.asset)
             \/ (d \in DeviceRows /\ row.asset = device[d].asset)
  PROVE  AgreeInv'
<1>1. \A x \in Devices : device'[x] = IF x = d THEN row ELSE device[x]
  BY DEF TableOK, RowsOK
<1>2. DeviceRows' = DeviceRows \cup {d}
  BY <1>1, Apart DEF DeviceRows
<1>3. AttachedAgree'
  BY <1>1, <1>2 DEF AgreeInv, AttachedAgree, OrgsMatch, Written, DeviceRows
<1>4. ASSUME NEW e \in Calls, At(e, "asset", "commit")
      PROVE  /\ asset'[call[e].id] = asset[call[e].id]
             /\ \A x \in Devices \cap call[e].locks : device'[x] = device[x]
             /\ \A x \in DeviceRows' : device'[x].asset = call[e].id =>
                   (x \in DeviceRows /\ device[x].asset = call[e].id) \/ call[e].id \in raced'
  <2>1. Locked(call[e].id) /\ call[e].id # None
    BY <1>4, InProgress, Markers DEF AssetRows
  <2>2. d \notin call[e].locks
    BY <1>4 DEF Locked
  <2>3. \A x \in DeviceRows' : x # d => x \in DeviceRows /\ device'[x] = device[x]
    BY <1>1, <1>2 DEF DeviceRows
  <2>4. row.asset = call[e].id =>
           (d \in DeviceRows /\ device[d].asset = call[e].id) \/ call[e].id \in raced'
    BY <2>1
  <2>5. QED
    BY <1>1, <2>2, <2>3, <2>4
<1>5. QED
  BY <1>3, <1>4, AnsweredLeaves, AgreeStep

LEMMA InsertDeviceAgrees ==
  ASSUME TableOK, SlotsOK, AgreeInv, NEW c \in Calls, InsertDevice(c)
  PROVE  AgreeInv'
<1>1. PICK k \in NewDeviceAsked : k = call[c]
  BY FleetSlot DEF InsertDevice, At, RowOps
<1>2. CASE Refuse(c) /\ UNCHANGED raced
  BY <1>2, RefusesAgree
<1>3. CASE ~(Refuse(c) /\ UNCHANGED raced)
  <2>1. PICK d \in Devices : d = NextId(Devices) /\ d \in fresh
    BY <1>3, FreshId DEF InsertDevice
  <2>2. PICK row \in DevRow : row = NewDevice(k)
    BY <1>1 DEF NewDeviceAsked, NewDevice, DevRow
  <2>3. /\ Written(row)
        /\ device' = [device EXCEPT ![d] = row]
        /\ UNCHANGED asset /\ raced' = raced \cup Meets(k.asset)
        /\ \E b : Answers(c, b)
    BY <1>1, <1>3, <2>1, <2>2 DEF InsertDevice
  <2>4. ~Locked(d)
    <3>1. d \notin DeviceRows
      BY <2>1 DEF TableOK
    <3>2. ASSUME NEW e \in Calls, At(e, "access", "commit") PROVE d \notin call[e].locks
      BY <3>2, UserSlot, Apart DEF At, UserOps, AccessAsked, AccessSaved
    <3>3. QED
      BY <3>1, <3>2, LockedRow DEF Locked
  <2>5. row.asset = k.asset /\ k.asset \in Assets \cup {None}
    BY <2>2 DEF NewDevice, NewDeviceAsked
  <2>6. row.asset = None \/ row.asset \in raced' \/ ~Locked(row.asset)
    BY <2>3, <2>5 DEF Meets
  <2>7. QED
    BY <2>3, <2>4, <2>6, WritingAgrees
<1>4. QED
  BY <1>2, <1>3

LEMMA WriteDeviceAgrees ==
  ASSUME TableOK, SlotsOK, AgreeInv, NEW c \in Calls, WriteDevice(c)
  PROVE  AgreeInv'
<1>1. PICK k \in DeviceAsked : k = call[c]
  BY FleetSlot DEF WriteDevice, At, RowOps
<1>2. CASE Refuse(c) /\ UNCHANGED raced
  BY <1>2, RefusesAgree
<1>3. CASE ~(Refuse(c) /\ UNCHANGED raced)
  <2>1. PICK d \in Devices : d = k.id
    BY DEF DeviceAsked
  <2>2. device[d] # NoRow /\ device[d] \in DevRow /\ d \in DeviceRows
    BY <1>1, <1>3, <2>1 DEF WriteDevice, TableOK, RowsOK, DeviceRows
  <2>3. PICK row \in DevRow : row = PatchedDevice(k)
    BY <2>1, <2>2 DEF PatchedDevice, DevRow, DeviceAsked, Final
  <2>4. /\ Written(row) /\ ~Locked(d)
        /\ device' = [device EXCEPT ![d] = row]
        /\ UNCHANGED asset
        /\ raced' = raced \cup (IF row.asset = device[d].asset THEN {} ELSE Meets(row.asset))
        /\ \E b : Answers(c, b)
    BY <1>1, <1>3, <2>1, <2>3 DEF WriteDevice
  <2>5. row.asset = None \/ row.asset \in raced' \/ ~Locked(row.asset)
             \/ (d \in DeviceRows /\ row.asset = device[d].asset)
    <3>1. row.asset \in Assets \cup {None}
      BY DEF DevRow
    <3>2. QED
      BY <2>2, <2>4, <3>1 DEF Meets
  <2>6. raced \subseteq raced'
    BY <2>4
  <2>7. QED
    BY <2>4, <2>5, <2>6, WritingAgrees
<1>4. QED
  BY <1>2, <1>3

LEMMA DeleteDevicesAgree ==
  ASSUME TableOK, SlotsOK, AgreeInv, NEW c \in Calls, DeleteDevices(c)
  PROVE  AgreeInv'
<1>1. PICK S : S = call[c].ids
  OBVIOUS
<1>2. /\ device' = [d \in Devices |-> IF d \in S THEN NoRow ELSE device[d]]
      /\ UNCHANGED <<asset, raced>> /\ Answers(c, S)
      /\ \A d \in S : ~Locked(d)
  BY <1>1 DEF DeleteDevices, Without, TableOK, RowsOK
<1>3. \A d \in DeviceRows' : d \in DeviceRows /\ device'[d] = device[d]
  BY <1>2 DEF DeviceRows
<1>4. AttachedAgree'
  BY <1>2, <1>3 DEF AgreeInv, AttachedAgree, OrgsMatch
<1>5. \A e \in Calls : At(e, "asset", "commit") =>
         \A d \in Devices \cap call[e].locks : device'[d] = device[d]
  BY <1>2 DEF Locked
<1>6. QED
  BY <1>2, <1>3, <1>4, <1>5, AnsweredLeaves, AgreeStep

(* An asset and its devices go to the archive together.                    *)
LEMMA DeleteOrgsAgree ==
  ASSUME TableOK, SlotsOK, AgreeInv, NEW c \in Calls, DeleteOrgs(c), UNCHANGED raced
  PROVE  AgreeInv'
<1>1. PICK S \in SUBSET Orgs : S = call[c].ids
  BY TreeSlot DEF DeleteOrgs, At, TreeOps, NoOrgsAsked
<1>2. CASE Refuse(c)
  BY <1>2, RefusesAgree
<1>3. CASE ~Refuse(c)
  <2>1. /\ \A a \in AssetRows : asset[a] \in S => ~Locked(a)
        /\ \A d \in DeviceRows : device[d].org \in S => ~Locked(d)
        /\ Archived(S) /\ Answers(c, S)
    BY <1>1, <1>3 DEF DeleteOrgs
  <2>2. \A a \in Assets : asset'[a] = IF asset[a] \in S THEN Archive ELSE asset[a]
    BY <2>1 DEF Archived
  <2>3. ASSUME NEW d \in DeviceRows
        PROVE  /\ device'[d] # NoRow /\ device'[d].asset = device[d].asset
               /\ device'[d].org = IF device[d].org \in S THEN Archive ELSE device[d].org
               /\ device[d].org \notin S => device'[d] = device[d]
               /\ device[d].asset \in Assets \cup {None}
    <3>1. d \in Devices /\ device[d] # NoRow /\ device[d] \in DevRow
      BY DEF TableOK, RowsOK, DeviceRows
    <3>2. PICK row : row = [device[d] EXCEPT !.org = Archive]
      OBVIOUS
    <3>3. row \in DevRow /\ row.org = Archive /\ row.asset = device[d].asset
      BY <3>1, <3>2, SystemOrgs DEF DevRow
    <3>4. device'[d] = IF device[d].org \in S THEN row ELSE device[d]
      BY <2>1, <3>1, <3>2 DEF Archived
    <3>5. device[d].asset \in Assets \cup {None}
      BY <3>1 DEF DevRow
    <3>6. QED
      BY <3>1, <3>3, <3>4, <3>5, Apart
  <2>4. DeviceRows' = DeviceRows
    <3>1. \A d \in Devices : device[d] = NoRow => device'[d] = NoRow
      BY <2>1 DEF Archived
    <3>2. QED
      BY <2>3, <3>1 DEF DeviceRows
  <2>5. AttachedAgree'
    BY <2>2, <2>3, <2>4 DEF AgreeInv, AttachedAgree, OrgsMatch
  <2>6. ASSUME NEW e \in Calls, At(e, "asset", "commit")
        PROVE  /\ asset'[call[e].id] = asset[call[e].id]
               /\ \A d \in Devices \cap call[e].locks : device'[d] = device[d]
    <3>1. call[e].id \in AssetRows /\ call[e].id \in Assets /\ Locked(call[e].id)
      BY <2>6, InProgress DEF AssetRows
    <3>2. \A d \in Devices \cap call[e].locks : d \in DeviceRows /\ Locked(d)
      BY <2>6, LockedRow
    <3>3. QED
      BY <2>1, <2>2, <2>3, <3>1, <3>2
  <2>7. QED
    BY <2>1, <2>3, <2>4, <2>5, <2>6, AnsweredLeaves, AgreeStep
<1>4. QED
  BY <1>2, <1>3

LEMMA FleetAgrees ==
  ASSUME TableOK, SlotsOK, AgreeInv, NEW c \in Calls, FleetNext(c)
  PROVE  AgreeInv'
BY ChecksAgree, InsertAgrees, MoveAgrees, CommitAgrees, DeletesAgree, InsertDeviceAgrees,
   WriteDeviceAgrees, DeleteDevicesAgree DEF FleetNext

(* The other requests leave assets and devices alone.                      *)
LEMMA ApartAgrees ==
  ASSUME SlotsOK, AgreeInv, NEW c \in Calls, Aside(c), Stays(c), call[c].op # "asset",
         UNCHANGED <<asset, device, raced>>
  PROVE  AgreeInv'
BY StayedLeaves, AgreeFrame

LEMMA TreeAgrees ==
  ASSUME TableOK, SlotsOK, AgreeInv, NEW c \in Calls, OrgNext(c), UNCHANGED raced
  PROVE  AgreeInv'
<1>1. CASE DeleteOrgs(c)
  BY <1>1, DeleteOrgsAgree
<1>2. CASE ~DeleteOrgs(c)
  <2>1. UNCHANGED <<asset, device>>
    BY <1>2 DEF OrgNext, CheckNewOrg, CheckOrg, CheckNoOrgs, InsertOrg, HashNewOrg,
       HashNewOrgFails, WriteOrg, Refuse, rowVars
  <2>2. Aside(c) /\ Stays(c) /\ call[c].op # "asset"
    BY OrgAside, TreeStays DEF TreeOps
  <2>3. QED
    BY <2>1, <2>2, ApartAgrees
<1>3. QED
  BY <1>1, <1>2

LEMMA UsersAgree ==
  ASSUME TableOK, SlotsOK, AgreeInv, NEW c \in Calls, AccessNext(c), UNCHANGED raced
  PROVE  AgreeInv'
<1>1. UNCHANGED <<asset, device>>
  BY DEF AccessNext, ReadUsers, ReadOptions, ReadDenied, ReadList, CheckAccess, WriteAccess,
     CommitAccess, CheckNewUser, InsertUser, CheckNoUsers, DeleteUsers, Refuse, rowVars
<1>2. Aside(c) /\ Stays(c) /\ call[c].op # "asset"
  BY AccessAside, UserStays DEF UserOps
<1>3. QED
  BY <1>1, <1>2, ApartAgrees

LEMMA GroupsAgree ==
  ASSUME TableOK, SlotsOK, AgreeInv, NEW c \in Calls, GroupNext(c), UNCHANGED raced
  PROVE  AgreeInv'
<1>1. UNCHANGED <<asset, device>>
  BY Zenon DEF GroupNext, InsertGroup, ReadItems, DeleteMembers, CommitGroup, DeleteGroups, Refuse,
     rowVars
<1>2. \A e \in Calls : At(e, "asset", "commit")' => call'[e] = call[e]
  <2>1. Stays(c) /\ call[c].op # "asset"
    BY GroupStays DEF GroupOps
  <2>2. ~At(c, "asset", "commit")'
    BY <2>1 DEF Stays, At, Idle
  <2>3. \A e \in Calls \ {c} : At(e, "asset", "commit")' => call'[e] = call[e]
    <3>1. OthersKept(c)
      BY GroupServed
    <3>2. QED
      BY <3>1, OtherChanged DEF At
  <2>4. QED
    BY <2>2, <2>3
<1>3. QED
  BY <1>1, <1>2, AgreeFrame

LEMMA ConsoleAgree == ConsoleSpec => []AgreeInv
<1>1. ConsoleInit => AgreeInv
  <2> SUFFICES ASSUME ConsoleInit PROVE AgreeInv
    OBVIOUS
  <2>1. device = InitDevice /\ asset = InitAsset /\ call = [c \in Calls |-> Idle]
    BY DEF ConsoleInit, RowsInit
  <2>2. AttachedAgree
    BY <2>1, StartRows DEF AttachedAgree, DeviceRows, OrgsMatch
  <2>3. \A c \in Calls : ~At(c, "asset", "commit")
    BY <2>1 DEF At, Idle
  <2>4. QED
    BY <2>2, <2>3 DEF AgreeInv, Moving, LocksApart
<1>2. ConsoleInv /\ AgreeInv /\ [ConsoleNext]_consoleVars => AgreeInv'
  BY ServedOrOutside, OutsideKeepsAgree, FleetAgrees, TreeAgrees, GroupsAgree, UsersAgree
  DEF ConsoleInv, Serves
<1>3. QED
  BY <1>1, <1>2, ConsoleInvariant, PTL DEF ConsoleSpec

(* A device is of the organisation of its asset, whatever requests overlap,  *)
(* as long as no attachment and no second move has met a move of the asset.  *)
THEOREM AttachedAgreeCorrect == ConsoleSpec => []AttachedAgree
<1>1. AgreeInv => AttachedAgree
  BY DEF AgreeInv
<1>2. QED
  BY <1>1, ConsoleAgree, PTL

-----------------------------------------------------------------------------
(* Saving the assets of a user.                                            *)
LEMMA OtherSlots ==
  ASSUME TableOK, SlotsOK, NEW c \in Calls, Serves(c), NEW e \in Calls \ {c}
  PROVE  /\ OthersKept(c)
         /\ call'[e].op = call[e].op /\ call'[e].step = call[e].step
<1>1. OthersKept(c)
  BY FleetAside, OrgAside, AccessAside, GroupServed DEF Serves, Aside
<1>2. QED
  BY <1>1, OtherChanged

LEMMA ServesUser ==
  ASSUME SlotsOK, NEW c \in Calls, Serves(c), call[c].op \in {"access", "newUser"}
  PROVE  AccessNext(c)
BY FleetStays, TreeStays, GroupStays DEF Serves, RowOps, TreeOps, GroupOps

LEMMA AnswersTicked ==
  ASSUME SlotsOK, NEW c \in Calls, NEW b, Answers(c, b)
  PROVE  Ticked(call'[c]) /\ call'[c].step \in {"idle", "answer"}
<1>1. PICK k : call'[c] = k /\ (k = Idle \/ k.step = "answer")
  BY DEF Answers, Goes, Sends, SlotsOK
<1>2. QED
  BY <1>1 DEF Ticked, Idle

LEMMA AccessTicked ==
  ASSUME SlotsOK, NEW c \in Calls, AccessNext(c), Ticked(call[c]),
         call[c].op \in {"access", "newUser"}
  PROVE  Ticked(call'[c])
<1>1. PICK k : k = call[c]
  OBVIOUS
<1>2. /\ k.op = "access" => k \in AccessAsked \cup AccessSaved
      /\ k.op = "newUser" => k \in NewUserAsked
  BY <1>1, UserSlot, UserStays DEF UserOps
<1>3. CASE Answers(c, Refused)
  BY <1>3, AnswersTicked
<1>4. CASE CheckAccess(c) /\ ~Answers(c, Refused)
  <2>1. PICK n : n = [k EXCEPT !.step = "write"]
    OBVIOUS
  <2>2. call'[c] = n /\ k.op = "access" /\ k.step = "check"
    BY <1>1, <1>4, <2>1 DEF CheckAccess, Refuse, Goes, Sends, SlotsOK, At
  <2>3. CASE k \in AccessAsked
    <3>1. n.by = "other" /\ n.op = "access"
      BY <2>1, <2>3 DEF AccessAsked
    <3>2. QED
      BY <2>2, <3>1 DEF Ticked
  <2>4. CASE k \in AccessSaved
    <3>1. /\ n.by = k.by /\ n.op = k.op /\ n.denied = k.denied /\ n.org = k.org
          /\ n.shown = k.shown /\ n.all = k.all /\ n.base = k.base
      BY <2>1, <2>4 DEF AccessSaved
    <3>2. QED
      BY <1>1, <2>2, <3>1 DEF Ticked
  <2>5. QED
    BY <1>2, <2>2, <2>3, <2>4
<1>5. CASE CheckNewUser(c) /\ ~Answers(c, Refused)
  <2>1. PICK n : n = [k EXCEPT !.step = "insert"]
    OBVIOUS
  <2>2. call'[c] = n /\ k.op = "newUser" /\ k.step = "check"
    BY <1>1, <1>5, <2>1 DEF CheckNewUser, Refuse, Goes, Sends, SlotsOK, At
  <2>3. n.op = "newUser" /\ n.denied = k.denied /\ n.all = k.all /\ n.shown = k.shown
    BY <1>2, <2>1, <2>2 DEF NewUserAsked
  <2>4. QED
    BY <1>1, <2>2, <2>3 DEF Ticked
<1>6. CASE WriteAccess(c) /\ ~Answers(c, Refused)
  <2>1. PICK L : L = IF k.org = Keep THEN {} ELSE {k.id, k.org}
    OBVIOUS
  <2>2. PICK n : n = [k EXCEPT !.step = "commit", !.locks = L]
    OBVIOUS
  <2>3. call'[c] = n /\ k.op = "access" /\ k.step = "write"
    BY <1>1, <1>6, <2>1, <2>2 DEF WriteAccess, Refuse, Goes, Sends, SlotsOK, At
  <2>4. k \in AccessAsked \cup AccessSaved /\ Asking(k) /\ L \in SUBSET (Users \cup Orgs)
    BY <1>1, <1>2, <2>1, <2>3, UserSlot DEF UserOps, AccessAsked, AccessSaved
  <2>5. /\ n.op = "access" /\ n.by = k.by /\ n.denied = k.denied /\ n.org = k.org
        /\ k.by = "page" => n.all = k.all /\ n.base = k.base /\ n.shown = k.shown
    <3>1. CASE k \in AccessAsked
      <4>1. n \in AccessAsked /\ n.denied = k.denied /\ n.org = k.org
        BY <2>2, <2>4, <3>1 DEF AccessAsked, AccessSteps
      <4>2. QED
        BY <3>1, <4>1 DEF AccessAsked
    <3>2. CASE k \in AccessSaved
      BY <2>2, <3>2 DEF AccessSaved
    <3>3. QED
      BY <2>4, <3>1, <3>2
  <2>6. QED
    BY <1>1, <2>3, <2>5 DEF Ticked
<1>10. CASE CommitAccess(c) /\ ~Answers(c, Refused)
  <2>1. PICK n : n = [k EXCEPT !.step = "denied"]
    OBVIOUS
  <2>2. call'[c] = n /\ k.op = "access"
    BY <1>1, <1>10, <2>1 DEF CommitAccess, Refuse, At
  <2>3. n.step = "denied" /\ n.op = "access"
    BY <1>2, <2>1, <2>2 DEF AccessAsked, AccessSaved
  <2>4. QED
    BY <2>2, <2>3 DEF Ticked
<1>7. CASE ReadDenied(c) /\ ~Answers(c, Refused)
  <2>1. PICK n : n = [k EXCEPT !.step = "assets", !.row = user[k.id]]
    OBVIOUS
  <2>2. call'[c] = n /\ k.op = "access"
    BY <1>1, <1>7, <2>1 DEF ReadDenied, Refuse, Goes, Sends, SlotsOK, At
  <2>3. n.step = "assets" /\ n.op = "access"
    BY <1>2, <2>1, <2>2 DEF AccessAsked, AccessSaved
  <2>4. QED
    BY <2>2, <2>3 DEF Ticked
<1>8. CASE ReadUsers(c) \/ ReadOptions(c) \/ ReadList(c) \/ InsertUser(c)
               \/ CheckNoUsers(c) \/ DeleteUsers(c)
  <2>1. ReadList(c) \/ InsertUser(c)
    BY <1>8 DEF ReadUsers, ReadOptions, CheckNoUsers, DeleteUsers, At
  <2>2. \E b : Answers(c, b)
    BY <2>1 DEF ReadList, InsertUser, Refuse
  <2>3. QED
    BY <2>2, AnswersTicked
<1>9. QED
  BY <1>3, <1>4, <1>5, <1>6, <1>7, <1>8, <1>10 DEF AccessNext

LEMMA TicksKept ==
  ASSUME ConsoleInv, TicksInv, [ConsoleNext]_consoleVars
  PROVE  TicksInv'
<1>1. CASE Outside
  BY <1>1 DEF Outside, Settled, TicksInv
<1>2. ASSUME NEW c \in Calls, Serves(c)
      PROVE  TicksInv'
  <2> USE DEF ConsoleInv
  <2>1. ASSUME NEW e \in Calls \ {c}
        PROVE  Ticked(call'[e])
    <3>1. CASE call'[e] = call[e]
      BY <3>1 DEF TicksInv
    <3>2. CASE call'[e] # call[e]
      <4>1. OthersKept(c)
        BY <1>2, OtherSlots
      <4>2. CASE call[e].op = "access"
        BY <3>2, <4>1, <4>2, OtherChanged, JoinedAsked DEF TicksInv, Ticked
      <4>3. CASE call[e].op = "group"
        BY <3>2, <4>1, <4>3, OtherChanged DEF Ticked
      <4>4. QED
        BY <3>2, <4>1, <4>2, <4>3, OtherChanged
    <3>3. QED
      BY <3>1, <3>2
  <2>2. Ticked(call'[c])
    <3>1. CASE call[c].op \in {"access", "newUser"}
      BY <1>2, <3>1, ServesUser, AccessTicked DEF TicksInv
    <3>2. CASE call[c].op \notin {"access", "newUser"}
      <4>1. Stays(c)
        BY <1>2, FleetStays, TreeStays, GroupStays, UserStays DEF Serves
      <4>2. QED
        BY <3>2, <4>1 DEF Stays, Ticked, Idle
    <3>3. QED
      BY <3>1, <3>2
  <2>3. QED
    BY <2>1, <2>2 DEF TicksInv
<1>3. QED
  BY <1>1, <1>2, ServedOrOutside

LEMMA ConsoleTicks == ConsoleSpec => []TicksInv
<1>1. ConsoleInit => TicksInv
  BY DEF ConsoleInit, RowsInit, TicksInv, Ticked, Idle
<1>2. ConsoleInv /\ TicksInv /\ [ConsoleNext]_consoleVars => TicksInv'
  BY TicksKept
<1>3. QED
  BY <1>1, <1>2, ConsoleInvariant, PTL DEF ConsoleSpec

(* Which step a save takes effect in.                                      *)
LEMMA SavesByUser ==
  ASSUME ConsoleInv, [ConsoleNext]_consoleVars, NEW c \in Calls, NEW u, Saves(c, u)
  PROVE  /\ call[c].by = "page"
         /\ \/ CommitAccess(c) /\ ~Refuse(c) /\ call[c].id = u /\ call[c].op = "access"
            \/ InsertUser(c) /\ ~Refuse(c) /\ user'[u] # user[u] /\ call[c].op = "newUser"
<1> USE DEF ConsoleInv
<1>1. /\ call[c].by = "page" /\ call[c] # Idle
      /\ \/ At(c, "access", "commit") /\ At(c, "access", "denied")' /\ call[c].id = u
         \/ At(c, "newUser", "insert") /\ At(c, "newUser", "answer")' /\ user'[u] # user[u]
  BY DEF Saves
<1>2. call'[c] # call[c] /\ ~Vacant(c) /\ call[c].op \in {"access", "newUser"}
  BY <1>1 DEF At, Vacant
<1>3. ~Outside
  BY <1>2 DEF Outside
<1>4. PICK e \in Calls : Serves(e)
  BY <1>3, ServedOrOutside
<1>5. e = c
  BY <1>1, <1>2, <1>4, OtherSlots DEF At
<1>6. AccessNext(c)
  BY <1>2, <1>4, <1>5, ServesUser
<1>7. CASE At(c, "access", "commit") /\ At(c, "access", "denied")' /\ call[c].id = u
  <2>1. CommitAccess(c)
    BY <1>6, <1>7 DEF AccessNext, ReadUsers, ReadOptions, ReadDenied, ReadList, CheckAccess,
       WriteAccess, CheckNewUser, InsertUser, CheckNoUsers, DeleteUsers, At
  <2>2. ~Refuse(c)
    BY <1>7, AnswersTicked DEF Refuse, At
  <2>3. QED
    BY <1>1, <1>7, <2>1, <2>2 DEF At
<1>8. CASE At(c, "newUser", "insert") /\ At(c, "newUser", "answer")' /\ user'[u] # user[u]
  <2>1. InsertUser(c)
    BY <1>6, <1>8 DEF AccessNext, ReadUsers, ReadOptions, ReadDenied, ReadList, CheckAccess,
       WriteAccess, CommitAccess, CheckNewUser, CheckNoUsers, DeleteUsers, At
  <2>2. ~Refuse(c)
    BY <1>8 DEF Refuse, rowVars
  <2>3. QED
    BY <1>1, <1>8, <2>1, <2>2 DEF At
<1>9. QED
  BY <1>1, <1>7, <1>8

(* A row of a user that was written lets the user see what was ticked.     *)
LEMMA RowShows ==
  ASSUME NEW u \in Users, NEW all, NEW ticked, UNCHANGED <<org, asset>>, user'[u] # NoRow,
         user'[u].denied = all \ ticked
  PROVE  Visible(u)' \cap all = ticked \cap all \cap Assignable(UserShown[u])'
<1>1. Visible(u)' = Assignable(user[u].org)' \ user'[u].denied
  BY DEF Visible
<1>2. UserShown[u]' = user'[u].org
  BY DEF UserShown
<1>3. PICK A : A = Assignable(user[u].org)'
  OBVIOUS
<1>4. Assignable(UserShown[u])' = A
  BY <1>2, <1>3 DEF Assignable
<1>5. QED
  BY <1>1, <1>3, <1>4

LEMMA SavesWhatIsTicked ==
  ASSUME ConsoleInv, TicksInv, [ConsoleNext]_consoleVars
  PROVE  TicksAreSaved
<1> SUFFICES ASSUME NEW c \in Calls, NEW u \in Users, Saves(c, u),
                    call[c].denied = Keep => call[c].base = Visible(u),
                    call[c].op = "access" /\ call[c].denied # Keep => call[c].theirs = {}
             PROVE  Visible(u)' \cap call[c].all
                        = call[c].shown \cap call[c].all \cap Assignable(UserShown[u])'
  BY DEF TicksAreSaved
<1> USE DEF ConsoleInv
<1>1. PICK k : k = call[c]
  OBVIOUS
<1>2. Ticked(k) /\ k.by = "page"
  BY <1>1, SavesByUser DEF TicksInv
<1>3. CASE CommitAccess(c) /\ ~Refuse(c) /\ k.id = u /\ k.op = "access"
  <2> DEFINE row == [org    |-> Final(k.org, user[u].org),
                     denied |-> IF k.denied = Keep THEN user[u].denied
                                ELSE (user[u].denied \cap k.theirs) \cup (k.denied \ k.theirs)]
  <2>1. /\ user[u] # NoRow /\ user' = [user EXCEPT ![u] = row] /\ UNCHANGED <<org, asset>>
        /\ k.step = "commit"
    BY <1>1, <1>3 DEF CommitAccess, At
  <2>2. user'[u] = row /\ user[u] \in UserRow
    BY <2>1 DEF TableOK
  <2>3. k \in AccessAsked \cup AccessSaved
    BY <1>1, <1>3, <2>1, UserSlot DEF UserOps
  <2>4. row \in UserRow
    <3>1. k.org \in Orgs \cup {Keep}
      BY <2>3 DEF AccessAsked, AccessSaved
    <3>2. k.denied \in (SUBSET Assets) \cup {Keep}
      BY <2>3 DEF AccessAsked, AccessSaved
    <3>3. QED
      BY <2>2, <3>1, <3>2 DEF UserRow, Final
  <2>5. user'[u] # NoRow
    BY <2>2, <2>4, Apart
  <2>6. CASE k.denied # Keep
    <3>1. user'[u].denied = k.all \ k.shown
      BY <1>1, <1>2, <1>3, <2>1, <2>2, <2>6 DEF Ticked
    <3>2. Visible(u)' \cap k.all = k.shown \cap k.all \cap Assignable(UserShown[u])'
      <4> HIDE DEF row
      <4> QED
        BY <2>1, <2>5, <3>1, RowShows
    <3>3. QED
      BY <1>1, <3>2
  <2>7. CASE k.denied = Keep
    <3>1. /\ k.org = Keep /\ k.shown \cap k.all = k.base \cap k.all
          /\ k.base = Visible(u)
      BY <1>1, <1>2, <1>3, <2>1, <2>7 DEF Ticked
    <3>2. user'[u].org = user[u].org /\ user'[u].denied = user[u].denied
      BY <2>2, <2>7, <3>1 DEF Final
    <3>3. Assignable(user[u].org)' = Assignable(user[u].org)
      BY <2>1, <3>2 DEF Assignable, AssetRows
    <3>4. UserShown[u]' = user'[u].org
      BY <2>5 DEF UserShown
    <3>5. Assignable(UserShown[u])' = Assignable(user[u].org)
      BY <3>3, <3>4 DEF Assignable
    <3>6. Visible(u)' = Visible(u) /\ Visible(u) \subseteq Assignable(user[u].org)
      BY <3>2, <3>3 DEF Visible
    <3>7. QED
      BY <1>1, <3>1, <3>5, <3>6
  <2>8. QED
    BY <2>6, <2>7
<1>4. CASE InsertUser(c) /\ ~Refuse(c) /\ user'[u] # user[u] /\ k.op = "newUser"
  <2> DEFINE row == [org |-> k.org, denied |-> k.denied]
  <2>1. /\ user' = [user EXCEPT ![NextId(Users)] = row] /\ UNCHANGED <<org, asset>>
        /\ k.step = "insert"
    BY <1>1, <1>4 DEF InsertUser, At
  <2>2. k \in NewUserAsked
    BY <1>1, <1>4, <2>1, UserSlot DEF UserOps
  <2>3. row \in UserRow
    BY <2>2 DEF NewUserAsked, UserRow
  <2>4. user'[u] = row
    BY <1>4, <2>1 DEF TableOK
  <2>5. user'[u] # NoRow /\ user'[u].denied = k.all \ k.shown
    BY <1>2, <1>4, <2>1, <2>3, <2>4, Apart DEF Ticked
  <2>6. QED
    BY <1>1, <2>1, <2>5, RowShows
<1>5. QED
  BY <1>1, <1>3, <1>4, SavesByUser

(* Every save of a user's assets does what the form showed, from whichever  *)
(* options and list it was computed, unless another save of the user stored *)
(* rows between its two statements: the difference it sends denies exactly  *)
(* the assets it could tick and that are not ticked.                        *)
THEOREM SavedTicksCorrect == ConsoleSpec => SavedTicks
<1>1. ConsoleInv /\ TicksInv /\ [ConsoleNext]_consoleVars => [TicksAreSaved]_consoleVars
  BY SavesWhatIsTicked
<1>2. QED
  BY <1>1, ConsoleInvariant, ConsoleTicks, PTL DEF ConsoleSpec, SavedTicks

-----------------------------------------------------------------------------
(* Saving a group.                                                         *)

(* Members can only leave, or the group is a new one.                      *)
Shrunk(g) ==
    group'[g] # NoRow =>
        \/ group'[g].members = {}
        \/ group[g] # NoRow /\ group'[g].members \subseteq group[g].members

LEMMA FormSteps ==
  ASSUME FormOK
  PROVE  /\ form.step = "saving" => form # Closed
         /\ form # Closed => form.id \in Groups /\ form.step \in {"loading", "loaded", "saving"}
         /\ form # Closed => form.clean \in BOOLEAN /\ form.fetch \in Calls
         /\ form # Closed => form.shown \in SUBSET Assets /\ form.hidden \in SUBSET Assets
  BY DEF FormOK, Closed

LEMMA ClosedForm ==
  ASSUME form' = Closed
  PROVE  MembersInv'
  BY DEF MembersInv, Filled, Filling, Current, OneSave, Saving, SavesForm, Closed

(* A step that has nothing to do with the form: the slots of its requests  *)
(* are as they were, or their request came from a fetch.                   *)
LEMMA FormGoesOn ==
  ASSUME FormOK, MembersInv, form # Closed,
         form' = form \/ form' = [form EXCEPT !.clean = FALSE],
         form'.clean => Shrunk(form.id),
         \A e \in Calls :
            \/ call'[e] = call[e]
            \/ ~Saving(e) /\ ~Saving(e)' /\ ~Filling(e)'
            \/ /\ call[e].op = "group" /\ call'[e].op = "group"
               /\ call'[e].by = call[e].by
               /\ form'.clean => form.step # "saving"
  PROVE  MembersInv'
<1> PICK f : f = form
  OBVIOUS
<1>1. /\ f \in [id : Groups, step : {"loading", "loaded", "saving"}, fetch : Calls,
                clean : BOOLEAN, shown : SUBSET Assets, hidden : SUBSET Assets]
  BY DEF FormOK
<1>2. /\ form'.id = f.id /\ form'.step = f.step /\ form'.fetch = f.fetch
      /\ form'.shown = f.shown /\ form'.hidden = f.hidden
      /\ form'.clean => f.clean
      /\ form' # Closed
  <2>1. CASE form' = form
    BY <2>1
  <2>2. CASE form' = [form EXCEPT !.clean = FALSE]
    <3>1. PICK n : n = [f EXCEPT !.clean = FALSE]
      OBVIOUS
    <3>2. QED
      BY <1>1, <2>2, <3>1 DEF Closed
  <2>3. QED
    BY <2>1, <2>2
<1>3. ASSUME NEW T, Kept(f.id, T), form'.clean
      PROVE  group'[f.id] # NoRow => group'[f.id].members \subseteq T
  BY <1>3 DEF Kept, Shrunk
<1>4. form'.clean => \A e \in Calls : Saving(e)' <=> Saving(e)
  BY <1>2 DEF Saving, SavesForm, Mine, Closed
<1>5. \A e \in Calls : Filling(e)' => Filling(e) /\ call'[e] = call[e]
  BY <1>2 DEF Filling, Current
<1>6. ASSUME NEW e \in Calls
      PROVE  Filled(e)'
  <2> SUFFICES ASSUME Filling(e)'
               PROVE  /\ form'.step = "loading"
                      /\ form'.id = IF call'[e].step = "answer" THEN call'[e].asked.id
                                    ELSE call'[e].id
                      /\ form'.clean /\ Arrived(e, "items")' =>
                            (group'[form'.id] # NoRow
                                => group'[form'.id].members \subseteq call'[e].body)
    BY DEF Filled, Kept
  <2>1. Filled(e) /\ Filling(e) /\ call'[e] = call[e]
    BY <1>5 DEF MembersInv
  <2>2. QED
    BY <1>2, <1>3, <2>1 DEF Filled, Arrived, At
<1>7. OneSave'
  BY <1>2, <1>4 DEF MembersInv, OneSave
<1>8. ASSUME form'.clean, form'.step = "loaded"
      PROVE  group'[form'.id] # NoRow => group'[form'.id].members \subseteq Carried'
  BY <1>2, <1>3, <1>8 DEF MembersInv, Carried
<1>9. ASSUME form'.clean, NEW e \in Calls, Saving(e)'
      PROVE  Carries(e)'
  <2>1. Saving(e) /\ f.step = "saving" /\ f.clean /\ Carries(e)
    BY <1>2, <1>4, <1>9 DEF Saving, SavesForm, MembersInv
  <2>2. call'[e] = call[e]
    BY <1>9, <2>1
  <2>3. Carried' = Carried
    BY <1>2 DEF Carried
  <2>4. QED
    BY <1>2, <1>3, <1>9, <2>1, <2>2, <2>3 DEF Carries, Kept
<1>10. QED
  BY <1>6, <1>7, <1>8, <1>9 DEF MembersInv, Kept

LEMMA FormLoaded ==
  ASSUME form'.step = "loaded", \A e \in Calls : ~Filling(e)',
         form'.clean => (group'[form'.id] # NoRow
                            => group'[form'.id].members \subseteq form'.shown \cup form'.hidden)
  PROVE  MembersInv'
  BY DEF MembersInv, Filled, OneSave, Saving, SavesForm, Kept, Carried

(* A request that has nothing to do with the form is sent or ends.         *)
LEMMA FormApart ==
  ASSUME SlotsOK, FormOK, MembersInv, NEW c \in Calls, NEW k, Sends(c, k), ~Saving(c),
         Ungrouped(k) \/ (k.by # "page" /\ k.op # "items"),
         UNCHANGED <<form, group>>
  PROVE  MembersInv'
<1>1. CASE form = Closed
  BY <1>1, ClosedForm
<1>2. CASE form # Closed
  <2>1. call'[c] = k /\ \A e \in Calls \ {c} : call'[e] = call[e]
    BY DEF Sends, SlotsOK
  <2>2. ~Saving(c)' /\ ~Filling(c)'
    BY <2>1 DEF Saving, SavesForm, Filling, Mine, Ungrouped
  <2>3. Shrunk(form.id)
    BY DEF Shrunk
  <2>4. QED
    BY <1>2, <2>1, <2>2, <2>3, FormGoesOn
<1>3. QED
  BY <1>1, <1>2

LEMMA OpensGroup ==
  ASSUME SlotsOK, MembersInv, NEW c \in Calls, OpenGroup(c)
  PROVE  MembersInv'
<1>1. PICK g \in Groups :
        /\ AskItems(c, "page", g)
        /\ form' = [id |-> g, step |-> "loading", fetch |-> c, clean |-> FALSE,
                    shown  |-> IF form = Closed THEN {} ELSE form.shown,
                    hidden |-> IF form = Closed THEN {} ELSE form.hidden]
  BY DEF OpenGroup, pGroups
<1>2. form'.id = g /\ form'.step = "loading" /\ form'.fetch = c /\ form'.clean = FALSE
  BY <1>1
<1>3. PICK k : k = [op |-> "items", step |-> "read", by |-> "page", id |-> g]
  OBVIOUS
<1>4. call'[c] = k /\ k.step = "read" /\ k.id = g
  BY <1>1, <1>3 DEF AskItems, Ask, SlotsOK
<1>5. \A e \in Calls : Filled(e)'
  BY <1>2, <1>4 DEF Filled, Filling, Current
<1>6. QED
  BY <1>2, <1>5 DEF MembersInv, OneSave

LEMMA SavesGroup ==
  ASSUME SlotsOK, FormOK, MembersInv, NEW c \in Calls, SaveGroup(c)
  PROVE  MembersInv'
<1> PICK f : f = form
  OBVIOUS
<1>1. f \in [id : Groups, step : {"loading", "loaded", "saving"}, fetch : Calls,
             clean : BOOLEAN, shown : SUBSET Assets, hidden : SUBSET Assets]
  BY DEF SaveGroup, FormOK
<1>2. PICK S : AskGroup(c, "page", f.id, Payload(S))
  BY DEF SaveGroup
<1>3. PICK k : k = [op |-> "group", step |-> "check", by |-> "page", id |-> f.id,
                    members |-> Payload(S), doomed |-> {}, met |-> FALSE]
  OBVIOUS
<1>4. /\ call[c] = Idle /\ call'[c] = k /\ UNCHANGED group
      /\ \A e \in Calls \ {c} : call'[e] = call[e]
  BY <1>2, <1>3 DEF AskGroup, Ask, MayAsk, SlotsOK, rowVars
<1>5. PICK n : n = [f EXCEPT !.step = IF f.step = "loaded" THEN "saving" ELSE f.step,
                              !.clean = f.clean /\ \A e \in Calls : ~SavesForm(e)]
  OBVIOUS
<1>6. /\ form' = n /\ n.id = f.id /\ n.fetch = f.fetch
      /\ n.shown = f.shown /\ n.hidden = f.hidden /\ f # Closed /\ n # Closed
      /\ n.step = IF f.step = "loaded" THEN "saving" ELSE f.step
  BY <1>1, <1>5 DEF SaveGroup, Closed
<1>7. n.clean => f.clean /\ \A e \in Calls : ~SavesForm(e)
  BY <1>1, <1>5
<1>8. f.step = "saving" => ~n.clean
  BY <1>7 DEF MembersInv, OneSave, Saving, SavesForm
<1>9. k.op = "group" /\ k.step = "check" /\ k.by = "page" /\ k.id = f.id
      /\ k.members = S \cup f.hidden /\ k # Idle
  BY <1>3 DEF Payload, Idle
<1>10. ASSUME NEW e \in Calls, Filling(e)'
       PROVE  Filling(e) /\ call'[e] = call[e] /\ f.step = "loading"
  <2>1. e # c
    BY <1>4, <1>9, <1>10 DEF Filling
  <2>2. Filling(e)
    BY <1>4, <1>6, <1>10, <2>1 DEF Filling, Current
  <2>3. QED
    BY <1>4, <2>1, <2>2 DEF MembersInv, Filled
<1>11. \A e \in Calls : Filled(e)'
  <2> SUFFICES ASSUME NEW e \in Calls, Filling(e)'
               PROVE  Filled(e)'
    BY DEF Filled
  <2>1. Filling(e) /\ call'[e] = call[e] /\ f.step = "loading" /\ Filled(e)
    BY <1>10 DEF MembersInv
  <2>2. QED
    BY <1>4, <1>6, <1>7, <2>1 DEF Filled, Kept, Arrived, At
<1>12. n.clean => \A e \in Calls \ {c} : ~Saving(e)'
  BY <1>4, <1>6, <1>7 DEF Saving, SavesForm, Mine
<1>13. CASE f.step = "loaded"
  <2>1. Saving(c)'
    BY <1>4, <1>6, <1>9, <1>13 DEF Saving, SavesForm, Mine
  <2>2. OneSave'
    BY <1>6, <1>12, <2>1 DEF OneSave
  <2>3. form'.clean => Carries(c)'
    <3> SUFFICES ASSUME f.clean PROVE Carries(c)'
      BY <1>6, <1>7
    <3>1. Kept(f.id, Carried)
      BY <1>6, <1>13 DEF MembersInv
    <3>2. QED
      BY <1>4, <1>6, <1>9, <3>1 DEF Carries, Kept, Carried
  <2>4. QED
    BY <1>6, <1>11, <1>12, <1>13, <2>2, <2>3 DEF MembersInv
<1>14. CASE f.step # "loaded"
  <2>1. form'.clean => form'.step = "loading"
    BY <1>1, <1>6, <1>8, <1>14
  <2>2. QED
    BY <1>11, <2>1 DEF MembersInv, OneSave, Saving, SavesForm
<1>15. QED
  BY <1>13, <1>14

LEMMA AppliesGroup ==
  ASSUME SlotsOK, FormOK, MembersInv, NEW c \in Calls, ApplyGroup(c)
  PROVE  MembersInv'
<1> PICK f : f = form
  OBVIOUS
<1> PICK k : k = call[c]
  OBVIOUS
<1>1. /\ k.op = "group" /\ k.step = "answer" /\ k.body # Refused /\ Sends(c, Idle)
      /\ UNCHANGED group
      /\ call'[c] = Idle /\ \A e \in Calls \ {c} : call'[e] = call[e]
  BY DEF ApplyGroup, Answered, Arrived, At, Goes, Sends, SlotsOK, rowVars
<1>2. CASE ~Saving(c)
  <2>1. UNCHANGED form
    BY <1>2 DEF ApplyGroup, Saving, SavesForm
  <2>2. QED
    BY <1>1, <1>2, <2>1, FormApart DEF Ungrouped, Idle
<1>3. CASE Saving(c)
  <2>1. f \in [id : Groups, step : {"loading", "loaded", "saving"}, fetch : Calls,
               clean : BOOLEAN, shown : SUBSET Assets, hidden : SUBSET Assets]
    BY <1>3 DEF FormOK, Saving, SavesForm
  <2>2. PICK n : n = [f EXCEPT !.step = "loaded", !.shown = k.asked.members]
    OBVIOUS
  <2>3. /\ form' = n /\ n.id = f.id /\ n.fetch = f.fetch /\ n.clean = f.clean
        /\ n.shown = k.asked.members /\ n.step = "loaded" /\ f # Closed
    BY <1>3, <2>1, <2>2 DEF ApplyGroup, Saving, SavesForm
  <2>4. ASSUME NEW e \in Calls, Filling(e)'
        PROVE  FALSE
    <3>1. e # c /\ Filling(e)
      BY <1>1, <2>3, <2>4 DEF Filling, Current, Idle
    <3>2. QED
      BY <1>3, <3>1 DEF MembersInv, Filled, Saving, SavesForm
  <2>5. f.clean => Kept(f.id, k.asked.members)
    BY <1>1, <1>3, <2>3 DEF MembersInv, Carries
  <2>6. QED
    BY <1>1, <2>3, <2>4, <2>5, FormLoaded DEF Kept
<1>4. QED
  BY <1>2, <1>3

LEMMA AppliesItems ==
  ASSUME SlotsOK, FormOK, MembersInv, NEW c \in Calls, ApplyItems(c)
  PROVE  MembersInv'
<1> PICK f : f = form
  OBVIOUS
<1> PICK got : got = call[c].body
  OBVIOUS
<1>1. /\ call[c].op = "items" /\ Arrived(c, "items") /\ Sends(c, Idle)
      /\ UNCHANGED group
      /\ call'[c] = Idle /\ \A e \in Calls \ {c} : call'[e] = call[e]
  BY DEF ApplyItems, Answered, Arrived, At, Goes, Sends, SlotsOK, rowVars
<1>2. CASE ~Current(c)
  <2>1. UNCHANGED form
    BY <1>2 DEF ApplyItems
  <2>2. QED
    BY <1>1, <2>1, FormApart DEF Saving, SavesForm, Ungrouped, Idle
<1>3. CASE Current(c)
  <2>1. f \in [id : Groups, step : {"loading", "loaded", "saving"}, fetch : Calls,
               clean : BOOLEAN, shown : SUBSET Assets, hidden : SUBSET Assets]
    BY <1>3 DEF FormOK, Current
  <2>2. PICK n : n = [f EXCEPT !.step = "loaded", !.shown = got \cap pAssets,
                               !.hidden = got \ pAssets]
    OBVIOUS
  <2>3. /\ form' = n /\ n.id = f.id /\ n.fetch = c /\ n.clean = f.clean
        /\ n.shown \cup n.hidden = got /\ n.step = "loaded"
    BY <1>3, <2>1, <2>2 DEF ApplyItems, Current
  <2>4. \A e \in Calls : ~Filling(e)'
    BY <1>1, <2>3 DEF Filling, Current, Idle
  <2>5. f.clean => Kept(f.id, got)
    BY <1>1, <1>3 DEF MembersInv, Filled, Filling
  <2>6. QED
    BY <1>1, <2>3, <2>4, <2>5, FormLoaded DEF Kept
<1>4. QED
  BY <1>2, <1>3

LEMMA NoAnswerKeeps ==
  ASSUME SlotsOK, FormOK, MembersInv, NEW c \in Calls, Shrug(c) \/ LoseAnswer(c)
  PROVE  MembersInv'
<1> PICK f : f = form
  OBVIOUS
<1>1. /\ call[c].step = "answer" /\ Sends(c, Idle) /\ UNCHANGED group
      /\ call'[c] = Idle /\ \A e \in Calls \ {c} : call'[e] = call[e]
  BY DEF Shrug, LoseAnswer, Goes, Sends, SlotsOK, rowVars
<1>2. CASE ~Saving(c)
  <2>1. UNCHANGED form
    BY <1>2 DEF Shrug, LoseAnswer, Saving, SavesForm
  <2>2. QED
    BY <1>1, <1>2, <2>1, FormApart DEF Ungrouped, Idle
<1>3. CASE Saving(c)
  <2>1. f \in [id : Groups, step : {"loading", "loaded", "saving"}, fetch : Calls,
               clean : BOOLEAN, shown : SUBSET Assets, hidden : SUBSET Assets]
    BY <1>3 DEF FormOK, Saving, SavesForm
  <2>2. PICK n : /\ form' = n
                 /\ \/ n = [f EXCEPT !.step = "loaded"] /\ call[c].body = Refused
                    \/ n = [f EXCEPT !.step = "loaded", !.clean = FALSE]
    BY <1>3 DEF Shrug, LoseAnswer, Saving, SavesForm
  <2>3. /\ n.id = f.id /\ n.fetch = f.fetch /\ n.step = "loaded" /\ f # Closed
        /\ n.shown = f.shown /\ n.hidden = f.hidden
        /\ n.clean => f.clean /\ call[c].body = Refused
    BY <1>3, <2>1, <2>2 DEF Saving, SavesForm
  <2>4. ASSUME NEW e \in Calls, Filling(e)'
        PROVE  FALSE
    <3>1. e # c /\ Filling(e)
      BY <1>1, <2>2, <2>3, <2>4 DEF Filling, Current, Idle
    <3>2. QED
      BY <1>3, <3>1 DEF MembersInv, Filled, Saving, SavesForm
  <2>5. n.clean => Kept(f.id, f.shown \cup f.hidden)
    BY <1>1, <1>3, <2>3 DEF MembersInv, Carries, Carried
  <2>6. QED
    BY <1>1, <2>2, <2>3, <2>4, <2>5, FormLoaded DEF Kept
<1>4. QED
  BY <1>2, <1>3

LEMMA LandsApart ==
  ASSUME SlotsOK, FormOK, MembersInv, NEW c \in Calls, Lands(c), call[c] # Idle, ~Saving(c),
         UNCHANGED form
  PROVE  MembersInv'
<1>1. PICK k : Sends(c, k) /\ Ungrouped(k)
  BY DEF Lands
<1>2. UNCHANGED group
  BY DEF Lands, rowVars
<1>3. QED
  BY <1>1, <1>2, FormApart

LEMMA AppliesKeepsMembers ==
  ASSUME ConsoleInv, MembersInv, NEW c \in Calls, Applies(c)
  PROVE  MembersInv'
<1> SlotsOK /\ FormOK
  BY DEF ConsoleInv
<1>1. CASE ApplyGroup(c) \/ ApplyItems(c) \/ Shrug(c) \/ LoseAnswer(c)
  BY <1>1, AppliesGroup, AppliesItems, NoAnswerKeeps
<1>2. ASSUME UNCHANGED form, call[c].op # "group", call[c].op # "none"
      PROVE  MembersInv'
  <2>1. call[c] # Idle /\ ~Saving(c)
    BY <1>2 DEF Idle, Saving, SavesForm
  <2>2. QED
    BY <1>2, <2>1, AppliesLand, LandsApart
<1>3. CASE ApplyNewAsset(c) \/ ApplyAsset(c) \/ ApplyNoAssets(c)
              \/ ApplyNewDevice(c) \/ ApplyDevice(c) \/ ApplyNoDevices(c)
              \/ ApplyNewOrg(c) \/ ApplyOrgs(c) \/ ApplyNoOrgs(c)
              \/ ApplyNewGroup(c) \/ ApplyNoGroups(c) \/ ApplyProfile(c)
  <2>1. UNCHANGED form
    <3>1. ApplyNewAsset(c) \/ ApplyAsset(c) \/ ApplyNoAssets(c) \/ ApplyProfile(c)
              => UNCHANGED form
      BY DEF ApplyNewAsset, ApplyAsset, ApplyNoAssets, ApplyProfile
    <3>2. ApplyNewDevice(c) \/ ApplyDevice(c) \/ ApplyNoDevices(c) => UNCHANGED form
      BY DEF ApplyNewDevice, ApplyDevice, ApplyNoDevices, Stored
    <3>3. ApplyNewOrg(c) \/ ApplyOrgs(c) \/ ApplyNoOrgs(c) => UNCHANGED form
      BY DEF ApplyNewOrg, ApplyOrgs, ApplyNoOrgs, Rows
    <3>4. ApplyNewGroup(c) \/ ApplyNoGroups(c) => UNCHANGED form
      BY DEF ApplyNewGroup, ApplyNoGroups
    <3>5. QED
      BY <1>3, <3>1, <3>2, <3>3, <3>4
  <2>2. call[c].op \in {"newAsset", "asset", "noAssets", "newDevice", "device", "noDevices",
                        "newOrg", "org", "noOrgs", "newGroup", "noGroups", "profile"}
    BY <1>3 DEF ApplyNewAsset, ApplyAsset, ApplyNoAssets, ApplyNewDevice, ApplyDevice,
       ApplyNoDevices, ApplyNewOrg, ApplyOrgs, ApplyNoOrgs, ApplyNewGroup, ApplyNoGroups,
       ApplyProfile, Answered, Arrived, At
  <2>3. QED
    BY <1>2, <2>1, <2>2
<1>4. CASE UserApplies(c)
  <2>1. UNCHANGED form
    BY <1>4 DEF UserApplies, pageVars
  <2>2. call[c].op \in {"users", "options", "list", "access", "newUser", "noUsers"}
    BY <1>4 DEF UserApplies, ApplyUsers, ApplyOptions, ApplyList, ApplyAccess, ApplyNewUser,
       ApplyNoUsers, Arrived, At
  <2>3. QED
    BY <1>2, <2>1, <2>2
<1>5. QED
  BY <1>1, <1>3, <1>4 DEF Applies

LEMMA AsksKeepMembers ==
  ASSUME ConsoleInv, MembersInv, NEW c \in Calls,
         ViewAsks(c) \/ UserViewAsks(c) \/ OthersAsk(c) \/ LoadPage(c) \/ Profile(c)
  PROVE  MembersInv'
<1> SlotsOK /\ FormOK
  BY DEF ConsoleInv
<1>1. CASE form = Closed /\ UNCHANGED form
  BY <1>1, ClosedForm
<1>2. CASE ViewAsks(c)
  BY <1>1, <1>2, OpensGroup, SavesGroup DEF ViewAsks
<1>3. CASE UserViewAsks(c) \/ LoadPage(c)
  BY <1>1, <1>3 DEF UserViewAsks, LoadPage, pageVars
<1>4. CASE OthersAsk(c)
  <2>1. UNCHANGED form
    BY <1>4 DEF OthersAsk, pageVars
  <2>2. PICK k : Ask(c, k) /\ k.by = "other" /\ k.op # "items" /\ UNCHANGED rowVars
    BY <1>4, OthersLand DEF Asked
  <2>3. Sends(c, k) /\ call[c] = Idle
    BY <2>2 DEF Ask, MayAsk, Sends
  <2>4. ~Saving(c) /\ UNCHANGED group
    BY <2>2, <2>3 DEF Saving, SavesForm, Mine, rowVars
  <2>5. QED
    BY <2>1, <2>2, <2>3, <2>4, FormApart
<1>5. CASE Profile(c)
  <2>1. UNCHANGED form /\ call[c].op = "profile"
    BY <1>5 DEF Profile, ReadScope, ReadOrgInfo, ReadAssets, ReadDevices, At
  <2>2. call[c] # Idle /\ ~Saving(c)
    BY <2>1 DEF Idle, Saving, SavesForm
  <2>3. QED
    BY <1>5, <2>1, <2>2, ProfileLands, LandsApart
<1>6. QED
  BY <1>2, <1>3, <1>4, <1>5

(* The API's steps for anything but a save of the form's own.              *)
LEMMA AsideShrinks ==
  ASSUME TableOK, UNCHANGED group \/ (\E S : Detached(S)), NEW g \in Groups
  PROVE  Shrunk(g)
<1>1. CASE UNCHANGED group
  BY <1>1 DEF Shrunk
<1>2. CASE \E S : Detached(S)
  <2>1. PICK S : group' = [h \in Groups |->
                              IF group[h] # NoRow
                              THEN [group[h] EXCEPT !.members = @ \ S] ELSE group[h]]
    BY <1>2 DEF Detached
  <2>2. CASE group[g] = NoRow
    BY <2>1, <2>2 DEF Shrunk
  <2>3. CASE group[g] # NoRow
    <3>1. group[g] \in GroupRow
      BY <2>3 DEF TableOK
    <3>2. PICK row : row = [group[g] EXCEPT !.members = @ \ S]
      OBVIOUS
    <3>3. group'[g] = row /\ row.members = group[g].members \ S
      BY <2>1, <2>3, <3>1, <3>2 DEF GroupRow
    <3>4. QED
      BY <2>3, <3>3 DEF Shrunk
  <2>4. QED
    BY <2>2, <2>3
<1>3. QED
  BY <1>1, <1>2

LEMMA ItemsServed ==
  ASSUME SlotsOK, NEW c \in Calls, Serves(c), call[c].op \in GroupOps
  PROVE  /\ GroupNext(c) /\ call[c].step # "answer"
         /\ call[c].op = "items" => ReadItems(c) /\ call[c].step = "read"
         /\ call[c].op = "group" => DeleteMembers(c) \/ CommitGroup(c)
         /\ call[c].op = "newGroup" => InsertGroup(c)
         /\ call[c].op = "noGroups" => DeleteGroups(c)
<1>1. GroupNext(c)
  BY FleetStays, TreeStays, UserStays DEF Serves, RowOps, TreeOps, UserOps, GroupOps
<1>2. QED
  BY Zenon, <1>1, GroupStays DEF GroupNext, InsertGroup, ReadItems, DeleteMembers, CommitGroup,
     DeleteGroups, At

(* A save of a group writes its group and overtakes saves of that group.   *)
LEMMA SaveApart ==
  ASSUME TableOK, SlotsOK, NEW c \in Calls, DeleteMembers(c) \/ CommitGroup(c)
  PROVE  /\ \A g \in Groups \ {call[c].id} : group'[g] = group[g]
         /\ \A e \in Calls \ {c} : call'[e] = call[e] \/ call[e].id = call[c].id
<1>1. CASE DeleteMembers(c)
  BY <1>1, AnswersApart DEF DeleteMembers, Refuse, rowVars
<1>2. CASE Refuse(c)
  BY <1>2, AnswersApart DEF rowVars
<1>3. CASE CommitGroup(c) /\ ~Refuse(c)
  <2>1. CASE UNCHANGED group /\ \E b : Answers(c, b)
    BY <2>1, AnswersApart
  <2>2. CASE ~(UNCHANGED group /\ \E b : Answers(c, b))
    <3> DEFINE k    == call[c]
               kept == group[k.id].members \ k.doomed
               row  == [members |-> kept \cup k.members, items |-> Cardinality(k.members)]
               mine == IF k.by = "page"
                       THEN [op |-> "group", step |-> "answer", by |-> "page", asked |-> k,
                             body |-> [id |-> k.id, items |-> Cardinality(k.members)]]
                       ELSE Idle
               rest == {e \in Calls \ {c} : At(e, "group", "commit") /\ call[e].id = k.id}
               Over(e) == [call[e] EXCEPT !.doomed = @ \cap kept, !.met = TRUE]
    <3>1. /\ group' = [group EXCEPT ![k.id] = row]
          /\ call' = [e \in Calls |-> IF e = c THEN mine
                                     ELSE IF e \in rest THEN Over(e) ELSE call[e]]
      BY Zenon, <1>3, <2>2 DEF CommitGroup, rowVars
    <3> HIDE DEF row, mine, Over
    <3>2. QED
      BY <3>1 DEF TableOK
  <2>3. QED
    BY <2>1, <2>2
<1>4. QED
  BY <1>1, <1>2, <1>3

(* A save of the page goes on to its commit, or is answered.               *)
LEMMA SaveGoesOn ==
  ASSUME SlotsOK, NEW c \in Calls, DeleteMembers(c) \/ CommitGroup(c), Mine(c)
  PROVE  /\ call[c].op = "group" /\ call'[c].op = "group" /\ call'[c].by = "page"
         /\ \/ call'[c].step = "commit" /\ call'[c].id = call[c].id
            \/ call'[c].step = "answer" /\ call'[c].asked = call[c]
<1> PICK k : k = call[c]
  OBVIOUS
<1>1. k.op = "group" /\ k.step # "answer"
  BY Zenon DEF DeleteMembers, CommitGroup, At
<1>2. k \in GroupAsked /\ k.by = "page"
  BY <1>1, GroupSlot DEF GroupOps, Mine
<1>3. ASSUME NEW b, Answers(c, b)
      PROVE  /\ call'[c].op = "group" /\ call'[c].by = "page"
             /\ call'[c].step = "answer" /\ call'[c].asked = k
  BY <1>1, <1>2, <1>3 DEF Answers, Goes, Sends, SlotsOK
<1>4. CASE Refuse(c)
  BY <1>1, <1>3, <1>4 DEF Refuse
<1>5. CASE DeleteMembers(c) /\ ~Refuse(c)
  <2>1. PICK n : n = [k EXCEPT !.step = "commit", !.doomed = Deleted(k.id)]
    OBVIOUS
  <2>2. n.step = "commit" /\ n.id = k.id /\ n.op = "group" /\ n.by = "page"
    BY <1>1, <1>2, <2>1 DEF GroupAsked
  <2>3. QED
    BY <1>1, <1>5, <2>1, <2>2 DEF DeleteMembers, Goes, Sends, SlotsOK
<1>6. CASE CommitGroup(c) /\ ~Refuse(c)
  <2>1. CASE k.members = Keep
    BY <1>1, <1>3, <1>6, <2>1 DEF CommitGroup
  <2>2. CASE k.members # Keep
    <3> DEFINE body == [id |-> k.id, items |-> Cardinality(k.members)]
    <3>1. call'[c] = [op |-> "group", step |-> "answer", by |-> "page", asked |-> k,
                      body |-> body]
      BY Zenon, <1>2, <1>6, <2>2 DEF CommitGroup
    <3>2. QED
      BY <1>1, <3>1
  <2>3. QED
    BY <2>1, <2>2
<1>7. QED
  BY <1>4, <1>5, <1>6

LEMMA OvertakenBy ==
  ASSUME TableOK, SlotsOK, NEW c \in Calls, Serves(c), NEW e \in Calls \ {c},
         call'[e] # call[e]
  PROVE  /\ call'[e].op = call[e].op /\ call'[e].by = call[e].by /\ call'[e].id = call[e].id
         /\ call[e].step = "commit" /\ call'[e].step = "commit"
         /\ \/ call[e].op = "access"
            \/ call[e].op = "group" /\ call[c].op = "group" /\ call[e].id = call[c].id
<1>1. /\ call'[e].op = call[e].op /\ call'[e].by = call[e].by /\ call'[e].id = call[e].id
      /\ call[e].step = "commit" /\ call'[e].step = "commit"
      /\ call[e].op \in {"group", "access"}
  BY OtherSlots, OtherChanged
<1>2. CASE call[e].op # "access"
  <2>1. GroupNext(c)
    BY <1>2, FleetAside, OrgAside, AccessAside DEF Serves, Aside
  <2>2. CASE InsertGroup(c) \/ ReadItems(c) \/ DeleteGroups(c)
    BY <2>2, AnswersApart DEF InsertGroup, ReadItems, DeleteGroups
  <2>3. CASE DeleteMembers(c) \/ CommitGroup(c)
    <3>1. call[c].op = "group"
      BY Zenon, <2>3 DEF DeleteMembers, CommitGroup, At
    <3>2. QED
      BY <1>1, <1>2, <2>3, <3>1, SaveApart
  <2>4. QED
    BY <2>1, <2>2, <2>3 DEF GroupNext
<1>3. QED
  BY <1>1, <1>2

(* A slot is asked, served and answered by requests of one operation.      *)
LEMMA StaysOp ==
  ASSUME SlotsOK, NEW c \in Calls, Stays(c)
  PROVE  /\ ~(Mine(c) /\ call[c].op = "group")
              => ~Saving(c) /\ (form'.step = form.step => ~Saving(c)')
         /\ call[c].op # "items" => ~Filling(c)'
  BY DEF Stays, Saving, SavesForm, Filling, Mine, Idle

(* The form while a request is served that is neither a save of its own    *)
(* nor what it waits for.                                                  *)
LEMMA ServesForm ==
  ASSUME FormOK, NEW c \in Calls, Serves(c), form # Closed,
         ~(At(c, "items", "read") /\ form.fetch = c)
  PROVE  /\ form' = form \/ form' = [form EXCEPT !.clean = FALSE]
         /\ form'.clean =>
               /\ form.clean
               /\ ~Mine(c) => group'[form.id] = group[form.id]
               /\ call[c].op = "group" /\ call[c].id = form.id => Mine(c) /\ form.step = "saving"
<1>1. CASE form' = [form EXCEPT !.clean = FALSE]
  <2>1. PICK n : n = [form EXCEPT !.clean = FALSE]
    OBVIOUS
  <2>2. n.clean = FALSE
    BY <2>1 DEF FormOK
  <2>3. QED
    BY <1>1, <2>1, <2>2
<1>2. CASE form' # [form EXCEPT !.clean = FALSE]
  <2>1. /\ form' = form
        /\ ~ \/ ~Mine(c) /\ group'[form.id] # group[form.id]
             \/ /\ call[c].op = "group" /\ call[c].id = form.id
                /\ ~Mine(c) \/ form.step # "saving"
    BY <1>2 DEF Serves
  <2>2. QED
    BY <2>1
<1>3. QED
  BY <1>1, <1>2

LEMMA OthersServed ==
  ASSUME TableOK, SlotsOK, FormOK, MembersInv, NEW c \in Calls, Serves(c), form # Closed,
         ~(At(c, "items", "read") /\ form.fetch = c), ~Saving(c),
         Mine(c) /\ call[c].op # "group" => Shrunk(form.id)
  PROVE  MembersInv'
<1>0. call[c].op = "group" => /\ call[c].step # "answer"
                              /\ DeleteMembers(c) \/ CommitGroup(c)
  BY ItemsServed DEF GroupOps
<1>1. /\ form' = form \/ form' = [form EXCEPT !.clean = FALSE]
      /\ form'.clean =>
            /\ form.clean
            /\ ~Mine(c) => group'[form.id] = group[form.id]
            /\ call[c].op = "group" => call[c].id # form.id
  BY <1>0, ServesForm DEF Saving, SavesForm
<1>2. form'.id = form.id /\ form'.step = form.step /\ form'.fetch = form.fetch /\ form' # Closed
  <2>1. PICK n : n = [form EXCEPT !.clean = FALSE]
    OBVIOUS
  <2>2. n.id = form.id /\ n.step = form.step /\ n.fetch = form.fetch /\ n # Closed
    BY <2>1 DEF FormOK, Closed
  <2>3. QED
    BY <1>1, <2>1, <2>2
<1>3. Stays(c)
  BY FleetStays, TreeStays, GroupStays, UserStays DEF Serves
<1>4. ~Saving(c)'
  <2>1. CASE Mine(c) /\ call[c].op = "group"
    BY <1>0, <1>2, <2>1, SaveGoesOn DEF Saving, SavesForm
  <2>2. CASE ~(Mine(c) /\ call[c].op = "group")
    BY <1>2, <1>3, <2>2, StaysOp
  <2>3. QED
    BY <2>1, <2>2
<1>5. ~Filling(c)'
  <2>1. CASE call[c].op # "items"
    BY <1>3, <2>1, StaysOp
  <2>2. CASE call[c].op = "items"
    <3>1. call[c].step = "read"
      BY <2>2, ItemsServed DEF GroupOps
    <3>2. QED
      BY <1>2, <2>2, <3>1 DEF Filling, Current, At
  <2>3. QED
    BY <2>1, <2>2
<1>6. form'.clean => Shrunk(form.id)
  <2>1. CASE ~Mine(c)
    BY <1>1, <2>1 DEF Shrunk
  <2>2. CASE Mine(c) /\ call[c].op # "group"
    BY <2>2
  <2>3. CASE call[c].op = "group"
    <3>1. \A g \in Groups \ {call[c].id} : group'[g] = group[g]
      BY <2>3, ItemsServed, SaveApart DEF GroupOps
    <3>2. QED
      BY <1>1, <2>3, <3>1, FormSteps DEF Shrunk
  <2>4. QED
    BY <2>1, <2>2, <2>3
<1>7. ASSUME NEW e \in Calls \ {c}
      PROVE  \/ call'[e] = call[e]
             \/ /\ call[e].op = "group" /\ call'[e].op = "group"
                /\ call'[e].by = call[e].by
                /\ form'.clean => form.step # "saving"
             \/ ~Saving(e) /\ ~Saving(e)' /\ ~Filling(e)'
  <2> SUFFICES ASSUME call'[e] # call[e],
                      call[e].op # "group" \/ (form'.clean /\ form.step = "saving")
               PROVE  ~Saving(e) /\ ~Saving(e)' /\ ~Filling(e)'
    BY OvertakenBy
  <2>1. CASE call[e].op # "group"
    BY <2>1, OvertakenBy DEF Saving, SavesForm, Filling
  <2>2. CASE call[e].op = "group" /\ form'.clean
    <3>1. /\ call[e].id # form.id /\ call'[e].id = call[e].id /\ call[e].step = "commit"
          /\ call'[e].op = "group" /\ call'[e].step = "commit"
      BY <1>1, <2>2, OvertakenBy
    <3>2. QED
      BY <1>2, <3>1 DEF Saving, SavesForm, Filling
  <2>3. QED
    BY <2>1, <2>2
<1>8. QED
  BY <1>1, <1>4, <1>5, <1>6, <1>7, FormGoesOn

LEMMA OwnSaveServed ==
  ASSUME TableOK, SlotsOK, FormOK, MembersInv, NEW c \in Calls, Serves(c), Saving(c)
  PROVE  MembersInv'
<1> PICK f : f = form
  OBVIOUS
<1> PICK k : k = call[c]
  OBVIOUS
<1>1. /\ f # Closed /\ f.step = "saving" /\ k.op = "group" /\ k.by = "page" /\ k # Idle
      /\ f \in [id : Groups, step : {"loading", "loaded", "saving"}, fetch : Calls,
                clean : BOOLEAN, shown : SUBSET Assets, hidden : SUBSET Assets]
  BY FormSteps DEF Saving, SavesForm, Mine, FormOK
<1>2. /\ form' = form \/ form' = [form EXCEPT !.clean = FALSE]
      /\ form'.clean => form.clean
  BY <1>1, ServesForm DEF At
<1>3. /\ form'.id = f.id /\ form'.step = f.step /\ form'.fetch = f.fetch
      /\ form'.shown = f.shown /\ form'.hidden = f.hidden
  <2>1. PICK n : n = [f EXCEPT !.clean = FALSE]
    OBVIOUS
  <2>2. /\ n.id = f.id /\ n.step = f.step /\ n.fetch = f.fetch
        /\ n.shown = f.shown /\ n.hidden = f.hidden
    BY <1>1, <2>1
  <2>3. QED
    BY <1>2, <2>1, <2>2
<1>4. /\ DeleteMembers(c) \/ CommitGroup(c)
      /\ k \in GroupAsked /\ k.step # "answer" /\ Asking(k)
  BY <1>1, ItemsServed, GroupSlot DEF GroupOps
<1>5. /\ k.id \in Groups /\ k.members \in SUBSET Assets /\ k.members # Keep
  BY <1>1, <1>4, Apart DEF GroupAsked, Asking, Consistent
<1>6. call'[c].op = "group" /\ call'[c].by = "page"
  BY <1>1, <1>4, SaveGoesOn DEF Mine
<1>7. form.clean => \A e \in Calls \ {c} : ~Saving(e) /\ ~Saving(e)'
  <2> SUFFICES ASSUME form.clean, NEW e \in Calls \ {c}
               PROVE  ~Saving(e) /\ ~Saving(e)'
    OBVIOUS
  <2>1. ~Saving(e)
    BY <1>1 DEF MembersInv, OneSave
  <2>2. call'[e] # call[e] => /\ call'[e].by = call[e].by /\ call'[e].op = call[e].op
                              /\ call'[e].id = call[e].id
                              /\ call[e].step = "commit" /\ call'[e].step = "commit"
                              /\ call[e].op \in {"group", "access"}
    BY OvertakenBy
  <2>3. QED
    BY <1>1, <1>3, <2>1, <2>2 DEF Saving, SavesForm, Mine, Idle
<1>8. \A e \in Calls : ~Filling(e)'
  <2> SUFFICES ASSUME NEW e \in Calls, Filling(e)' PROVE FALSE
    OBVIOUS
  <2>1. e # c
    BY <1>6 DEF Filling
  <2>2. call'[e] = call[e]
    BY <2>1, OvertakenBy DEF Filling
  <2>3. Filling(e)
    BY <1>1, <1>3, <2>2 DEF Filling, Current
  <2>4. QED
    BY <1>1, <2>3 DEF MembersInv, Filled
<1>9. k.id = f.id
  BY <1>4 DEF Saving, SavesForm
<1>10. OneSave'
  <2>1. \/ call'[c].step = "commit" /\ call'[c].id = k.id
        \/ call'[c].step = "answer" /\ call'[c].asked = k
    BY <1>1, <1>4, SaveGoesOn DEF Mine
  <2>2. QED
    BY <1>1, <1>2, <1>3, <1>6, <1>7, <1>9, <2>1 DEF OneSave, Saving, SavesForm, Mine, Idle
<1>11. ASSUME form'.clean
       PROVE  Carries(c)'
  <2>1. /\ k.id = f.id /\ f.hidden \subseteq k.members
        /\ group[f.id] # NoRow => group[f.id].members \subseteq f.shown \cup f.hidden
        /\ k.step = "commit" /\ group[f.id] # NoRow => group[f.id].members \subseteq k.doomed
    BY <1>1, <1>2, <1>4, <1>9, <1>11 DEF MembersInv, Carries, Kept, Carried
  <2>2. CASE Refuse(c)
    <3>1. call'[c].step = "answer" /\ call'[c].body = Refused
      BY <1>1, <2>2 DEF Refuse, Answers, Goes, Sends, SlotsOK
    <3>2. QED
      BY <1>3, <2>1, <2>2, <3>1 DEF Carries, Kept, Carried, Refuse, rowVars
  <2>3. CASE DeleteMembers(c) /\ ~Refuse(c)
    <3>1. PICK n : n = [k EXCEPT !.step = "commit", !.doomed = Deleted(k.id)]
      OBVIOUS
    <3>2. call'[c] = n /\ UNCHANGED group
      BY <2>3, <3>1 DEF DeleteMembers, Goes, Sends, SlotsOK, rowVars
    <3>3. n.id = k.id /\ n.members = k.members /\ n.step = "commit"
          /\ n.doomed = group[k.id].members
      BY <1>4, <3>1 DEF GroupAsked, Deleted
    <3>4. QED
      BY <1>3, <2>1, <3>2, <3>3 DEF Carries, Kept, Carried
  <2>4. CASE CommitGroup(c) /\ ~Refuse(c)
    <3> DEFINE kept == group[k.id].members \ k.doomed
               row  == [members |-> kept \cup k.members, items |-> Cardinality(k.members)]
               body == [id |-> k.id, items |-> Cardinality(k.members)]
    <3>1. /\ group[k.id] # NoRow /\ k.step = "commit"
          /\ group' = [group EXCEPT ![k.id] = row]
          /\ call'[c] = [op |-> "group", step |-> "answer", by |-> "page", asked |-> k,
                         body |-> body]
      BY Zenon, <1>1, <1>5, <2>4 DEF CommitGroup, At
    <3>2. kept = {}
      BY <2>1, <3>1
    <3>3. group'[f.id] = row /\ row.members = k.members
      BY <1>5, <2>1, <3>1, <3>2 DEF TableOK
    <3>4. body # Refused
      <4>1. Cardinality(k.members) \in Nat
        BY <1>5, Apart, FS_Subset, FS_CardinalityType
      <4>2. QED
        BY <1>5, <4>1, Apart DEF Refused
    <3> HIDE DEF body, row, kept
    <3>5. call'[c].step = "answer" /\ call'[c].body = body /\ call'[c].asked = k
      BY <3>1
    <3>6. QED
      BY <1>3, <3>3, <3>4, <3>5 DEF Carries, Kept
  <2>5. QED
    BY <1>4, <2>2, <2>3, <2>4
<1>12. QED
  BY <1>1, <1>2, <1>3, <1>7, <1>8, <1>10, <1>11 DEF MembersInv, Filled

LEMMA FetchServed ==
  ASSUME TableOK, SlotsOK, FormOK, MembersInv, NEW c \in Calls, Serves(c), form # Closed,
         At(c, "items", "read"), form.fetch = c
  PROVE  MembersInv'
<1> PICK f : f = form
  OBVIOUS
<1>1. f \in [id : Groups, step : {"loading", "loaded", "saving"}, fetch : Calls,
             clean : BOOLEAN, shown : SUBSET Assets, hidden : SUBSET Assets]
  BY DEF FormOK
<1>2. PICK n : n = [f EXCEPT !.clean = TRUE]
  OBVIOUS
<1>3. form' = n /\ n.id = f.id /\ n.step = f.step /\ n.fetch = c
  BY <1>1, <1>2 DEF Serves
<1>4. ReadItems(c) /\ call[c] \in ItemsAsked
  BY ItemsServed, GroupSlot DEF At, GroupOps
<1>5. f.step = "loading" /\ f.id = call[c].id
  BY DEF MembersInv, Filled, Filling, Current, At
<1>6. PICK b : /\ Answers(c, b) /\ UNCHANGED group
               /\ b # Refused => b = group[f.id].members
  BY <1>4, <1>5 DEF ReadItems, Refuse, rowVars
<1>7. /\ call'[c].step = "answer" /\ call'[c].asked = call[c] /\ call'[c].body = b
  BY <1>4, <1>6 DEF Answers, Goes, Sends, SlotsOK, ItemsAsked
<1>8. \A e \in Calls : Filled(e)'
  <2> SUFFICES ASSUME NEW e \in Calls, Filling(e)' PROVE Filled(e)'
    BY DEF Filled
  <2>1. e = c
    BY <1>3 DEF Filling, Current
  <2>2. QED
    BY <1>3, <1>5, <1>6, <1>7, <2>1 DEF Filled, Arrived, At, Kept
<1>9. QED
  BY <1>3, <1>5, <1>8 DEF MembersInv, OneSave, Saving, SavesForm

(* What the API does to the group of the form for the page itself, other   *)
(* than saving it.                                                         *)
LEMMA PageShrinks ==
  ASSUME TableOK, SlotsOK, NEW c \in Calls, Serves(c), call[c].op # "group", NEW g \in Groups
  PROVE  Shrunk(g)
<1>1. CASE FleetNext(c) \/ OrgNext(c) \/ AccessNext(c)
  BY <1>1, FleetAside, OrgAside, AccessAside, AsideShrinks DEF Aside
<1>2. CASE InsertGroup(c)
  <2>1. CASE UNCHANGED group
    BY <2>1 DEF Shrunk
  <2>2. CASE \E h \in Groups : group' = [group EXCEPT ![h] = [members |-> {}, items |-> 0]]
    <3>1. PICK h \in Groups : group' = [group EXCEPT ![h] = [members |-> {}, items |-> 0]]
      BY <2>2
    <3>2. group \in [Groups -> GroupRow \cup {NoRow}]
      BY DEF TableOK
    <3>3. CASE g = h
      BY <3>1, <3>2, <3>3 DEF Shrunk
    <3>4. CASE g # h
      BY <3>1, <3>2, <3>4 DEF Shrunk
    <3>5. QED
      BY <3>3, <3>4
  <2>3. QED
    BY <1>2, <2>1, <2>2, FreshId DEF InsertGroup, Refuse, rowVars, TableOK
<1>3. CASE ReadItems(c)
  BY <1>3 DEF ReadItems, rowVars, Shrunk
<1>4. CASE DeleteGroups(c)
  <2>1. CASE group' = Without(group, call[c].ids)
    BY <2>1 DEF Without, TableOK, Shrunk
  <2>2. QED
    BY <1>4, <2>1 DEF DeleteGroups, Refuse, rowVars, Shrunk
<1>5. QED
  BY Zenon, <1>1, <1>2, <1>3, <1>4 DEF Serves, GroupNext, DeleteMembers, CommitGroup, At

LEMMA ServesKeepsMembers ==
  ASSUME ConsoleInv, MembersInv, NEW c \in Calls, Serves(c)
  PROVE  MembersInv'
<1> TableOK /\ SlotsOK /\ FormOK
  BY DEF ConsoleInv
<1>1. CASE form = Closed
  BY <1>1, ClosedForm DEF Serves
<1>2. CASE form # Closed /\ At(c, "items", "read") /\ form.fetch = c
  BY <1>2, FetchServed
<1>3. CASE Saving(c)
  BY <1>3, OwnSaveServed
<1>4. CASE form # Closed /\ ~(At(c, "items", "read") /\ form.fetch = c) /\ ~Saving(c)
  <2>1. call[c].op # "group" => Shrunk(form.id)
    BY <1>4, PageShrinks, FormSteps
  <2>2. QED
    BY <1>4, <2>1, OthersServed
<1>5. QED
  BY <1>1, <1>2, <1>3, <1>4

LEMMA QuietKeepsMembers ==
  ASSUME MembersInv, UNCHANGED <<form, group, call>>
  PROVE  MembersInv'
BY DEF MembersInv, Filled, Filling, Current, Arrived, At, Kept, OneSave, Saving, SavesForm, Mine, Carries,
       Carried

LEMMA StepsKeepMembers ==
  ASSUME ConsoleInv, MembersInv, [ConsoleNext]_consoleVars
  PROVE  MembersInv'
<1>1. ASSUME NEW c \in Calls,
             ViewAsks(c) \/ UserViewAsks(c) \/ OthersAsk(c) \/ LoadPage(c) \/ Profile(c)
      PROVE  MembersInv'
  BY <1>1, AsksKeepMembers
<1>2. ASSUME NEW c \in Calls, Serves(c) PROVE MembersInv'
  BY <1>2, ServesKeepsMembers
<1>3. ASSUME NEW c \in Calls, Applies(c) PROVE MembersInv'
  BY <1>3, AppliesKeepsMembers
<1>4. CASE CloseGroup
  BY <1>4, ClosedForm DEF CloseGroup
<1>5. CASE CloseUser \/ (HashNext /\ UNCHANGED <<raced, mixed, pageVars, accessVars>>)
              \/ ReportsNext \/ UNCHANGED consoleVars
  <2>1. UNCHANGED <<form, group, call>>
    BY <1>5 DEF CloseUser, HashNext, HashJob, HashJobFails, SelectOrgs, ReplaceOrgs, ReportsNext,
       consoleVars, pageVars, fleetVars, rowVars, callVars
  <2>2. QED
    BY <2>1, QuietKeepsMembers
<1>6. QED
  BY <1>1, <1>2, <1>3, <1>4, <1>5 DEF ConsoleNext, ConsoleStep

LEMMA ConsoleMembers == ConsoleSpec => []MembersInv
<1>1. ConsoleInit => MembersInv
  BY DEF ConsoleInit, RowsInit, MembersInv, Filled, Filling, Current, OneSave, Saving, SavesForm, Mine, Closed,
         Idle
<1>2. ConsoleInv /\ MembersInv /\ [ConsoleNext]_consoleVars => MembersInv'
  BY StepsKeepMembers
<1>3. QED
  BY <1>1, <1>2, ConsoleInvariant, PTL DEF ConsoleSpec

(* A save replaces all the members of a group; until somebody else touches *)
(* the group it carries each of those the user was not shown.              *)
THEOREM MembersKeptCorrect == ConsoleSpec => []MembersKept
<1>1. ConsoleInv /\ MembersInv => MembersKept
  <2> SUFFICES ASSUME ConsoleInv, MembersInv, NEW c \in Calls,
                      SavesForm(c), call[c].step \in {"check", "commit"},
                      form.step = "saving", form.clean, group[call[c].id] # NoRow
               PROVE  group[call[c].id].members \ form.shown \subseteq call[c].members
    BY DEF MembersKept
  <2>1. form # Closed
    BY DEF Closed
  <2>2. Carries(c)
    BY <2>1 DEF MembersInv, Saving
  <2>3. QED
    BY <2>2 DEF Carries, Kept, Carried, SavesForm
<1>2. QED
  BY <1>1, ConsoleInvariant, ConsoleMembers, PTL

-----------------------------------------------------------------------------
(* The copy in Redis.                                                      *)
LEMMA SameParents ==
  ASSUME NEW r, NEW s
  PROVE  /\ SameParent(r, r)
         /\ SameParent(r, s) => SameParent(s, r)
         /\ \A x : SameParent(r, s) /\ SameParent(x, r) => SameParent(x, s)
  BY DEF SameParent

LEMMA HashKept ==
  ASSUME HashInv, UNCHANGED <<org, hash, jobs, sync, crossed>>,
         \A e \in Calls : At(e, "newOrg", "hadd") \/ At(e, "newOrg", "hadd")'
                          => call'[e] = call[e]
  PROVE  HashInv'
<1>1. \A e \in Calls : At(e, "newOrg", "hadd")' <=> At(e, "newOrg", "hadd")
  BY DEF At
<1>2. HashFollows'
  BY <1>1 DEF HashInv, HashFollows
<1>3. ASSUME NEW o \in Orgs \ crossed
      PROVE  UnderWay(o)'
  BY <1>1, <1>3 DEF HashInv, UnderWay, Copying
<1>4. QED
  BY <1>2, <1>3 DEF HashInv

(* An answer, or a refusal, of a request that is not writing to the hash.  *)
LEMMA AnswersFollow ==
  ASSUME SlotsOK, HashInv, NEW c \in Calls, NEW b, Answers(c, b),
         ~At(c, "newOrg", "hadd"), UNCHANGED <<org, hash, jobs, sync, crossed>>
  PROVE  HashInv'
<1>1. call'[c] = Idle \/ call'[c].step = "answer"
  BY DEF Answers, Goes, Sends, SlotsOK
<1>2. \A e \in Calls \ {c} : call'[e] = call[e]
  BY AnswersApart
<1>3. \A e \in Calls : At(e, "newOrg", "hadd") \/ At(e, "newOrg", "hadd")'
                          => call'[e] = call[e]
  BY <1>1, <1>2 DEF At, Idle
<1>4. QED
  BY <1>3, HashKept

LEMMA ChecksFollow ==
  ASSUME SlotsOK, HashInv, NEW c \in Calls,
         CheckNewOrg(c) \/ CheckOrg(c) \/ CheckNoOrgs(c)
  PROVE  HashInv'
<1>1. /\ UNCHANGED <<org, hash, jobs, sync, crossed>>
      /\ ~At(c, "newOrg", "hadd")
  BY DEF CheckNewOrg, CheckOrg, CheckNoOrgs, Refuse, rowVars, hashVars, At
<1>2. CASE Refuse(c)
  BY <1>1, <1>2, AnswersFollow DEF Refuse
<1>3. CASE ~Refuse(c)
  <2>1. PICK k : Goes(c, k) /\ k.step # "hadd"
    <3>1. CASE CheckNewOrg(c)
      <4>1. call[c] \in NewOrgAsked
        BY <3>1, TreeSlot DEF CheckNewOrg, At, TreeOps
      <4>2. [call[c] EXCEPT !.step = "insert"].step # "hadd"
        BY <4>1 DEF NewOrgAsked
      <4>3. QED
        BY <1>3, <3>1, <4>2 DEF CheckNewOrg
    <3>2. CASE CheckOrg(c)
      <4>1. call[c] \in OrgAsked
        BY <3>2, TreeSlot DEF CheckOrg, At, TreeOps
      <4>2. [call[c] EXCEPT !.step = "write"].step # "hadd"
        BY <4>1 DEF OrgAsked
      <4>3. QED
        BY <1>3, <3>2, <4>2 DEF CheckOrg
    <3>3. CASE CheckNoOrgs(c)
      <4>1. call[c] \in NoOrgsAsked
        BY <3>3, TreeSlot DEF CheckNoOrgs, At, TreeOps
      <4>2. [call[c] EXCEPT !.step = "delete"].step # "hadd"
        BY <4>1 DEF NoOrgsAsked
      <4>3. QED
        BY <1>3, <3>3, <4>2 DEF CheckNoOrgs
    <3>4. QED
      BY <3>1, <3>2, <3>3
  <2>2. call'[c] = k /\ \A e \in Calls \ {c} : call'[e] = call[e]
    BY <2>1, AnswersApart DEF Goes, Sends, SlotsOK
  <2>3. \A e \in Calls : At(e, "newOrg", "hadd") \/ At(e, "newOrg", "hadd")'
                          => call'[e] = call[e]
    BY <1>1, <2>1, <2>2 DEF At
  <2>4. QED
    BY <1>1, <2>3, HashKept
<1>4. QED
  BY <1>2, <1>3

(* Nothing is under way but the request c.                                 *)
LEMMA NothingPending ==
  ASSUME NEW c \in Calls, NEW S, Cross(c, S), NEW o, o \notin crossed', o \in S
  PROVE  /\ jobs = {} /\ Copying = {}
         /\ \A e \in Calls \ {c} : call[e].op \notin OrgOps
  BY DEF Cross, Pending

LEMMA InsertFollows ==
  ASSUME TableOK, SlotsOK, HashInv, NEW c \in Calls, InsertOrg(c)
  PROVE  HashInv'
<1> DEFINE k == call[c]
<1>0. /\ k \in NewOrgAsked /\ k.op = "newOrg" /\ k.step = "insert"
      /\ UNCHANGED <<hash, jobs, sync>>
  BY TreeSlot DEF InsertOrg, At, TreeOps
<1>1. CASE org[k.parent] = NoRow
  <2>1. Answers(c, Refused) /\ UNCHANGED <<org, crossed>>
    BY <1>1 DEF InsertOrg, Refuse, rowVars
  <2>2. QED
    BY <1>0, <2>1, AnswersFollow DEF At
<1>2. CASE org[k.parent] # NoRow
  <2> PICK o : o = NextId(Orgs)
    OBVIOUS
  <2> PICK row : row = NewOrg(o, k.parent)
    OBVIOUS
  <2> PICK n : n = [op |-> "newOrg", step |-> "hadd", by |-> k.by,
                    parent |-> k.parent, id |-> o, row |-> row]
    OBVIOUS
  <2>1. /\ org' = [org EXCEPT ![o] = row] /\ Cross(c, {o}) /\ Goes(c, n)
    BY <1>2 DEF InsertOrg
  <2>2. o \in Orgs /\ org \in [Orgs -> OrgRow \cup {NoRow}]
    BY FreshId DEF InsertOrg, TableOK, RowsOK
  <2>3. /\ call'[c] = n /\ \A e \in Calls \ {c} : call'[e] = call[e]
        /\ org'[o] = row /\ \A x \in Orgs \ {o} : org'[x] = org[x]
    BY <2>1, <2>2, AnswersApart DEF Goes, Sends, SlotsOK
  <2>4. /\ At(c, "newOrg", "hadd")' /\ ~At(c, "newOrg", "hadd") /\ n.id = o /\ n.row = row
        /\ \A e \in Calls \ {c} : At(e, "newOrg", "hadd")' <=> At(e, "newOrg", "hadd")
    BY <1>0, <2>3 DEF At
  <2>5. crossed \subseteq crossed' /\ crossed' \subseteq crossed \cup {o}
    BY <2>1 DEF Cross
  <2>6. ASSUME NEW x \in Orgs \ crossed', x # o
        PROVE  UnderWay(x)' /\ (\/ \E j \in jobs : x \in DOMAIN j
                                \/ \E e \in Calls : At(e, "newOrg", "hadd")' /\ call'[e].id = x
                                \/ SameParent(hash[x], org'[x]))
    <3>1. UnderWay(x) /\ x \in Orgs \ crossed
      BY <2>5, <2>6 DEF HashInv
    <3>2. UnderWay(x)'
      BY <1>0, <2>3, <2>4, <2>6, <3>1 DEF UnderWay, Copying
    <3>3. QED
      BY <2>3, <2>4, <2>6, <3>1, <3>2 DEF HashInv, HashFollows, SameParent
  <2>7. ASSUME o \notin crossed'
        PROVE  UnderWay(o)'
    <3>1. /\ jobs = {} /\ Copying = {}
          /\ \A e \in Calls \ {c} : call[e].op # "newOrg"
      BY <2>1, <2>7, NothingPending DEF OrgOps
    <3>2. \A e \in Calls \ {c} : ~At(e, "newOrg", "hadd")
      BY <3>1 DEF At
    <3>3. QED
      BY <1>0, <2>3, <2>4, <3>1, <3>2, SameParents DEF UnderWay, Copying
  <2>8. HashFollows'
    BY <1>0, <2>3, <2>4, <2>6 DEF HashFollows, SameParent
  <2>9. QED
    BY <2>6, <2>7, <2>8 DEF HashInv
<1>3. QED
  BY <1>1, <1>2

LEMMA HashNewFollows ==
  ASSUME SlotsOK, CopyOK, HashInv, NEW c \in Calls, HashNewOrg(c) \/ HashNewOrgFails(c)
  PROVE  HashInv'
<1> DEFINE o == call[c].id
<1>0. /\ At(c, "newOrg", "hadd") /\ o \in Orgs
      /\ UNCHANGED <<org, jobs, sync>> /\ \E b : Answers(c, b)
  <2>1. call[c] \in NewOrgStored
    BY TreeSlot DEF HashNewOrg, HashNewOrgFails, At, TreeOps
  <2>2. QED
    BY <2>1 DEF NewOrgStored, HashNewOrg, HashNewOrgFails, rowVars
<1>1. /\ \A e \in Calls \ {c} : call'[e] = call[e]
      /\ call'[c] = Idle \/ call'[c].step = "answer"
  BY <1>0, AnswersApart DEF Answers, Goes, Sends, SlotsOK
<1>2. /\ ~At(c, "newOrg", "hadd")'
      /\ \A e \in Calls \ {c} : At(e, "newOrg", "hadd")' <=> At(e, "newOrg", "hadd")
  BY <1>1 DEF At, Idle
<1>3. /\ hash' = hash \/ hash' = [hash EXCEPT ![o] = call[c].row]
      /\ o \notin crossed' => hash' = [hash EXCEPT ![o] = call[c].row]
      /\ crossed' \in {crossed, crossed \cup {o}}
  BY DEF HashNewOrg, HashNewOrgFails, Cross
<1>4. ASSUME NEW x \in Orgs \ crossed'
      PROVE  UnderWay(x)'
  <2>1. UnderWay(x)
    BY <1>3, <1>4 DEF HashInv
  <2>2. QED
    BY <1>0, <1>1, <1>2, <2>1 DEF UnderWay, Copying
<1>5. ASSUME NEW x \in Orgs \ crossed', x # o
      PROVE  \/ \E j \in jobs : x \in DOMAIN j
             \/ \E e \in Calls : At(e, "newOrg", "hadd")' /\ call'[e].id = x
             \/ SameParent(hash'[x], org[x])
  <2>1. hash'[x] = hash[x] /\ x \notin crossed
    BY <1>0, <1>3, <1>5 DEF CopyOK, HashTable
  <2>2. QED
    BY <1>1, <1>2, <1>5, <2>1 DEF HashInv, HashFollows, SameParent
<1>6. ASSUME o \notin crossed'
      PROVE  SameParent(hash'[o], org[o])
  <2>1. hash'[o] = call[c].row /\ UnderWay(o)
    BY <1>0, <1>3, <1>6 DEF CopyOK, HashTable, HashInv
  <2>2. QED
    BY <1>0, <2>1 DEF UnderWay
<1>7. HashFollows'
  BY <1>0, <1>5, <1>6 DEF HashFollows, SameParent
<1>8. QED
  BY <1>4, <1>7 DEF HashInv

(* Rows are written, and with them a job that has what they are now.       *)
LEMMA WrittenFollows ==
  ASSUME SlotsOK, HashInv, NEW c \in Calls, call[c].op \in {"org", "noOrgs"},
         NEW S \in SUBSET Orgs, NEW J, DOMAIN J = S, \A x \in S : J[x] = org'[x],
         jobs' = jobs \cup {J}, UNCHANGED <<hash, sync>>, Cross(c, S),
         NEW b, Answers(c, b),
         \A x \in Orgs \ S : SameParent(org[x], org'[x])
  PROVE  HashInv'
<1>1. /\ \A e \in Calls \ {c} : call'[e] = call[e]
      /\ call'[c] = Idle \/ call'[c].step = "answer"
  BY AnswersApart DEF Answers, Goes, Sends, SlotsOK
<1>2. /\ ~At(c, "newOrg", "hadd")' /\ ~At(c, "newOrg", "hadd")
      /\ \A e \in Calls \ {c} : At(e, "newOrg", "hadd")' <=> At(e, "newOrg", "hadd")
  BY <1>1 DEF At, Idle
<1>3. crossed \subseteq crossed'
  BY DEF Cross
<1>4. ASSUME NEW x \in Orgs \ crossed', x \in S
      PROVE  UnderWay(x)' /\ \E j \in jobs' : x \in DOMAIN j
  <2>1. /\ jobs = {} /\ Copying = {}
        /\ \A e \in Calls \ {c} : call[e].op # "newOrg"
    BY <1>4, NothingPending DEF OrgOps
  <2>2. jobs' = {J} /\ Copying' = {}
    BY <2>1 DEF Copying
  <2>3. \A e \in Calls : ~At(e, "newOrg", "hadd")'
    BY <1>2, <2>1 DEF At
  <2>4. UnderWay(x)'
    BY <1>4, <2>2, <2>3, SameParents DEF UnderWay
  <2>5. QED
    BY <1>4, <2>2, <2>4
<1>5. ASSUME NEW x \in Orgs \ crossed', x \notin S
      PROVE  UnderWay(x)' /\ (\/ \E j \in jobs' : x \in DOMAIN j
                              \/ \E e \in Calls : At(e, "newOrg", "hadd")' /\ call'[e].id = x
                              \/ SameParent(hash[x], org'[x]))
  <2>1. UnderWay(x) /\ x \in Orgs \ crossed /\ SameParent(org[x], org'[x])
    BY <1>3, <1>5 DEF HashInv
  <2>2. \A r : SameParent(r, org[x]) => SameParent(r, org'[x])
    BY <2>1, SameParents
  <2>3. \A j \in jobs' : x \in DOMAIN j => j \in jobs
    BY <1>5
  <2>4. UnderWay(x)'
    BY <1>1, <1>2, <2>1, <2>2, <2>3 DEF UnderWay, Copying
  <2>5. \/ \E j \in jobs : x \in DOMAIN j
        \/ \E e \in Calls : At(e, "newOrg", "hadd") /\ call[e].id = x
        \/ SameParent(hash[x], org[x])
    BY <2>1 DEF HashInv, HashFollows, SameParent
  <2>6. QED
    BY <1>1, <1>2, <2>2, <2>4, <2>5
<1>6. HashFollows'
  BY <1>4, <1>5 DEF HashFollows, SameParent
<1>7. QED
  BY <1>4, <1>5, <1>6 DEF HashInv

(* A tree whose parents are written below k.id only.                       *)
LEMMA WriteParents ==
  ASSUME TableOK, SlotsOK, NEW c \in Calls, WriteOrg(c), org[call[c].id] # NoRow,
         call[c].parent \in {Keep, None} \/ org[call[c].parent] # NoRow
  PROVE  /\ call[c].id \in Orgs \ {Root}
         /\ \A x \in Orgs \ {call[c].id} : SameParent(org[x], org'[x])
<1> DEFINE k == call[c]
<1>1. k \in OrgAsked /\ Asking(k) /\ k.op = "org" /\ k.step = "write"
  BY TreeSlot DEF WriteOrg, At, TreeOps
<1>2. k.id \in Orgs \ {Root}
  BY <1>1 DEF OrgAsked, Asking, Consistent
<1>3. CASE k.parent = Keep
  BY <1>2, <1>3, SameParents DEF WriteOrg
<1>4. CASE k.parent # Keep
  <2>1. k.parent \in OrgRows \cup {None}
    BY <1>1, <1>4 DEF OrgAsked, OrgRows
  <2>2. PICK soon : org' = Repathed(Reparented(k), soon)
    BY <1>4, <2>1 DEF WriteOrg
  <2> PICK t : t = Reparented(k)
    OBVIOUS
  <2>3. Grown(t) /\ \A o \in Orgs \ {k.id} : t[o] = org[o]
    BY <1>2, <2>1, ReparentedTree
  <2>4. /\ \A o \in Orgs : org'[o] = NoRow <=> t[o] = NoRow
        /\ \A o \in Orgs : t[o] # NoRow => org'[o].parent = t[o].parent
    BY <2>2, <2>3, RepathedTree
  <2>5. QED
    BY <1>2, <2>3, <2>4 DEF SameParent
<1>5. QED
  BY <1>3, <1>4

LEMMA WriteFollows ==
  ASSUME TableOK, SlotsOK, HashInv, NEW c \in Calls, WriteOrg(c)
  PROVE  HashInv'
<1> DEFINE k == call[c]
<1>0. k.op = "org" /\ k.step = "write" /\ UNCHANGED <<hash, sync>>
  BY DEF WriteOrg, At
<1>1. CASE org[k.id] # NoRow /\ (k.parent \in {Keep, None} \/ org[k.parent] # NoRow)
  <2>1. k.id \in Orgs /\ \A x \in Orgs \ {k.id} : SameParent(org[x], org'[x])
    BY <1>1, WriteParents
  <2> PICK S \in SUBSET Orgs : S = Subtree(k.id) /\ k.id \in S
    BY <1>1, <2>1, SubtreeRows DEF OrgRows
  <2> PICK J : J = [x \in S |-> org'[x]]
    OBVIOUS
  <2>2. jobs' = jobs \cup {J} /\ Cross(c, S) /\ Answers(c, J)
    BY <1>1 DEF WriteOrg
  <2>3. QED
    BY <1>0, <2>1, <2>2, WrittenFollows
<1>2. CASE ~(org[k.id] # NoRow /\ (k.parent \in {Keep, None} \/ org[k.parent] # NoRow))
  <2>1. Answers(c, Refused) /\ UNCHANGED <<org, jobs, crossed>>
    BY <1>2 DEF WriteOrg, Refuse, rowVars
  <2>2. QED
    BY <1>0, <2>1, AnswersFollow DEF At
<1>3. QED
  BY <1>1, <1>2

LEMMA DeleteFollows ==
  ASSUME TableOK, SlotsOK, HashInv, NEW c \in Calls, DeleteOrgs(c)
  PROVE  HashInv'
<1> DEFINE k == call[c]
<1>0. /\ k \in NoOrgsAsked /\ k.op = "noOrgs" /\ k.step = "delete"
      /\ UNCHANGED <<hash, sync>>
  BY TreeSlot DEF DeleteOrgs, At, TreeOps
<1> PICK S \in SUBSET Orgs : S = k.ids
  BY <1>0 DEF NoOrgsAsked
<1>1. CASE /\ \A o \in S : Children(o) \subseteq S
           /\ \A u \in UserRows : user[u].org \notin S
  <2> PICK J : J = [x \in S |-> NoRow]
    OBVIOUS
  <2>1. /\ org' = Without(org, S) /\ jobs' = jobs \cup {J}
        /\ Cross(c, S) /\ Answers(c, S)
    BY <1>1 DEF DeleteOrgs, Forget
  <2>2. \A x \in Orgs : org'[x] = IF x \in S THEN NoRow ELSE org[x]
    BY <2>1 DEF Without, TableOK, RowsOK
  <2>3. /\ \A x \in S : J[x] = org'[x]
        /\ \A x \in Orgs \ S : SameParent(org[x], org'[x])
    BY <2>2, SameParents
  <2>4. QED
    BY <1>0, <2>1, <2>3, WrittenFollows
<1>2. CASE ~(/\ \A o \in S : Children(o) \subseteq S
             /\ \A u \in UserRows : user[u].org \notin S)
  <2>1. Answers(c, Refused) /\ UNCHANGED <<org, jobs, crossed>>
    BY <1>2 DEF DeleteOrgs, Refuse, rowVars
  <2>2. QED
    BY <1>0, <2>1, AnswersFollow DEF At
<1>3. QED
  BY <1>1, <1>2

LEMMA ServedFollows ==
  ASSUME TableOK, SlotsOK, CopyOK, HashInv, NEW c \in Calls, OrgNext(c)
  PROVE  HashInv'
  BY ChecksFollow, InsertFollows, HashNewFollows, WriteFollows, DeleteFollows DEF OrgNext

-----------------------------------------------------------------------------
(* Requests of the other modules, and steps of the page.                   *)
LEMMA ApartFollows ==
  ASSUME SlotsOK, HashInv, UNCHANGED <<org, hash, jobs, sync, crossed>>,
         NEW c \in Calls, Stays(c), call[c].op \notin TreeOps, OthersKept(c)
  PROVE  HashInv'
<1>1. \A e \in Calls : At(e, "newOrg", "hadd") \/ At(e, "newOrg", "hadd")'
                          => call'[e] = call[e]
  BY OtherChanged DEF At, Stays, Idle, TreeOps
<1>2. QED
  BY <1>1, HashKept

LEMMA ServesFollow ==
  ASSUME TableOK, SlotsOK, CopyOK, HashInv, NEW c \in Calls, Serves(c)
  PROVE  HashInv'
<1>1. CASE FleetNext(c) /\ UNCHANGED <<hashVars, mixed>>
  <2>1. Stays(c) /\ call[c].op \notin TreeOps /\ OthersKept(c)
    BY <1>1, FleetStays, FleetAside DEF RowOps, TreeOps, Aside
  <2>2. UNCHANGED org
    BY Zenon, <1>1 DEF FleetNext, CheckNewAsset, InsertAsset, CheckAsset, MoveAsset, CommitAsset,
       DeleteAssets, CheckNewDevice, InsertDevice, CheckDevice, WriteDevice, CheckNoDevices,
       DeleteDevices, Refuse, rowVars
  <2>3. QED
    BY <1>1, <2>1, <2>2, ApartFollows DEF hashVars
<1>2. CASE OrgNext(c)
  BY <1>2, ServedFollows
<1>3. CASE GroupNext(c) /\ UNCHANGED <<raced, hashVars>>
  <2>1. Stays(c) /\ call[c].op \notin TreeOps /\ OthersKept(c)
    BY <1>3, GroupStays, GroupServed DEF GroupOps, TreeOps
  <2>2. UNCHANGED org
    BY Zenon, <1>3 DEF GroupNext, InsertGroup, ReadItems, DeleteMembers, CommitGroup, DeleteGroups,
       Refuse, rowVars
  <2>3. QED
    BY <1>3, <2>1, <2>2, ApartFollows DEF hashVars
<1>4. CASE AccessNext(c) /\ UNCHANGED <<raced, hashVars, mixed>>
  <2>1. Stays(c) /\ call[c].op \notin TreeOps /\ OthersKept(c)
    BY <1>4, UserStays, UserServed DEF UserOps, TreeOps
  <2>2. UNCHANGED org
    BY <1>4 DEF AccessNext, ReadUsers, ReadOptions, ReadDenied, ReadList, CheckAccess,
       WriteAccess, CommitAccess, CheckNewUser, InsertUser, CheckNoUsers, DeleteUsers, Refuse, rowVars
  <2>3. QED
    BY <1>4, <2>1, <2>2, ApartFollows DEF hashVars
<1>5. QED
  BY <1>1, <1>2, <1>3, <1>4 DEF Serves

LEMMA OutsideFollows ==
  ASSUME HashInv, Outside, UNCHANGED <<hash, jobs, sync, crossed>>
  PROVE  HashInv'
<1>1. \A e \in Calls : At(e, "newOrg", "hadd") \/ At(e, "newOrg", "hadd")'
                          => call'[e] = call[e]
  BY DEF Outside, Vacant, Settled, At, Idle
<1>2. QED
  BY <1>1, HashKept DEF Outside, rowVars

-----------------------------------------------------------------------------
(* The jobs themselves, and the services that copy the table.              *)
LEMMA JobFollows ==
  ASSUME CopyOK, HashInv, NEW j \in jobs, HashJob(j)
  PROVE  HashInv'
<1>1. PICK S \in (SUBSET Orgs) \ {{}} : j \in [S -> OrgRow \cup {NoRow}]
  BY DEF CopyOK
<1> PICK o \in S : o = CHOOSE x \in DOMAIN j : TRUE
  BY <1>1
<1> PICK rest : rest = [x \in DOMAIN j \ {o} |-> j[x]]
  OBVIOUS
<1>2. /\ hash' = [hash EXCEPT ![o] = j[o]]
      /\ jobs' = (jobs \ {j}) \cup (IF DOMAIN j = {o} THEN {} ELSE {rest})
      /\ UNCHANGED <<org, call, sync, crossed>>
  BY DEF HashJob, rowVars, callVars
<1>3. ASSUME NEW i \in jobs', NEW x \in DOMAIN i
      PROVE  i \in jobs \/ (x \in DOMAIN j /\ i[x] = j[x])
  BY <1>2, <1>3
<1>4. ASSUME NEW x \in Orgs \ crossed
      PROVE  UnderWay(x)'
  <2>1. UnderWay(x)
    BY DEF HashInv
  <2>2. \A i \in jobs' : x \in DOMAIN i => SameParent(i[x], org[x])
    BY <1>3, <2>1 DEF UnderWay
  <2>3. QED
    BY <1>2, <2>1, <2>2 DEF UnderWay, Copying, At
<1>5. ASSUME NEW x \in Orgs \ crossed
      PROVE  \/ \E i \in jobs' : x \in DOMAIN i
             \/ \E e \in Calls : At(e, "newOrg", "hadd") /\ call[e].id = x
             \/ SameParent(hash'[x], org[x])
  <2>1. \/ \E i \in jobs : x \in DOMAIN i
        \/ \E e \in Calls : At(e, "newOrg", "hadd") /\ call[e].id = x
        \/ SameParent(hash[x], org[x])
    BY DEF HashInv, HashFollows, SameParent
  <2>2. hash'[x] = IF x = o THEN j[o] ELSE hash[x]
    BY <1>2 DEF CopyOK, HashTable
  <2>3. CASE x = o
    BY <1>1, <2>2, <2>3 DEF HashInv, UnderWay
  <2>4. CASE x # o
    <3>1. x \in DOMAIN j => rest \in jobs' /\ x \in DOMAIN rest
      BY <1>2, <2>4
    <3>2. \A i \in jobs \ {j} : i \in jobs'
      BY <1>2
    <3>3. QED
      BY <2>1, <2>2, <2>4, <3>1, <3>2
  <2>5. QED
    BY <2>3, <2>4
<1>6. HashFollows'
  BY <1>2, <1>5 DEF HashFollows, SameParent, At
<1>7. QED
  BY <1>2, <1>4, <1>6 DEF HashInv

LEMMA CopiesFollow ==
  ASSUME TableOK, CopyOK, HashInv, HashNext
  PROVE  HashInv'
<1>1. ASSUME NEW j \in jobs, HashJobFails(j)
      PROVE  HashInv'
  <2>1. /\ jobs' = jobs \ {j} /\ crossed' = crossed \cup DOMAIN j
        /\ UNCHANGED <<org, call, hash, sync>>
    BY <1>1 DEF HashJobFails, rowVars, callVars
  <2>2. \A x \in Orgs \ crossed' : UnderWay(x)'
    BY <2>1 DEF HashInv, UnderWay, Copying, At
  <2>3. HashFollows'
    BY <2>1 DEF HashInv, HashFollows, At
  <2>4. QED
    BY <2>2, <2>3 DEF HashInv
<1>2. ASSUME NEW s \in Copiers, SelectOrgs(s)
      PROVE  HashInv'
  <2>1. sync' = [sync EXCEPT ![s] = org] /\ UNCHANGED <<org, call, hash, jobs, crossed>>
    BY <1>2 DEF SelectOrgs, rowVars, callVars
  <2>2. \A r \in Copying' : sync'[r] = org \/ (r \in Copying /\ sync'[r] = sync[r])
    BY <2>1 DEF CopyOK, Copying
  <2>3. \A x \in Orgs \ crossed' : UnderWay(x)'
    BY <2>1, <2>2, SameParents DEF HashInv, UnderWay, At
  <2>4. HashFollows'
    BY <2>1 DEF HashInv, HashFollows, At
  <2>5. QED
    BY <2>3, <2>4 DEF HashInv
<1>3. ASSUME NEW s \in Copiers, ReplaceOrgs(s)
      PROVE  HashInv'
  <2>1. /\ s \in Copying /\ hash' = sync[s] /\ sync' = [sync EXCEPT ![s] = NoRow]
        /\ UNCHANGED <<org, call, jobs>>
        /\ \/ crossed' = crossed
           \/ /\ jobs = {} /\ Copying = {s} /\ \A c \in Calls : call[c].op \notin OrgOps
              /\ crossed' = crossed \cap {o \in Orgs : sync[s][o] # org[o]}
    BY <1>3 DEF ReplaceOrgs, rowVars, callVars
  <2>2. \A r \in Copying' : r \in Copying \ {s} /\ sync'[r] = sync[r]
    BY <2>1 DEF CopyOK, Copying
  <2>3. ASSUME NEW x \in Orgs \ crossed'
        PROVE  UnderWay(x)' /\ SameParent(hash'[x], org[x])
    <3>1. CASE x \in crossed
      <4>1. /\ jobs = {} /\ Copying = {s} /\ sync[s][x] = org[x]
            /\ \A c \in Calls : ~At(c, "newOrg", "hadd")
        BY <2>1, <2>3, <3>1 DEF At, OrgOps
      <4>2. Copying' = {}
        BY <2>2, <4>1
      <4>3. QED
        BY <2>1, <4>1, <4>2, SameParents DEF UnderWay, At
    <3>2. CASE x \notin crossed
      <4>1. UnderWay(x)
        BY <3>2 DEF HashInv
      <4>2. QED
        BY <2>1, <2>2, <4>1 DEF UnderWay, At
    <3>3. QED
      BY <3>1, <3>2
  <2>4. HashFollows'
    BY <2>1, <2>3 DEF HashFollows, SameParent
  <2>5. QED
    BY <2>3, <2>4 DEF HashInv
<1>4. QED
  BY <1>1, <1>2, <1>3, JobFollows DEF HashNext

(* A step that serves no request leaves the copy alone, but for those that *)
(* write it.                                                               *)
LEMMA CopyLeft ==
  ASSUME ConsoleInv, [ConsoleNext]_consoleVars
  PROVE  \/ \E c \in Calls : Serves(c)
         \/ HashNext
         \/ Outside /\ UNCHANGED <<hash, jobs, sync, crossed, deep>>
<1> DEFINE copy == <<hash, jobs, sync, crossed, deep>>
<1>1. ASSUME NEW c \in Calls,
             ViewAsks(c) \/ UserViewAsks(c) \/ OthersAsk(c) \/ LoadPage(c) \/ Profile(c)
      PROVE  UNCHANGED copy
  BY <1>1 DEF ViewAsks, UserViewAsks, OthersAsk, LoadPage, Profile, hashVars
<1>2. ASSUME NEW c \in Calls, Applies(c) PROVE UNCHANGED copy
  <2>1. ASSUME NEW op, Answered(c, op) PROVE UNCHANGED copy
    BY <2>1 DEF Answered, hashVars
  <2>2. CASE ApplyNewAsset(c) \/ ApplyAsset(c) \/ ApplyNewDevice(c) \/ ApplyDevice(c)
                \/ ApplyNoDevices(c) \/ ApplyNewOrg(c) \/ ApplyOrgs(c) \/ ApplyNoOrgs(c)
                \/ ApplyNewGroup(c) \/ ApplyGroup(c) \/ ApplyNoGroups(c) \/ ApplyItems(c)
    BY <2>1, <2>2 DEF ApplyNewAsset, ApplyAsset, ApplyNewDevice, ApplyDevice, ApplyNoDevices,
       ApplyNewOrg, ApplyOrgs, ApplyNoOrgs, ApplyNewGroup, ApplyGroup, ApplyNoGroups, ApplyItems
  <2>3. CASE UserApplies(c) \/ ApplyNoAssets(c) \/ ApplyProfile(c) \/ Shrug(c) \/ LoseAnswer(c)
    BY <2>3 DEF UserApplies, ApplyNoAssets, ApplyProfile, Shrug, LoseAnswer, hashVars
  <2>4. QED
    BY <1>2, <2>2, <2>3 DEF Applies
<1>3. CloseGroup \/ CloseUser \/ ReportsNext \/ UNCHANGED consoleVars => UNCHANGED copy
  BY DEF CloseGroup, CloseUser, ReportsNext, consoleVars, hashVars
<1>4. \/ \E c \in Calls : Serves(c)
      \/ HashNext
      \/ UNCHANGED copy
  BY <1>1, <1>2, <1>3 DEF ConsoleNext, ConsoleStep
<1>5. QED
  BY <1>4, ServedOrOutside

LEMMA ConsoleHash == ConsoleSpec => []HashInv
<1>1. ConsoleInit => HashInv
  <2> SUFFICES ASSUME ConsoleInit PROVE HashInv
    OBVIOUS
  <2>1. hash = org /\ jobs = {} /\ Copying = {} /\ call = [c \in Calls |-> Idle]
    BY DEF ConsoleInit, RowsInit, HashInit, Copying
  <2>2. \A c \in Calls : ~At(c, "newOrg", "hadd")
    BY <2>1 DEF At, Idle
  <2>3. QED
    BY <2>1, <2>2 DEF HashInv, HashFollows, UnderWay
<1>2. ConsoleInv /\ HashInv /\ [ConsoleNext]_consoleVars => HashInv'
  BY CopyLeft, ServesFollow, CopiesFollow, OutsideFollows DEF ConsoleInv
<1>3. QED
  BY <1>1, <1>2, ConsoleInvariant, PTL DEF ConsoleSpec

-----------------------------------------------------------------------------
(* The tree, once more.                                                    *)
(* A table with every parent of another has everything below.              *)
LEMMA UnderMore ==
  ASSUME NEW t \in Tree, NEW s \in Tree, NEW o \in Orgs,
         \A x \in Orgs : s[x] # NoRow => t[x] # NoRow /\ t[x].parent = s[x].parent
  PROVE  Under(o, s) \subseteq Under(o, t)
<1> PICK X : X = Under(o, t)
  OBVIOUS
<1>1. o \in X /\ \A x \in Orgs : s[x] # NoRow /\ s[x].parent \in X => x \in X
  BY UnderTree, UnderClosed
<1>2. QED
  BY <1>1, UnderLeast

-----------------------------------------------------------------------------
(* Paths that are right from the top.                                      *)
LEMMA CleanRight ==
  ASSUME NEW t
  PROVE  /\ Clean(t) \subseteq Orgs
         /\ \A x \in Clean(t) : /\ t[x] # NoRow /\ t[x].parent \in Clean(t) \cup {None}
                                /\ Right(x, t)
         /\ RightAbove(Clean(t), t)
<1>1. Clean(t) \subseteq Orgs
  BY DEF Clean
<1>2. RightAbove(Clean(t), t)
  <2>1. SUFFICES ASSUME NEW x \in Orgs, t[x] # NoRow, t[x].parent \in Clean(t) \cup {None},
                        Right(x, t), NEW X \in SUBSET Orgs, RightAbove(X, t)
                 PROVE  x \in X
    BY DEF RightAbove, Clean
  <2>2. t[x].parent \in X \cup {None}
    BY <2>1 DEF Clean
  <2>3. QED
    BY <2>1, <2>2 DEF RightAbove
<1>3. ASSUME NEW x \in Clean(t)
      PROVE  t[x] # NoRow /\ t[x].parent \in Clean(t) \cup {None} /\ Right(x, t)
  <2> PICK X : X = {y \in Clean(t) : /\ t[y] # NoRow /\ t[y].parent \in Clean(t) \cup {None}
                                     /\ Right(y, t)}
    OBVIOUS
  <2>1. X \in SUBSET Orgs
    BY <1>1
  <2>2. RightAbove(X, t)
    BY <1>2 DEF RightAbove
  <2>3. x \in X
    BY <2>1, <2>2 DEF Clean
  <2>4. QED
    BY <2>3
<1>4. QED
  BY <1>1, <1>2, <1>3

(* From the top down through the right paths.                              *)
LEMMA CleanInduction ==
  ASSUME NEW t, NEW X,
         \A x \in Clean(t) : t[x].parent \in X \cup {None} => x \in X
  PROVE  Clean(t) \subseteq X
<1> PICK Y : Y = Clean(t) \cap X
  OBVIOUS
<1>1. Y \in SUBSET Orgs
  BY CleanRight
<1>2. RightAbove(Y, t)
  BY CleanRight DEF RightAbove
<1>3. QED
  BY <1>1, <1>2 DEF Clean

(* Nothing leaves the part S of the tree t downwards, and outside it every *)
(* row of s has the parent of t, and its path from its old path, or from   *)
(* the old or the new path of the parent.                                  *)
KeptApart(t, s, S) ==
    /\ \A x \in Orgs : t[x] # NoRow /\ t[x].parent \in S => x \in S
    /\ \A x \in Orgs \ S : t[x] # NoRow => s[x] # NoRow /\ s[x].parent = t[x].parent
    /\ \A x \in Orgs \ S : t[x] # NoRow =>
          \/ s[x].path = t[x].path
          \/ t[x].parent = None /\ s[x].path = <<x>>
          \/ /\ t[x].parent # None
             /\ \/ s[x].path = Append(s[t[x].parent].path, x)
                \/ s[x].path = Append(t[t[x].parent].path, x)

LEMMA CleanKept ==
  ASSUME NEW t, NEW s, NEW S, KeptApart(t, s, S)
  PROVE  \A x \in Clean(t) \ S : x \in Clean(s) /\ s[x].path = t[x].path
<1> PICK X : X = {x \in Clean(t) : x \in S \/ (x \in Clean(s) /\ s[x].path = t[x].path)}
  OBVIOUS
<1>1. ASSUME NEW x \in Clean(t), t[x].parent \in X \cup {None}, x \notin S
      PROVE  x \in Clean(s) /\ s[x].path = t[x].path
  <2>1. x \in Orgs /\ t[x] # NoRow /\ Right(x, t)
    BY CleanRight
  <2>2. s[x] # NoRow /\ s[x].parent = t[x].parent
    BY <1>1, <2>1 DEF KeptApart
  <2>3. CASE t[x].parent = None
    <3>1. t[x].path = <<x>> /\ s[x].path = <<x>>
      BY <1>1, <2>1, <2>3 DEF Right, PathUnder, KeptApart
    <3>2. Right(x, s)
      BY <2>2, <2>3, <3>1 DEF Right, PathUnder
    <3>3. QED
      BY <2>1, <2>2, <2>3, <3>1, <3>2, CleanRight DEF RightAbove
  <2>4. CASE t[x].parent # None
    <3> PICK p : p = t[x].parent
      OBVIOUS
    <3>1. p \in Clean(s) /\ s[p].path = t[p].path
      BY <1>1, <2>1, <2>4 DEF KeptApart
    <3>2. t[x].path = Append(t[p].path, x)
      BY <2>1, <2>4 DEF Right, PathUnder
    <3>3. s[x].path = Append(t[p].path, x)
      BY <1>1, <2>1, <2>4, <3>1, <3>2 DEF KeptApart
    <3>4. Right(x, s)
      BY <2>2, <2>4, <3>1, <3>3 DEF Right, PathUnder
    <3>5. QED
      BY <2>1, <2>2, <3>1, <3>2, <3>3, <3>4, CleanRight DEF RightAbove
  <2>5. QED
    BY <2>3, <2>4
<1>2. Clean(t) \subseteq X
  BY <1>1, CleanInduction
<1>3. QED
  BY <1>2

-----------------------------------------------------------------------------
(* The paths.                                                              *)
LEMMA PathsStay ==
  ASSUME PathsInv, UNCHANGED <<org, deep>>
  PROVE  PathsInv'
  BY DEF PathsInv

LEMMA InsertPaths ==
  ASSUME TableOK, SlotsOK, PathsInv, NEW c \in Calls, InsertOrg(c)
  PROVE  PathsInv'
<1> DEFINE k == call[c]
<1>0. k \in NewOrgAsked
  BY TreeSlot DEF InsertOrg, At, TreeOps
<1>1. CASE org[k.parent] = NoRow
  BY <1>1, PathsStay DEF InsertOrg, Refuse, rowVars
<1>2. CASE org[k.parent] # NoRow
  <2> PICK o : o = NextId(Orgs)
    OBVIOUS
  <2> PICK p \in Orgs : p = k.parent
    BY <1>0 DEF NewOrgAsked
  <2> PICK row : row = NewOrg(o, p)
    OBVIOUS
  <2>1. /\ org' = [org EXCEPT ![o] = row]
        /\ deep' = IF p \in deep THEN deep \cup {o} ELSE deep
    BY <1>2 DEF InsertOrg
  <2>2. /\ o \in Orgs /\ org[o] = NoRow /\ o # Root
        /\ org \in Tree /\ \A x \in OrgRows : org[x].parent \in OrgRows \cup {None}
    BY FreshId, TableTree DEF InsertOrg, TableOK, RowsOK, OrgRows
  <2>3. /\ row \in OrgRow /\ row.parent = p /\ p # None /\ p # o
        /\ row.path = Append(org[p].path, o)
    BY <1>2, <2>2, PathTyped, Markers DEF NewOrg, PathUnder, OrgRows
  <2>4. /\ org'[o] = row /\ org' \in Tree /\ row # NoRow
        /\ \A x \in Orgs \ {o} : org'[x] = org[x]
    BY <2>1, <2>2, <2>3, Apart DEF Tree
  <2>5. \A x \in Orgs : org[x] # NoRow => x # o /\ org[x].parent # o
    BY <2>2, Markers DEF OrgRows
  <2>6. Below(org') \subseteq Below(org) \cup {o}
    <3> PICK X : X = Below(org) \cup {o}
      OBVIOUS
    <3>1. Root \in X /\ Root \in Orgs
      BY <2>2, UnderTree, SystemOrgs DEF Below
    <3>2. ASSUME NEW x \in Orgs, org'[x] # NoRow, org'[x].parent \in X
          PROVE  x \in X
      BY <2>2, <2>4, <2>5, <3>1, <3>2, UnderClosed DEF Below
    <3>3. QED
      BY <2>4, <3>1, <3>2, UnderLeast DEF Below
  <2>7. Clean(org) \subseteq Clean(org')
    <3>1. \A x \in Orgs : org[x] # NoRow => org'[x] = org[x]
      BY <2>4, <2>5
    <3>2. \A x \in Clean(org) \ {} : x \in Clean(org')
      BY <3>1, CleanKept DEF KeptApart
    <3>3. QED
      BY <3>2
  <2>8. ASSUME o \in Below(org') \ deep'
        PROVE  o \in Clean(org')
    <3>1. p \in Below(org') /\ p \notin deep
      <4>1. o \in Below(org') /\ p \notin deep
        BY <2>1, <2>8
      <4>2. org'[o].parent \in Below(org')
        BY <2>2, <2>4, <4>1, UnderTree, SystemOrgs DEF Below
      <4>3. QED
        BY <2>3, <2>4, <4>1, <4>2
    <3>2. p \in Clean(org)
      BY <2>3, <2>6, <3>1 DEF PathsInv
    <3>3. Right(o, org')
      BY <2>3, <2>4 DEF Right, PathUnder
    <3>4. QED
      BY <2>2, <2>3, <2>4, <2>7, <3>2, <3>3, CleanRight DEF RightAbove
  <2>9. QED
    BY <2>1, <2>6, <2>7, <2>8 DEF PathsInv
<1>3. QED
  BY <1>1, <1>2

LEMMA DeletePaths ==
  ASSUME TableOK, SlotsOK, PathsInv, NEW c \in Calls, DeleteOrgs(c)
  PROVE  PathsInv'
<1> DEFINE k == call[c]
<1>0. k \in NoOrgsAsked /\ k.op = "noOrgs" /\ k.step = "delete" /\ Asking(k)
  BY TreeSlot DEF DeleteOrgs, At, TreeOps
<1> PICK S \in SUBSET Orgs : S = k.ids
  BY <1>0 DEF NoOrgsAsked
<1>1. CASE /\ \A o \in S : Children(o) \subseteq S
           /\ \A u \in UserRows : user[u].org \notin S
  <2>1. org' = Without(org, S) /\ deep' = deep
    BY <1>1 DEF DeleteOrgs
  <2>2. org \in Tree /\ Root \in Orgs /\ Root \notin S
    BY <1>0, TableTree, SystemOrgs DEF Asking, Consistent
  <2>3. \A x \in Orgs : org'[x] = IF x \in S THEN NoRow ELSE org[x]
    BY <2>1, <2>2 DEF Without, Tree
  <2>4. org' \in Tree
    BY <2>1, <2>2 DEF Without, Tree
  <2>5. Below(org') \subseteq Below(org)
    BY <2>2, <2>3, <2>4, UnderMore DEF Below
  <2>6. \A x \in Below(org') : x \notin S
    BY <2>2, <2>3, <2>4, UnderTree DEF Below
  <2>7. \A x \in Orgs : org[x] # NoRow /\ org[x].parent \in S => x \in S
    BY <1>1 DEF Children, OrgRows
  <2>8. \A x \in Clean(org) \ S : x \in Clean(org')
    BY <2>3, <2>7, CleanKept DEF KeptApart
  <2>9. QED
    BY <2>1, <2>5, <2>6, <2>8 DEF PathsInv
<1>2. CASE ~(/\ \A o \in S : Children(o) \subseteq S
             /\ \A u \in UserRows : user[u].org \notin S)
  BY <1>2, PathsStay DEF DeleteOrgs, Refuse, rowVars
<1>3. QED
  BY <1>1, <1>2

(* The subtree an organisation takes with it when it moves.                *)
LEMMA MovedTree ==
  ASSUME TableOK, NEW o \in Orgs \ {Root}, org[o] # NoRow,
         NEW t \in Tree, t[o] # NoRow, \A x \in Orgs \ {o} : t[x] = org[x]
  PROVE  /\ Subtree(o) = Under(o, org) /\ o \in Subtree(o)
         /\ \A x \in Orgs : org[x] # NoRow /\ org[x].parent \in Subtree(o) => x \in Subtree(o)
         /\ Below(t) \subseteq Below(org) \cup Subtree(o)
         /\ t[o].parent \in Subtree(o) => Below(t) \cap Subtree(o) = {}
<1>1. org \in Tree /\ Root \in Orgs /\ org[Root].parent = None
  BY TableTree, SystemOrgs DEF Grown
<1> PICK S : S = Subtree(o)
  OBVIOUS
<1>2. S = Under(o, org) /\ o \in S /\ S \subseteq Orgs
  BY <1>1, UnderTree DEF Subtree, OrgRows
<1>3. \A x \in Orgs : org[x] # NoRow /\ org[x].parent \in S => x \in S
  BY <1>1, <1>2, UnderClosed
<1>4. Below(t) \subseteq Below(org) \cup S
  <2> PICK X : X = Below(org) \cup S
    OBVIOUS
  <2>1. Root \in X
    BY <1>1, UnderTree DEF Below
  <2>2. ASSUME NEW x \in Orgs, t[x] # NoRow, t[x].parent \in X
        PROVE  x \in X
    <3>1. CASE x = o
      BY <1>2, <3>1
    <3>2. CASE x # o
      <4>1. t[x] = org[x]
        BY <3>2
      <4>2. org[x].parent \in Below(org) => x \in Below(org)
        BY <1>1, <2>2, <4>1, UnderClosed DEF Below
      <4>3. QED
        BY <1>3, <2>2, <4>1, <4>2
    <3>3. QED
      BY <3>1, <3>2
  <2>3. QED
    BY <1>1, <2>1, <2>2, UnderLeast DEF Below
<1>5. ASSUME t[o].parent \in S
      PROVE  Below(t) \cap S = {}
  <2> PICK X : X = Orgs \ S
    OBVIOUS
  <2>1. \A x \in S \ {o} : org[x].parent \in S
    BY <1>1, <1>2, UnderTree
  <2>2. Root \in X
    BY <1>1, <1>2, <2>1, Markers
  <2>3. ASSUME NEW x \in Orgs, t[x] # NoRow, t[x].parent \in X
        PROVE  x \in X
    <3>1. x # o
      BY <1>5, <2>3
    <3>2. org[x].parent \notin S
      BY <2>3, <3>1
    <3>3. QED
      BY <2>1, <3>1, <3>2
  <2>4. Below(t) \subseteq X
    BY <1>1, <2>2, <2>3, UnderLeast DEF Below
  <2>5. QED
    BY <2>4
<1>6. QED
  BY <1>2, <1>3, <1>4, <1>5

(* The recomputation, in a tree where o has moved below p.                 *)
HangsFrom(t, o, p) ==
    /\ Grown(t) /\ t[o] # NoRow
    /\ \A x \in Orgs : t[x] = NoRow <=> org[x] = NoRow
    /\ \A x \in Orgs \ {o} : t[x] = org[x]
    /\ t[o].parent = p /\ t[o].path = PathUnder(o, p, org)

LEMMA RepathedClean ==
  ASSUME TableOK, NEW o \in Orgs \ {Root}, NEW p \in OrgRows \cup {None},
         NEW t, HangsFrom(t, o, p), NEW soon, NEW r, r = Repathed(t, soon)
  PROVE  /\ Below(r) = Below(t)
         /\ \A x \in Clean(org) \ Subtree(o) : x \in Clean(r)
         /\ o \in Below(t) /\ p \in Clean(org) =>
               /\ o \in Clean(r)
               /\ \A x \in Children(o) \cap Below(t) : x \in Clean(r)
<1>0. /\ Grown(t) /\ t[o] # NoRow /\ org[o] # NoRow
      /\ \A x \in Orgs : t[x] = NoRow <=> org[x] = NoRow
      /\ \A x \in Orgs \ {o} : t[x] = org[x]
      /\ t[o].parent = p /\ t[o].path = PathUnder(o, p, org)
  BY DEF HangsFrom
<1>1. /\ Grown(r) /\ r \in Tree /\ t \in Tree /\ Root \in Orgs
      /\ \A x \in Orgs : r[x] = NoRow <=> t[x] = NoRow
      /\ \A x \in Orgs : t[x] # NoRow => r[x].parent = t[x].parent
  BY <1>0, RepathedTree, SystemOrgs DEF Grown
<1>2. /\ \A x \in Orgs \ Below(t) : r[x] = t[x]
      /\ \A x \in Below(t) \ {Root} :
            r[x].path = Append(IF x \in soon THEN t[t[x].parent].path
                               ELSE r[t[x].parent].path, x)
      /\ r[Root].path = <<Root>>
  <2>1. Grown(t)
    BY <1>0
  <2>2. QED
    BY <2>1, RepathedTree
<1>3. Below(r) = Below(t)
  <2>1. /\ \A x \in Orgs : r[x] # NoRow => t[x] # NoRow /\ t[x].parent = r[x].parent
        /\ \A x \in Orgs : t[x] # NoRow => r[x] # NoRow /\ r[x].parent = t[x].parent
    BY <1>1
  <2>2. Below(r) \subseteq Below(t)
    BY <1>1, <2>1, UnderMore DEF Below
  <2>3. Below(t) \subseteq Below(r)
    BY <1>1, <2>1, UnderMore DEF Below
  <2>4. QED
    BY <2>2, <2>3
<1> PICK S : S = Subtree(o)
  OBVIOUS
<1>4. /\ o \in S
      /\ \A x \in Orgs : org[x] # NoRow /\ org[x].parent \in S => x \in S
      /\ p \in S => Below(t) \cap S = {}
  BY <1>0, <1>1, MovedTree
<1>5. \A x \in Clean(org) \ S : x \in Clean(r) /\ r[x].path = org[x].path
  <2>1. \A x \in Orgs \ S : org[x] # NoRow =>
          r[x] # NoRow /\ r[x].parent = org[x].parent /\ t[x] = org[x]
    BY <1>0, <1>1, <1>4
  <2>2. ASSUME NEW x \in Orgs \ S, org[x] # NoRow
        PROVE  \/ r[x].path = org[x].path
               \/ org[x].parent = None /\ r[x].path = <<x>>
               \/ /\ org[x].parent # None
                  /\ \/ r[x].path = Append(r[org[x].parent].path, x)
                     \/ r[x].path = Append(org[org[x].parent].path, x)
    <3>1. t[x] = org[x]
      BY <2>1, <2>2
    <3>2. CASE x \notin Below(t)
      BY <1>2, <3>1, <3>2
    <3>3. CASE x = Root
      BY <1>0, <1>2, <3>1, <3>3 DEF Grown
    <3>4. CASE x \in Below(t) \ {Root}
      <4>1. org[x].parent \in Orgs /\ org[x].parent # None
        BY <1>0, <3>1, <3>4, BelowTree, Markers
      <4>2. org[x].parent # o
        BY <1>4, <2>2
      <4>3. t[org[x].parent] = org[org[x].parent]
        BY <1>0, <4>1, <4>2
      <4>4. QED
        BY <1>2, <3>1, <3>4, <4>1, <4>3
    <3>5. QED
      BY <3>2, <3>3, <3>4
  <2>3. \A x \in Orgs \ S : org[x] # NoRow => r[x] # NoRow /\ r[x].parent = org[x].parent
    BY <2>1
  <2>4. \A x \in Orgs : org[x] # NoRow /\ org[x].parent \in S => x \in S
    BY <1>4
  <2>5. KeptApart(org, r, S)
    BY <2>2, <2>3, <2>4 DEF KeptApart
  <2>6. QED
    BY <2>5, CleanKept
<1>6. ASSUME o \in Below(t), p \in Clean(org)
      PROVE  o \in Clean(r) /\ \A x \in Children(o) \cap Below(t) : x \in Clean(r)
  <2>1. p \in Orgs /\ p \notin S /\ p # o /\ p # None
    BY <1>4, <1>6, CleanRight, Markers
  <2>2. p \in Clean(r) /\ r[p].path = org[p].path /\ t[p] = org[p]
    BY <1>0, <1>5, <1>6, <2>1
  <2>3. r[o] # NoRow /\ r[o].parent = p /\ r[o].path = Append(r[p].path, o)
    <3>1. r[o] # NoRow /\ r[o].parent = p
      BY <1>0, <1>1
    <3>2. o \in Below(t) \ {Root} /\ t[o].parent = p
      BY <1>0, <1>6
    <3>3. r[o].path = Append(IF o \in soon THEN t[p].path ELSE r[p].path, o)
      BY <1>2, <3>2
    <3>4. QED
      BY <2>2, <3>1, <3>3
  <2>4. o \in Clean(r)
    BY <2>1, <2>2, <2>3, CleanRight DEF Right, PathUnder, RightAbove
  <2>5. ASSUME NEW x \in Children(o) \cap Below(t)
        PROVE  x \in Clean(r)
    <3>1. x \in Orgs /\ org[x] # NoRow /\ org[x].parent = o /\ x \in Below(t)
      BY <2>5 DEF Children, OrgRows
    <3>2. CASE x = o
      BY <2>4, <3>2
    <3>3. CASE x # o
      <4>1. t[x] = org[x] /\ x # Root /\ o # None
        BY <1>0, <3>1, <3>3, TableTree, Markers DEF Grown
      <4>2. t[o].path = r[o].path
        BY <1>0, <2>1, <2>2, <2>3 DEF PathUnder
      <4>3. r[x] # NoRow /\ r[x].parent = o
        BY <1>1, <3>1, <4>1
      <4>4. r[x].path = Append(r[o].path, x)
        <5>1. r[x].path = Append(IF x \in soon THEN t[o].path ELSE r[o].path, x)
          BY <1>2, <3>1, <4>1
        <5>2. QED
          BY <4>2, <5>1
      <4>5. Right(x, r)
        BY <4>1, <4>3, <4>4 DEF Right, PathUnder
      <4>6. QED
        BY <2>4, <3>1, <4>3, <4>5, CleanRight DEF RightAbove
    <3>4. QED
      BY <3>2, <3>3
  <2>6. QED
    BY <2>4, <2>5
<1>7. QED
  BY <1>3, <1>5, <1>6

LEMMA WritePaths ==
  ASSUME TableOK, SlotsOK, PathsInv, NEW c \in Calls, WriteOrg(c)
  PROVE  PathsInv'
<1> DEFINE k == call[c]
<1>1. CASE ~(org[k.id] # NoRow /\ (k.parent \in {Keep, None} \/ org[k.parent] # NoRow))
  BY <1>1, PathsStay DEF WriteOrg, Refuse, rowVars
<1>2. CASE org[k.id] # NoRow /\ k.parent = Keep
  BY <1>2, PathsStay DEF WriteOrg
<1>3. CASE /\ org[k.id] # NoRow /\ k.parent # Keep
           /\ k.parent = None \/ org[k.parent] # NoRow
  <2>1. k \in OrgAsked /\ k.id \in Orgs \ {Root}
    BY <1>3, TreeSlot, WriteParents DEF WriteOrg, At, TreeOps
  <2> PICK o \in Orgs \ {Root} : o = k.id
    BY <2>1
  <2> PICK p \in OrgRows \cup {None} : p = k.parent
    BY <1>3, <2>1 DEF OrgAsked, OrgRows
  <2> PICK t : t = Reparented(k)
    OBVIOUS
  <2>2. /\ Grown(t) /\ t \in Tree
        /\ \A x \in Orgs : t[x] = NoRow <=> org[x] = NoRow
        /\ \A x \in Orgs \ {o} : t[x] = org[x]
        /\ t[o].parent = p
    BY <1>3, ReparentedTree DEF Grown
  <2>3. t[o].path = PathUnder(o, p, org)
    <3>1. t = [org EXCEPT ![o] = NewOrg(o, p)] /\ org \in Tree
      BY TableTree DEF Reparented
    <3>2. NewOrg(o, p).path = PathUnder(o, p, org)
      BY DEF NewOrg
    <3>3. QED
      BY <3>1, <3>2 DEF Tree
  <2> PICK S : S = Subtree(o)
    OBVIOUS
  <2>4. /\ \E soon : org' = Repathed(t, soon)
        /\ deep' = deep \cup FarBelow(o) \cup (IF p \in deep THEN S ELSE {})
    BY <1>3 DEF WriteOrg
  <2> PICK soon : org' = Repathed(t, soon)
    BY <2>4
  <2> PICK r : r = org'
    OBVIOUS
  <2>5. /\ Below(r) = Below(t)
        /\ \A x \in Clean(org) \ S : x \in Clean(r)
        /\ o \in Below(t) /\ p \in Clean(org) =>
              o \in Clean(r) /\ \A x \in Children(o) \cap Below(t) : x \in Clean(r)
    <3>1. HangsFrom(t, o, p) /\ r = Repathed(t, soon)
      BY <1>3, <2>2, <2>3 DEF HangsFrom
    <3>2. QED
      BY <3>1, RepathedClean
  <2>6. /\ Below(t) \subseteq Below(org) \cup S
        /\ p \in S => Below(t) \cap S = {}
    BY <1>3, <2>2, MovedTree
  <2> SUFFICES ASSUME NEW x \in Below(t) \ deep'
               PROVE  x \in Clean(r)
    BY <2>5 DEF PathsInv
  <2>7. CASE x \notin S
    BY <2>4, <2>5, <2>6, <2>7 DEF PathsInv
  <2>8. CASE x \in S
    <3>1. p \notin deep /\ x \in {o} \cup Children(o)
      BY <2>4, <2>8 DEF FarBelow
    <3>2. o \in Below(t)
      <4>1. CASE x = o
        BY <4>1
      <4>2. CASE x # o
        <5>1. org[x].parent = o /\ x \in Orgs /\ x # Root
          BY <3>1, <4>2, TableTree, Markers DEF Children, OrgRows, Grown
        <5>2. QED
          BY <2>2, <4>2, <5>1, BelowTree
      <4>3. QED
        BY <4>1, <4>2
    <3>3. p \in Below(t)
      BY <2>2, <3>2, BelowTree
    <3>4. p \in Clean(org)
      BY <2>6, <2>8, <3>1, <3>3 DEF PathsInv
    <3>5. QED
      BY <2>5, <3>1, <3>2, <3>4
  <2>9. QED
    BY <2>7, <2>8
<1>4. QED
  BY <1>1, <1>2, <1>3

(* Only requests of this module change the tree.                           *)
LEMMA TreeLeft ==
  ASSUME NEW c \in Calls, Serves(c), ~OrgNext(c)
  PROVE  UNCHANGED <<org, deep>>
<1>1. CASE FleetNext(c) /\ UNCHANGED <<hashVars, mixed>>
  BY Zenon, <1>1 DEF FleetNext, CheckNewAsset, InsertAsset, CheckAsset, MoveAsset, CommitAsset,
     DeleteAssets, CheckNewDevice, InsertDevice, CheckDevice, WriteDevice, CheckNoDevices,
     DeleteDevices, Refuse, rowVars, hashVars
<1>2. CASE GroupNext(c) /\ UNCHANGED <<raced, hashVars>>
  BY Zenon, <1>2 DEF GroupNext, InsertGroup, ReadItems, DeleteMembers, CommitGroup, DeleteGroups,
     Refuse, rowVars, hashVars
<1>3. CASE AccessNext(c) /\ UNCHANGED <<raced, hashVars, mixed>>
  BY <1>3 DEF AccessNext, ReadUsers, ReadOptions, ReadDenied, ReadList, CheckAccess,
     WriteAccess, CommitAccess, CheckNewUser, InsertUser, CheckNoUsers, DeleteUsers, Refuse,
     rowVars, hashVars
<1>4. QED
  BY <1>1, <1>2, <1>3 DEF Serves

LEMMA ServedPaths ==
  ASSUME TableOK, SlotsOK, PathsInv, NEW c \in Calls, OrgNext(c)
  PROVE  PathsInv'
<1>1. CASE CheckNewOrg(c) \/ CheckOrg(c) \/ CheckNoOrgs(c) \/ HashNewOrg(c) \/ HashNewOrgFails(c)
  <2>1. UNCHANGED <<org, deep>>
    BY <1>1 DEF CheckNewOrg, CheckOrg, CheckNoOrgs, HashNewOrg, HashNewOrgFails, Refuse,
       rowVars, hashVars
  <2>2. QED
    BY <2>1, PathsStay
<1>2. QED
  BY <1>1, InsertPaths, WritePaths, DeletePaths DEF OrgNext

LEMMA PathsStart == ConsoleInit => PathsInv
<1> SUFFICES ASSUME ConsoleInit PROVE PathsInv
  OBVIOUS
<1>1. org = InitOrg /\ TableOK
  BY ConsoleStart DEF ConsoleInit, RowsInit, ConsoleInv
<1>2. org \in Tree /\ Root \in Orgs /\ Root \in Below(org) /\ org[Root] # NoRow /\ org[Root].parent = None
  BY <1>1, TableTree, SystemOrgs, BelowTree DEF Grown
<1>3. \A x \in Below(org) : Right(x, org)
  BY <1>1, StartPaths DEF Right
<1> PICK X : X = Clean(org) \cap Below(org)
  OBVIOUS
<1>4. Root \in X
  BY <1>2, <1>3, CleanRight DEF RightAbove
<1>5. ASSUME NEW x \in Orgs, org[x] # NoRow, org[x].parent \in X
      PROVE  x \in X
  <2>1. x \in Below(org)
    BY <1>2, <1>5, UnderClosed DEF Below
  <2>2. QED
    BY <1>3, <1>5, <2>1, CleanRight DEF RightAbove
<1>6. Below(org) \subseteq X
  BY <1>2, <1>4, <1>5, UnderLeast DEF Below
<1>7. QED
  BY <1>6 DEF PathsInv

LEMMA ConsolePaths == ConsoleSpec => []PathsInv
<1>1. ConsoleInv /\ PathsInv /\ [ConsoleNext]_consoleVars => PathsInv'
  <2> SUFFICES ASSUME ConsoleInv, PathsInv, [ConsoleNext]_consoleVars PROVE PathsInv'
    OBVIOUS
  <2>1. ASSUME NEW c \in Calls, Serves(c) PROVE PathsInv'
    <3>1. CASE OrgNext(c)
      BY <3>1, ServedPaths DEF ConsoleInv
    <3>2. CASE ~OrgNext(c)
      <4>1. UNCHANGED <<org, deep>>
        BY <2>1, <3>2, TreeLeft
      <4>2. QED
        BY <4>1, PathsStay
    <3>3. QED
      BY <3>1, <3>2
  <2>2. HashNext => UNCHANGED <<org, deep>>
    BY DEF HashNext, HashJob, HashJobFails, SelectOrgs, ReplaceOrgs, rowVars
  <2>3. Outside => UNCHANGED org
    BY DEF Outside, rowVars
  <2>4. (\E c \in Calls : Serves(c)) \/ UNCHANGED <<org, deep>>
    BY <2>2, <2>3, CopyLeft
  <2>5. QED
    BY <2>1, <2>4, PathsStay
<1>2. QED
  BY <1>1, PathsStart, ConsoleInvariant, PTL DEF ConsoleSpec

(* The hash of organisations names the parents the table names, and the    *)
(* column path of every organisation below the root is its parent's path   *)
(* and itself, however many services copy the table, but for the           *)
(* organisations written while another write of table or hash, or a copy,  *)
(* was under way and those two or more levels below one that moved.        *)
THEOREM OrgsFollowCorrect == ConsoleSpec => []OrgsFollow
<1>1. PathsInv => PathsFollow
  BY CleanRight DEF PathsInv, PathsFollow, Right
<1>2. HashInv /\ PathsInv => OrgsFollow
  BY <1>1 DEF HashInv, OrgsFollow
<1>3. QED
  BY <1>2, ConsoleHash, ConsolePaths, PTL
=============================================================================
