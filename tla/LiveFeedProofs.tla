--------------------------- MODULE LiveFeedProofs --------------------------
(***************************************************************************)
(* Proofs about LiveFeed, for any devices, pages, routes, capacities,      *)
(* limits and faults.                                                      *)
(***************************************************************************)
EXTENDS LiveFeed, SequenceTheorems, FiniteSetTheorems, TLAPS

USE DEF parserVars, publisherVars, subscriberVars, forwarderVars, socketVars,
        pageVars

LEMMA Bounds ==
  /\ MaxUpdates \in Nat /\ MaxFaults \in Nat /\ MaxRooms \in Nat
  /\ Buffer \in Nat /\ Buffer > 0 /\ MaxBatch \in Nat /\ MaxBatch > 0
  /\ Updates \in [Devices -> 0 .. MaxUpdates]
  BY ParameterAssumption

LEMMA Positions ==
  /\ \A n \in 0 .. MaxUpdates : PositionOf(n) \in Position
  /\ \A n \in 1 .. MaxUpdates : Route[n] \in Places /\ PositionOf(n) = Route[n]
  BY ParameterAssumption DEF PositionOf, Position

LEMMA TypeInitial == Init => TypeOK
  <1> SUFFICES ASSUME Init PROVE TypeOK
    OBVIOUS
  <1> USE Bounds
  <1>1. ParserTypes
    BY DEF Init, ParserTypes
  <1>2. FeedTypes
    BY DEF Init, FeedTypes
  <1>3. FlagTypes
    BY DEF Init, FlagTypes
  <1>4. CountTypes
    BY DEF Init, CountTypes
  <1>5. SocketTypes
    BY DEF Init, SocketTypes
  <1>6. PageTypes
    BY DEF Init, PageTypes, Position
  <1> QED
    BY <1>1, <1>2, <1>3, <1>4, <1>5, <1>6 DEF Init, TypeOK

(* What an action leaves alone keeps its type.                             *)
LEMMA TypesUnchanged ==
  ASSUME TypeOK
  PROVE  /\ UNCHANGED parserVars => ParserTypes'
         /\ UNCHANGED <<pubCh, inHand, inbox, q, wire>> => FeedTypes'
         /\ UNCHANGED <<again, subscribed, draining, running>> => FlagTypes'
         /\ UNCHANGED <<micro, count>> => CountTypes'
         /\ UNCHANGED socketVars => SocketTypes'
         /\ UNCHANGED pageVars => PageTypes'
  BY DEF TypeOK, ParserTypes, FeedTypes, FlagTypes, CountTypes, SocketTypes,
         PageTypes

LEMMA FaultType ==
  ASSUME TypeOK
  PROVE  /\ \A k : Fault(k) => faults' \in 0 .. MaxFaults
         /\ UNCHANGED faults => faults' \in 0 .. MaxFaults
  BY Bounds DEF TypeOK, Fault

LEMMA JoinType ==
  ASSUME NEW ids \in SUBSET Devices
  PROVE  Join(ids) \in Seq(Request)
  <1>1. [op |-> "join", ids |-> ids] \in Request
    BY DEF Request
  <1> QED
    BY <1>1 DEF Join

LEMMA ReplyType ==
  ASSUME TypeOK, NEW s \in Sockets, reply[s] # <<>>
  PROVE  /\ reply[s][1].devices \in SUBSET Devices
         /\ reply[s][1].ts \in [Devices -> 0 .. MaxUpdates]
  <1>1. reply[s] \in Seq(Profile)
    BY DEF TypeOK, PageTypes
  <1>2. reply[s][1] \in Profile
    BY <1>1
  <1> QED
    BY <1>2 DEF Profile

LEMMA HeadType ==
  ASSUME NEW a \in Seq(Update), a # <<>>
  PROVE  Head(a).dev \in Devices /\ Head(a).n \in 1 .. MaxUpdates
  <1>1. Head(a) \in Update
    OBVIOUS
  <1> QED
    BY <1>1 DEF Update

LEMMA TypeStep == TypeOK /\ [Next]_vars => TypeOK'
  <1> SUFFICES ASSUME TypeOK, [Next]_vars PROVE TypeOK'
    OBVIOUS
  <1> USE Bounds, TypesUnchanged, FaultType
  <1>1. ASSUME NEW d \in Devices, Newer(d) PROVE TypeOK'
    <2>1. ParserTypes'
      <3>1. newest' \in [Devices -> 0 .. MaxUpdates]
        BY <1>1 DEF Newer, TypeOK, ParserTypes
      <3>2. sending' \in [Devices -> BOOLEAN]
        BY <1>1 DEF Newer, TypeOK, ParserTypes
      <3>3. \A e \in Devices : sending'[e] => newest'[e] > 0
        BY <1>1 DEF Newer, TypeOK, ParserTypes
      <3> QED
        BY <1>1, <3>1, <3>2, <3>3 DEF Newer, TypeOK, ParserTypes
    <2> QED
      BY <1>1, <2>1 DEF Newer, TypeOK
  <1>2. ASSUME NEW d \in Devices, Send(d) PROVE TypeOK'
    <2>1. ParserTypes'
      BY <1>2 DEF Send, TypeOK, ParserTypes
    <2>2. FeedTypes'
      <3>1. [dev |-> d, n |-> newest[d]] \in Update
        BY <1>2 DEF Send, TypeOK, ParserTypes, Update
      <3> QED
        BY <1>2, <3>1 DEF Send, TypeOK, FeedTypes
    <2> QED
      BY <1>2, <2>1, <2>2 DEF Send, TypeOK
  <1>3. ASSUME Take PROVE TypeOK'
    <2>1. FeedTypes'
      BY <1>3 DEF Take, TypeOK, FeedTypes
    <2> QED
      BY <1>3, <2>1 DEF Take, TypeOK
  <1>4. ASSUME Publish PROVE TypeOK'
    <2>1. FeedTypes'
      BY <1>4 DEF Publish, TypeOK, FeedTypes, Deliver
    <2>2. FlagTypes'
      BY <1>4 DEF Publish, TypeOK, FlagTypes
    <2> QED
      BY <1>4, <2>1, <2>2 DEF Publish, TypeOK
  <1>5. ASSUME PublishFails PROVE TypeOK'
    <2>1. FeedTypes'
      <3>1. inbox' \in Seq(Update)
        <4>1. inbox' = inbox \/ inbox' = inbox \o inHand
          BY <1>5 DEF PublishFails, Deliver
        <4>2. CASE inbox' = inbox
          BY <4>2 DEF TypeOK, FeedTypes
        <4>3. CASE inbox' = inbox \o inHand
          BY <4>3 DEF TypeOK, FeedTypes
        <4> QED
          BY <4>1, <4>2, <4>3
      <3>2. inHand' \in Seq(Update) /\ Len(inHand') <= 1
        <4>1. inHand' = <<>> \/ inHand' = inHand
          BY <1>5 DEF PublishFails
        <4>2. CASE inHand' = <<>>
          BY <4>2
        <4>3. CASE inHand' = inHand
          BY <4>3 DEF TypeOK, FeedTypes
        <4> QED
          BY <4>1, <4>2, <4>3
      <3> QED
        BY <1>5, <3>1, <3>2 DEF PublishFails, TypeOK, FeedTypes
    <2>2. FlagTypes'
      BY <1>5 DEF PublishFails, TypeOK, FlagTypes
    <2> QED
      BY <1>5, <2>1, <2>2 DEF PublishFails, TypeOK
  <1>6. ASSUME SubscriberLost PROVE TypeOK'
    <2>1. FeedTypes'
      BY <1>6 DEF SubscriberLost, TypeOK, FeedTypes
    <2>2. FlagTypes'
      BY <1>6 DEF SubscriberLost, TypeOK, FlagTypes
    <2> QED
      BY <1>6, <2>1, <2>2 DEF SubscriberLost, TypeOK
  <1>7. ASSUME Resubscribe PROVE TypeOK'
    <2>1. FlagTypes'
      BY <1>7 DEF Resubscribe, TypeOK, FlagTypes
    <2> QED
      BY <1>7, <2>1 DEF Resubscribe, TypeOK
  <1>8. ASSUME OnMessages PROVE TypeOK'
    <2>1. FeedTypes'
      BY <1>8 DEF OnMessages, TypeOK, FeedTypes
    <2>2. FlagTypes'
      BY <1>8 DEF OnMessages, TypeOK, FlagTypes
    <2>3. CountTypes'
      BY <1>8 DEF OnMessages, TypeOK, CountTypes
    <2> QED
      BY <1>8, <2>1, <2>2, <2>3 DEF OnMessages, TypeOK
  <1>9. ASSUME DrainStarts PROVE TypeOK'
    <2>1. FlagTypes'
      BY <1>9 DEF DrainStarts, TypeOK, FlagTypes
    <2>2. CountTypes'
      BY <1>9 DEF DrainStarts, TypeOK, CountTypes
    <2> QED
      BY <1>9, <2>1, <2>2 DEF DrainStarts, TypeOK
  <1>10. ASSUME Forward PROVE TypeOK'
    <2>1. FeedTypes'
      BY <1>10 DEF Forward, TypeOK, FeedTypes
    <2>2. CountTypes'
      BY <1>10 DEF Forward, TypeOK, CountTypes
    <2> QED
      BY <1>10, <2>1, <2>2 DEF Forward, TypeOK
  <1>11. ASSUME DrainEnds PROVE TypeOK'
    <2>1. FlagTypes'
      BY <1>11 DEF DrainEnds, TypeOK, FlagTypes
    <2>2. CountTypes'
      BY <1>11 DEF DrainEnds, TypeOK, CountTypes
    <2> QED
      BY <1>11, <2>1, <2>2 DEF DrainEnds, TypeOK
  <1>12. ASSUME NEW s \in Sockets, Authenticate(s) PROVE TypeOK'
    <2>1. SocketTypes'
      BY <1>12 DEF Authenticate, TypeOK, SocketTypes
    <2> QED
      BY <1>12, <2>1 DEF Authenticate, TypeOK
  <1>13. ASSUME NEW s \in Sockets, Refuse(s) PROVE TypeOK'
    <2>1. SocketTypes'
      BY <1>13 DEF Refuse, TypeOK, SocketTypes
    <2> QED
      BY <1>13, <2>1 DEF Refuse, TypeOK
  <1>14. ASSUME NEW s \in Sockets, Connect(s) PROVE TypeOK'
    <2>1. SocketTypes'
      <3>1. Join(listed[s]) \in Seq(Request)
        BY JoinType DEF TypeOK, PageTypes
      <3> QED
        BY <1>14, <3>1 DEF Connect, TypeOK, SocketTypes
    <2> QED
      BY <1>14, <2>1 DEF Connect, TypeOK
  <1>15. ASSUME NEW s \in Sockets, Disconnect(s) PROVE TypeOK'
    <2>1. FeedTypes'
      BY <1>15 DEF Disconnect, TypeOK, FeedTypes
    <2>2. SocketTypes'
      BY <1>15 DEF Disconnect, TypeOK, SocketTypes
    <2> QED
      BY <1>15, <2>1, <2>2 DEF Disconnect, TypeOK
  <1>16. ASSUME NEW s \in Sockets, JoinDevices(s) PROVE TypeOK'
    <2>1. SocketTypes'
      BY <1>16 DEF JoinDevices, TypeOK, SocketTypes
    <2> QED
      BY <1>16, <2>1 DEF JoinDevices, TypeOK
  <1>17. ASSUME NEW s \in Sockets, LeaveDevices(s) PROVE TypeOK'
    <2>1. SocketTypes'
      BY <1>17 DEF LeaveDevices, TypeOK, SocketTypes
    <2> QED
      BY <1>17, <2>1 DEF LeaveDevices, TypeOK
  <1>18. ASSUME NEW s \in Sockets, Fetch(s) PROVE TypeOK'
    <2>1. ParserTypes'
      BY <1>18 DEF Fetch, TypeOK, ParserTypes
    <2>2. PageTypes'
      <3>1. saved' \in [Devices -> 0 .. MaxUpdates]
        BY <1>18 DEF Fetch
      <3>2. [devices |-> access, ts |-> saved'] \in Profile
        BY <3>1 DEF TypeOK, Profile
      <3>3. reply[s] = <<>> /\ reply' = [reply EXCEPT ![s] = << [devices |-> access, ts |-> saved'] >>]
        BY <1>18 DEF Fetch
      <3>4. reply' \in [Sockets -> Seq(Profile)] /\ \A t \in Sockets : Len(reply'[t]) <= 1
        BY <3>2, <3>3 DEF TypeOK, PageTypes
      <3> QED
        BY <1>18, <3>4 DEF Fetch, TypeOK, PageTypes
    <2> QED
      BY <1>18, <2>1, <2>2 DEF Fetch, TypeOK
  <1>19. ASSUME NEW s \in Sockets, Load(s) PROVE TypeOK'
    <2>1. SocketTypes'
      <3>1. Join(reply[s][1].devices) \in Seq(Request)
        BY <1>19, ReplyType, JoinType DEF Load
      <3> QED
        BY <1>19, <3>1 DEF Load, TypeOK, SocketTypes
    <2>2. PageTypes'
      <3>1. /\ reply[s][1].devices \in SUBSET Devices
            /\ reply[s][1].ts \in [Devices -> 0 .. MaxUpdates]
        BY <1>19, ReplyType DEF Load
      <3>2. [d \in Devices |-> PositionOf(reply[s][1].ts[d])] \in [Devices -> Position]
        BY <3>1, Positions
      <3>3. /\ listed' \in [Sockets -> SUBSET Devices]
            /\ ts' \in [Sockets -> [Devices -> 0 .. MaxUpdates]]
        BY <1>19, <3>1 DEF Load, TypeOK, PageTypes
      <3>4. at' \in [Sockets -> [Devices -> Position]]
        BY <1>19, <3>2 DEF Load, TypeOK, PageTypes
      <3>5. path' \in [Sockets -> [Devices -> Places \cup {Still}]]
        BY <1>19 DEF Load, TypeOK, PageTypes
      <3>6. reply' \in [Sockets -> Seq(Profile)] /\ \A t \in Sockets : Len(reply'[t]) <= 1
        BY <1>19 DEF Load, TypeOK, PageTypes
      <3>7. loaded' \in [Sockets -> BOOLEAN] /\ seen' = seen
        BY <1>19 DEF Load, TypeOK, PageTypes
      <3> QED
        BY <3>3, <3>4, <3>5, <3>6, <3>7 DEF TypeOK, PageTypes
    <2> QED
      BY <1>19, <2>1, <2>2 DEF Load, TypeOK
  <1>20. ASSUME NEW s \in Sockets, Receive(s) PROVE TypeOK'
    <2>1. FeedTypes'
      BY <1>20 DEF Receive, TypeOK, FeedTypes
    <2>2. PageTypes'
      <3> DEFINE d == Head(wire[s]).dev
                 n == Head(wire[s]).n
      <3>1. d \in Devices /\ n \in 1 .. MaxUpdates /\ Route[n] \in Places
        BY <1>20, HeadType, Positions DEF Receive, TypeOK, FeedTypes
      <3>2. seen' = [seen EXCEPT ![s] = [@ EXCEPT ![d] = n]]
        BY <1>20 DEF Receive
      <3>3. ts' = ts \/ ts' = [ts EXCEPT ![s] = [@ EXCEPT ![d] = n]]
        BY <1>20 DEF Receive
      <3>4. path' = path \/ path' = [path EXCEPT ![s] = [@ EXCEPT ![d] = Route[n]]]
        BY <1>20 DEF Receive
      <3> HIDE DEF d, n
      <3>5. UNCHANGED <<loaded, reply, listed, at>>
        BY <1>20 DEF Receive
      <3>6. seen' \in [Sockets -> [Devices -> 0 .. MaxUpdates]]
        BY <3>1, <3>2 DEF TypeOK, PageTypes
      <3>7. ts' \in [Sockets -> [Devices -> 0 .. MaxUpdates]]
        <4>1. CASE ts' = ts
          BY <4>1 DEF TypeOK, PageTypes
        <4>2. CASE ts' = [ts EXCEPT ![s] = [@ EXCEPT ![d] = n]]
          BY <3>1, <4>2 DEF TypeOK, PageTypes
        <4> QED
          BY <3>3, <4>1, <4>2
      <3>8. path' \in [Sockets -> [Devices -> Places \cup {Still}]]
        <4>1. CASE path' = path
          BY <4>1 DEF TypeOK, PageTypes
        <4>2. CASE path' = [path EXCEPT ![s] = [@ EXCEPT ![d] = Route[n]]]
          BY <3>1, <4>2 DEF TypeOK, PageTypes
        <4> QED
          BY <3>4, <4>1, <4>2
      <3> QED
        BY <3>5, <3>6, <3>7, <3>8 DEF TypeOK, PageTypes
    <2> QED
      BY <1>20, <2>1, <2>2 DEF Receive, TypeOK
  <1>21. ASSUME NEW s \in Sockets, EmitLeave(s) PROVE TypeOK'
    <2>1. SocketTypes'
      <3>1. PICK ids \in SUBSET Devices :
              requests' = [requests EXCEPT ![s] = Append(@, [op |-> "leave", ids |-> ids])]
        BY <1>21 DEF EmitLeave
      <3>2. [op |-> "leave", ids |-> ids] \in Request
        BY DEF Request
      <3> QED
        BY <1>21, <3>1, <3>2 DEF EmitLeave, TypeOK, SocketTypes
    <2> QED
      BY <1>21, <2>1 DEF EmitLeave, TypeOK
  <1>22. ASSUME NEW s \in Sockets, NEW d \in Devices, Animate(s, d) PROVE TypeOK'
    <2>1. PageTypes'
      <3>1. path[s][d] \in Places
        BY <1>22 DEF Animate, TypeOK, PageTypes
      <3>2. path' \in [Sockets -> [Devices -> Places \cup {Still}]]
        <4>1. CASE path' = path
          BY <4>1 DEF TypeOK, PageTypes
        <4>2. CASE path' = [path EXCEPT ![s] = [@ EXCEPT ![d] = Still]]
          BY <4>2 DEF TypeOK, PageTypes
        <4> QED
          BY <1>22, <4>1, <4>2 DEF Animate
      <3>3. at[s][d] \in Position
        BY DEF TypeOK, PageTypes
      <3>4. at' \in [Sockets -> [Devices -> Position]]
        <4>1. ASSUME NEW p \in Position, at' = [at EXCEPT ![s] = [@ EXCEPT ![d] = p]]
              PROVE  at' \in [Sockets -> [Devices -> Position]]
          BY <4>1 DEF TypeOK, PageTypes
        <4>2. CASE at' = [at EXCEPT ![s] = [@ EXCEPT ![d] = Between]]
          BY <4>1, <4>2 DEF Position
        <4>3. CASE at' = [at EXCEPT ![s] = [@ EXCEPT ![d] = PathEnd(s, d)]]
          <5>1. PathEnd(s, d) \in Position
            BY <3>1 DEF Position, PathEnd
          <5> QED
            BY <4>1, <4>3, <5>1
        <4> QED
          BY <1>22, <4>2, <4>3 DEF Animate
      <3> QED
        BY <1>22, <3>2, <3>4 DEF Animate, TypeOK, PageTypes
    <2> QED
      BY <1>22, <2>1 DEF Animate, TypeOK
  <1>23. ASSUME ChangeRights PROVE TypeOK'
    <2> QED
      BY <1>23 DEF ChangeRights, TypeOK
  <1>24. CASE UNCHANGED vars
    BY <1>24 DEF vars, TypeOK
  <1> QED
    BY <1>1, <1>2, <1>3, <1>4, <1>5, <1>6, <1>7, <1>8, <1>9, <1>10, <1>11, <1>12, <1>13, <1>14, <1>15, <1>16, <1>17, <1>18, <1>19, <1>20, <1>21, <1>22, <1>23, <1>24 DEF Next

(* Every variable has its type (TypeOK).                                   *)
THEOREM TypeCorrect == Spec => []TypeOK
  BY TypeInitial, TypeStep, PTL DEF Spec

-----------------------------------------------------------------------------
(* SameTick is inductive with the flag: at an event nothing is queued and  *)
(* the flag is down, so the first message of a burst schedules a drain.    *)
TickInv == Idle => q = <<>> /\ ~draining

LEMMA TickInitial == Init => TickInv
  BY DEF Init, TickInv

LEMMA TickStep == TypeOK /\ TickInv /\ [Next]_vars => TickInv'
  <1> SUFFICES ASSUME TypeOK, TickInv, [Next]_vars PROVE TickInv'
    OBVIOUS
  <1> USE DEF TickInv, Idle
  <1>1. CASE UNCHANGED forwarderVars
    BY <1>1
  <1>2. CASE OnMessages
    <2>1. micro \in Nat /\ ~draining
      BY <1>2 DEF OnMessages, TypeOK, CountTypes
    <2>2. micro' = micro + 1
      BY <1>2, <2>1 DEF OnMessages
    <2> QED
      BY <2>1, <2>2
  <1>3. CASE DrainStarts
    BY <1>3 DEF DrainStarts
  <1>4. CASE Forward
    BY <1>4 DEF Forward
  <1>5. CASE DrainEnds
    <2>1. micro \in Nat
      BY DEF TypeOK, CountTypes
    <2>2. draining' = FALSE /\ q' = q
      BY <1>5 DEF DrainEnds
    <2>3. CASE q = <<>>
      BY <2>2, <2>3
    <2>4. CASE q # <<>>
      <3>1. micro' = micro + 1
        BY <1>5, <2>4 DEF DrainEnds
      <3> QED
        BY <2>1, <3>1
    <2> QED
      BY <2>3, <2>4
  <1>6. ASSUME Next, ~OnMessages, ~DrainStarts, ~Forward, ~DrainEnds
        PROVE  UNCHANGED forwarderVars
    <2>1. ASSUME NEW d \in Devices, Newer(d) \/ Send(d) PROVE UNCHANGED forwarderVars
      BY <2>1 DEF Newer, Send
    <2>2. CASE Take \/ Publish \/ PublishFails
      BY <2>2 DEF Take, Publish, PublishFails
    <2>3. CASE SubscriberLost \/ Resubscribe \/ ChangeRights
      BY <2>3 DEF SubscriberLost, Resubscribe, ChangeRights
    <2>4. ASSUME NEW s \in Sockets,
                 Authenticate(s) \/ Refuse(s) \/ Connect(s) \/ Disconnect(s)
          PROVE  UNCHANGED forwarderVars
      BY <2>4 DEF Authenticate, Refuse, Connect, Disconnect
    <2>5. ASSUME NEW s \in Sockets, JoinDevices(s) \/ LeaveDevices(s) \/ EmitLeave(s)
          PROVE  UNCHANGED forwarderVars
      BY <2>5 DEF JoinDevices, LeaveDevices, EmitLeave
    <2>6. ASSUME NEW s \in Sockets, Fetch(s) \/ Load(s) \/ Receive(s)
          PROVE  UNCHANGED forwarderVars
      BY <2>6 DEF Fetch, Load, Receive
    <2>7. ASSUME NEW s \in Sockets, NEW d \in Devices, Animate(s, d)
          PROVE  UNCHANGED forwarderVars
      BY <2>7 DEF Animate
    <2> QED
      BY <1>6, <2>1, <2>2, <2>3, <2>4, <2>5, <2>6, <2>7 DEF Next
  <1>7. CASE UNCHANGED vars
    BY <1>1, <1>7 DEF vars
  <1> QED
    BY <1>1, <1>2, <1>3, <1>4, <1>5, <1>6, <1>7

(* No burst is left in the queue when the gateway turns to another event.  *)
THEOREM SameTickCorrect == Spec => []SameTick
  <1>1. TickInv => SameTick
    BY DEF TickInv, SameTick
  <1> QED
    BY <1>1, TypeCorrect, TickInitial, TickStep, PTL DEF Spec

-----------------------------------------------------------------------------
(* A socket that is not up has no rooms, no requests and nothing to        *)
(* receive, so a new admission starts from nothing.                        *)
LinkInv ==
    \A s \in Sockets : link[s] # "up" =>
        rooms[s] = {} /\ requests[s] = <<>> /\ wire[s] = <<>>

AllowedInv == LinkInv /\ OnlyAllowed

LEMMA AllowedInitial == Init => AllowedInv
  BY Bounds, FS_EmptySet DEF Init, AllowedInv, LinkInv, OnlyAllowed

LEMMA DevicesFinite ==
  ASSUME NEW S \in SUBSET Devices
  PROVE  IsFiniteSet(S) /\ Cardinality(S) \in Nat
  BY ParameterAssumption, FS_Subset, FS_CardinalityType

LEMMA LinkStep == TypeOK /\ AllowedInv /\ [Next]_vars => LinkInv'
  <1> SUFFICES ASSUME TypeOK, LinkInv, [Next]_vars PROVE LinkInv'
    BY DEF AllowedInv
  <1> USE DEF LinkInv
  <1>1. CASE UNCHANGED <<link, rooms, requests, wire>>
    BY <1>1
  <1>2. CASE Forward
    BY <1>2 DEF Forward
  <1>3. ASSUME NEW s \in Sockets, Authenticate(s) \/ Refuse(s) PROVE LinkInv'
    BY <1>3 DEF Authenticate, Refuse, TypeOK, SocketTypes
  <1>4. ASSUME NEW s \in Sockets, Connect(s) PROVE LinkInv'
    BY <1>4 DEF Connect, TypeOK, SocketTypes
  <1>5. ASSUME NEW s \in Sockets, JoinDevices(s) \/ LeaveDevices(s) PROVE LinkInv'
    BY <1>5 DEF JoinDevices, LeaveDevices, TypeOK, SocketTypes
  <1>6. ASSUME NEW s \in Sockets, Disconnect(s) PROVE LinkInv'
    BY <1>6 DEF Disconnect, TypeOK, SocketTypes, FeedTypes
  <1>7. ASSUME NEW s \in Sockets, Load(s) \/ EmitLeave(s) PROVE LinkInv'
    BY <1>7 DEF Load, EmitLeave, TypeOK, SocketTypes
  <1>8. ASSUME NEW s \in Sockets, Receive(s) PROVE LinkInv'
    BY <1>8 DEF Receive, TypeOK, FeedTypes
  <1>9. ASSUME Next, ~Forward,
               \A s \in Sockets :
                 ~(\/ Authenticate(s) \/ Refuse(s) \/ Connect(s)
                   \/ JoinDevices(s) \/ LeaveDevices(s) \/ Disconnect(s)
                   \/ Load(s) \/ EmitLeave(s) \/ Receive(s))
        PROVE  UNCHANGED <<link, rooms, requests, wire>>
    BY <1>9 DEF Next, Newer, Send, Take, Publish, PublishFails, SubscriberLost,
       Resubscribe, OnMessages, DrainStarts, DrainEnds, Fetch, Animate,
       ChangeRights
  <1>10. CASE UNCHANGED vars
    BY <1>1, <1>10 DEF vars
  <1> QED
    BY <1>1, <1>2, <1>3, <1>4, <1>5, <1>6, <1>7, <1>8, <1>9, <1>10

LEMMA AllowedStep == TypeOK /\ AllowedInv /\ [Next]_vars => OnlyAllowed'
  <1> SUFFICES ASSUME TypeOK, LinkInv, OnlyAllowed, [Next]_vars PROVE OnlyAllowed'
    BY DEF AllowedInv
  <1>1. CASE UNCHANGED <<rooms, allowed, wire>>
    BY <1>1 DEF OnlyAllowed
  <1>2. CASE Forward
    <2> SUFFICES ASSUME NEW s \in Sockets
                 PROVE  \A i \in DOMAIN wire'[s] : wire'[s][i].dev \in allowed[s]
      BY <1>2 DEF Forward, OnlyAllowed
    <2>1. CASE wire'[s] = wire[s]
      BY <2>1 DEF OnlyAllowed
    <2>2. CASE Head(q).dev \in rooms[s] /\ wire'[s] = Append(wire[s], Head(q))
      BY <2>2 DEF OnlyAllowed, TypeOK, FeedTypes
    <2> QED
      BY <1>2, <2>1, <2>2 DEF Forward
  <1>3. ASSUME NEW s \in Sockets, Authenticate(s) PROVE OnlyAllowed'
    BY <1>3 DEF Authenticate, OnlyAllowed, LinkInv, TypeOK, SocketTypes
  <1>4. ASSUME NEW s \in Sockets, JoinDevices(s) PROVE OnlyAllowed'
    <2> DEFINE ids == Head(requests[s]).ids
    <2>1. ids \in SUBSET Devices
      <3>1. Head(requests[s]) \in Request
        BY <1>4 DEF JoinDevices, TypeOK, SocketTypes
      <3> QED
        BY <3>1 DEF Request
    <2>2. CASE rooms' = rooms
      BY <1>4, <2>2 DEF JoinDevices, OnlyAllowed
    <2>3. CASE /\ Cardinality(rooms[s]) + Cardinality(ids) <= MaxRooms
               /\ rooms' = [rooms EXCEPT ![s] = @ \cup (ids \cap allowed[s])]
      <3>1. rooms[s] \in SUBSET Devices /\ ids \cap allowed[s] \in SUBSET Devices
        BY <2>1 DEF TypeOK, SocketTypes
      <3>2. /\ Cardinality(ids \cap allowed[s]) <= Cardinality(ids)
            /\ Cardinality(ids) \in Nat
        BY <2>1, DevicesFinite, FS_Subset
      <3>3. Cardinality(rooms[s] \cup (ids \cap allowed[s])) <=
              Cardinality(rooms[s]) + Cardinality(ids \cap allowed[s])
        <4>1. IsFiniteSet(rooms[s]) /\ IsFiniteSet(ids \cap allowed[s])
          BY <3>1, DevicesFinite
        <4>2. /\ Cardinality(rooms[s] \cup (ids \cap allowed[s])) =
                   Cardinality(rooms[s]) + Cardinality(ids \cap allowed[s])
                     - Cardinality(rooms[s] \cap (ids \cap allowed[s]))
              /\ Cardinality(rooms[s] \cap (ids \cap allowed[s])) \in Nat
          BY <4>1, FS_Union, FS_Intersection, FS_CardinalityType
        <4> QED
          BY <3>1, <4>2, DevicesFinite
      <3>4. Cardinality(rooms[s] \cup (ids \cap allowed[s])) <= MaxRooms
        BY <2>3, <3>1, <3>2, <3>3, DevicesFinite, Bounds
      <3> HIDE DEF ids
      <3>5. \A t \in Sockets : rooms'[t] \subseteq allowed[t] /\ Cardinality(rooms'[t]) <= MaxRooms
        BY <2>3, <3>4 DEF OnlyAllowed, TypeOK, SocketTypes
      <3> QED
        BY <1>4, <3>5 DEF JoinDevices, OnlyAllowed
    <2>4. Cardinality(rooms[s]) \in Nat /\ Cardinality(ids) \in Nat
      BY <2>1, DevicesFinite DEF TypeOK, SocketTypes
    <2> QED
      BY <1>4, <2>2, <2>3, <2>4, Bounds DEF JoinDevices
  <1>5. ASSUME NEW s \in Sockets, LeaveDevices(s) \/ Disconnect(s) PROVE OnlyAllowed'
    <2>1. PICK R \in SUBSET rooms[s] : rooms' = [rooms EXCEPT ![s] = R]
      BY <1>5 DEF LeaveDevices, Disconnect
    <2>2. Cardinality(R) <= MaxRooms
      <3>1. IsFiniteSet(rooms[s]) /\ Cardinality(rooms[s]) <= MaxRooms
        BY DevicesFinite DEF TypeOK, SocketTypes, OnlyAllowed
      <3>2. Cardinality(R) <= Cardinality(rooms[s]) /\ Cardinality(R) \in Nat /\ Cardinality(rooms[s]) \in Nat
        BY <3>1, FS_Subset, FS_CardinalityType
      <3> QED
        BY <3>1, <3>2, Bounds
    <2>3. allowed' = allowed /\ \A t \in Sockets : wire'[t] = wire[t] \/ wire'[t] = <<>>
      BY <1>5 DEF LeaveDevices, Disconnect, TypeOK, FeedTypes
    <2>4. \A t \in Sockets : rooms'[t] \subseteq rooms[t] /\ Cardinality(rooms'[t]) <= MaxRooms
      BY <2>1, <2>2 DEF OnlyAllowed, TypeOK, SocketTypes
    <2>5. \A t \in Sockets : \A i \in DOMAIN wire'[t] : wire'[t][i].dev \in allowed[t]
      BY <2>3 DEF OnlyAllowed
    <2> QED
      BY <2>3, <2>4, <2>5 DEF OnlyAllowed
  <1>6. ASSUME NEW s \in Sockets, Receive(s) PROVE OnlyAllowed'
    <2>1. \A i \in DOMAIN Tail(wire[s]) : Tail(wire[s])[i].dev \in allowed[s]
      BY <1>6 DEF Receive, OnlyAllowed, TypeOK, FeedTypes
    <2>2. wire' = [wire EXCEPT ![s] = Tail(wire[s])] /\ UNCHANGED <<rooms, allowed>>
      BY <1>6 DEF Receive, TypeOK, FeedTypes
    <2> QED
      BY <2>1, <2>2 DEF OnlyAllowed, TypeOK, FeedTypes
  <1>7. ASSUME Next, ~Forward,
               \A s \in Sockets :
                 ~(\/ Authenticate(s) \/ JoinDevices(s) \/ LeaveDevices(s)
                   \/ Disconnect(s) \/ Receive(s))
        PROVE  UNCHANGED <<rooms, allowed, wire>>
    BY <1>7 DEF Next, Newer, Send, Take, Publish, PublishFails, SubscriberLost,
       Resubscribe, OnMessages, DrainStarts, DrainEnds, Refuse, Connect, Load,
       EmitLeave, Fetch, Animate, ChangeRights
  <1>8. CASE UNCHANGED vars
    BY <1>1, <1>8 DEF vars
  <1> QED
    BY <1>1, <1>2, <1>3, <1>4, <1>5, <1>6, <1>7, <1>8

(* A page receives only what its user might see when it was admitted, and  *)
(* no socket has more rooms than the limit.                                *)
THEOREM OnlyAllowedCorrect == Spec => []OnlyAllowed
  <1>1. TypeOK /\ AllowedInv /\ [Next]_vars => AllowedInv'
    BY LinkStep, AllowedStep DEF AllowedInv
  <1>2. AllowedInv => OnlyAllowed
    BY DEF AllowedInv
  <1> QED
    BY <1>1, <1>2, TypeCorrect, AllowedInitial, PTL DEF Spec

-----------------------------------------------------------------------------
(* An animation leads to where the newest update shown has the device.     *)
PathInv ==
    \A s \in Sockets : \A d \in Devices :
        \/ path[s][d] = Still /\ at[s][d] \in {PositionOf(ts[s][d]), NaN}
        \/ path[s][d] # Still /\ path[s][d] = PositionOf(ts[s][d])
        \/ PositionOf(ts[s][d]) = NoFix

LEMMA StillIsNoPlace == Still \notin Places /\ NoFix \in Places
  BY ParameterAssumption

LEMMA PathInitial == Init => PathInv
  BY DEF Init, PathInv, PositionOf

LEMMA PathStep == TypeOK /\ PathInv /\ [Next]_vars => PathInv'
  <1> SUFFICES ASSUME TypeOK, PathInv, [Next]_vars PROVE PathInv'
    OBVIOUS
  <1>1. CASE UNCHANGED <<ts, at, path>>
    BY <1>1 DEF PathInv, PositionOf
  <1>2. ASSUME NEW s \in Sockets, Load(s) PROVE PathInv'
    <2>1. /\ ts' = [ts EXCEPT ![s] = reply[s][1].ts]
          /\ at' = [at EXCEPT ![s] = [d \in Devices |-> PositionOf(reply[s][1].ts[d])]]
          /\ path' = [path EXCEPT ![s] = [d \in Devices |-> Still]]
      BY <1>2 DEF Load
    <2> SUFFICES ASSUME NEW t \in Sockets, NEW d \in Devices
                 PROVE  \/ path'[t][d] = Still /\ at'[t][d] \in {PositionOf(ts'[t][d]), NaN}
                        \/ path'[t][d] # Still /\ path'[t][d] = PositionOf(ts'[t][d])
                        \/ PositionOf(ts'[t][d]) = NoFix
      BY DEF PathInv, PositionOf
    <2>2. CASE t = s
      BY <2>1, <2>2 DEF TypeOK, PageTypes
    <2>3. CASE t # s
      BY <2>1, <2>3 DEF PathInv, TypeOK, PageTypes
    <2> QED
      BY <2>2, <2>3
  <1>3. ASSUME NEW s \in Sockets, Receive(s) PROVE PathInv'
    <2> DEFINE d == Head(wire[s]).dev
               n == Head(wire[s]).n
    <2>1. d \in Devices /\ n \in 1 .. MaxUpdates /\ PositionOf(n) = Route[n] /\ Route[n] \in Places
      BY <1>3, HeadType, Positions DEF Receive, TypeOK, FeedTypes
    <2>2. at' = at
      BY <1>3 DEF Receive
    <2>3. CASE ts' = ts /\ path' = path
      BY <1>1, <2>2, <2>3
    <2>4. CASE /\ ts' = [ts EXCEPT ![s] = [@ EXCEPT ![d] = n]]
               /\ path' = IF Route[n] = NoFix THEN path
                          ELSE [path EXCEPT ![s] = [@ EXCEPT ![d] = Route[n]]]
      <3> HIDE DEF d, n
      <3>1. CASE Route[n] = NoFix
        BY <2>1, <2>2, <2>4, <3>1 DEF PathInv, TypeOK, PageTypes, PositionOf
      <3>2. CASE Route[n] # NoFix
        <4>1. path' = [path EXCEPT ![s] = [@ EXCEPT ![d] = Route[n]]]
          BY <2>4, <3>2
        <4> SUFFICES ASSUME NEW t \in Sockets, NEW e \in Devices
                     PROVE  \/ path'[t][e] = Still /\ at'[t][e] \in {PositionOf(ts'[t][e]), NaN}
                            \/ path'[t][e] # Still /\ path'[t][e] = PositionOf(ts'[t][e])
                            \/ PositionOf(ts'[t][e]) = NoFix
          BY DEF PathInv, PositionOf
        <4>2. CASE t = s /\ e = d
          BY <2>1, <2>4, <4>1, <4>2, StillIsNoPlace DEF TypeOK, PageTypes
        <4>3. CASE ~(t = s /\ e = d)
          <5>1. ts'[t][e] = ts[t][e] /\ path'[t][e] = path[t][e] /\ at'[t][e] = at[t][e]
            BY <2>1, <2>2, <2>4, <4>1, <4>3 DEF TypeOK, PageTypes
          <5> QED
            BY <5>1 DEF PathInv
        <4> QED
          BY <4>2, <4>3
      <3> QED
        BY <3>1, <3>2
    <2> QED
      BY <1>3, <2>3, <2>4 DEF Receive
  <1>4. ASSUME NEW s \in Sockets, NEW d \in Devices, Animate(s, d) PROVE PathInv'
    <2>1. ts' = ts /\ path[s][d] # Still
      BY <1>4 DEF Animate
    <2>2. CASE path' = path /\ at' = [at EXCEPT ![s] = [@ EXCEPT ![d] = Between]]
      BY <2>1, <2>2 DEF PathInv, TypeOK, PageTypes, PositionOf
    <2>3. CASE /\ at' = [at EXCEPT ![s] = [@ EXCEPT ![d] = PathEnd(s, d)]]
               /\ path' = [path EXCEPT ![s] = [@ EXCEPT ![d] = Still]]
      <3>1. PathEnd(s, d) \in {path[s][d], NaN}
        BY DEF PathEnd
      <3> QED
        BY <2>1, <2>3, <3>1 DEF PathInv, TypeOK, PageTypes, PositionOf
    <2> QED
      BY <1>4, <2>2, <2>3 DEF Animate
  <1>5. ASSUME Next, \A s \in Sockets : ~(Load(s) \/ Receive(s)),
               \A s \in Sockets : \A d \in Devices : ~Animate(s, d)
        PROVE  UNCHANGED <<ts, at, path>>
    BY <1>5 DEF Next, Newer, Send, Take, Publish, PublishFails, SubscriberLost,
       Resubscribe, OnMessages, DrainStarts, Forward, DrainEnds, Authenticate,
       Refuse, Connect, Disconnect, JoinDevices, LeaveDevices, EmitLeave,
       Fetch, ChangeRights
  <1>6. CASE UNCHANGED vars
    BY <1>1, <1>6 DEF vars
  <1> QED
    BY <1>1, <1>2, <1>3, <1>4, <1>5, <1>6

(* A marker that has come to rest is where the newest update shown has it. *)
THEOREM MarkerAgreesCorrect == Spec => []MarkerAgrees
  <1>1. TypeOK /\ PathInv => MarkerAgrees
    BY DEF TypeOK, PageTypes, PathInv, MarkerAgrees
  <1> QED
    BY <1>1, TypeCorrect, PathInitial, PathStep, PTL DEF Spec

-----------------------------------------------------------------------------
(* The order of the feed, part by part.                                    *)
Before(a, b) ==
    \A i \in 1 .. Len(a), j \in 1 .. Len(b) :
        a[i].dev = b[j].dev => a[i].n <= b[j].n

LEMMA UpdateFields ==
  ASSUME NEW a \in Seq(Update), NEW i \in 1 .. Len(a)
  PROVE  a[i].dev \in Devices /\ a[i].n \in Nat
  <1>1. a[i] \in Update
    OBVIOUS
  <1> QED
    BY <1>1, Bounds DEF Update

LEMMA SortedConcat ==
  ASSUME NEW a \in Seq(Update), NEW b \in Seq(Update)
  PROVE  Sorted(a \o b) <=> Sorted(a) /\ Sorted(b) /\ Before(a, b)
  <1>1. /\ Len(a) \in Nat /\ Len(b) \in Nat /\ Len(a \o b) = Len(a) + Len(b)
        /\ \A i \in 1 .. Len(a) : (a \o b)[i] = a[i]
        /\ \A j \in 1 .. Len(b) : (a \o b)[Len(a) + j] = b[j] /\ Len(a) + j \in 1 .. Len(a \o b)
        /\ \A i \in 1 .. Len(a \o b) : i > Len(a) =>
             i - Len(a) \in 1 .. Len(b) /\ (a \o b)[i] = b[i - Len(a)]
    OBVIOUS
  <1>2. ASSUME Sorted(a \o b) PROVE Sorted(a) /\ Sorted(b) /\ Before(a, b)
    <2>1. Sorted(a)
      <3> SUFFICES ASSUME NEW i \in 1 .. Len(a), NEW j \in 1 .. Len(a), i < j, a[i].dev = a[j].dev
                   PROVE  a[i].n <= a[j].n
        BY DEF Sorted
      <3>1. /\ i \in 1 .. Len(a \o b) /\ j \in 1 .. Len(a \o b)
            /\ (a \o b)[i] = a[i] /\ (a \o b)[j] = a[j]
        BY <1>1
      <3> QED
        BY <3>1, <1>2 DEF Sorted
    <2>2. Sorted(b)
      <3> SUFFICES ASSUME NEW i \in 1 .. Len(b), NEW j \in 1 .. Len(b), i < j, b[i].dev = b[j].dev
                   PROVE  b[i].n <= b[j].n
        BY DEF Sorted
      <3>1. /\ Len(a) + i \in 1 .. Len(a \o b) /\ Len(a) + j \in 1 .. Len(a \o b)
            /\ Len(a) + i < Len(a) + j
            /\ (a \o b)[Len(a) + i] = b[i] /\ (a \o b)[Len(a) + j] = b[j]
        BY <1>1
      <3> QED
        BY <3>1, <1>2 DEF Sorted
    <2>3. Before(a, b)
      <3> SUFFICES ASSUME NEW i \in 1 .. Len(a), NEW j \in 1 .. Len(b), a[i].dev = b[j].dev
                   PROVE  a[i].n <= b[j].n
        BY DEF Before
      <3>1. /\ i \in 1 .. Len(a \o b) /\ Len(a) + j \in 1 .. Len(a \o b) /\ i < Len(a) + j
            /\ (a \o b)[i] = a[i] /\ (a \o b)[Len(a) + j] = b[j]
        BY <1>1
      <3> QED
        BY <3>1, <1>2 DEF Sorted
    <2> QED
      BY <2>1, <2>2, <2>3
  <1>3. ASSUME Sorted(a), Sorted(b), Before(a, b) PROVE Sorted(a \o b)
    <2> SUFFICES ASSUME NEW i \in 1 .. Len(a \o b), NEW j \in 1 .. Len(a \o b), i < j,
                        (a \o b)[i].dev = (a \o b)[j].dev
                 PROVE  (a \o b)[i].n <= (a \o b)[j].n
      BY DEF Sorted
    <2>1. CASE j <= Len(a)
      BY <1>1, <1>3, <2>1 DEF Sorted
    <2>2. CASE i <= Len(a) /\ j > Len(a)
      BY <1>1, <1>3, <2>2 DEF Before
    <2>3. CASE i > Len(a)
      <3>1. /\ i - Len(a) \in 1 .. Len(b) /\ j - Len(a) \in 1 .. Len(b) /\ i - Len(a) < j - Len(a)
            /\ (a \o b)[i] = b[i - Len(a)] /\ (a \o b)[j] = b[j - Len(a)]
        BY <1>1, <2>3
      <3> QED
        BY <3>1, <1>3 DEF Sorted
    <2> QED
      BY <1>1, <2>1, <2>2, <2>3
  <1> QED
    BY <1>2, <1>3

LEMMA BeforeConcat ==
  ASSUME NEW a \in Seq(Update), NEW b \in Seq(Update), NEW c \in Seq(Update)
  PROVE  /\ Before(a \o b, c) <=> Before(a, c) /\ Before(b, c)
         /\ Before(c, a \o b) <=> Before(c, a) /\ Before(c, b)
  <1>1. /\ Len(a) \in Nat /\ Len(b) \in Nat /\ Len(a \o b) = Len(a) + Len(b)
        /\ \A i \in 1 .. Len(a) : (a \o b)[i] = a[i] /\ i \in 1 .. Len(a \o b)
        /\ \A j \in 1 .. Len(b) : (a \o b)[Len(a) + j] = b[j] /\ Len(a) + j \in 1 .. Len(a \o b)
        /\ \A i \in 1 .. Len(a \o b) : i <= Len(a) => i \in 1 .. Len(a)
        /\ \A i \in 1 .. Len(a \o b) : i > Len(a) =>
             i - Len(a) \in 1 .. Len(b) /\ (a \o b)[i] = b[i - Len(a)]
        /\ \A i \in 1 .. Len(a \o b) : i <= Len(a) \/ i > Len(a)
    OBVIOUS
  <1>2. ASSUME Before(a \o b, c) PROVE Before(a, c) /\ Before(b, c)
    <2>1. Before(a, c)
      BY <1>1, <1>2 DEF Before
    <2>2. Before(b, c)
      <3> SUFFICES ASSUME NEW i \in 1 .. Len(b), NEW j \in 1 .. Len(c), b[i].dev = c[j].dev
                   PROVE  b[i].n <= c[j].n
        BY DEF Before
      <3>1. Len(a) + i \in 1 .. Len(a \o b) /\ (a \o b)[Len(a) + i] = b[i]
        BY <1>1
      <3> QED
        BY <3>1, <1>2 DEF Before
    <2> QED
      BY <2>1, <2>2
  <1>3. ASSUME Before(a, c), Before(b, c) PROVE Before(a \o b, c)
    <2> SUFFICES ASSUME NEW i \in 1 .. Len(a \o b), NEW j \in 1 .. Len(c),
                        (a \o b)[i].dev = c[j].dev
                 PROVE  (a \o b)[i].n <= c[j].n
      BY DEF Before
    <2>1. CASE i <= Len(a)
      BY <1>1, <1>3, <2>1 DEF Before
    <2>2. CASE i > Len(a)
      BY <1>1, <1>3, <2>2 DEF Before
    <2> QED
      BY <1>1, <2>1, <2>2
  <1>4. ASSUME Before(c, a \o b) PROVE Before(c, a) /\ Before(c, b)
    <2>1. Before(c, a)
      BY <1>1, <1>4 DEF Before
    <2>2. Before(c, b)
      <3> SUFFICES ASSUME NEW i \in 1 .. Len(c), NEW j \in 1 .. Len(b), c[i].dev = b[j].dev
                   PROVE  c[i].n <= b[j].n
        BY DEF Before
      <3>1. Len(a) + j \in 1 .. Len(a \o b) /\ (a \o b)[Len(a) + j] = b[j]
        BY <1>1
      <3> QED
        BY <3>1, <1>4 DEF Before
    <2> QED
      BY <2>1, <2>2
  <1>5. ASSUME Before(c, a), Before(c, b) PROVE Before(c, a \o b)
    <2> SUFFICES ASSUME NEW i \in 1 .. Len(a \o b), NEW j \in 1 .. Len(c),
                        (a \o b)[i].dev = c[j].dev
                 PROVE  c[j].n <= (a \o b)[i].n
      BY DEF Before
    <2>1. CASE i <= Len(a)
      BY <1>1, <1>5, <2>1 DEF Before
    <2>2. CASE i > Len(a)
      BY <1>1, <1>5, <2>2 DEF Before
    <2> QED
      BY <1>1, <2>1, <2>2
  <1> QED
    BY <1>2, <1>3, <1>4, <1>5

LEMMA BoundedConcat ==
  ASSUME NEW a \in Seq(Update), NEW b \in Seq(Update), NEW low, NEW high
  PROVE  Bounded(a \o b, low, high) <=> Bounded(a, low, high) /\ Bounded(b, low, high)
  <1>1. /\ Len(a) \in Nat /\ Len(b) \in Nat /\ Len(a \o b) = Len(a) + Len(b)
        /\ \A i \in 1 .. Len(a) : (a \o b)[i] = a[i] /\ i \in 1 .. Len(a \o b)
        /\ \A j \in 1 .. Len(b) : (a \o b)[Len(a) + j] = b[j] /\ Len(a) + j \in 1 .. Len(a \o b)
        /\ \A i \in 1 .. Len(a \o b) : i > Len(a) =>
             i - Len(a) \in 1 .. Len(b) /\ (a \o b)[i] = b[i - Len(a)]
        /\ \A i \in 1 .. Len(a \o b) : i \in 1 .. Len(a) \/ i > Len(a)
    OBVIOUS
  <1>2. ASSUME Bounded(a \o b, low, high) PROVE Bounded(a, low, high) /\ Bounded(b, low, high)
    BY <1>1, <1>2, ZenonT(60) DEF Bounded
  <1>3. ASSUME Bounded(a, low, high), Bounded(b, low, high) PROVE Bounded(a \o b, low, high)
    <2> SUFFICES ASSUME NEW i \in 1 .. Len(a \o b)
                 PROVE  (a \o b)[i].n \in low[(a \o b)[i].dev] .. high[(a \o b)[i].dev]
      BY DEF Bounded
    <2>1. CASE i \in 1 .. Len(a)
      BY <1>1, <1>3, <2>1 DEF Bounded
    <2>2. CASE i > Len(a)
      BY <1>1, <1>3, <2>2 DEF Bounded
    <2> QED
      BY <1>1, <2>1, <2>2
  <1> QED
    BY <1>2, <1>3

LEMMA ShortSorted ==
  ASSUME NEW a \in Seq(Update), Len(a) <= 1
  PROVE  Sorted(a) /\ Before(a, a)
  BY UpdateFields DEF Sorted, Before

(* A part of the path is lost, or sent twice if it is one update.          *)
InBounds(feed, low, high) == Sorted(feed) /\ Bounded(feed, low, high)

LEMMA PartLost ==
  ASSUME NEW a \in Seq(Update), NEW b \in Seq(Update), NEW c \in Seq(Update),
         NEW low, NEW high, InBounds(a \o b \o c, low, high)
  PROVE  InBounds(a \o c, low, high)
  <1>1. a \o b \in Seq(Update)
    OBVIOUS
  <1>2. Sorted(a) /\ Sorted(c) /\ Before(a, c)
    BY <1>1, SortedConcat, BeforeConcat DEF InBounds
  <1>3. Bounded(a, low, high) /\ Bounded(c, low, high)
    BY <1>1, BoundedConcat DEF InBounds
  <1> QED
    BY <1>2, <1>3, SortedConcat, BoundedConcat DEF InBounds

LEMMA PartTwice ==
  ASSUME NEW a \in Seq(Update), NEW b \in Seq(Update), NEW c \in Seq(Update),
         NEW low, NEW high, InBounds(a \o b \o c, low, high), Len(b) <= 1
  PROVE  InBounds(a \o b \o b \o c, low, high)
  <1>1. a \o b \in Seq(Update) /\ a \o b \o b \in Seq(Update)
    OBVIOUS
  <1>2. /\ Sorted(a) /\ Sorted(b) /\ Sorted(c)
        /\ Before(a, b) /\ Before(a, c) /\ Before(b, c) /\ Before(b, b)
    <2>1. Sorted(a \o b) /\ Sorted(c) /\ Before(a \o b, c)
      BY <1>1, SortedConcat DEF InBounds
    <2>2. Sorted(a) /\ Sorted(b) /\ Before(a, b)
      BY <2>1, SortedConcat
    <2>3. Before(a, c) /\ Before(b, c)
      BY <2>1, BeforeConcat
    <2>4. Before(b, b)
      BY ShortSorted
    <2> QED
      BY <2>1, <2>2, <2>3, <2>4
  <1>3. Bounded(a, low, high) /\ Bounded(b, low, high) /\ Bounded(c, low, high)
    BY <1>1, BoundedConcat DEF InBounds
  <1>4. Sorted(a \o b) /\ Before(a \o b, b)
    BY <1>1, <1>2, SortedConcat, BeforeConcat
  <1>5. Sorted(a \o b \o b) /\ Before(a \o b, c)
    BY <1>1, <1>2, <1>4, SortedConcat, BeforeConcat
  <1>6. Before(a \o b \o b, c)
    BY <1>1, <1>2, <1>5, BeforeConcat
  <1>7. Sorted(a \o b \o b \o c)
    BY <1>1, <1>2, <1>5, <1>6, SortedConcat
  <1>8. Bounded(a \o b \o b, low, high)
    BY <1>1, <1>3, BoundedConcat
  <1>9. Bounded(a \o b \o b \o c, low, high)
    BY <1>1, <1>3, <1>8, BoundedConcat
  <1> QED
    BY <1>7, <1>9 DEF InBounds

(* The parser's next update goes behind all that are on the way.           *)
LEMMA NewestLast ==
  ASSUME NEW a \in Seq(Update), NEW u \in Update,
         NEW low \in [Devices -> Nat], NEW high \in [Devices -> Nat],
         InBounds(a, low, high), u.n = high[u.dev], low[u.dev] <= high[u.dev]
  PROVE  InBounds(a \o <<u>>, low, high)
  <1>1. <<u>> \in Seq(Update) /\ Len(<<u>>) = 1 /\ <<u>>[1] = u /\ Len(<<u>>) <= 1
    OBVIOUS
  <1>2. u.dev \in Devices /\ u.n \in Nat
    BY Bounds DEF Update
  <1>3. Bounded(<<u>>, low, high)
    BY <1>1, <1>2 DEF Bounded
  <1>4. Before(a, <<u>>)
    <2> SUFFICES ASSUME NEW i \in 1 .. Len(a), a[i].dev = u.dev
                 PROVE  a[i].n <= u.n
      BY <1>1 DEF Before
    <2>1. a[i].n \in low[u.dev] .. high[u.dev]
      BY DEF InBounds, Bounded
    <2> QED
      BY <2>1, <1>2
  <1>5. Sorted(<<u>>)
    BY <1>1, ShortSorted
  <1> QED
    BY <1>1, <1>3, <1>4, <1>5, SortedConcat, BoundedConcat DEF InBounds

(* The first update of the path is received: it becomes the lower bound.   *)
LEMMA FirstReceived ==
  ASSUME NEW u \in Update, NEW b \in Seq(Update),
         NEW low \in [Devices -> Nat], NEW high \in [Devices -> Nat],
         InBounds(<<u>> \o b, low, high)
  PROVE  /\ InBounds(b, [low EXCEPT ![u.dev] = u.n], high)
         /\ u.n <= high[u.dev]
  <1>1. <<u>> \in Seq(Update) /\ Len(<<u>>) = 1 /\ <<u>>[1] = u
    OBVIOUS
  <1>2. u.dev \in Devices /\ u.n \in Nat
    BY Bounds DEF Update
  <1>3. Sorted(b) /\ Before(<<u>>, b)
    BY <1>1, SortedConcat DEF InBounds
  <1>4. Bounded(b, low, high) /\ Bounded(<<u>>, low, high)
    BY <1>1, BoundedConcat DEF InBounds
  <1>5. u.n \in low[u.dev] .. high[u.dev]
    BY <1>1, <1>4 DEF Bounded
  <1>6. Bounded(b, [low EXCEPT ![u.dev] = u.n], high)
    <2> SUFFICES ASSUME NEW i \in 1 .. Len(b)
                 PROVE  b[i].n \in [low EXCEPT ![u.dev] = u.n][b[i].dev] .. high[b[i].dev]
      BY DEF Bounded
    <2>1. b[i].dev \in Devices /\ b[i].n \in Nat
      BY UpdateFields
    <2>2. b[i].n \in low[b[i].dev] .. high[b[i].dev]
      BY <1>4 DEF Bounded
    <2>3. CASE b[i].dev = u.dev
      <3>1. u.n <= b[i].n
        BY <1>1, <1>3, <2>3 DEF Before
      <3> QED
        BY <1>2, <2>1, <2>2, <2>3, <3>1
    <2>4. CASE b[i].dev # u.dev
      BY <2>1, <2>2, <2>4
    <2> QED
      BY <2>3, <2>4
  <1> QED
    BY <1>2, <1>3, <1>5, <1>6 DEF InBounds

(* The first part of the path, and the rest of it.                         *)
Split3(x, y, z) == x \o y \o z = x \o (y \o z)
Split4(w, x, y, z) == w \o x \o y \o z = w \o (x \o y \o z)
Split5(v, w, x, y, z) == v \o w \o x \o y \o z = v \o (w \o x \o y \o z)

LEMMA Assoc ==
  ASSUME NEW x \in Seq(Update), NEW y \in Seq(Update), NEW z \in Seq(Update)
  PROVE  x \o y \o z = x \o (y \o z)
  BY ConcatAssociative

LEMMA ThreeParts ==
  ASSUME NEW x \in Seq(Update), NEW y \in Seq(Update), NEW z \in Seq(Update)
  PROVE  Split3(x, y, z)
  BY Assoc DEF Split3

LEMMA FourParts ==
  ASSUME NEW w \in Seq(Update), NEW x \in Seq(Update),
         NEW y \in Seq(Update), NEW z \in Seq(Update)
  PROVE  Split4(w, x, y, z)
  <1> DEFINE t == x \o y
  <1>1. t \in Seq(Update)
    OBVIOUS
  <1>2. (w \o x) \o y = w \o t
    BY ThreeParts DEF Split3
  <1> HIDE DEF t
  <1>3. Split3(w, t, z)
    BY <1>1, ThreeParts
  <1>4. ((w \o x) \o y) \o z = w \o (t \o z)
    BY <1>2, <1>3 DEF Split3
  <1> QED
    BY <1>4 DEF t, Split4

LEMMA FiveParts ==
  ASSUME NEW v \in Seq(Update), NEW w \in Seq(Update), NEW x \in Seq(Update),
         NEW y \in Seq(Update), NEW z \in Seq(Update)
  PROVE  Split5(v, w, x, y, z)
  <1> DEFINE t == w \o x \o y
  <1>1. t \in Seq(Update)
    OBVIOUS
  <1>2. Split4(v, w, x, y)
    BY FourParts
  <1>3. v \o w \o x \o y = v \o t
    BY <1>2 DEF Split4
  <1> HIDE DEF t
  <1>4. Split3(v, t, z)
    BY <1>1, ThreeParts
  <1>5. (v \o w \o x \o y) \o z = v \o (t \o z)
    BY <1>3, <1>4 DEF Split3
  <1> QED
    BY <1>5 DEF t, Split5

-----------------------------------------------------------------------------
(* What is on the way to a page, oldest first.                             *)
OnTheWay(s) == wire[s] \o q \o inbox \o inHand \o pubCh

OrderInv ==
    \A s \in Sockets :
        /\ InBounds(OnTheWay(s), seen[s], newest)
        /\ \A d \in Devices : seen[s][d] <= newest[d]

LEMMA PathTypes ==
  ASSUME TypeOK, NEW s \in Sockets
  PROVE  /\ wire[s] \in Seq(Update) /\ q \in Seq(Update) /\ inbox \in Seq(Update)
         /\ inHand \in Seq(Update) /\ pubCh \in Seq(Update) /\ Len(inHand) <= 1
         /\ newest \in [Devices -> Nat] /\ seen[s] \in [Devices -> Nat]
  BY Bounds DEF TypeOK, FeedTypes, ParserTypes, PageTypes

LEMMA OrderInitial == Init => OrderInv
  <1> SUFFICES ASSUME Init, NEW s \in Sockets
               PROVE  /\ InBounds(OnTheWay(s), seen[s], newest)
                      /\ \A d \in Devices : seen[s][d] <= newest[d]
    BY DEF OrderInv
  <1>1. OnTheWay(s) = <<>>
    BY DEF Init, OnTheWay
  <1> QED
    BY <1>1 DEF Init, InBounds, Sorted, Bounded

(* A step that leaves the bounds alone and takes a part out of the path,   *)
(* or nothing.                                                             *)
LEMMA NothingNew ==
  ASSUME TypeOK, OrderInv, UNCHANGED <<seen, newest>>,
         \A s \in Sockets : InBounds(OnTheWay(s)', seen[s], newest)
  PROVE  OrderInv'
  BY DEF OrderInv

LEMMA OrderStep == TypeOK /\ OrderInv /\ [Next]_vars => OrderInv'
  <1> SUFFICES ASSUME TypeOK, OrderInv, [Next]_vars PROVE OrderInv'
    OBVIOUS
  <1>0. ASSUME NEW s \in Sockets PROVE InBounds(OnTheWay(s), seen[s], newest)
    BY DEF OrderInv
  <1>1. CASE UNCHANGED <<newest, wire, q, inbox, inHand, pubCh, seen>>
    <2>1. \A s \in Sockets : OnTheWay(s)' = OnTheWay(s)
      BY <1>1 DEF OnTheWay
    <2> QED
      BY <1>0, <1>1, <2>1, NothingNew
  <1>2. ASSUME NEW d \in Devices, Newer(d) PROVE OrderInv'
    <2> SUFFICES ASSUME NEW s \in Sockets
                 PROVE  /\ InBounds(OnTheWay(s)', seen'[s], newest')
                        /\ \A e \in Devices : seen'[s][e] <= newest'[e]
      BY DEF OrderInv
    <2>1. /\ OnTheWay(s)' = OnTheWay(s) /\ seen' = seen
          /\ newest' = [newest EXCEPT ![d] = @ + 1]
      BY <1>2 DEF Newer, OnTheWay
    <2>2. newest \in [Devices -> Nat] /\ seen[s] \in [Devices -> Nat]
      BY PathTypes
    <2>7. OnTheWay(s) \in Seq(Update)
      BY PathTypes DEF OnTheWay
    <2>3. Sorted(OnTheWay(s)) /\ Bounded(OnTheWay(s), seen[s], newest)
      BY <1>0 DEF InBounds
    <2> DEFINE feed == OnTheWay(s)
    <2>4. /\ feed \in Seq(Update) /\ Bounded(feed, seen[s], newest)
      BY <2>7, <2>3
    <2> HIDE DEF feed
    <2>5. Bounded(feed, seen[s], newest')
      <3> SUFFICES ASSUME NEW i \in 1 .. Len(feed)
                   PROVE  feed[i].n \in seen[s][feed[i].dev] .. newest'[feed[i].dev]
        BY DEF Bounded
      <3>1. feed[i].dev \in Devices /\ feed[i].n \in Nat
        BY <2>4, UpdateFields
      <3>2. feed[i].n \in seen[s][feed[i].dev] .. newest[feed[i].dev]
        BY <2>4 DEF Bounded
      <3> QED
        BY <2>1, <2>2, <3>1, <3>2
    <2>6. \A e \in Devices : seen[s][e] <= newest'[e]
      BY <2>1, <2>2 DEF OrderInv
    <2> QED
      BY <2>1, <2>3, <2>5, <2>6 DEF InBounds, feed
  <1>3. ASSUME NEW d \in Devices, Send(d) PROVE OrderInv'
    <2> DEFINE u == [dev |-> d, n |-> newest[d]]
    <2>1. u \in Update
      BY <1>3 DEF Send, TypeOK, ParserTypes, Update
    <2>2. UNCHANGED <<seen, newest, wire, q, inbox, inHand>> /\ pubCh' = pubCh \o <<u>>
      BY <1>3 DEF Send, TypeOK, FeedTypes
    <2>3. u.dev = d /\ u.n = newest[d]
      OBVIOUS
    <2> HIDE DEF u
    <2>4. ASSUME NEW s \in Sockets PROVE InBounds(OnTheWay(s)', seen[s], newest)
      <3>1. OnTheWay(s) \in Seq(Update)
        BY PathTypes DEF OnTheWay
      <3>2. InBounds(OnTheWay(s) \o <<u>>, seen[s], newest)
        BY <1>0, <2>1, <2>3, <3>1, PathTypes, NewestLast DEF OrderInv
      <3>3. OnTheWay(s)' = OnTheWay(s) \o <<u>>
        <4>1. <<u>> \in Seq(Update)
          BY <2>1
        <4> DEFINE a == wire[s] \o q \o inbox \o inHand
        <4>2. a \in Seq(Update) /\ pubCh \in Seq(Update)
          BY PathTypes
        <4>3. OnTheWay(s) = a \o pubCh /\ OnTheWay(s)' = a \o (pubCh \o <<u>>)
          BY <2>2 DEF OnTheWay
        <4> HIDE DEF a
        <4> QED
          <5>1. Split3(a, pubCh, <<u>>)
            BY <4>1, <4>2, ThreeParts
          <5> QED
            BY <4>3, <5>1 DEF Split3
      <3> QED
        BY <3>2, <3>3
    <2> QED
      BY <2>2, <2>4, NothingNew
  <1>4. CASE Take
    <2>1. UNCHANGED <<seen, newest, wire, q, inbox>>
      BY <1>4 DEF Take
    <2>2. ASSUME NEW s \in Sockets PROVE OnTheWay(s)' = OnTheWay(s)
      <3> DEFINE a == wire[s] \o q \o inbox
      <3>1. a \in Seq(Update) /\ inHand' \in Seq(Update) /\ pubCh' \in Seq(Update)
        BY <1>4, PathTypes DEF Take
      <3>2. inHand = <<>> /\ pubCh = inHand' \o pubCh'
        BY <1>4, PathTypes DEF Take
      <3>3. a \o inHand = a
        BY <3>1, <3>2
      <3>4. /\ OnTheWay(s) = (a \o inHand) \o pubCh
            /\ OnTheWay(s)' = (a \o inHand') \o pubCh'
        BY <2>1 DEF OnTheWay
      <3> HIDE DEF a
      <3>5. a \o (inHand' \o pubCh') = (a \o inHand') \o pubCh'
        <4>1. Split3(a, inHand', pubCh')
          BY <3>1, ThreeParts
        <4> QED
          BY <4>1 DEF Split3
      <3> QED
        BY <3>2, <3>3, <3>4, <3>5
    <2> QED
      BY <1>0, <2>1, <2>2, NothingNew
  <1>5. CASE Publish
    <2>1. UNCHANGED <<seen, newest, wire, q, pubCh>> /\ inHand' = <<>>
      BY <1>5 DEF Publish
    <2>2. inbox' = inbox \o inHand \/ inbox' = inbox
      BY <1>5 DEF Publish, Deliver
    <2>3. CASE inbox' = inbox \o inHand
      <3>1. ASSUME NEW s \in Sockets PROVE OnTheWay(s)' = OnTheWay(s)
        <4> DEFINE a == wire[s] \o q
        <4>1. /\ a \in Seq(Update) /\ inbox \in Seq(Update)
              /\ inHand \in Seq(Update) /\ a \o (inbox \o inHand) \in Seq(Update)
          BY PathTypes
        <4>2. /\ OnTheWay(s) = ((a \o inbox) \o inHand) \o pubCh
              /\ OnTheWay(s)' = ((a \o (inbox \o inHand)) \o <<>>) \o pubCh
          BY <2>1, <2>3 DEF OnTheWay
        <4> HIDE DEF a
        <4>3. (a \o (inbox \o inHand)) \o <<>> = a \o (inbox \o inHand)
          BY <4>1
        <4>4. (a \o inbox) \o inHand = a \o (inbox \o inHand)
          <5>1. Split3(a, inbox, inHand)
            BY <4>1, ThreeParts
          <5> QED
            BY <5>1 DEF Split3
        <4> QED
          BY <4>2, <4>3, <4>4
      <3> QED
        BY <1>0, <2>1, <3>1, NothingNew
    <2>4. CASE inbox' = inbox
      <3>1. ASSUME NEW s \in Sockets PROVE InBounds(OnTheWay(s)', seen[s], newest)
        <4> DEFINE a == wire[s] \o q \o inbox
        <4>1. a \in Seq(Update) /\ inHand \in Seq(Update) /\ pubCh \in Seq(Update)
          BY PathTypes
        <4>2. /\ OnTheWay(s) = a \o inHand \o pubCh
              /\ OnTheWay(s)' = (a \o <<>>) \o pubCh
          BY <2>1, <2>4 DEF OnTheWay
        <4> HIDE DEF a
        <4>3. a \o <<>> = a
          BY <4>1
        <4>4. InBounds(a \o inHand \o pubCh, seen[s], newest)
          BY <1>0, <4>2
        <4>5. InBounds(a \o pubCh, seen[s], newest)
          BY <4>1, <4>4, PartLost
        <4> QED
          BY <4>2, <4>3, <4>5
      <3> QED
        BY <2>1, <3>1, NothingNew
    <2> QED
      BY <2>2, <2>3, <2>4
  <1>6. CASE PublishFails
    <2>1. UNCHANGED <<seen, newest, wire, q, pubCh>>
      BY <1>6 DEF PublishFails
    <2>2. inbox' = inbox \o inHand \/ inbox' = inbox
      BY <1>6 DEF PublishFails, Deliver
    <2>3. inHand' = inHand \/ inHand' = <<>>
      BY <1>6 DEF PublishFails
    <2>4. ASSUME NEW s \in Sockets PROVE InBounds(OnTheWay(s)', seen[s], newest)
      <3> DEFINE a == wire[s] \o q
      <3>1. /\ a \in Seq(Update) /\ inbox \in Seq(Update) /\ a \o inbox \in Seq(Update)
            /\ inHand \in Seq(Update) /\ pubCh \in Seq(Update) /\ Len(inHand) <= 1
            /\ a \o (inbox \o inHand) \in Seq(Update)
        BY PathTypes
      <3>2. /\ OnTheWay(s) = (a \o inbox) \o inHand \o pubCh
            /\ OnTheWay(s)' = (a \o inbox') \o inHand' \o pubCh
        BY <2>1 DEF OnTheWay
      <3> HIDE DEF a
      <3>3. a \o (inbox \o inHand) = (a \o inbox) \o inHand
        <4>1. Split3(a, inbox, inHand)
          BY <3>1, ThreeParts
        <4> QED
          BY <4>1 DEF Split3
      <3>4. InBounds((a \o inbox) \o inHand \o pubCh, seen[s], newest)
        BY <1>0, <3>2
      <3>5. InBounds((a \o inbox) \o inHand \o inHand \o pubCh, seen[s], newest)
        BY <3>1, <3>4, PartTwice
      <3>6. InBounds((a \o inbox) \o pubCh, seen[s], newest)
        BY <3>1, <3>4, PartLost
      <3>7. (a \o inbox) \o <<>> = a \o inbox
        BY <3>1
      <3>8. (a \o (inbox \o inHand)) \o <<>> = a \o (inbox \o inHand)
        BY <3>1
      <3>9. CASE inbox' = inbox /\ inHand' = inHand
        BY <3>2, <3>4, <3>9
      <3>10. CASE inbox' = inbox /\ inHand' = <<>>
        BY <3>2, <3>6, <3>7, <3>10
      <3>11. CASE inbox' = inbox \o inHand /\ inHand' = inHand
        BY <3>2, <3>3, <3>5, <3>11
      <3>12. CASE inbox' = inbox \o inHand /\ inHand' = <<>>
        BY <3>2, <3>3, <3>4, <3>8, <3>12
      <3> QED
        BY <2>2, <2>3, <3>9, <3>10, <3>11, <3>12
    <2> QED
      BY <2>1, <2>4, NothingNew
  <1>7. CASE SubscriberLost
    <2>1. UNCHANGED <<seen, newest, wire, q, inHand, pubCh>> /\ inbox' = <<>>
      BY <1>7 DEF SubscriberLost
    <2>2. ASSUME NEW s \in Sockets PROVE InBounds(OnTheWay(s)', seen[s], newest)
      <3> DEFINE a == wire[s] \o q
      <3>1. /\ a \in Seq(Update) /\ inbox \in Seq(Update) /\ a \o inbox \in Seq(Update)
            /\ inHand \in Seq(Update) /\ pubCh \in Seq(Update)
            /\ inHand \o pubCh \in Seq(Update)
        BY PathTypes
      <3>2. /\ OnTheWay(s) = ((a \o inbox) \o inHand) \o pubCh
            /\ OnTheWay(s)' = ((a \o <<>>) \o inHand) \o pubCh
        BY <2>1 DEF OnTheWay
      <3> HIDE DEF a
      <3>3. a \o <<>> = a
        BY <3>1
      <3>4. ((a \o inbox) \o inHand) \o pubCh = (a \o inbox) \o (inHand \o pubCh)
        <4> DEFINE x == a \o inbox
        <4>1. x \in Seq(Update)
          BY <3>1
        <4> HIDE DEF x
        <4>2. (x \o inHand) \o pubCh = x \o (inHand \o pubCh)
          <5>1. Split3(x, inHand, pubCh)
            BY <3>1, <4>1, ThreeParts
          <5> QED
            BY <5>1 DEF Split3
        <4> QED
          BY <4>2 DEF x
      <3>5. (a \o inHand) \o pubCh = a \o (inHand \o pubCh)
        <4>1. Split3(a, inHand, pubCh)
          BY <3>1, ThreeParts
        <4> QED
          BY <4>1 DEF Split3
      <3>6. InBounds(a \o (inHand \o pubCh), seen[s], newest)
        <4> DEFINE c == inHand \o pubCh
        <4>1. c \in Seq(Update)
          BY <3>1
        <4>2. InBounds((a \o inbox) \o c, seen[s], newest)
          BY <1>0, <3>2, <3>4
        <4> HIDE DEF c
        <4>3. InBounds(a \o c, seen[s], newest)
          BY <3>1, <4>1, <4>2, PartLost
        <4> QED
          BY <4>3 DEF c
      <3> QED
        BY <3>2, <3>3, <3>5, <3>6
    <2> QED
      BY <2>1, <2>2, NothingNew
  <1>8. CASE OnMessages
    <2>1. PICK k \in 1 .. Len(inbox) :
            q' = q \o SubSeq(inbox, 1, k) /\ inbox' = SubSeq(inbox, k + 1, Len(inbox))
      BY <1>8 DEF OnMessages
    <2>2. UNCHANGED <<seen, newest, wire, inHand, pubCh>>
      BY <1>8 DEF OnMessages
    <2> DEFINE r == SubSeq(inbox, 1, k)
               t == SubSeq(inbox, k + 1, Len(inbox))
    <2>3. inbox \in Seq(Update)
      BY DEF TypeOK, FeedTypes
    <2>4. r \in Seq(Update) /\ t \in Seq(Update)
      BY <2>3
    <2>5. r \o t = inbox
      BY <2>3, ConcatAdjacentSubSeq, SubSeqFull
    <2> HIDE DEF r, t
    <2>6. ASSUME NEW s \in Sockets PROVE OnTheWay(s)' = OnTheWay(s)
      <3>1. wire[s] \in Seq(Update) /\ q \in Seq(Update) /\ wire[s] \o q \in Seq(Update)
        BY PathTypes
      <3>2. OnTheWay(s)' = (wire[s] \o (q \o r)) \o t \o inHand \o pubCh
        BY <2>1, <2>2 DEF OnTheWay, r, t
      <3>3. wire[s] \o (q \o r) = (wire[s] \o q) \o r
        <4> DEFINE w == wire[s]
        <4>1. w \in Seq(Update) /\ q \in Seq(Update)
          BY <3>1
        <4> HIDE DEF w
        <4>2. w \o (q \o r) = (w \o q) \o r
          <5>1. Split3(w, q, r)
            BY <2>4, <4>1, ThreeParts
          <5> QED
            BY <5>1 DEF Split3
        <4> QED
          BY <4>2 DEF w
      <3>4. ((wire[s] \o q) \o r) \o t = (wire[s] \o q) \o (r \o t)
        <4> DEFINE w == wire[s] \o q
        <4>1. w \in Seq(Update)
          BY <3>1
        <4> HIDE DEF w
        <4>2. (w \o r) \o t = w \o (r \o t)
          <5>1. Split3(w, r, t)
            BY <2>4, <4>1, ThreeParts
          <5> QED
            BY <5>1 DEF Split3
        <4> QED
          BY <4>2 DEF w
      <3> QED
        BY <2>5, <3>2, <3>3, <3>4 DEF OnTheWay
    <2> QED
      BY <1>0, <2>2, <2>6, NothingNew
  <1>9. CASE Forward
    <2> DEFINE h == <<Head(q)>>
               t == Tail(q)
    <2>1. UNCHANGED <<seen, newest, inbox, inHand, pubCh>> /\ q' = t /\ q # <<>>
      BY <1>9 DEF Forward
    <2>2. q \in Seq(Update) /\ wire \in [Sockets -> Seq(Update)]
      BY DEF TypeOK, FeedTypes
    <2>3. h \in Seq(Update) /\ t \in Seq(Update) /\ q = h \o t
      BY <2>1, <2>2
    <2>4. ASSUME NEW s \in Sockets PROVE wire'[s] = wire[s] \o h \/ wire'[s] = wire[s]
      BY <1>9, <2>2 DEF Forward
    <2> HIDE DEF h, t
    <2>5. ASSUME NEW s \in Sockets PROVE InBounds(OnTheWay(s)', seen[s], newest)
      <3> DEFINE w == wire[s]
                 c == inbox \o inHand \o pubCh
      <3>1. /\ w \in Seq(Update) /\ inbox \in Seq(Update) /\ inHand \in Seq(Update)
            /\ pubCh \in Seq(Update) /\ c \in Seq(Update)
        BY PathTypes
      <3>2. ASSUME NEW a \in Seq(Update) PROVE a \o inbox \o inHand \o pubCh = a \o c
        <4>1. inbox \in Seq(Update) /\ inHand \in Seq(Update) /\ pubCh \in Seq(Update)
          BY <3>1
        <4>2. Split4(a, inbox, inHand, pubCh)
          BY <4>1, FourParts
        <4> QED
          BY <4>2 DEF Split4
      <3> HIDE DEF c, w
      <3>3. w \o q \in Seq(Update) /\ w \o t \in Seq(Update)
            /\ w \o h \in Seq(Update) /\ (w \o h) \o t \in Seq(Update)
            /\ t \o c \in Seq(Update)
        BY <2>2, <2>3, <3>1
      <3>8. h \in Seq(Update) /\ t \in Seq(Update)
        BY <2>3
      <3>9. w \in Seq(Update) /\ c \in Seq(Update)
        BY <3>1
      <3>10. (w \o h) \o t = w \o (h \o t)
        <4>1. Split3(w, h, t)
          BY <3>8, <3>9, ThreeParts
        <4> QED
          BY <4>1 DEF Split3
      <3>4. w \o q = (w \o h) \o t
        BY <2>3, <3>10
      <3>5. OnTheWay(s) = ((w \o h) \o t) \o c
        <4>1. (w \o q) \o inbox \o inHand \o pubCh = (w \o q) \o c
          BY <3>2, <3>3
        <4> QED
          BY <3>4, <4>1 DEF OnTheWay, w
      <3>6. CASE wire'[s] = w \o h
        <4>1. ((w \o h) \o t) \o inbox \o inHand \o pubCh = ((w \o h) \o t) \o c
          BY <3>2, <3>3
        <4> QED
          BY <1>0, <2>1, <3>5, <3>6, <4>1 DEF OnTheWay
      <3>7. CASE wire'[s] = w
        <4>1. OnTheWay(s)' = (w \o t) \o c
          <5>1. (w \o t) \o inbox \o inHand \o pubCh = (w \o t) \o c
            BY <3>2, <3>3
          <5> QED
            BY <2>1, <3>7, <5>1 DEF OnTheWay
        <4>2. (w \o t) \o c = w \o (t \o c)
          <5>1. Split3(w, t, c)
            BY <3>8, <3>9, ThreeParts
          <5> QED
            BY <5>1 DEF Split3
        <4>3. ((w \o h) \o t) \o c = (w \o h) \o (t \o c)
          <5>1. w \o h \in Seq(Update)
            BY <3>3
          <5> QED
            <6>1. Split3(w \o h, t, c)
              BY <3>8, <3>9, <5>1, ThreeParts
            <6> QED
              BY <6>1 DEF Split3
        <4>4. InBounds((w \o h) \o (t \o c), seen[s], newest)
          BY <1>0, <3>5, <4>3
        <4> DEFINE e == t \o c
        <4>5. e \in Seq(Update) /\ InBounds((w \o h) \o e, seen[s], newest)
          BY <3>3, <4>4
        <4> HIDE DEF e
        <4>6. InBounds(w \o e, seen[s], newest)
          BY <2>3, <3>1, <4>5, PartLost
        <4> QED
          BY <4>1, <4>2, <4>6 DEF e
      <3> QED
        BY <2>4, <3>6, <3>7 DEF w
    <2> QED
      BY <2>1, <2>5, NothingNew
  <1>10. ASSUME NEW r \in Sockets, Receive(r) PROVE OrderInv'
    <2> DEFINE u == Head(wire[r])
               t == Tail(wire[r])
    <2>1. /\ UNCHANGED <<newest, q, inbox, inHand, pubCh>> /\ wire[r] # <<>>
          /\ wire' = [wire EXCEPT ![r] = t]
          /\ seen' = [seen EXCEPT ![r] = [@ EXCEPT ![u.dev] = u.n]]
      BY <1>10 DEF Receive
    <2>2. wire[r] \in Seq(Update) /\ wire \in [Sockets -> Seq(Update)]
      BY DEF TypeOK, FeedTypes
    <2>3. u \in Update /\ t \in Seq(Update) /\ wire[r] = <<u>> \o t
      BY <2>1, <2>2
    <2> HIDE DEF u, t
    <2>4. u.dev \in Devices /\ u.n \in Nat
      BY <2>3, Bounds DEF Update
    <2>5. seen \in [Sockets -> [Devices -> 0 .. MaxUpdates]]
      BY DEF TypeOK, PageTypes
    <2> SUFFICES ASSUME NEW s \in Sockets
                 PROVE  /\ InBounds(OnTheWay(s)', seen'[s], newest')
                        /\ \A e \in Devices : seen'[s][e] <= newest'[e]
      BY DEF OrderInv
    <2>6. CASE s # r
      <3>1. seen'[s] = seen[s] /\ OnTheWay(s)' = OnTheWay(s) /\ newest' = newest
        BY <2>1, <2>2, <2>5, <2>6 DEF OnTheWay
      <3> QED
        BY <1>0, <3>1 DEF OrderInv
    <2>7. CASE s = r
      <3> DEFINE b == t \o q \o inbox \o inHand \o pubCh
      <3>1. /\ q \in Seq(Update) /\ inbox \in Seq(Update) /\ inHand \in Seq(Update)
            /\ pubCh \in Seq(Update) /\ b \in Seq(Update)
            /\ newest \in [Devices -> Nat] /\ seen[s] \in [Devices -> Nat]
        BY <2>3, PathTypes
      <3>2. OnTheWay(s) = <<u>> \o b
        <4>1. <<u>> \in Seq(Update)
          BY <2>3
        <4> DEFINE c == q \o inbox \o inHand \o pubCh
                   v == <<u>> \o t
        <4>2. c \in Seq(Update) /\ v \in Seq(Update) /\ t \in Seq(Update)
          BY <2>3, <3>1, <4>1
        <4>3. b = t \o c
          <5>1. q \in Seq(Update) /\ inbox \in Seq(Update) /\ inHand \in Seq(Update)
                /\ pubCh \in Seq(Update)
            BY <3>1
          <5>2. Split5(t, q, inbox, inHand, pubCh)
            BY <4>2, <5>1, FiveParts
          <5> QED
            BY <5>2 DEF Split5
        <4>4. wire[s] = v
          BY <2>3, <2>7
        <4> HIDE DEF v
        <4>5. v \o q \o inbox \o inHand \o pubCh = v \o c
          <5>1. q \in Seq(Update) /\ inbox \in Seq(Update) /\ inHand \in Seq(Update)
                /\ pubCh \in Seq(Update)
            BY <3>1
          <5>2. Split5(v, q, inbox, inHand, pubCh)
            BY <4>2, <5>1, FiveParts
          <5> QED
            BY <5>2 DEF Split5
        <4>6. OnTheWay(s) = v \o c
          BY <4>4, <4>5 DEF OnTheWay
        <4> HIDE DEF b, c
        <4>7. (<<u>> \o t) \o c = <<u>> \o (t \o c)
          <5>1. Split3(<<u>>, t, c)
            BY <4>1, <4>2, ThreeParts
          <5> QED
            BY <5>1 DEF Split3
        <4> QED
          BY <4>3, <4>6, <4>7 DEF v
      <3>3. OnTheWay(s)' = b
        BY <2>1, <2>2, <2>7 DEF OnTheWay
      <3>4. seen'[s] = [seen[s] EXCEPT ![u.dev] = u.n] /\ newest' = newest
        BY <2>1, <2>5, <2>7
      <3> HIDE DEF b
      <3>5. InBounds(<<u>> \o b, seen[s], newest)
        BY <1>0, <3>2
      <3>6. InBounds(b, [seen[s] EXCEPT ![u.dev] = u.n], newest) /\ u.n <= newest[u.dev]
        BY <2>3, <3>1, <3>5, FirstReceived
      <3>7. \A e \in Devices : seen'[s][e] <= newest'[e]
        BY <2>4, <3>1, <3>4, <3>6 DEF OrderInv
      <3> QED
        BY <3>3, <3>4, <3>6, <3>7
    <2> QED
      BY <2>6, <2>7
  <1>11. ASSUME NEW r \in Sockets, Disconnect(r) PROVE OrderInv'
    <2>1. /\ UNCHANGED <<seen, newest, q, inbox, inHand, pubCh>>
          /\ wire' = [wire EXCEPT ![r] = <<>>]
      BY <1>11 DEF Disconnect
    <2>2. wire \in [Sockets -> Seq(Update)]
      BY DEF TypeOK, FeedTypes
    <2>3. ASSUME NEW s \in Sockets PROVE InBounds(OnTheWay(s)', seen[s], newest)
      <3>1. CASE s # r
        <4>1. OnTheWay(s)' = OnTheWay(s)
          BY <2>1, <2>2, <3>1 DEF OnTheWay
        <4> QED
          BY <1>0, <4>1
      <3>2. CASE s = r
        <4> DEFINE c == q \o inbox \o inHand \o pubCh
        <4>1. /\ q \in Seq(Update) /\ inbox \in Seq(Update) /\ inHand \in Seq(Update)
              /\ pubCh \in Seq(Update) /\ c \in Seq(Update)
              /\ wire[s] \in Seq(Update) /\ <<>> \in Seq(Update)
          BY PathTypes
        <4>6. Split5(wire[s], q, inbox, inHand, pubCh)
          BY PathTypes, FiveParts
        <4>7. Split5(<<>>, q, inbox, inHand, pubCh)
          BY PathTypes, <4>1, FiveParts
        <4>2. /\ OnTheWay(s) = wire[s] \o c
              /\ OnTheWay(s)' = <<>> \o q \o inbox \o inHand \o pubCh
          <5>1. wire'[s] = <<>>
            BY <2>1, <2>2, <3>2
          <5> QED
            BY <2>1, <4>6, <5>1 DEF OnTheWay, Split5
        <4>3. <<>> \o q \o inbox \o inHand \o pubCh = <<>> \o c
          BY <4>7 DEF Split5
        <4> HIDE DEF c
        <4>4. <<>> \o wire[s] \o c = wire[s] \o c
          BY <4>1
        <4>5. InBounds(<<>> \o wire[s] \o c, seen[s], newest)
          BY <1>0, <4>2, <4>4
        <4> QED
          BY <4>1, <4>2, <4>3, <4>5, PartLost
      <3> QED
        BY <3>1, <3>2
    <2> QED
      BY <2>1, <2>3, NothingNew
  <1>12. ASSUME Next,
                \A d \in Devices : ~Newer(d) /\ ~Send(d),
                ~Take, ~Publish, ~PublishFails, ~SubscriberLost, ~OnMessages, ~Forward,
                \A s \in Sockets : ~Receive(s) /\ ~Disconnect(s)
         PROVE  UNCHANGED <<newest, wire, q, inbox, inHand, pubCh, seen>>
    <2> DEFINE kept == <<newest, wire, q, inbox, inHand, pubCh, seen>>
    <2>1. CASE Resubscribe \/ DrainStarts \/ DrainEnds \/ ChangeRights
      BY <2>1 DEF Resubscribe, DrainStarts, DrainEnds, ChangeRights
    <2>2. ASSUME NEW s \in Sockets, Authenticate(s) \/ Refuse(s) \/ Connect(s)
          PROVE  UNCHANGED kept
      BY <2>2 DEF Authenticate, Refuse, Connect
    <2>3. ASSUME NEW s \in Sockets, JoinDevices(s) \/ LeaveDevices(s) \/ EmitLeave(s)
          PROVE  UNCHANGED kept
      BY <2>3 DEF JoinDevices, LeaveDevices, EmitLeave
    <2>4. ASSUME NEW s \in Sockets, Fetch(s) \/ Load(s) PROVE UNCHANGED kept
      BY <2>4 DEF Fetch, Load
    <2>5. ASSUME NEW s \in Sockets, NEW d \in Devices, Animate(s, d)
          PROVE  UNCHANGED kept
      BY <2>5 DEF Animate
    <2> HIDE DEF kept
    <2>6. UNCHANGED kept
      BY <1>12, <2>1, <2>2, <2>3, <2>4, <2>5 DEF Next, kept
    <2> QED
      BY <2>6 DEF kept
  <1>13. CASE UNCHANGED vars
    BY <1>1, <1>13 DEF vars
  <1> QED
    BY <1>1, <1>2, <1>3, <1>4, <1>5, <1>6, <1>7, <1>8, <1>9, <1>10, <1>11, <1>12,
       <1>13

(* The updates of a device reach every page in the order in which the      *)
(* parser accepted them, and none is invented or newer than LastTsMap.     *)
THEOREM InOrderCorrect == Spec => []InOrder
  <1>1. OrderInv => InOrder
    BY DEF OrderInv, InOrder, OnTheWay, InBounds
  <1> QED
    BY <1>1, TypeCorrect, OrderInitial, OrderStep, PTL DEF Spec
=============================================================================
