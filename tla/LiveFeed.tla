----------------------------- MODULE LiveFeed ------------------------------
(***************************************************************************)
(* The live path of a position, from the parser's handler to the marker on *)
(* a user's map: PubCh and the publisher goroutine (teltonika.parser.go),  *)
(* the Redis channel teltonika:live, the subscriber, burst forwarder and   *)
(* device rooms of socketio.gateway.node.ts, and the device store of the   *)
(* browser page (web.frontend.vue).                                        *)
(*                                                                         *)
(* Nothing on this path is acknowledged: what is lost on it is lost, and   *)
(* only the next update, or the next access profile, puts the map right.   *)
(*                                                                         *)
(* One connection per device is modelled: with two, two handlers may send  *)
(* to PubCh in the other order than they passed the lock of LastTsMap.     *)
(* The pages are of one user; access is what the user may see, and how it  *)
(* is worked out is not modelled here.                                     *)
(***************************************************************************)
EXTENDS Naturals, Sequences, FiniteSets

CONSTANTS
    Devices,
    Sockets,     \* open pages, each with a socket of its own
    Places,      \* where a device may be
    NoFix,       \* the place (0, 0) of a record without a fix
    MaxUpdates,  \* bound: new positions of a device in a behaviour
    Updates,     \* Updates[d]: bound for the device d
    Route,       \* Route[n]: where a device is in its n-th update
    Buffer,      \* capacity of PubCh
    MaxBatch,    \* messages the forwarder hands on in one microtask
    MaxRooms,    \* MAX_ROOMS_PER_SOCKET
    Faults,      \* which of AllFaults occur
    MaxFaults    \* bound: faults in a behaviour

(* A PUBLISH returns an error; the subscriber's connection is lost; a      *)
(* page's connection is lost; the gateway refuses a handshake; what the    *)
(* user may see changes; the page loads the access profile again; a client *)
(* leaves a room.                                                          *)
AllFaults == {"publish", "subscriber", "disconnect", "refuse", "rights",
              "refetch", "leave"}

(* Coordinates that are no place of a route: those of a device that has    *)
(* none yet, those between two places, and NaN, which the animation makes  *)
(* of a start it does not have.                                            *)
Nowhere == "nowhere"
Between == "between"
NaN == "nan"
Still == "still"       \* path: the device is in no animation

ASSUME ParameterAssumption ==
    /\ IsFiniteSet(Devices)
    /\ MaxUpdates \in Nat /\ Route \in [1 .. MaxUpdates -> Places]
    /\ Updates \in [Devices -> 0 .. MaxUpdates]
    /\ NoFix \in Places
    /\ Places \cap {Nowhere, Between, NaN, Still} = {}
    /\ Buffer \in Nat \ {0} /\ MaxBatch \in Nat \ {0} /\ MaxRooms \in Nat
    /\ Faults \subseteq AllFaults /\ MaxFaults \in Nat

VARIABLES
    newest,     \* newest[d]: LastTsMap, as the number of the update
    sending,    \* sending[d]: the handler of d is at PubCh <-
    saved,      \* saved[d]: app.devices.last_telemetry when last read
    pubCh,      \* the channel of StartPublisher
    inHand,     \* the message the publisher works on, if any
    again,      \* its first PUBLISH failed
    subscribed, \* Redis has the gateway's subscription
    inbox,      \* pushed by Redis, not yet read by the gateway
    q,          \* the forwarder's queue
    draining,   \* its flag
    micro,      \* drains scheduled as microtasks
    running,    \* a drain is running
    count,      \* what it has forwarded, n of drain
    link,       \* link[s]: the page's connection, as the gateway sees it
    allowed,    \* allowed[s]: socket.data.allowedDevices
    rooms,      \* rooms[s]: the device rooms of the socket
    requests,   \* requests[s]: emitted by the page, not yet received
    wire,       \* wire[s]: emitted to the page, not yet received
    loaded,     \* loaded[s]: the page has had an access profile
    reply,      \* reply[s]: an access profile on its way to the page
    listed,     \* listed[s]: the keys of the store's devices
    ts,         \* ts[s][d]: last_telemetry_ts in the store
    at,         \* at[s][d]: latitude and longitude in the store
    path,       \* path[s][d]: where the animation of d leads
    seen,       \* history: seen[s][d]: the last update of d received
    access,     \* the devices the user may see
    faults      \* history: faults so far

parserVars == <<newest, sending, saved>>
publisherVars == <<pubCh, inHand, again>>
subscriberVars == <<subscribed, inbox>>
forwarderVars == <<q, draining, micro, running, count>>
socketVars == <<link, allowed, rooms, requests>>
pageVars == <<loaded, reply, listed, ts, at, path, seen>>
vars == <<parserVars, publisherVars, subscriberVars, forwarderVars,
          socketVars, wire, pageVars, access, faults>>

Update == [dev : Devices, n : 1 .. MaxUpdates]
Request == [op : {"join", "leave"}, ids : SUBSET Devices]
Profile == [devices : SUBSET Devices, ts : [Devices -> 0 .. MaxUpdates]]

Position == Places \cup {Nowhere, Between, NaN}

PositionOf(n) == IF n = 0 THEN Nowhere ELSE Route[n]

Fault(kind) ==
    /\ kind \in Faults /\ faults < MaxFaults
    /\ faults' = faults + 1

Init ==
    /\ newest = [d \in Devices |-> 0]
    /\ sending = [d \in Devices |-> FALSE]
    /\ saved = [d \in Devices |-> 0]
    /\ pubCh = <<>> /\ inHand = <<>> /\ again = FALSE
    /\ subscribed = TRUE /\ inbox = <<>>
    /\ q = <<>> /\ draining = FALSE /\ micro = 0
    /\ running = FALSE /\ count = 0
    /\ link = [s \in Sockets |-> "down"]
    /\ allowed = [s \in Sockets |-> {}]
    /\ rooms = [s \in Sockets |-> {}]
    /\ requests = [s \in Sockets |-> <<>>]
    /\ wire = [s \in Sockets |-> <<>>]
    /\ loaded = [s \in Sockets |-> FALSE]
    /\ reply = [s \in Sockets |-> <<>>]
    /\ listed = [s \in Sockets |-> {}]
    /\ ts = [s \in Sockets |-> [d \in Devices |-> 0]]
    /\ at = [s \in Sockets |-> [d \in Devices |-> Nowhere]]
    /\ path = [s \in Sockets |-> [d \in Devices |-> Still]]
    /\ seen = [s \in Sockets |-> [d \in Devices |-> 0]]
    /\ access \in SUBSET Devices
    /\ faults = 0

-----------------------------------------------------------------------------
(* The parser.                                                             *)

(* handleTcpData, with a record newer than LastTsMap: the map is set under *)
(* its lock, then the message is sent.                                     *)
Newer(d) ==
    /\ ~sending[d] /\ newest[d] < Updates[d]
    /\ newest' = [newest EXCEPT ![d] = @ + 1]
    /\ sending' = [sending EXCEPT ![d] = TRUE]
    /\ UNCHANGED <<saved, publisherVars, subscriberVars, forwarderVars,
                   socketVars, wire, pageVars, access, faults>>

(* PubCh <-, which blocks the handler while the buffer is full.            *)
Send(d) ==
    /\ sending[d] /\ Len(pubCh) < Buffer
    /\ pubCh' = Append(pubCh, [dev |-> d, n |-> newest[d]])
    /\ sending' = [sending EXCEPT ![d] = FALSE]
    /\ UNCHANGED <<newest, saved, inHand, again, subscriberVars,
                   forwarderVars, socketVars, wire, pageVars, access, faults>>

(* The publisher goroutine: the next message of the channel.               *)
Take ==
    /\ inHand = <<>> /\ pubCh # <<>>
    /\ inHand' = <<Head(pubCh)>> /\ pubCh' = Tail(pubCh)
    /\ UNCHANGED <<parserVars, again, subscriberVars, forwarderVars,
                   socketVars, wire, pageVars, access, faults>>

(* What a PUBLISH does in Redis: at most once, and for whoever is there.   *)
Deliver ==
    inbox' = IF subscribed THEN inbox \o inHand ELSE inbox

Publish ==
    /\ inHand # <<>>
    /\ Deliver
    /\ inHand' = <<>> /\ again' = FALSE
    /\ UNCHANGED <<parserVars, pubCh, subscribed, forwarderVars, socketVars,
                   wire, pageVars, access, faults>>

(* Mutant of PublishFails: what failed goes back into the channel.         *)
PublishFailsRequeues ==
    /\ inHand # <<>>
    /\ IF again THEN UNCHANGED faults ELSE Fault("publish")
    /\ Deliver \/ UNCHANGED inbox
    /\ again' = ~again
    /\ inHand' = <<>>
    /\ pubCh' = IF again THEN pubCh ELSE pubCh \o inHand
    /\ UNCHANGED <<parserVars, subscribed, forwarderVars, socketVars,
                   wire, pageVars, access>>

(* An error, before or after Redis has run the command.  The first time    *)
(* the publisher reconnects and tries once more, which may fail for the    *)
(* same reason; then the message is gone.                                  *)
PublishFails ==
    /\ inHand # <<>>
    /\ IF again THEN UNCHANGED faults ELSE Fault("publish")
    /\ Deliver \/ UNCHANGED inbox
    /\ again' = ~again
    /\ inHand' = IF again THEN <<>> ELSE inHand
    /\ UNCHANGED <<parserVars, pubCh, subscribed, forwarderVars, socketVars,
                   wire, pageVars, access>>

-----------------------------------------------------------------------------
(* The gateway.  Node runs every scheduled microtask before the next       *)
(* event, so a handler of an event starts only at Idle.                    *)

Idle == micro = 0 /\ ~running

SubscriberLost ==
    /\ subscribed
    /\ Fault("subscriber")
    /\ subscribed' = FALSE /\ inbox' = <<>>
    /\ UNCHANGED <<parserVars, publisherVars, forwarderVars, socketVars, wire,
                   pageVars, access>>

(* ioredis reconnects and subscribes again by itself.                      *)
Resubscribe ==
    /\ ~subscribed
    /\ subscribed' = TRUE
    /\ UNCHANGED <<parserVars, publisherVars, inbox, forwarderVars, socketVars,
                   wire, pageVars, access, faults>>

(* Mutant of OnMessages: enqueue raises the flag before it tests it, so no *)
(* drain is ever scheduled.                                                *)
OnMessagesFlagsFirst ==
    /\ Idle /\ inbox # <<>>
    /\ \E k \in 1 .. Len(inbox) :
        /\ q' = q \o SubSeq(inbox, 1, k)
        /\ inbox' = SubSeq(inbox, k + 1, Len(inbox))
    /\ draining' = TRUE
    /\ UNCHANGED <<parserVars, publisherVars, subscribed, running, count, micro,
                   socketVars, wire, pageVars, access, faults>>

(* One read of the connection: enqueue for each message in it.             *)
OnMessages ==
    /\ Idle /\ inbox # <<>>
    /\ \E k \in 1 .. Len(inbox) :
        /\ q' = q \o SubSeq(inbox, 1, k)
        /\ inbox' = SubSeq(inbox, k + 1, Len(inbox))
    /\ draining' = TRUE
    /\ micro' = IF draining THEN micro ELSE micro + 1
    /\ UNCHANGED <<parserVars, publisherVars, subscribed, running, count,
                   socketVars, wire, pageVars, access, faults>>

DrainStarts ==
    /\ micro > 0 /\ ~running
    /\ micro' = micro - 1 /\ running' = TRUE /\ count' = 0
    /\ UNCHANGED <<parserVars, publisherVars, subscriberVars, q, draining,
                   socketVars, wire, pageVars, access, faults>>

(* forward: the callback of App.init, emitToDevice.                        *)
Forward ==
    /\ running /\ q # <<>> /\ count < MaxBatch
    /\ q' = Tail(q) /\ count' = count + 1
    /\ wire' = [s \in Sockets |->
                  IF Head(q).dev \in rooms[s] THEN Append(wire[s], Head(q))
                  ELSE wire[s]]
    /\ UNCHANGED <<parserVars, publisherVars, subscriberVars, draining, micro,
                   running, socketVars, pageVars, access, faults>>

DrainEnds ==
    /\ running /\ (q = <<>> \/ count >= MaxBatch)
    /\ running' = FALSE /\ count' = 0
    /\ draining' = FALSE
    /\ micro' = IF q = <<>> THEN micro ELSE micro + 1
    /\ UNCHANGED <<parserVars, publisherVars, subscriberVars, q, socketVars,
                   wire, pageVars, access, faults>>

(* io.use: the devices the user may see, read once per connection.         *)
Authenticate(s) ==
    /\ Idle /\ link[s] = "down"
    /\ link' = [link EXCEPT ![s] = "authenticated"]
    /\ allowed' = [allowed EXCEPT ![s] = access]
    /\ UNCHANGED <<parserVars, publisherVars, subscriberVars, forwarderVars,
                   rooms, requests, wire, pageVars, access, faults>>

(* The same with an error: an expired token, a query that fails.  A client *)
(* refused by a middleware does not try again.                             *)
Refuse(s) ==
    /\ Idle /\ link[s] = "down"
    /\ Fault("refuse")
    /\ link' = [link EXCEPT ![s] = "refused"]
    /\ UNCHANGED <<parserVars, publisherVars, subscriberVars, forwarderVars,
                   allowed, rooms, requests, wire, pageVars, access>>

(* The page emits join-devices when it connects and when its devices       *)
(* change; with none the gateway would do nothing.                         *)
Join(ids) == IF ids = {} THEN <<>> ELSE <<[op |-> "join", ids |-> ids]>>

Connect(s) ==
    /\ Idle /\ link[s] = "authenticated"
    /\ link' = [link EXCEPT ![s] = "up"]
    /\ requests' = [requests EXCEPT ![s] = Join(listed[s])]
    /\ UNCHANGED <<parserVars, publisherVars, subscriberVars, forwarderVars,
                   allowed, rooms, wire, pageVars, access, faults>>

(* Mutant of JoinDevices: the rights are not looked at.                    *)
JoinAnyDevices(s) ==
    /\ Idle /\ requests[s] # <<>> /\ Head(requests[s]).op = "join"
    /\ requests' = [requests EXCEPT ![s] = Tail(@)]
    /\ LET ids == Head(requests[s]).ids
       IN  rooms' = IF Cardinality(rooms[s]) + Cardinality(ids) > MaxRooms
                    THEN rooms
                    ELSE [rooms EXCEPT ![s] = @ \cup ids]
    /\ UNCHANGED <<parserVars, publisherVars, subscriberVars, forwarderVars,
                   link, allowed, wire, pageVars, access, faults>>

JoinDevices(s) ==
    /\ Idle /\ requests[s] # <<>> /\ Head(requests[s]).op = "join"
    /\ requests' = [requests EXCEPT ![s] = Tail(@)]
    /\ LET ids == Head(requests[s]).ids
       IN  rooms' = IF Cardinality(rooms[s]) + Cardinality(ids) > MaxRooms
                    THEN rooms
                    ELSE [rooms EXCEPT ![s] = @ \cup (ids \cap allowed[s])]
    /\ UNCHANGED <<parserVars, publisherVars, subscriberVars, forwarderVars,
                   link, allowed, wire, pageVars, access, faults>>

LeaveDevices(s) ==
    /\ Idle /\ requests[s] # <<>> /\ Head(requests[s]).op = "leave"
    /\ requests' = [requests EXCEPT ![s] = Tail(@)]
    /\ rooms' = [rooms EXCEPT ![s] = @ \ Head(requests[s]).ids]
    /\ UNCHANGED <<parserVars, publisherVars, subscriberVars, forwarderVars,
                   link, allowed, wire, pageVars, access, faults>>

(* A lost connection: the socket's rooms and all that was on its way.      *)
Disconnect(s) ==
    /\ Idle /\ link[s] = "up"
    /\ Fault("disconnect")
    /\ link' = [link EXCEPT ![s] = "down"]
    /\ rooms' = [rooms EXCEPT ![s] = {}]
    /\ requests' = [requests EXCEPT ![s] = <<>>]
    /\ wire' = [wire EXCEPT ![s] = <<>>]
    /\ UNCHANGED <<parserVars, publisherVars, subscriberVars, forwarderVars,
                   allowed, pageVars, access>>

-----------------------------------------------------------------------------
(* The page.                                                               *)

(* fetchAccessProfile: once after the login, and again when a view asks.   *)
(* The cron jobs may have brought any later update to app.devices since    *)
(* the last time.                                                          *)
Fetch(s) ==
    /\ reply[s] = <<>>
    /\ IF loaded[s] THEN Fault("refetch") ELSE UNCHANGED faults
    /\ saved' \in [Devices -> 0 .. MaxUpdates]
    /\ \A d \in Devices : saved'[d] \in saved[d] .. newest[d]
    /\ reply' = [reply EXCEPT ![s] = <<[devices |-> access, ts |-> saved']>>]
    /\ UNCHANGED <<newest, sending, publisherVars, subscriberVars, forwarderVars,
                   socketVars, wire, loaded, listed, ts, at, path, seen,
                   access>>

(* Mutant of Load: the objects stay and are filled anew.                   *)
LoadInPlace(s) ==
    /\ reply[s] # <<>>
    /\ LET profile == reply[s][1]
       IN  /\ listed' = [listed EXCEPT ![s] = profile.devices]
           /\ ts' = [ts EXCEPT ![s] = profile.ts]
           /\ at' = [at EXCEPT ![s] =
                       [d \in Devices |-> PositionOf(profile.ts[d])]]
           /\ requests' = [requests EXCEPT ![s] =
                             IF link[s] = "up" THEN @ \o Join(profile.devices)
                             ELSE @]
    /\ loaded' = [loaded EXCEPT ![s] = TRUE]
    /\ reply' = [reply EXCEPT ![s] = <<>>]
    /\ UNCHANGED <<parserVars, publisherVars, subscriberVars, forwarderVars,
                   link, allowed, rooms, wire, path, seen, access, faults>>

(* setDevices: every device becomes a new object.  An animation goes on    *)
(* with the object it began with, which the store no longer has.           *)
Load(s) ==
    /\ reply[s] # <<>>
    /\ LET profile == reply[s][1]
       IN  /\ listed' = [listed EXCEPT ![s] = profile.devices]
           /\ ts' = [ts EXCEPT ![s] = profile.ts]
           /\ at' = [at EXCEPT ![s] =
                       [d \in Devices |-> PositionOf(profile.ts[d])]]
           /\ path' = [path EXCEPT ![s] = [d \in Devices |-> Still]]
           /\ requests' = [requests EXCEPT ![s] =
                             IF link[s] = "up" THEN @ \o Join(profile.devices)
                             ELSE @]
    /\ loaded' = [loaded EXCEPT ![s] = TRUE]
    /\ reply' = [reply EXCEPT ![s] = <<>>]
    /\ UNCHANGED <<parserVars, publisherVars, subscriberVars, forwarderVars,
                   link, allowed, rooms, wire, seen, access, faults>>

(* updateWithLiveData: nothing for a device that is not in the store or    *)
(* stands where the store has it.  A NaN is equal to nothing.              *)
Receive(s) ==
    /\ wire[s] # <<>>
    /\ wire' = [wire EXCEPT ![s] = Tail(@)]
    /\ LET d == Head(wire[s]).dev
           n == Head(wire[s]).n
       IN  /\ seen' = [seen EXCEPT ![s] = [@ EXCEPT ![d] = n]]
           /\ IF d \notin listed[s] \/ at[s][d] = Route[n]
              THEN UNCHANGED <<ts, path>>
              ELSE /\ ts' = [ts EXCEPT ![s] = [@ EXCEPT ![d] = n]]
                   /\ path' = IF Route[n] = NoFix THEN path
                              ELSE [path EXCEPT ![s] =
                                      [@ EXCEPT ![d] = Route[n]]]
    /\ UNCHANGED <<parserVars, publisherVars, subscriberVars, forwarderVars,
                   socketVars, loaded, reply, listed, at, access, faults>>

PathEnd(s, d) ==
    IF at[s][d] \in {Nowhere, NaN} THEN NaN ELSE path[s][d]

(* The global animator: a first step off the place, then the last one.     *)
Animate(s, d) ==
    /\ path[s][d] # Still
    /\ \/ /\ at[s][d] \in Places
          /\ at' = [at EXCEPT ![s] = [@ EXCEPT ![d] = Between]]
          /\ UNCHANGED path
       \/ /\ at' = [at EXCEPT ![s] = [@ EXCEPT ![d] = PathEnd(s, d)]]
          /\ path' = [path EXCEPT ![s] = [@ EXCEPT ![d] = Still]]
    /\ UNCHANGED <<parserVars, publisherVars, subscriberVars, forwarderVars,
                   socketVars, wire, loaded, reply, listed, ts, seen, access,
                   faults>>

(* A client that leaves rooms; the page itself never does.                 *)
EmitLeave(s) ==
    /\ link[s] = "up"
    /\ Fault("leave")
    /\ \E ids \in (SUBSET Devices) \ {{}} :
        requests' = [requests EXCEPT ![s] =
                       Append(@, [op |-> "leave", ids |-> ids])]
    /\ UNCHANGED <<parserVars, publisherVars, subscriberVars, forwarderVars,
                   link, allowed, rooms, wire, pageVars, access>>

ChangeRights ==
    /\ Fault("rights")
    /\ \E d \in Devices :
        access' = IF d \in access THEN access \ {d} ELSE access \cup {d}
    /\ UNCHANGED <<parserVars, publisherVars, subscriberVars, forwarderVars,
                   socketVars, wire, pageVars>>

Next ==
    \/ \E d \in Devices : Newer(d) \/ Send(d)
    \/ Take \/ Publish \/ PublishFails
    \/ SubscriberLost \/ Resubscribe
    \/ OnMessages \/ DrainStarts \/ Forward \/ DrainEnds
    \/ \E s \in Sockets :
        \/ Authenticate(s) \/ Refuse(s) \/ Connect(s) \/ Disconnect(s)
        \/ JoinDevices(s) \/ LeaveDevices(s)
        \/ Fetch(s) \/ Load(s) \/ Receive(s) \/ EmitLeave(s)
        \/ \E d \in Devices : Animate(s, d)
    \/ ChangeRights

Spec == Init /\ [][Next]_vars

(* What runs by itself: the handlers' sends, the publisher goroutine, the  *)
(* gateway's events and microtasks, and the events of a page.  Nothing is  *)
(* asked of new positions, requests, reconnections or animation frames.    *)
Fairness ==
    /\ \A d \in Devices : WF_vars(Send(d))
    /\ WF_vars(Take \/ Publish)
    /\ WF_vars(OnMessages)
    /\ WF_vars(DrainStarts \/ Forward \/ DrainEnds)
    /\ \A s \in Sockets : WF_vars(Receive(s))

FairSpec == Spec /\ Fairness

-----------------------------------------------------------------------------
ParserTypes ==
    /\ newest \in [Devices -> 0 .. MaxUpdates]
    /\ sending \in [Devices -> BOOLEAN]
    /\ \A d \in Devices : sending[d] => newest[d] > 0
    /\ saved \in [Devices -> 0 .. MaxUpdates]

FeedTypes ==
    /\ pubCh \in Seq(Update) /\ Len(pubCh) <= Buffer
    /\ inHand \in Seq(Update) /\ Len(inHand) <= 1
    /\ inbox \in Seq(Update) /\ q \in Seq(Update)
    /\ wire \in [Sockets -> Seq(Update)]

FlagTypes == {again, subscribed, draining, running} \subseteq BOOLEAN

CountTypes == micro \in Nat /\ count \in 0 .. MaxBatch

SocketTypes ==
    /\ link \in [Sockets -> {"down", "authenticated", "up", "refused"}]
    /\ allowed \in [Sockets -> SUBSET Devices]
    /\ rooms \in [Sockets -> SUBSET Devices]
    /\ requests \in [Sockets -> Seq(Request)]

PageTypes ==
    /\ loaded \in [Sockets -> BOOLEAN]
    /\ reply \in [Sockets -> Seq(Profile)]
    /\ \A s \in Sockets : Len(reply[s]) <= 1
    /\ listed \in [Sockets -> SUBSET Devices]
    /\ ts \in [Sockets -> [Devices -> 0 .. MaxUpdates]]
    /\ at \in [Sockets -> [Devices -> Position]]
    /\ path \in [Sockets -> [Devices -> Places \cup {Still}]]
    /\ seen \in [Sockets -> [Devices -> 0 .. MaxUpdates]]

(* Types; PubCh holds at most what it was made for, a drain forwards at    *)
(* most a batch, and at most the bounded number of faults occur.           *)
TypeOK ==
    /\ ParserTypes /\ FeedTypes /\ FlagTypes /\ CountTypes
    /\ SocketTypes /\ PageTypes
    /\ access \in SUBSET Devices
    /\ faults \in 0 .. MaxFaults

(* A page receives only updates of devices its user could see when the     *)
(* page's socket was last admitted, and its rooms stay within the limit,   *)
(* whatever it asks for, in whatever order it joins, leaves, loses its     *)
(* connection and comes back while rights change (socketio/server.ts).     *)
OnlyAllowed ==
    \A s \in Sockets :
        /\ rooms[s] \subseteq allowed[s]
        /\ Cardinality(rooms[s]) <= MaxRooms
        /\ \A i \in DOMAIN wire[s] : wire[s][i].dev \in allowed[s]

Sorted(feed) ==
    \A i, j \in 1 .. Len(feed) :
        i < j /\ feed[i].dev = feed[j].dev => feed[i].n <= feed[j].n

Bounded(feed, low, high) ==
    \A i \in 1 .. Len(feed) :
        feed[i].n \in low[feed[i].dev] .. high[feed[i].dev]

(* The updates of a device reach every page in the order in which the      *)
(* parser accepted them, though the publisher may send one twice, the      *)
(* forwarder cuts a burst into batches and both ends reconnect: nothing in *)
(* a later part of the path is newer than anything in an earlier one       *)
(* (redis_publisher.go, queue.forwarder.ts).                               *)
InOrder ==
    \A s \in Sockets :
        LET feed == wire[s] \o q \o inbox \o inHand \o pubCh
        IN  Sorted(feed) /\ Bounded(feed, seen[s], newest)

(* A burst is forwarded whole before the gateway turns to anything else:   *)
(* the queue is empty at every other event, so no drain is ever missing    *)
(* ("Still delivers all messages very quickly (within the same tick)",     *)
(* queue.forwarder.ts:19).                                                 *)
SameTick == Idle => q = <<>>

(* Where a marker comes to rest is where the newest update shown has it,   *)
(* although animations overlap, updates overtake animations and a reload   *)
(* replaces the objects they move.  A record without a fix leaves it where *)
(* it was, and a device that had no position gets none (deviceStore.ts).   *)
MarkerAgrees ==
    \A s \in Sockets : \A d \in listed[s] :
        path[s][d] = Still =>
            \/ at[s][d] \in {PositionOf(ts[s][d]), NaN}
            \/ PositionOf(ts[s][d]) = NoFix

(* A position accepted by the parser is shown, or a newer one, on every    *)
(* page that is in the device's room by then, whatever failed before and   *)
(* however full the buffers are, unless the marker stood at that position. *)
Settled(s, d) ==
    /\ faults = MaxFaults /\ ~again /\ link[s] = "up" /\ subscribed
    /\ d \in rooms[s] /\ d \in listed[s] /\ reply[s] = <<>>

UpdateShown ==
    \A s \in Sockets, d \in Devices, n \in 1 .. MaxUpdates :
        sending[d] /\ newest[d] = n /\ Settled(s, d)
            ~> \/ ts[s][d] >= n \/ at[s][d] = Route[n]
               \/ ~Settled(s, d)
=============================================================================
