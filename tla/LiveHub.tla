------------------------------ MODULE LiveHub ------------------------------
(***************************************************************************)
(* shared/livefeed Hub, Registry and the HTTP requests that read them, for *)
(* one camera.  The first frame, or the first stream request, creates its  *)
(* hub, which is never removed.  Push stores the frame, the time and the   *)
(* online flag in three atomics one after the other and then fans the      *)
(* frame out under the mutex; CheckLiveness, MarkOffline and the listing   *)
(* look at the same atomics without it.  Cameras do not affect one another.*)
(***************************************************************************)
EXTENDS Naturals, Sequences

CONSTANTS
    Publishers,  \* goroutines that push: one reader, or the upscaler's workers
    Viewers,     \* stream requests of browsers
    Free,
    SubBuf,      \* subBufSize
    CreateOnSubscribe, \* true in camera-web-api, false in the proxies
    MaxFrame,    \* bound: frames pushed
    MaxOffline   \* bound: OFFLINE messages and lost connections

ASSUME HubAssumption == /\ Free \notin Publishers
                        /\ CreateOnSubscribe \in BOOLEAN
                        /\ SubBuf \in Nat \ {0} /\ MaxFrame \in Nat /\ MaxOffline \in Nat

NoFrame == 0

VARIABLES
    known,       \* Registry.hubs has the camera
    listed,      \* GET /cameras has shown the camera as online to somebody
    arrived,     \* frames handed to a publisher
    latest,      \* Hub.latest
    lastSeen,    \* Hub.lastSeen: "never", "recent", "old" (over offlineThreshold)
    online,      \* Hub.online
    mu,          \* the publisher fanning out, or Free
    pc, frame,   \* of each publisher: the atomic it sets next, its frame
    todo,        \* viewers its fan-out has still to serve
    check,       \* the liveness goroutine: "idle", "online" (it was), "stale"
    offlines,    \* calls of MarkOffline from outside
    life,        \* of each viewer: "new", "open", "removed", "closed"
    queue,       \* its channel
    panicked     \* a value was sent on a closed channel

vars == <<known, listed, arrived, latest, lastSeen, online, mu, pc, frame, todo, check, offlines,
          life, queue, panicked>>
viewerVars == <<life, queue>>
registryVars == <<known, listed>>

Init == /\ known = FALSE /\ listed = FALSE /\ arrived = 0 /\ latest = NoFrame /\ lastSeen = "never" /\ online = FALSE
        /\ mu = Free
        /\ pc = [p \in Publishers |-> "idle"] /\ frame = [p \in Publishers |-> NoFrame]
        /\ todo = [p \in Publishers |-> {}]
        /\ check = "idle" /\ offlines = 0
        /\ life = [v \in Viewers |-> "new"] /\ queue = [v \in Viewers |-> <<>>]
        /\ panicked = FALSE

Goto(p, step) == pc' = [pc EXCEPT ![p] = step]
Open == {v \in Viewers : life[v] = "open"}

-----------------------------------------------------------------------------
(* Push *)

\* Push of the registry is called for a camera without a hub: it creates one.
Create(p) ==
    /\ ~known /\ pc[p] = "idle" /\ arrived < MaxFrame
    /\ known' = TRUE
    /\ arrived' = arrived + 1
    /\ frame' = [frame EXCEPT ![p] = arrived + 1]
    /\ Goto(p, "created")
    /\ UNCHANGED <<listed, latest, lastSeen, online, mu, todo, check, offlines, viewerVars, panicked>>

\* The first step of Push of the hub stores the frame.
StoreLatest(p) ==
    /\ \/ /\ pc[p] = "idle" /\ known /\ arrived < MaxFrame
          /\ arrived' = arrived + 1 /\ frame' = [frame EXCEPT ![p] = arrived + 1]
       \/ pc[p] = "created" /\ UNCHANGED <<arrived, frame>>
    /\ latest' = frame'[p]
    /\ Goto(p, "seen")
    /\ UNCHANGED <<registryVars, lastSeen, online, mu, todo, check, offlines, viewerVars, panicked>>

\* Mutant: the online flag goes up before the time is stored.
OnlineFirst(p) ==
    /\ \/ pc[p] = "seen" /\ online' = TRUE /\ lastSeen' = lastSeen /\ Goto(p, "online")
       \/ pc[p] = "online" /\ lastSeen' = "recent" /\ online' = online /\ Goto(p, "lock")
    /\ UNCHANGED <<registryVars, arrived, latest, mu, frame, todo, check, offlines, viewerVars, panicked>>

\* The time, then the flag.
SetOnline(p) ==
    /\ \/ pc[p] = "seen" /\ lastSeen' = "recent" /\ online' = online /\ Goto(p, "online")
       \/ pc[p] = "online" /\ online' = TRUE /\ lastSeen' = lastSeen /\ Goto(p, "lock")
    /\ UNCHANGED <<registryVars, arrived, latest, mu, frame, todo, check, offlines, viewerVars, panicked>>

BeginFanOut(p) ==
    /\ pc[p] = "lock" /\ mu = Free
    /\ mu' = p
    /\ todo' = [todo EXCEPT ![p] = Open]
    /\ Goto(p, "fanout")
    /\ UNCHANGED <<registryVars, arrived, latest, lastSeen, online, frame, check, offlines, viewerVars, panicked>>

\* The frame is sent to a viewer with room, and dropped for one without.
PushTo(p, v) ==
    /\ pc[p] = "fanout" /\ v \in todo[p]
    /\ queue' = IF Len(queue[v]) < SubBuf
                THEN [queue EXCEPT ![v] = Append(@, frame[p])] ELSE queue
    /\ todo' = [todo EXCEPT ![p] = @ \ {v}]
    /\ panicked' = (panicked \/ life[v] = "closed")
    /\ UNCHANGED <<registryVars, arrived, latest, lastSeen, online, mu, pc, frame, check, offlines, life>>

EndFanOut(p) ==
    /\ pc[p] = "fanout" /\ todo[p] = {}
    /\ mu' = Free
    /\ Goto(p, "idle")
    /\ UNCHANGED <<registryVars, arrived, latest, lastSeen, online, frame, todo, check, offlines,
                   viewerVars, panicked>>

Push(p) == (pc[p] = "created" /\ StoreLatest(p)) \/ SetOnline(p) \/ BeginFanOut(p) \/ EndFanOut(p) \/ \E v \in Viewers : PushTo(p, v)

-----------------------------------------------------------------------------
(* Liveness *)

\* offlineThreshold passes without a frame.
Silence ==
    /\ lastSeen = "recent"
    /\ lastSeen' = "old"
    /\ UNCHANGED <<registryVars, arrived, latest, online, mu, pc, frame, todo, check, offlines,
                   viewerVars, panicked>>

\* IsStale, at a tick: it loads the flag, and then the time.
CheckStale ==
    /\ \/ check = "idle" /\ online /\ check' = "online"
       \/ check = "online" /\ check' = IF lastSeen = "old" THEN "stale" ELSE "idle"
    /\ UNCHANGED <<registryVars, arrived, latest, lastSeen, online, mu, pc, frame, todo, offlines,
                   viewerVars, panicked>>

\* MarkOffline of CheckLiveness.
MarkStale ==
    /\ check = "stale"
    /\ online' = FALSE
    /\ check' = "idle"
    /\ UNCHANGED <<registryVars, arrived, latest, lastSeen, mu, pc, frame, todo, offlines, viewerVars, panicked>>

\* Mutant: the time is forgotten with the flag.
MarkOfflineForgets ==
    /\ offlines < MaxOffline
    /\ offlines' = offlines + 1
    /\ online' = FALSE /\ lastSeen' = "never"
    /\ UNCHANGED <<registryVars, arrived, latest, mu, pc, frame, todo, check, viewerVars, panicked>>

\* MarkOffline or MarkAllOffline, for an OFFLINE message or a lost connection.
\* The frames of a worker pool may be pushed after it.
MarkOffline ==
    /\ known /\ offlines < MaxOffline
    /\ offlines' = offlines + 1
    /\ online' = FALSE
    /\ UNCHANGED <<registryVars, arrived, latest, lastSeen, mu, pc, frame, todo, check, viewerVars, panicked>>

-----------------------------------------------------------------------------
(* Requests *)

\* handleCameras reads the flag, and says the camera is online.
ListOnline ==
    /\ known /\ online
    /\ listed' = TRUE
    /\ UNCHANGED <<known, arrived, latest, lastSeen, online, mu, pc, frame, todo, check, offlines,
                   viewerVars, panicked>>

\* What handleSnapshot answers.
Snapshot == IF ~known THEN "404" ELSE IF latest = NoFrame THEN "503" ELSE "frame"

\* handleStream for a camera without a hub: it creates one, or answers 404.
Unknown(v) ==
    /\ ~known /\ life[v] = "new"
    /\ IF CreateOnSubscribe THEN known' = TRUE /\ life' = life
                            ELSE known' = known /\ life' = [life EXCEPT ![v] = "closed"]
    /\ UNCHANGED <<listed, arrived, latest, lastSeen, online, mu, pc, frame, todo, check, offlines,
                   queue, panicked>>

\* It subscribes to the hub.
Subscribe(v) ==
    /\ life[v] = "new" /\ known /\ mu = Free
    /\ life' = [life EXCEPT ![v] = "open"]
    /\ queue' = [queue EXCEPT ![v] = IF latest = NoFrame THEN <<>> ELSE <<latest>>]
    /\ UNCHANGED <<registryVars, arrived, latest, lastSeen, online, mu, pc, frame, todo, check, offlines, panicked>>

Take(v) ==
    /\ life[v] = "open" /\ queue[v] # <<>>
    /\ queue' = [queue EXCEPT ![v] = Tail(@)]
    /\ UNCHANGED <<registryVars, arrived, latest, lastSeen, online, mu, pc, frame, todo, check, offlines,
                   life, panicked>>

\* Mutant: the channel is closed before it is deleted.
CloseFirst(v) ==
    /\ life[v] = "open"
    /\ life' = [life EXCEPT ![v] = "closed"]
    /\ UNCHANGED <<registryVars, arrived, latest, lastSeen, online, mu, pc, frame, todo, check, offlines,
                   queue, panicked>>

\* Unsubscribe: deleted under the mutex, closed after it.
Unsubscribe(v) ==
    /\ \/ life[v] = "open" /\ mu = Free /\ life' = [life EXCEPT ![v] = "removed"]
       \/ life[v] = "removed" /\ life' = [life EXCEPT ![v] = "closed"]
    /\ UNCHANGED <<registryVars, arrived, latest, lastSeen, online, mu, pc, frame, todo, check, offlines,
                   queue, panicked>>

Next == \/ \E p \in Publishers : Create(p) \/ StoreLatest(p) \/ Push(p)
        \/ Silence \/ CheckStale \/ MarkStale \/ MarkOffline \/ ListOnline
        \/ \E v \in Viewers : Unknown(v) \/ Subscribe(v) \/ Take(v) \/ Unsubscribe(v)

Spec == Init /\ [][Next]_vars

\* A goroutine inside Push runs on, time passes, and the ticker ticks.
FairSpec == /\ Spec
            /\ \A p \in Publishers : WF_vars(Push(p))
            /\ WF_vars(Silence) /\ WF_vars(CheckStale \/ MarkStale)

-----------------------------------------------------------------------------
\* The hub's mutex is free or held by one publisher, a viewer's channel stays within
\* its buffer, and each Push and the look of CheckLiveness is at one of its steps
\* (hub.go:43-107, registry.go:50-60).
TypeOK == /\ known \in BOOLEAN /\ listed \in BOOLEAN /\ arrived \in 0..MaxFrame /\ latest \in 0..MaxFrame
          /\ lastSeen \in {"never", "recent", "old"} /\ online \in BOOLEAN
          /\ mu \in Publishers \cup {Free}
          /\ pc \in [Publishers -> {"idle", "created", "seen", "online", "lock", "fanout"}]
          /\ frame \in [Publishers -> 0..MaxFrame]
          /\ todo \in [Publishers -> SUBSET Viewers]
          /\ check \in {"idle", "online", "stale"} /\ offlines \in 0..MaxOffline
          /\ life \in [Viewers -> {"new", "open", "removed", "closed"}]
          /\ queue \in [Viewers -> Seq(0..MaxFrame)] /\ \A v \in Viewers : Len(queue[v]) <= SubBuf
          /\ panicked \in BOOLEAN

\* A camera that is shown as online has a frame to show and a time since when
\* it may be silent; without the time IsStale would never find it silent
\* (hub.go:69-71 and 99).
OnlineIsBacked == online => latest # NoFrame /\ lastSeen # "never"

\* A browser that was told a camera is online gets a picture when it asks for the snapshot,
\* then and later, although the two requests look at different atomics (httpapi.go:80-109).
ListedIsShown == listed => Snapshot = "frame"

\* In whatever order Push, the liveness ticker and the requests meet, the hub stays within its
\* buffers, and never shows as online a camera that has no picture or could not go offline
\* again (hub.go:43-107, registry.go:25-140).
HubIsSound == TypeOK /\ OnlineIsBacked /\ ListedIsShown

\* "for every camera seen since startup" (registry.go:83): a listed camera has sent something.
OnlySeenAreListed == known => arrived > 0

\* No Push sends on a channel that Unsubscribe has closed (hub.go:59-64).
NoSendOnClosed == ~panicked

\* A camera that has gone silent is offline in the end, for good, also when a
\* frame was still pushed after the connection was found lost, or while the
\* liveness loop was looking (hub.go:94-100, registry.go:53-59).
SilentGoesOffline == <>[]~online

\* A browser that does not read cannot hold up the camera (hub.go:67).
PushEnds == \A p \in Publishers : pc[p] # "idle" ~> pc[p] = "idle"

\* The two waits of the hub end: no viewer holds up a Push, and a camera that went silent is
\* reported offline (hub.go:67-107, registry.go:50-60).
Progress == SilentGoesOffline /\ PushEnds

\* "offlineThreshold is how long a camera may stay silent after its last frame
\* before it is reported as offline" (hub.go:9-10).
OfflineOnlyWhenSilent == [][MarkStale => lastSeen = "old"]_vars

\* "never block the producer, and when the queue is full throw away the oldest
\* item rather than the newest", "the one queueing policy every live-video path
\* in this repository needs" (dropchan.go:1-3): when no Push is under way, the
\* newest frame waiting for a viewer is the latest.
ViewersHoldLatest ==
    (\A p \in Publishers : pc[p] = "idle") =>
        \A v \in Open : queue[v] # <<>> => queue[v][Len(queue[v])] = latest
=============================================================================
