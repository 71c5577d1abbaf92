---------------------------- MODULE Broadcaster ----------------------------
(***************************************************************************)
(* shared/livefeed Broadcaster: the frames of a feed are fanned out to     *)
(* every subscriber's small channel.  Publish stores the latest frame      *)
(* without the mutex and fans out under it; Subscribe and the unsubscribe  *)
(* function change the set of subscribers under it, but the channel is     *)
(* closed after it is released.  A frame is its number in the order of     *)
(* arrival; frames of different cameras are treated alike, as the code     *)
(* does.                                                                   *)
(***************************************************************************)
EXTENDS Naturals, Sequences, FiniteSets

CONSTANTS
    Publishers,  \* goroutines that publish: one reader, or the upscaler's workers
    Subs,        \* subscriptions, each with a channel of its own
    Free,        \* the mutex has no holder; no subscriber
    MaxFrame     \* bound: frames that arrive

ASSUME BroadcasterAssumption == Free \notin Publishers \cup Subs /\ MaxFrame \in Nat

Cap == 2         \* capacity of a subscriber's channel
NoFrame == 0

VARIABLES
    arrived,     \* how many frames have been handed to a publisher
    latest,      \* Broadcaster.latest
    subs,        \* Broadcaster.subs
    mu,          \* the publisher fanning out, or Free
    queue,       \* the channel of each subscription
    life,        \* "new", "open", "removed" (deleted from subs), "closed"
    pc,          \* "idle", "got" (has a frame), "stored", "fanout"
    frame,       \* the frame a publisher is publishing
    todo,        \* the subscribers its fan-out has still to serve
    full,        \* the subscriber whose channel its first select found full
    last,        \* the last frame each subscriber received
    joined,      \* the frame each subscriber was given by Subscribe
    panicked     \* a value was sent on a closed channel

bvars == <<arrived, latest, subs, mu, queue, life, pc, frame, todo, full,
           last, joined, panicked>>
publisherVars == <<arrived, latest, pc, frame, todo, full>>

Frames == 0..MaxFrame

BInit == /\ arrived = 0
         /\ latest = NoFrame
         /\ subs = {}
         /\ mu = Free
         /\ queue = [s \in Subs |-> <<>>]
         /\ life = [s \in Subs |-> "new"]
         /\ pc = [p \in Publishers |-> "idle"]
         /\ frame = [p \in Publishers |-> NoFrame]
         /\ todo = [p \in Publishers |-> {}]
         /\ full = [p \in Publishers |-> Free]
         /\ last = [s \in Subs |-> NoFrame]
         /\ joined = [s \in Subs |-> NoFrame]
         /\ panicked = FALSE

-----------------------------------------------------------------------------
(* Publishers *)

\* A publisher gets the next frame to process and publish.
GetFrame(p) ==
    /\ pc[p] = "idle"
    /\ arrived < MaxFrame
    /\ arrived' = arrived + 1
    /\ frame' = [frame EXCEPT ![p] = arrived + 1]
    /\ pc' = [pc EXCEPT ![p] = "got"]
    /\ UNCHANGED <<latest, subs, mu, queue, life, todo, full, last, joined, panicked>>

\* Publish, up to the lock: the latest frame is stored first.
StoreLatest(p) ==
    /\ pc[p] = "got"
    /\ latest' = frame[p]
    /\ pc' = [pc EXCEPT ![p] = "stored"]
    /\ UNCHANGED <<arrived, subs, mu, queue, life, frame, todo, full, last, joined, panicked>>

\* Mutant: the subscribers are copied under the mutex and served without it.
BeginUnlocked(p) ==
    /\ pc[p] = "stored" /\ mu = Free
    /\ todo' = [todo EXCEPT ![p] = subs]
    /\ pc' = [pc EXCEPT ![p] = "fanout"]
    /\ UNCHANGED <<arrived, latest, subs, mu, queue, life, frame, full, last, joined, panicked>>

BeginFanOut(p) ==
    /\ pc[p] = "stored"
    /\ mu = Free
    /\ mu' = p
    /\ todo' = [todo EXCEPT ![p] = subs]
    /\ pc' = [pc EXCEPT ![p] = "fanout"]
    /\ UNCHANGED <<arrived, latest, subs, queue, life, frame, full, last, joined, panicked>>

\* What the mutants of SendTo leave alone.
SendFrame == /\ panicked' = panicked
             /\ UNCHANGED <<arrived, latest, subs, mu, life, pc, frame, last, joined>>

\* Mutant: no return after the first select.
SendToTwice(p, s) ==
    /\ pc[p] = "fanout" /\ s \in todo[p] /\ full[p] \in {Free, s}
    /\ queue' = [queue EXCEPT ![s] = Append(IF Len(@) < Cap THEN @ ELSE Tail(@), frame[p])]
    /\ full' = [full EXCEPT ![p] = IF @ = Free THEN s ELSE Free]
    /\ todo' = IF full[p] = s THEN [todo EXCEPT ![p] = @ \ {s}] ELSE todo
    /\ SendFrame

\* Mutant: a full channel costs the newest frame.
SendToDropsNewest(p, s) ==
    /\ pc[p] = "fanout" /\ s \in todo[p]
    /\ queue' = [queue EXCEPT ![s] = IF Len(@) < Cap THEN Append(@, frame[p]) ELSE @]
    /\ todo' = [todo EXCEPT ![p] = @ \ {s}]
    /\ full' = full /\ SendFrame

\* dropchan.Send on the channel of s.  Its second and third select are one
\* step: with one sender they are, by theorem SendIsKeepNewest of
\* DropChanProofs, and mu lets one publisher send at a time.
SendTo(p, s) ==
    /\ pc[p] = "fanout"
    /\ s \in todo[p]
    /\ full[p] \in {Free, s}
    /\ \/ /\ full[p] = Free /\ Len(queue[s]) < Cap
          /\ queue' = [queue EXCEPT ![s] = Append(@, frame[p])]
          /\ todo' = [todo EXCEPT ![p] = @ \ {s}]
          /\ full' = full
       \/ /\ full[p] = Free /\ Len(queue[s]) >= Cap
          /\ full' = [full EXCEPT ![p] = s]
          /\ UNCHANGED <<queue, todo>>
       \/ /\ full[p] = s
          /\ queue' = [queue EXCEPT ![s] =
                Append(IF @ = <<>> THEN @ ELSE Tail(@), frame[p])]
          /\ todo' = [todo EXCEPT ![p] = @ \ {s}]
          /\ full' = [full EXCEPT ![p] = Free]
    /\ panicked' = (panicked \/ life[s] = "closed")
    /\ UNCHANGED <<arrived, latest, subs, mu, life, pc, frame, last, joined>>

EndFanOut(p) ==
    /\ pc[p] = "fanout"
    /\ todo[p] = {}
    /\ mu' = Free
    /\ pc' = [pc EXCEPT ![p] = "idle"]
    /\ UNCHANGED <<arrived, latest, subs, queue, life, frame, todo, full, last, joined, panicked>>

Publish(p) == StoreLatest(p) \/ BeginFanOut(p) \/ EndFanOut(p) \/ \E s \in Subs : SendTo(p, s)

-----------------------------------------------------------------------------
(* Subscribers *)

\* Subscribe: registered, and given the latest frame, under the mutex.
Subscribe(s) ==
    /\ life[s] = "new"
    /\ mu = Free
    /\ life' = [life EXCEPT ![s] = "open"]
    /\ subs' = subs \cup {s}
    /\ queue' = [queue EXCEPT ![s] = IF latest = NoFrame THEN <<>> ELSE <<latest>>]
    /\ joined' = [joined EXCEPT ![s] = latest]
    /\ UNCHANGED <<mu, last, panicked>>
    /\ UNCHANGED publisherVars

Receive(s) ==
    /\ life[s] = "open"
    /\ queue[s] # <<>>
    /\ last' = [last EXCEPT ![s] = Head(queue[s])]
    /\ queue' = [queue EXCEPT ![s] = Tail(@)]
    /\ UNCHANGED <<subs, mu, life, joined, panicked>>
    /\ UNCHANGED publisherVars

\* The unsubscribe function: deleted under the mutex, closed after it.
Remove(s) ==
    /\ life[s] = "open"
    /\ mu = Free
    /\ subs' = subs \ {s}
    /\ life' = [life EXCEPT ![s] = "removed"]
    /\ UNCHANGED <<mu, queue, last, joined, panicked>>
    /\ UNCHANGED publisherVars

Close(s) ==
    /\ life[s] = "removed"
    /\ life' = [life EXCEPT ![s] = "closed"]
    /\ UNCHANGED <<subs, mu, queue, last, joined, panicked>>
    /\ UNCHANGED publisherVars

BNext == \/ \E p \in Publishers : GetFrame(p) \/ Publish(p)
         \/ \E s \in Subs : Subscribe(s) \/ Receive(s) \/ Remove(s) \/ Close(s)

\* A goroutine inside Publish runs on.  Subscribers read when they like, or never.
BSpec == BInit /\ [][BNext]_bvars /\ \A p \in Publishers : WF_bvars(Publish(p))

-----------------------------------------------------------------------------
\* The mutex is free or held by one publisher (Broadcaster.mu), every subscriber's
\* channel holds at most its buffer of two, and a publisher is at one step of Publish
\* (broadcaster.go:17-57).
BTypeOK == /\ arrived \in Frames /\ latest \in Frames
           /\ subs \subseteq Subs
           /\ mu \in Publishers \cup {Free}
           /\ queue \in [Subs -> Seq(Frames)]
           /\ \A s \in Subs : Len(queue[s]) <= Cap
           /\ life \in [Subs -> {"new", "open", "removed", "closed"}]
           /\ pc \in [Publishers -> {"idle", "got", "stored", "fanout"}]
           /\ frame \in [Publishers -> Frames]
           /\ todo \in [Publishers -> SUBSET Subs]
           /\ full \in [Publishers -> Subs \cup {Free}]
           /\ last \in [Subs -> Frames] /\ joined \in [Subs -> Frames]
           /\ panicked \in BOOLEAN

\* "Sending on a closed channel panics" (dropchan.go:46): although a channel
\* is closed outside the mutex, no fan-out still has it in hand.
NoSendOnClosed == ~panicked

Newest(s) == IF queue[s] = <<>> THEN last[s] ELSE queue[s][Len(queue[s])]

\* "subscribers always hold the freshest data" (broadcaster.go:27-29): when
\* no Publish is under way, the newest frame of every subscriber is latest.
CaughtUp == (\A p \in Publishers : pc[p] \in {"idle", "got"}) =>
                \A s \in subs : Newest(s) = latest

\* With a sole publisher a subscriber sees the frames in the order of arrival
\* and none twice, but for the one Subscribe gave it: a Publish that has
\* stored its frame and not yet taken the mutex delivers it again.
SolePublisherInOrder ==
    \A s \in Subs :
        LET seen == <<last[s]>> \o queue[s]
        IN  \A i, j \in 1..Len(seen) : i < j =>
                seen[i] < seen[j] \/ (seen[i] = seen[j] /\ seen[i] = joined[s])
=============================================================================
