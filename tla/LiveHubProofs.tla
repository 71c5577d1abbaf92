--------------------------- MODULE LiveHubProofs ---------------------------
(***************************************************************************)
(* Theorems on the hub of a camera, for any number of publishers, viewers  *)
(* and frames and any size of a viewer's queue; and, at the end, on the    *)
(* cache and the feed of ffmpeg-streamer (module FFmpegStreamer).          *)
(***************************************************************************)
EXTENDS LiveHub, FFmpegStreamer, TLAPS

USE HubAssumption DEF NoFrame

(***************************************************************************)
(* The three atomics are set in an order: who is about to set the next one *)
(* has set those before it, and none is ever taken back but the flag.      *)
(***************************************************************************)
InOrder ==
    /\ latest # NoFrame => known
    /\ \A p \in Publishers :
          /\ pc[p] # "idle" => known /\ frame[p] # NoFrame
          /\ pc[p] \in {"seen", "online", "lock", "fanout"} => latest # NoFrame
          /\ pc[p] \in {"online", "lock", "fanout"} => lastSeen # "never"

Backed == TypeOK /\ InOrder /\ OnlineIsBacked /\ (listed => known /\ latest # NoFrame)

\* A fan-out holds the mutex and has only open viewers in hand.
FanOutHoldsMutex == \A p \in Publishers : pc[p] = "fanout" => mu = p /\ todo[p] \subseteq Open

Safe == Backed /\ FanOutHoldsMutex /\ NoSendOnClosed

-----------------------------------------------------------------------------
\* A frame in the hand of a publisher keeps a queue well typed.
LEMMA QueueType ==
    ASSUME NEW s \in Seq(0..MaxFrame), NEW f \in 0..MaxFrame, Len(s) <= SubBuf
    PROVE  /\ Len(s) < SubBuf => Append(s, f) \in Seq(0..MaxFrame) /\ Len(Append(s, f)) <= SubBuf
           /\ s # <<>> => Tail(s) \in Seq(0..MaxFrame) /\ Len(Tail(s)) <= SubBuf
  OBVIOUS

\* Nothing has been seen, and no viewer is there.
LEMMA SafeInit == Init => Safe
<1> SUFFICES ASSUME Init PROVE Safe
  OBVIOUS
<1> USE DEF Init
<1>1. queue \in [Viewers -> Seq(0..MaxFrame)] /\ \A v \in Viewers : Len(queue[v]) <= SubBuf
  OBVIOUS
<1>2. TypeOK
  <2>1. offlines \in 0..MaxOffline
    OBVIOUS
  <2>2. latest \in 0..MaxFrame
    OBVIOUS
  <2>4. arrived \in 0..MaxFrame
    OBVIOUS
  <2>3. frame \in [Publishers -> 0..MaxFrame]
    OBVIOUS
  <2>5. life \in [Viewers -> {"new", "open", "removed", "closed"}] /\ todo \in [Publishers -> SUBSET Viewers]
    OBVIOUS
  <2>6. pc \in [Publishers -> {"idle", "created", "seen", "online", "lock", "fanout"}]
    OBVIOUS
  <2> QED BY <1>1, <2>1, <2>2, <2>3, <2>4, <2>5, <2>6 DEF TypeOK
<1>3. InOrder /\ OnlineIsBacked /\ FanOutHoldsMutex /\ NoSendOnClosed /\ ~listed
  BY DEF InOrder, OnlineIsBacked, FanOutHoldsMutex, NoSendOnClosed
<1> QED BY <1>2, <1>3 DEF Safe, Backed

\* The types, step by step (hub.go:43-107, registry.go:37-128, httpapi.go:80-160).
LEMMA TypeStep == TypeOK /\ [Next]_vars => TypeOK'
<1> SUFFICES ASSUME TypeOK, [Next]_vars PROVE TypeOK'
  OBVIOUS
<1> USE DEF TypeOK, viewerVars, registryVars, Goto
<1>1. ASSUME NEW p \in Publishers, Create(p) PROVE TypeOK'
  BY <1>1 DEF Create
<1>2. ASSUME NEW p \in Publishers, StoreLatest(p) PROVE TypeOK'
  <2>1. arrived' \in 0..MaxFrame /\ frame' \in [Publishers -> 0..MaxFrame]
    BY <1>2 DEF StoreLatest
  <2>2. latest' \in 0..MaxFrame
    BY <1>2, <2>1 DEF StoreLatest
  <2> QED BY <1>2, <2>1, <2>2 DEF StoreLatest
<1>3. ASSUME NEW p \in Publishers, SetOnline(p) PROVE TypeOK'
  BY <1>3 DEF SetOnline
<1>4. ASSUME NEW p \in Publishers, BeginFanOut(p) PROVE TypeOK'
  BY <1>4 DEF BeginFanOut, Open
<1>5. ASSUME NEW p \in Publishers, NEW v \in Viewers, PushTo(p, v) PROVE TypeOK'
  <2>1. queue' \in [Viewers -> Seq(0..MaxFrame)] /\ \A u \in Viewers : Len(queue'[u]) <= SubBuf
    <3>1. CASE Len(queue[v]) < SubBuf
      <4>1. queue' = [queue EXCEPT ![v] = Append(queue[v], frame[p])]
        BY <1>5, <3>1 DEF PushTo
      <4>2. Append(queue[v], frame[p]) \in Seq(0..MaxFrame) /\ Len(Append(queue[v], frame[p])) <= SubBuf
        BY <3>1, QueueType
      <4> QED BY <4>1, <4>2
    <3>2. CASE ~(Len(queue[v]) < SubBuf)
      BY <1>5, <3>2 DEF PushTo
    <3> QED BY <3>1, <3>2
  <2>2. todo' \in [Publishers -> SUBSET Viewers] /\ panicked' \in BOOLEAN
    BY <1>5 DEF PushTo
  <2> QED BY <1>5, <2>1, <2>2 DEF PushTo
<1>6. ASSUME NEW p \in Publishers, EndFanOut(p) PROVE TypeOK'
  BY <1>6 DEF EndFanOut
<1>7. ASSUME Silence \/ CheckStale \/ MarkStale \/ MarkOffline \/ ListOnline PROVE TypeOK'
  <2>1. CASE Silence
    BY <2>1 DEF Silence
  <2>2. CASE CheckStale
    BY <2>2 DEF CheckStale
  <2>3. CASE MarkStale
    BY <2>3 DEF MarkStale
  <2>4. CASE MarkOffline
    <3>1. offlines' \in 0..MaxOffline
      BY <2>4 DEF MarkOffline
    <3> QED BY <2>4, <3>1 DEF MarkOffline
  <2>5. CASE ListOnline
    BY <2>5 DEF ListOnline
  <2> QED BY <1>7, <2>1, <2>2, <2>3, <2>4, <2>5
<1>8. ASSUME NEW v \in Viewers, Unknown(v) PROVE TypeOK'
  BY <1>8 DEF Unknown
<1>9. ASSUME NEW v \in Viewers, Subscribe(v) PROVE TypeOK'
  <2> DEFINE q == IF latest = NoFrame THEN <<>> ELSE <<latest>>
  <2>1. q \in Seq(0..MaxFrame) /\ Len(q) <= SubBuf
    <3>1. CASE latest = NoFrame
      BY <3>1
    <3>2. CASE latest # NoFrame
      <4>1. <<latest>> \in Seq(0..MaxFrame) /\ Len(<<latest>>) = 1
        OBVIOUS
      <4> QED BY <3>2, <4>1
    <3> QED BY <3>1, <3>2
  <2>2. queue' = [queue EXCEPT ![v] = q]
    BY <1>9 DEF Subscribe
  <2> HIDE DEF q
  <2>3. queue' \in [Viewers -> Seq(0..MaxFrame)] /\ \A u \in Viewers : Len(queue'[u]) <= SubBuf
    BY <2>1, <2>2
  <2> QED BY <1>9, <2>3 DEF Subscribe
<1>10. ASSUME NEW v \in Viewers, Take(v) PROVE TypeOK'
  <2>1. Tail(queue[v]) \in Seq(0..MaxFrame) /\ Len(Tail(queue[v])) <= SubBuf
    BY <1>10, QueueType DEF Take
  <2>2. queue' = [queue EXCEPT ![v] = Tail(queue[v])]
    BY <1>10 DEF Take
  <2>3. queue' \in [Viewers -> Seq(0..MaxFrame)] /\ \A u \in Viewers : Len(queue'[u]) <= SubBuf
    BY <2>1, <2>2
  <2> QED BY <1>10, <2>3 DEF Take
<1>11. ASSUME NEW v \in Viewers, Unsubscribe(v) PROVE TypeOK'
  BY <1>11 DEF Unsubscribe
<1>12. CASE UNCHANGED vars
  BY <1>12 DEF vars
<1> QED BY <1>1, <1>2, <1>3, <1>4, <1>5, <1>6, <1>7, <1>8, <1>9, <1>10, <1>11, <1>12 DEF Next, Push

\* The flag goes up behind a frame and a time, and the listing behind the flag.
LEMMA BackedStep == Backed /\ [Next]_vars => Backed'
<1> SUFFICES ASSUME Backed, [Next]_vars PROVE Backed'
  OBVIOUS
<1> DEFINE Order == InOrder /\ OnlineIsBacked /\ (listed => known /\ latest # NoFrame)
<1>0. TypeOK /\ TypeOK'
  BY TypeStep DEF Backed
<1> SUFFICES Order'
  BY <1>0 DEF Backed
<1> USE <1>0 DEF TypeOK, Backed, InOrder, OnlineIsBacked, viewerVars, registryVars, Goto
<1>1. ASSUME NEW p \in Publishers, Create(p) PROVE Order'
  BY <1>1 DEF Create
<1>2. ASSUME NEW p \in Publishers, StoreLatest(p) PROVE Order'
  <2>1. known /\ known' /\ frame'[p] # NoFrame /\ latest' # NoFrame
    BY <1>2 DEF StoreLatest
  <2>2. \A q \in Publishers \ {p} : frame'[q] = frame[q] /\ pc'[q] = pc[q]
    BY <1>2 DEF StoreLatest
  <2>3. pc'[p] = "seen" /\ UNCHANGED <<listed, lastSeen, online>>
    BY <1>2 DEF StoreLatest
  <2> QED BY <2>1, <2>2, <2>3
<1>3. ASSUME NEW p \in Publishers, SetOnline(p) PROVE Order'
  BY <1>3 DEF SetOnline
<1>4. ASSUME NEW p \in Publishers, BeginFanOut(p) PROVE Order'
  BY <1>4 DEF BeginFanOut
<1>5. ASSUME NEW p \in Publishers, NEW v \in Viewers, PushTo(p, v) PROVE Order'
  BY <1>5 DEF PushTo
<1>6. ASSUME NEW p \in Publishers, EndFanOut(p) PROVE Order'
  BY <1>6 DEF EndFanOut
<1>7. ASSUME Silence \/ CheckStale \/ MarkStale \/ MarkOffline \/ ListOnline PROVE Order'
  BY <1>7 DEF Silence, CheckStale, MarkStale, MarkOffline, ListOnline
<1>8. ASSUME NEW v \in Viewers, Unknown(v) \/ Subscribe(v) \/ Take(v) \/ Unsubscribe(v) PROVE Order'
  BY <1>8 DEF Unknown, Subscribe, Take, Unsubscribe
<1>9. CASE UNCHANGED vars
  BY <1>9 DEF vars
<1> QED BY <1>1, <1>2, <1>3, <1>4, <1>5, <1>6, <1>7, <1>8, <1>9 DEF Next, Push

\* A viewer is removed under the mutex, and closed after that: no fan-out can have it in hand.
LEMMA MutexStep == Safe /\ [Next]_vars => (FanOutHoldsMutex /\ NoSendOnClosed)'
<1> SUFFICES ASSUME Safe, [Next]_vars PROVE (FanOutHoldsMutex /\ NoSendOnClosed)'
  OBVIOUS
<1> DEFINE Goal == FanOutHoldsMutex /\ NoSendOnClosed
<1> USE DEF Safe, Backed, TypeOK, FanOutHoldsMutex, NoSendOnClosed, Open, viewerVars, registryVars, Goto
<1>1. ASSUME NEW p \in Publishers, Create(p) PROVE Goal'
  BY <1>1 DEF Create
<1>2. ASSUME NEW p \in Publishers, StoreLatest(p) PROVE Goal'
  BY <1>2 DEF StoreLatest
<1>3. ASSUME NEW p \in Publishers, SetOnline(p) PROVE Goal'
  BY <1>3 DEF SetOnline
<1>4. ASSUME NEW p \in Publishers, BeginFanOut(p) PROVE Goal'
  BY <1>4 DEF BeginFanOut
<1>5. ASSUME NEW p \in Publishers, NEW v \in Viewers, PushTo(p, v) PROVE Goal'
  <2>1. \A q \in Publishers : todo'[q] \subseteq todo[q]
    BY <1>5 DEF PushTo
  <2>2. life[v] = "open" /\ UNCHANGED <<pc, mu, life>>
    BY <1>5 DEF PushTo
  <2>3. ~panicked'
    BY <1>5, <2>2 DEF PushTo
  <2> QED BY <2>1, <2>2, <2>3
<1>6. ASSUME NEW p \in Publishers, EndFanOut(p) PROVE Goal'
  BY <1>6 DEF EndFanOut
<1>7. ASSUME Silence \/ CheckStale \/ MarkStale \/ MarkOffline \/ ListOnline PROVE Goal'
  BY <1>7 DEF Silence, CheckStale, MarkStale, MarkOffline, ListOnline
<1>8. ASSUME NEW v \in Viewers, Unknown(v) \/ Subscribe(v) \/ Take(v) \/ Unsubscribe(v) PROVE Goal'
  <2>1. UNCHANGED <<pc, mu, todo, panicked>>
    BY <1>8 DEF Unknown, Subscribe, Take, Unsubscribe
  <2>2. ASSUME NEW u \in Viewers, life[u] = "open", life'[u] # "open" PROVE mu = Free
    BY <1>8, <2>2 DEF Unknown, Subscribe, Take, Unsubscribe
  <2> QED BY <2>1, <2>2
<1>9. CASE UNCHANGED vars
  BY <1>9 DEF vars
<1> QED BY <1>1, <1>2, <1>3, <1>4, <1>5, <1>6, <1>7, <1>8, <1>9 DEF Next, Push

-----------------------------------------------------------------------------
\* However many publishers push, viewers come and go and requests look: a camera shown online
\* has a frame and a time, and one that was ever listed as online answers with a snapshot.
THEOREM HubSound == Spec => []HubIsSound
<1>1. Init => Backed
  BY SafeInit DEF Safe
<1>2. Backed => HubIsSound
  BY DEF Backed, HubIsSound, ListedIsShown, Snapshot
<1> QED BY <1>1, <1>2, BackedStep, PTL DEF Spec

\* No Push ever sends on a channel that Unsubscribe has closed: it would panic the process.
THEOREM HubNeverPanics == Spec => []NoSendOnClosed
<1>1. Safe /\ [Next]_vars => Safe'
  BY BackedStep, MutexStep DEF Safe
<1>2. Safe => NoSendOnClosed
  BY DEF Safe
<1> QED BY SafeInit, <1>1, <1>2, PTL DEF Spec

-----------------------------------------------------------------------------
(***************************************************************************)
(* What the viewers get, with history variables: the publisher of each     *)
(* frame, all that a viewer's channel was ever sent, and the frame it was  *)
(* given when it subscribed.  They restrict nothing: each action of Next   *)
(* is in one of the four below.                                            *)
(***************************************************************************)
VARIABLES author, sentTo, joined
historyVars == <<author, sentTo, joined>>

HInit == /\ Init
         /\ author = [f \in 1..MaxFrame |-> Free]
         /\ sentTo = [v \in Viewers |-> <<>>] /\ joined = [v \in Viewers |-> NoFrame]

RecordFrame(p) == /\ Create(p) \/ StoreLatest(p)
                  /\ author' = [author EXCEPT ![frame'[p]] = p]
                  /\ UNCHANGED <<sentTo, joined>>
RecordPush(p, v) == /\ PushTo(p, v)
                    /\ sentTo' = IF Len(queue[v]) < SubBuf
                                 THEN [sentTo EXCEPT ![v] = Append(@, frame[p])] ELSE sentTo
                    /\ UNCHANGED <<author, joined>>
RecordViewer(v) == /\ Subscribe(v)
                   /\ sentTo' = [sentTo EXCEPT ![v] = queue'[v]]
                   /\ joined' = [joined EXCEPT ![v] = latest]
                   /\ UNCHANGED author
Unrecorded == /\ \/ \E p \in Publishers : SetOnline(p) \/ BeginFanOut(p) \/ EndFanOut(p)
                 \/ Silence \/ CheckStale \/ MarkStale \/ MarkOffline \/ ListOnline
                 \/ \E v \in Viewers : Unknown(v) \/ Take(v) \/ Unsubscribe(v)
              /\ UNCHANGED historyVars

HNext == \/ \E p \in Publishers : RecordFrame(p) \/ \E v \in Viewers : RecordPush(p, v)
         \/ \E v \in Viewers : RecordViewer(v)
         \/ Unrecorded
HSpec == HInit /\ [][HNext]_<<vars, historyVars>>

Follows(j, a, b) == a < b \/ (a = b /\ a = j)

\* A viewer reads what its channel was sent, in that order, and of the frames of a publisher it
\* was sent none twice and none after a later one, but for the one Subscribe gave it, which
\* the Push that had stored it may send again (hub.go:43-81).
ViewersGetInOrder ==
    \A v \in Viewers :
        LET sent == sentTo[v]
            read == Len(sent) - Len(queue[v])
        IN  /\ read >= 0 /\ \A i \in 1..Len(queue[v]) : queue[v][i] = sent[read + i]
            /\ \A i, k \in 1..Len(sent) :
                  i < k /\ author[sent[i]] = author[sent[k]] => Follows(joined[v], sent[i], sent[k])

\* History adds nothing to what the hub does.
LEMMA HistoryIsHub == /\ HInit => Init
                      /\ [HNext]_<<vars, historyVars>> => [Next]_vars
<1>1. HInit => Init
  BY DEF HInit
<1>2. HNext => Next
  BY DEF HNext, RecordFrame, RecordPush, RecordViewer, Unrecorded, Next, Push
<1> QED BY <1>1, <1>2

\* The frames that have arrived have their publishers, each of whom has the last of its own.
Authored ==
    /\ author \in [1..MaxFrame -> Publishers \cup {Free}]
    /\ \A f \in 1..MaxFrame : /\ f > arrived => author[f] = Free
                              /\ author[f] \in Publishers => f <= frame[author[f]]
    /\ latest # NoFrame => author[latest] \in Publishers
    /\ \A p \in Publishers : frame[p] <= arrived /\ (frame[p] # NoFrame => author[frame[p]] = p)

\* The frame a publisher has in hand has still to be sent to the viewer.
Ahead(p, v) == \/ pc[p] \in {"created", "seen", "online", "lock"}
               \/ pc[p] = "fanout" /\ v \in todo[p]

\* s is what a viewer that joined at j was sent, q what it has still to read.
Rest(s, q) == /\ Len(q) <= Len(s)
              /\ \A i \in 1..Len(q) : q[i] = s[Len(s) - Len(q) + i]
Ordered(j, s) == \A i, k \in 1..Len(s) :
                    i < k /\ author[s[i]] = author[s[k]] => Follows(j, s[i], s[k])

HistoryTyped == /\ sentTo \in [Viewers -> Seq(1..MaxFrame)]
                /\ joined \in [Viewers -> 0..MaxFrame]
SentInOrder(v) ==
    /\ Rest(sentTo[v], queue[v]) /\ Ordered(joined[v], sentTo[v])
    /\ \A i \in 1..Len(sentTo[v]) :
          /\ author[sentTo[v][i]] \in Publishers
          /\ Ahead(author[sentTo[v][i]], v)
                => Follows(joined[v], sentTo[v][i], frame[author[sentTo[v][i]]])
Sending == \A v \in Viewers : SentInOrder(v)

HistoryInv == Backed /\ Authored /\ HistoryTyped /\ Sending

\* A viewer that is sent nothing stays in order.
LEMMA StillInOrder ==
    ASSUME NEW v \in Viewers, SentInOrder(v), UNCHANGED <<author, frame>>,
           sentTo'[v] = sentTo[v], joined'[v] = joined[v], Rest(sentTo[v], queue'[v]),
           \A p \in Publishers : Ahead(p, v)' => Ahead(p, v)
    PROVE  SentInOrder(v)'
<1>1. Ordered(joined[v], sentTo[v])'
  BY DEF SentInOrder, Ordered
<1>2. \A i \in 1..Len(sentTo[v]) : Ahead(author[sentTo[v][i]], v)' => Ahead(author[sentTo[v][i]], v)
  BY DEF SentInOrder
<1> QED BY <1>1, <1>2 DEF SentInOrder

\* A frame more is sent, and waits to be read.
LEMMA SendOneMore ==
    ASSUME NEW s \in Seq(1..MaxFrame), NEW q \in Seq(0..MaxFrame), NEW f \in 1..MaxFrame, NEW j \in Nat,
           Rest(s, q), Ordered(j, s),
           \A i \in 1..Len(s) : author[s[i]] = author[f] => Follows(j, s[i], f)
    PROVE  /\ Append(s, f) \in Seq(1..MaxFrame)
           /\ Rest(Append(s, f), Append(q, f)) /\ Ordered(j, Append(s, f))
           /\ Len(Append(s, f)) = Len(s) + 1 /\ Append(s, f)[Len(s) + 1] = f
           /\ \A i \in 1..Len(s) : Append(s, f)[i] = s[i]
<1> DEFINE t == Append(s, f)  r == Append(q, f)
<1>0. t \in Seq(1..MaxFrame)
  OBVIOUS
<1>1. /\ Len(s) \in Nat /\ Len(t) = Len(s) + 1 /\ t[Len(s) + 1] = f
      /\ \A i \in 1..Len(s) : t[i] = s[i]
  OBVIOUS
<1>2. /\ Len(q) \in Nat /\ Len(r) = Len(q) + 1 /\ r[Len(q) + 1] = f
      /\ \A i \in 1..Len(q) : r[i] = q[i]
  OBVIOUS
<1> HIDE DEF t, r
<1>t. \A i \in 1..Len(t) : i \in 1..Len(s) \/ i = Len(s) + 1
  BY <1>1
<1>3. Rest(t, r)
  <2>1. Len(q) <= Len(s) /\ Len(t) - Len(r) = Len(s) - Len(q)
    BY <1>1, <1>2 DEF Rest
  <2>2. ASSUME NEW i \in 1..Len(r) PROVE r[i] = t[Len(t) - Len(r) + i]
    <3>1. CASE i \in 1..Len(q)
      <4>1. Len(s) - Len(q) + i \in 1..Len(s) /\ Len(t) - Len(r) + i = Len(s) - Len(q) + i
        BY <1>1, <1>2, <2>1, <3>1
      <4> QED BY <1>1, <1>2, <3>1, <4>1 DEF Rest
    <3>2. CASE i = Len(q) + 1
      <4>1. Len(t) - Len(r) + i = Len(s) + 1
        BY <1>1, <1>2, <3>2
      <4> QED BY <1>1, <1>2, <3>2, <4>1
    <3> QED BY <1>2, <3>1, <3>2
  <2> QED BY <1>1, <1>2, <2>1, <2>2 DEF Rest
<1>4. Ordered(j, t)
  <2> SUFFICES ASSUME NEW i \in 1..Len(t), NEW k \in 1..Len(t), i < k, author[t[i]] = author[t[k]]
               PROVE  Follows(j, t[i], t[k])
    BY DEF Ordered
  <2>1. i \in 1..Len(s) /\ t[i] = s[i]
    BY <1>1
  <2>2. CASE k \in 1..Len(s)
    BY <1>1, <2>1, <2>2 DEF Ordered
  <2>3. CASE k = Len(s) + 1
    BY <1>1, <2>1, <2>3
  <2> QED BY <1>t, <2>2, <2>3
<1> QED BY <1>0, <1>1, <1>3, <1>4 DEF t, r

\* What is left after a read is the rest still.
LEMMA ReadOne ==
    ASSUME NEW s \in Seq(1..MaxFrame), NEW q \in Seq(0..MaxFrame), q # <<>>, Rest(s, q)
    PROVE  Rest(s, Tail(q))
<1> DEFINE r == Tail(q)
<1>1. /\ Len(s) \in Nat /\ Len(q) \in Nat \ {0} /\ Len(r) = Len(q) - 1
      /\ \A i \in 1..Len(r) : r[i] = q[i + 1]
  OBVIOUS
<1> HIDE DEF r
<1>2. ASSUME NEW i \in 1..Len(r) PROVE r[i] = s[Len(s) - Len(r) + i]
  <2>1. i + 1 \in 1..Len(q) /\ Len(s) - Len(q) + (i + 1) = Len(s) - Len(r) + i
    BY <1>1
  <2>2. q[i + 1] = s[Len(s) - Len(q) + (i + 1)]
    BY <2>1 DEF Rest
  <2> QED BY <1>1, <2>1, <2>2
<1>3. Len(r) <= Len(s)
  BY <1>1 DEF Rest
<1> QED BY <1>2, <1>3 DEF Rest, r

\* A frame that arrives is newer than all, and has its publisher for good.
LEMMA AuthoredStep ==
    ASSUME Backed, Authored, [HNext]_<<vars, historyVars>>
    PROVE  Authored'
<1> USE DEF Goto, historyVars
<1>0. TypeOK
  BY DEF Backed
<1>1. ASSUME NEW p \in Publishers, RecordFrame(p), arrived' = arrived + 1, arrived < MaxFrame,
             frame' = [frame EXCEPT ![p] = arrived + 1], latest' = latest \/ latest' = arrived + 1
      PROVE  Authored'
  <2>1. frame'[p] = arrived + 1 /\ (\A q \in Publishers \ {p} : frame'[q] = frame[q])
        /\ arrived + 1 \in 1..MaxFrame /\ arrived \in Nat
    BY <1>0, <1>1 DEF TypeOK
  <2>2. author' = [author EXCEPT ![arrived + 1] = p]
    BY <1>1, <2>1 DEF RecordFrame
  <2>3. author'[arrived + 1] = p /\ \A f \in (1..MaxFrame) \ {arrived + 1} : author'[f] = author[f]
    BY <2>1, <2>2 DEF Authored
  <2>4. author' \in [1..MaxFrame -> Publishers \cup {Free}]
    BY <2>2 DEF Authored
  <2>5. \A q \in Publishers : frame[q] \in 0..MaxFrame /\ frame[q] <= arrived
    BY <1>0 DEF TypeOK, Authored
  <2>6. ASSUME NEW f \in 1..MaxFrame
        PROVE  /\ f > arrived' => author'[f] = Free
               /\ author'[f] \in Publishers => f <= frame'[author'[f]]
    <3>1. CASE f = arrived + 1
      BY <1>1, <2>1, <2>3, <3>1
    <3>2. CASE f # arrived + 1
      <4>1. author'[f] = author[f]
        BY <2>3, <3>2
      <4>2. f > arrived' => author[f] = Free
        BY <1>1, <2>1 DEF Authored
      <4>3. ASSUME author[f] \in Publishers PROVE f <= frame'[author[f]]
        <5>1. f <= frame[author[f]]
          BY <4>3 DEF Authored
        <5> DEFINE q == author[f]
        <5>2. frame[q] \in 0..MaxFrame /\ frame[q] <= arrived
          BY <2>5, <4>3
        <5>3. frame'[q] = frame[q] \/ frame'[q] = arrived + 1
          BY <2>1, <4>3
        <5> HIDE DEF q
        <5>4. f <= frame[q] => f <= frame'[q]
          BY <2>1, <5>2, <5>3
        <5> QED BY <5>1, <5>4 DEF q
      <4> QED BY <4>1, <4>2, <4>3
    <3> QED BY <3>1, <3>2
  <2>7. latest' # NoFrame => author'[latest'] \in Publishers
    <3>1. CASE latest' = arrived + 1
      BY <2>3, <3>1
    <3>2. CASE latest' = latest /\ latest # arrived + 1
      <4>1. latest # NoFrame => latest \in (1..MaxFrame) \ {arrived + 1}
        BY <1>0, <3>2 DEF TypeOK
      <4> QED BY <2>3, <3>2, <4>1 DEF Authored
    <3> QED BY <1>1, <3>1, <3>2
  <2>8. ASSUME NEW q \in Publishers
        PROVE  frame'[q] <= arrived' /\ (frame'[q] # NoFrame => author'[frame'[q]] = q)
    <3>1. CASE q = p
      BY <1>1, <2>1, <2>3, <3>1
    <3>2. CASE q # p
      <4>1. frame'[q] = frame[q] /\ frame[q] <= arrived' /\ frame[q] # arrived + 1
        BY <1>1, <2>1, <2>5, <3>2
      <4>2. frame[q] # NoFrame => frame[q] \in (1..MaxFrame) \ {arrived + 1}
        BY <2>5, <4>1
      <4> QED BY <2>3, <4>1, <4>2 DEF Authored
    <3> QED BY <3>1, <3>2
  <2> QED BY <2>4, <2>6, <2>7, <2>8 DEF Authored
<1>2. ASSUME NEW p \in Publishers, RecordFrame(p), pc[p] = "created" /\ UNCHANGED <<arrived, frame>>,
             latest' = frame[p]
      PROVE  Authored'
  <2>1. frame[p] \in 1..MaxFrame /\ author[frame[p]] = p
    BY <1>0, <1>2 DEF TypeOK, Backed, InOrder, Authored
  <2>2. author' = author
    BY <1>2, <2>1 DEF RecordFrame, Authored
  <2> QED BY <1>2, <2>1, <2>2 DEF Authored
<1>3. ASSUME NEW p \in Publishers, RecordFrame(p) PROVE Authored'
  <2>1. CASE Create(p)
    BY <1>1, <1>3, <2>1 DEF Create
  <2>2. CASE StoreLatest(p) /\ pc[p] = "idle"
    <3>1. /\ arrived' = arrived + 1 /\ arrived < MaxFrame /\ frame' = [frame EXCEPT ![p] = arrived + 1]
          /\ latest' = frame'[p]
      BY <2>2 DEF StoreLatest
    <3>2. frame'[p] = arrived + 1
      BY <1>0, <3>1 DEF TypeOK
    <3> QED BY <1>1, <1>3, <3>1, <3>2
  <2>3. CASE StoreLatest(p) /\ pc[p] = "created"
    BY <1>2, <1>3, <2>3 DEF StoreLatest
  <2>4. StoreLatest(p) => pc[p] \in {"idle", "created"}
    BY DEF StoreLatest
  <2> QED BY <1>3, <2>1, <2>2, <2>3, <2>4 DEF RecordFrame
<1>4. ASSUME UNCHANGED <<arrived, latest, frame, author>> PROVE Authored'
  BY <1>4 DEF Authored
<1>5. ASSUME NEW p \in Publishers, NEW v \in Viewers, RecordPush(p, v) PROVE Authored'
  BY <1>4, <1>5 DEF RecordPush, PushTo
<1>6. ASSUME NEW v \in Viewers, RecordViewer(v) PROVE Authored'
  BY <1>4, <1>6 DEF RecordViewer, Subscribe
<1>7. CASE Unrecorded
  BY <1>4, <1>7 DEF Unrecorded, SetOnline, BeginFanOut, EndFanOut, Silence, CheckStale, MarkStale,
     MarkOffline, ListOnline, Unknown, Take, Unsubscribe
<1>8. CASE UNCHANGED <<vars, historyVars>>
  BY <1>4, <1>8 DEF vars
<1> QED BY <1>3, <1>5, <1>6, <1>7, <1>8 DEF HNext

\* A publisher that takes up a frame has sent older ones only.
LEMMA NewFrameIsAhead ==
    ASSUME HistoryInv, NEW p \in Publishers, RecordFrame(p)
    PROVE  HistoryTyped' /\ Sending'
<1> USE DEF Goto
<1>0. TypeOK
  BY DEF HistoryInv, Backed
<1>1. UNCHANGED <<queue, todo, sentTo, joined>>
      /\ \A q \in Publishers \ {p} : pc'[q] = pc[q] /\ frame'[q] = frame[q]
  BY <1>0 DEF RecordFrame, Create, StoreLatest, TypeOK, viewerVars
<1>2. ASSUME NEW f \in 1..MaxFrame, author[f] \in Publishers
      PROVE  author'[f] = author[f] /\ (author[f] = p => f < frame'[p] \/ (f = frame[p] /\ UNCHANGED <<arrived, frame>> /\ pc[p] = "created"))
  <2>1. f <= arrived /\ f <= frame[author[f]]
    <3>1. Free \notin Publishers /\ arrived \in Nat
      BY <1>0 DEF TypeOK
    <3> QED BY <1>2, <3>1 DEF HistoryInv, Authored
  <2>2. CASE UNCHANGED <<arrived, frame>> /\ pc[p] = "created"
    <3>1. frame[p] \in 1..MaxFrame /\ author[frame[p]] = p
      BY <1>0, <2>2 DEF HistoryInv, TypeOK, Backed, InOrder, Authored
    <3>2. author' = author
      BY <2>2, <3>1 DEF RecordFrame, HistoryInv, Authored
    <3>3. f <= frame[p] /\ frame[p] \in Nat => f < frame[p] \/ f = frame[p]
      OBVIOUS
    <3> QED BY <2>1, <2>2, <3>1, <3>2, <3>3
  <2>3. CASE arrived' = arrived + 1 /\ frame' = [frame EXCEPT ![p] = arrived + 1]
    <3>1. frame'[p] = arrived + 1 /\ arrived \in Nat
      BY <1>0, <2>3 DEF TypeOK
    <3>2. f # arrived + 1 /\ f < frame'[p]
      BY <2>1, <3>1
    <3>3. author'[f] = author[f]
      BY <3>1, <3>2 DEF RecordFrame, HistoryInv, Authored
    <3> QED BY <3>2, <3>3
  <2> QED BY <2>2, <2>3 DEF RecordFrame, Create, StoreLatest
<1>3. HistoryTyped'
  BY <1>1 DEF HistoryInv, HistoryTyped
<1>4. ASSUME NEW v \in Viewers PROVE SentInOrder(v)'
  <2> DEFINE s == sentTo[v]
  <2>1. \A i \in 1..Len(s) : s[i] \in 1..MaxFrame
    BY DEF HistoryInv, HistoryTyped
  <2>2. \A i \in 1..Len(s) : author[s[i]] \in Publishers /\ author'[s[i]] = author[s[i]]
    BY <1>2, <2>1 DEF HistoryInv, Sending, SentInOrder
  <2>3. Rest(s, queue[v]) /\ Ordered(joined[v], s)
    BY DEF HistoryInv, Sending, SentInOrder
  <2>4. Ordered(joined[v], sentTo[v])'
    <3> SUFFICES ASSUME NEW i \in 1..Len(s), NEW k \in 1..Len(s), i < k, author'[s[i]] = author'[s[k]]
                 PROVE  Follows(joined[v], s[i], s[k])
      BY <1>1 DEF Ordered
    <3>1. author[s[i]] = author[s[k]]
      BY <2>2
    <3> QED BY <2>3, <3>1 DEF Ordered
  <2>5. ASSUME NEW i \in 1..Len(s), NEW q \in Publishers, author[s[i]] = q, Ahead(q, v)'
        PROVE  Follows(joined[v], s[i], frame'[q])
    <3>1. CASE q = p /\ s[i] < frame'[p]
      BY <3>1 DEF Follows
    <3>2. CASE q = p /\ UNCHANGED frame /\ pc[p] = "created"
      <4>1. Ahead(q, v)
        BY <3>2 DEF Ahead
      <4> QED BY <2>5, <3>2, <4>1 DEF HistoryInv, Sending, SentInOrder
    <3>3. CASE q # p
      <4>1. Ahead(q, v) /\ frame'[q] = frame[q]
        BY <1>1, <2>5, <3>3 DEF Ahead
      <4> QED BY <2>5, <4>1 DEF HistoryInv, Sending, SentInOrder
    <3> QED BY <1>2, <2>1, <2>5, <3>1, <3>2, <3>3
  <2>6. sentTo'[v] = s /\ queue'[v] = queue[v] /\ joined'[v] = joined[v]
    BY <1>1
  <2> HIDE DEF s
  <2> QED BY <2>2, <2>3, <2>4, <2>5, <2>6 DEF SentInOrder
<1> QED BY <1>3, <1>4 DEF Sending

\* A frame that is sent was ahead of the viewer, and is not any longer.
LEMMA PushKeepsOrder ==
    ASSUME HistoryInv, NEW p \in Publishers, NEW v \in Viewers, RecordPush(p, v)
    PROVE  HistoryTyped' /\ Sending'
<1> DEFINE f == frame[p]  s == sentTo[v]
<1>1. TypeOK /\ pc[p] = "fanout" /\ v \in todo[p]
  BY DEF HistoryInv, Backed, RecordPush, PushTo
<1>2. f \in 1..MaxFrame /\ author[f] = p
  <2>1. pc[p] # "idle"
    BY <1>1
  <2>2. frame[p] \in 0..MaxFrame /\ frame[p] # NoFrame
    BY <1>1, <2>1 DEF HistoryInv, Backed, InOrder, TypeOK
  <2>3. author[frame[p]] = p
    BY <2>2 DEF HistoryInv, Authored
  <2> QED BY <2>2, <2>3
<1>3. UNCHANGED <<author, joined, pc, frame>>
      /\ \A q \in Publishers : todo'[q] = IF q = p THEN todo[p] \ {v} ELSE todo[q]
  BY <1>1 DEF RecordPush, PushTo, TypeOK
<1>4. /\ s \in Seq(1..MaxFrame) /\ queue[v] \in Seq(0..MaxFrame) /\ joined[v] \in Nat
      /\ Rest(s, queue[v]) /\ Ordered(joined[v], s)
  BY <1>1 DEF HistoryInv, HistoryTyped, Sending, SentInOrder, TypeOK
<1>5. \A i \in 1..Len(s) : author[s[i]] = author[f] => Follows(joined[v], s[i], f)
  BY <1>1, <1>2 DEF HistoryInv, Sending, SentInOrder, Ahead
<1>6. \A u \in Viewers, q \in Publishers : Ahead(q, u)' => Ahead(q, u) /\ (u # v \/ q # p)
  BY <1>1, <1>3 DEF Ahead
<1>7. CASE ~(Len(queue[v]) < SubBuf)
  <2>1. UNCHANGED <<queue, sentTo>>
    BY <1>7 DEF RecordPush, PushTo
  <2>2. HistoryTyped'
    BY <1>3, <2>1 DEF HistoryInv, HistoryTyped
  <2>3. \A u \in Viewers : Rest(sentTo[u], queue'[u])
    BY <2>1 DEF HistoryInv, Sending, SentInOrder
  <2> QED BY <1>3, <1>6, <2>1, <2>2, <2>3, StillInOrder DEF HistoryInv, Sending
<1>8. CASE Len(queue[v]) < SubBuf
  <2> DEFINE t == Append(s, f)  r == Append(queue[v], f)
  <2>1. sentTo' = [sentTo EXCEPT ![v] = t] /\ queue' = [queue EXCEPT ![v] = r]
    BY <1>8 DEF RecordPush, PushTo
  <2>2. /\ t \in Seq(1..MaxFrame) /\ Rest(t, r) /\ Ordered(joined[v], t)
        /\ Len(t) = Len(s) + 1 /\ t[Len(s) + 1] = f
        /\ \A i \in 1..Len(s) : t[i] = s[i]
    <3> HIDE DEF f, s
    <3> QED BY <1>2, <1>4, <1>5, SendOneMore
  <2> HIDE DEF t, r
  <2>3. /\ sentTo'[v] = t /\ queue'[v] = r
        /\ \A u \in Viewers \ {v} : sentTo'[u] = sentTo[u] /\ queue'[u] = queue[u]
    BY <1>1, <2>1 DEF HistoryInv, HistoryTyped, TypeOK
  <2>4. HistoryTyped'
    BY <1>3, <2>1, <2>2 DEF HistoryInv, HistoryTyped
  <2>5. ASSUME NEW u \in Viewers, u # v PROVE SentInOrder(u)'
    <3>1. SentInOrder(u) /\ Rest(sentTo[u], queue'[u])
      BY <2>3, <2>5 DEF HistoryInv, Sending, SentInOrder
    <3> QED BY <1>3, <1>6, <2>3, <2>5, <3>1, StillInOrder
  <2>6. SentInOrder(v)'
    <3>1. Ordered(joined[v], sentTo[v])'
      BY <1>3, <2>2, <2>3 DEF Ordered
    <3>2. Len(s) \in Nat
      BY <1>4
    <3>3. \A i \in 1..Len(t) : i \in 1..Len(s) \/ i = Len(s) + 1
      <4> HIDE DEF s, f
      <4> QED BY <2>2, <3>2
    <3>4. \A i \in 1..Len(t) : author[t[i]] \in Publishers
      BY <1>2, <2>2, <3>3 DEF HistoryInv, Sending, SentInOrder
    <3>5. ASSUME NEW i \in 1..Len(t), NEW q \in Publishers, author[t[i]] = q, Ahead(q, v)'
          PROVE  Follows(joined[v], t[i], frame[q])
      <4>1. Ahead(q, v) /\ q # p
        BY <1>6, <3>5
      <4>2. i \in 1..Len(s) /\ t[i] = s[i]
        BY <1>2, <2>2, <3>3, <3>5, <4>1
      <4> QED BY <3>5, <4>1, <4>2 DEF HistoryInv, Sending, SentInOrder
    <3> QED BY <1>3, <2>2, <2>3, <3>1, <3>4, <3>5 DEF SentInOrder
  <2> QED BY <2>4, <2>5, <2>6 DEF Sending
<1> QED BY <1>7, <1>8

\* A viewer that subscribes is given the latest frame, or none.
LEMMA SubscribeKeepsOrder ==
    ASSUME HistoryInv, NEW v \in Viewers, RecordViewer(v)
    PROVE  HistoryTyped' /\ Sending'
<1> DEFINE s == IF latest = NoFrame THEN <<>> ELSE <<latest>>
<1>1. TypeOK
  BY DEF HistoryInv, Backed
<1>2. /\ queue' = [queue EXCEPT ![v] = s] /\ joined' = [joined EXCEPT ![v] = latest]
      /\ sentTo' = [sentTo EXCEPT ![v] = queue'[v]] /\ UNCHANGED <<author, pc, frame, todo>>
  BY DEF RecordViewer, Subscribe
<1>3. /\ s \in Seq(1..MaxFrame) /\ (s = <<>> \/ (s = <<latest>> /\ latest \in 1..MaxFrame))
      /\ Len(s) \in {0, 1} /\ \A i \in 1..Len(s) : i = 1 /\ s[i] = latest /\ latest # NoFrame
  <2>1. CASE latest = NoFrame
    BY <2>1
  <2>2. CASE latest # NoFrame
    <3>1. latest \in 1..MaxFrame
      BY <1>1, <2>2 DEF TypeOK
    <3>2. <<latest>> \in Seq(1..MaxFrame) /\ Len(<<latest>>) = 1 /\ <<latest>>[1] = latest
      BY <3>1
    <3> QED BY <2>2, <3>1, <3>2
  <2> QED BY <2>1, <2>2
<1> HIDE DEF s
<1>4. /\ queue'[v] = s /\ sentTo'[v] = s /\ joined'[v] = latest
      /\ \A u \in Viewers \ {v} :
            queue'[u] = queue[u] /\ sentTo'[u] = sentTo[u] /\ joined'[u] = joined[u]
  BY <1>1, <1>2 DEF HistoryInv, HistoryTyped, TypeOK
<1>5. HistoryTyped'
  <2>1. latest \in 0..MaxFrame
    BY <1>1 DEF TypeOK
  <2>2. sentTo' = [sentTo EXCEPT ![v] = s]
    BY <1>2, <1>4
  <2> QED BY <1>2, <1>3, <2>1, <2>2 DEF HistoryInv, HistoryTyped
<1>6. ASSUME NEW u \in Viewers, u # v PROVE SentInOrder(u)'
  <2>1. SentInOrder(u) /\ Rest(sentTo[u], queue'[u])
    BY <1>4, <1>6 DEF HistoryInv, Sending, SentInOrder
  <2>2. \A q \in Publishers : Ahead(q, u)' <=> Ahead(q, u)
    BY <1>2 DEF Ahead
  <2> QED BY <1>2, <1>4, <1>6, <2>1, <2>2, StillInOrder
<1>7. SentInOrder(v)'
  <2>1. Ordered(joined[v], sentTo[v])'
    BY <1>2, <1>3, <1>4 DEF Ordered
  <2>2. Rest(s, s)
    BY <1>3 DEF Rest
  <2>3. ASSUME NEW i \in 1..Len(s)
        PROVE  author[s[i]] \in Publishers /\ Follows(latest, s[i], frame[author[s[i]]])
    <3>1. s[i] = latest /\ latest \in 1..MaxFrame /\ author[latest] \in Publishers
      BY <1>3, <1>1 DEF HistoryInv, Authored, TypeOK
    <3>2. latest <= frame[author[latest]] /\ frame[author[latest]] \in 0..MaxFrame
      BY <1>1, <3>1 DEF HistoryInv, Authored, TypeOK
    <3>3. \A n \in 0..MaxFrame : latest <= n => Follows(latest, latest, n)
      BY <3>1 DEF Follows
    <3> QED BY <3>1, <3>2, <3>3
  <2> QED BY <1>2, <1>4, <2>1, <2>2, <2>3 DEF SentInOrder
<1> QED BY <1>5, <1>6, <1>7 DEF Sending

\* Nothing else is sent, and nobody gets ahead.
LEMMA UnrecordedKeepsOrder ==
    ASSUME HistoryInv, Unrecorded \/ UNCHANGED <<vars, historyVars>>
    PROVE  HistoryTyped' /\ Sending'
<1> USE DEF Goto, historyVars
<1>1. TypeOK
  BY DEF HistoryInv, Backed
<1>2. UNCHANGED <<author, sentTo, joined>>
  BY DEF Unrecorded
<1>3. ASSUME UNCHANGED frame, \A u \in Viewers : Rest(sentTo[u], queue'[u]),
             \A q \in Publishers, u \in Viewers : Ahead(q, u)' => Ahead(q, u)
      PROVE  Sending'
  BY <1>2, <1>3, StillInOrder DEF HistoryInv, Sending
<1>s. \A u \in Viewers : Rest(sentTo[u], queue[u])
  BY DEF HistoryInv, Sending, SentInOrder
<1>4. ASSUME NEW p \in Publishers, SetOnline(p) \/ BeginFanOut(p) \/ EndFanOut(p) PROVE Sending'
  <2>1. UNCHANGED <<queue, frame>>
    BY <1>4 DEF SetOnline, BeginFanOut, EndFanOut, viewerVars
  <2>2. ASSUME NEW q \in Publishers, NEW u \in Viewers, Ahead(q, u)' PROVE Ahead(q, u)
    <3>1. CASE q = p
      BY <1>1, <1>4, <2>2, <3>1 DEF SetOnline, BeginFanOut, EndFanOut, Ahead, TypeOK
    <3>2. CASE q # p
      <4>1. pc'[q] = pc[q] /\ todo'[q] = todo[q]
        BY <1>1, <1>4, <3>2 DEF SetOnline, BeginFanOut, EndFanOut, TypeOK
      <4> QED BY <2>2, <4>1 DEF Ahead
    <3> QED BY <3>1, <3>2
  <2> QED BY <1>3, <1>s, <2>1, <2>2
<1>5. ASSUME UNCHANGED <<queue, frame, pc, todo>> PROVE Sending'
  BY <1>3, <1>s, <1>5 DEF Ahead
<1>6. ASSUME Silence \/ CheckStale \/ MarkStale \/ MarkOffline \/ ListOnline PROVE Sending'
  BY <1>5, <1>6 DEF Silence, CheckStale, MarkStale, MarkOffline, ListOnline, viewerVars
<1>7. ASSUME NEW v \in Viewers, Unknown(v) \/ Unsubscribe(v) PROVE Sending'
  BY <1>5, <1>7 DEF Unknown, Unsubscribe
<1>8. ASSUME NEW v \in Viewers, Take(v) PROVE Sending'
  <2>1. /\ queue[v] # <<>> /\ queue' = [queue EXCEPT ![v] = Tail(queue[v])]
        /\ UNCHANGED <<frame, pc, todo>>
    BY <1>8 DEF Take
  <2>2. queue'[v] = Tail(queue[v]) /\ \A u \in Viewers \ {v} : queue'[u] = queue[u]
    BY <1>1, <2>1 DEF TypeOK
  <2>3. Rest(sentTo[v], Tail(queue[v]))
    BY <1>1, <1>s, <2>1, ReadOne DEF HistoryInv, HistoryTyped, TypeOK
  <2>4. \A u \in Viewers : Rest(sentTo[u], queue'[u])
    BY <1>s, <2>2, <2>3
  <2>5. \A q \in Publishers, u \in Viewers : Ahead(q, u)' => Ahead(q, u)
    BY <2>1 DEF Ahead
  <2> QED BY <1>3, <2>1, <2>4, <2>5
<1>9. HistoryTyped'
  BY <1>2 DEF HistoryInv, HistoryTyped
<1>10. ASSUME UNCHANGED <<vars, historyVars>> PROVE Sending'
  BY <1>5, <1>10 DEF vars, viewerVars
<1> QED BY <1>4, <1>6, <1>7, <1>8, <1>9, <1>10 DEF Unrecorded

\* Every frame that a viewer is sent is read in its turn, and of the frames of a publisher none
\* is sent twice, but for the one of Subscribe, and none after a later one, however many
\* publishers and viewers there are, and whichever frames are dropped for a full queue
\* (hub.go:43-81, httpapi.go:145-160).
THEOREM ViewersSeeInOrder == HSpec => []ViewersGetInOrder
<1>1. HInit => HistoryInv
  <2> SUFFICES ASSUME HInit PROVE HistoryInv
    OBVIOUS
  <2>1. Backed
    BY HistoryIsHub, SafeInit DEF Safe
  <2>2. /\ arrived = 0 /\ latest = 0 /\ frame = [p \in Publishers |-> 0]
        /\ queue = [v \in Viewers |-> <<>>] /\ sentTo = [v \in Viewers |-> <<>>]
        /\ joined = [v \in Viewers |-> 0] /\ author = [f \in 1..MaxFrame |-> Free]
    BY DEF HInit, Init
  <2>3. Authored
    BY <2>2 DEF Authored
  <2>4. HistoryTyped
    BY <2>2 DEF HistoryTyped
  <2>5. Sending
    BY <2>2 DEF Sending, SentInOrder, Rest, Ordered
  <2> QED BY <2>1, <2>3, <2>4, <2>5 DEF HistoryInv
<1>2. HistoryInv /\ [HNext]_<<vars, historyVars>> => HistoryInv'
  <2> SUFFICES ASSUME HistoryInv, [HNext]_<<vars, historyVars>> PROVE HistoryInv'
    OBVIOUS
  <2>1. Backed'
    BY HistoryIsHub, BackedStep DEF HistoryInv
  <2>2. Authored'
    BY AuthoredStep DEF HistoryInv
  <2>3. HistoryTyped' /\ Sending'
    BY NewFrameIsAhead, PushKeepsOrder, SubscribeKeepsOrder, UnrecordedKeepsOrder DEF HNext
  <2> QED BY <2>1, <2>2, <2>3 DEF HistoryInv
<1>3. HistoryInv => ViewersGetInOrder
  <2> SUFFICES ASSUME HistoryInv, NEW v \in Viewers
               PROVE  LET sent == sentTo[v]
                          read == Len(sent) - Len(queue[v])
                      IN  /\ read >= 0 /\ \A i \in 1..Len(queue[v]) : queue[v][i] = sent[read + i]
                          /\ \A i, k \in 1..Len(sent) :
                                i < k /\ author[sent[i]] = author[sent[k]]
                                    => Follows(joined[v], sent[i], sent[k])
    BY DEF ViewersGetInOrder
  <2>1. Rest(sentTo[v], queue[v]) /\ Ordered(joined[v], sentTo[v])
    BY DEF HistoryInv, Sending, SentInOrder
  <2>2. Len(sentTo[v]) \in Nat /\ Len(queue[v]) \in Nat
    <3>1. sentTo[v] \in Seq(1..MaxFrame) /\ queue[v] \in Seq(0..MaxFrame)
      BY DEF HistoryInv, HistoryTyped, Backed, TypeOK
    <3> QED BY <3>1
  <2>3. Len(sentTo[v]) - Len(queue[v]) >= 0
    BY <2>1, <2>2 DEF Rest
  <2> QED BY <2>1, <2>3 DEF Rest, Ordered
<1> QED BY <1>1, <1>2, <1>3, PTL DEF HSpec

-----------------------------------------------------------------------------
(***************************************************************************)
(* The other cache of frames in front of viewers: ffmpeg-streamer, of      *)
(* module FFmpegStreamer, for any cameras, pictures and modes.             *)
(***************************************************************************)

\* How far the counter can get: a callback adds one for its event, and the OnDisconnect that
\* a cancellation brings about one more.
Pending == IF bumping THEN 1 ELSE 0
CounterBound ==
    /\ link \notin {"backoff", "returned"} \/ ~cancelled => version + Pending <= events
    /\ link = "lost" /\ ~cancelled => version + Pending + 1 <= events
    /\ version + Pending <= events + 1

\* What the feed may infer from a counter that has not moved.
CounterTells ==
    /\ version = 0 /\ ~bumping => frames = Nothing
    /\ main = "encode" /\ ~bumping /\ loaded = version => snapshot = frames
    /\ ~bumping /\ lastVersion = version => current = Canvas(frames)

\* The parts of the type invariant: the cache with its connection, the feed, the process.
CacheTyped == /\ mergeAll \in Modes /\ stalls \in BOOLEAN /\ frames \in Shapes
              /\ version \in Nat /\ bumping \in BOOLEAN /\ cancelled \in BOOLEAN
              /\ link \in Links /\ events \in 0..MaxEvents
FeedTyped == /\ snapshot \in Shapes /\ current \in Shapes
             /\ payload \in Shapes /\ picture \in Shapes
             /\ lastVersion \in 0..version /\ loaded \in 0..version
ProcessTyped == /\ main \in Mains /\ exits \in 0..MaxExits
                /\ ffmpeg \in {"none", "running", "exited"}
                /\ main \in Pumping => ffmpeg # "none"

FeedInv == CacheTyped /\ FeedTyped /\ ProcessTyped /\ CounterBound /\ CounterTells

\* The bound on the counter makes it a type invariant.
LEMMA FeedTypes == ASSUME FeedInv PROVE FTypeOK
  <1>1. version \in 0..(MaxEvents + 1)
    BY StreamerAssumption DEF FeedInv, CacheTyped, CounterBound, Pending
  <1> QED BY <1>1 DEF FeedInv, FTypeOK, CacheTyped, FeedTyped, ProcessTyped

\* A picture of one cell, an empty one and a canvas are pictures.
LEMMA Pictured ==
    /\ Nothing \in Shapes
    /\ \A f \in Shapes : Canvas(f) \in Shapes
    /\ \A f \in Shapes, c \in Cameras, p \in Pictures \cup {Broken, None} : [f EXCEPT ![c] = p] \in Shapes
    /\ Canvas(Nothing) = Nothing
  BY StreamerAssumption DEF Nothing, Shapes, Canvas

\* The steps that change neither the cache nor the feed.
ProcessOnly == \/ StartFails \/ StopRestarting \/ Restart
               \/ WriteFails \/ PumpCancelled \/ Reap
               \/ FFmpegExits \/ Kill \/ EndOfInput

\* The counter gets no further than the events allow, and what the feed infers from it is right,
\* whatever callback comes between the load, the snapshot and the store of a canvas
\* (reader.go:63-89, feed.go:62-75).
LEMMA FeedStep == ASSUME FeedInv, [FNext]_fvars PROVE FeedInv'
  <1> SUFFICES CacheTyped' /\ FeedTyped' /\ ProcessTyped' /\ CounterBound' /\ CounterTells'
    BY DEF FeedInv
  <1>0. CacheTyped /\ FeedTyped /\ ProcessTyped /\ CounterBound /\ CounterTells
    BY DEF FeedInv
  <1>a. ASSUME UNCHANGED <<mergeAll, stalls, frames, version, bumping, link, events, cancelled>>
        PROVE  CacheTyped' /\ CounterBound'
    BY <1>0, <1>a DEF CacheTyped, CounterBound, Pending
  <1>b. ASSUME UNCHANGED <<snapshot, current, payload, picture, loaded, lastVersion, version>>
        PROVE  FeedTyped'
    BY <1>0, <1>b DEF FeedTyped
  <1>c. ASSUME UNCHANGED <<main, exits, ffmpeg>> PROVE ProcessTyped'
    BY <1>0, <1>c DEF ProcessTyped
  <1>1. CASE Cancel
    <2>1. /\ cancelled' = TRUE
          /\ UNCHANGED <<mergeAll, stalls, frames, version, bumping, link, events, main, exits, ffmpeg,
                         snapshot, current, payload, picture, loaded, lastVersion>>
      BY <1>1 DEF Cancel, cacheVars, feedVars
    <2>2. CacheTyped' /\ CounterBound'
      BY <1>0, <2>1 DEF CacheTyped, CounterBound, Pending
    <2>3. CounterTells'
      BY <1>0, <2>1 DEF CounterTells
    <2> QED BY <1>b, <1>c, <2>1, <2>2, <2>3
  <1>2. CASE Dial \/ Disconnect \/ Retry
    <2>1. /\ ~bumping
          /\ UNCHANGED <<mergeAll, stalls, frames, version, bumping, cancelled, main, exits, ffmpeg,
                         snapshot, current, payload, picture, loaded, lastVersion>>
      BY <1>2 DEF Dial, Disconnect, Retry, ClientStep,
                  feedVars
    <2>2. /\ link' \in Links /\ events' \in 0..MaxEvents
          /\ \/ link = "dial" /\ link' = "connected" /\ events' = events
             \/ link \in {"dial", "connected"} /\ link' = "lost" /\ events' = events + 1
             \/ link = "connected" /\ link' = "lost" /\ cancelled /\ events' = events
             \/ link' = "returned" /\ cancelled /\ events' = events
             \/ link = "backoff" /\ link' = "dial" /\ ~cancelled /\ events' = events
      BY <1>0, <1>2, StreamerAssumption DEF Dial, Disconnect, Retry, Links, CacheTyped
    <2>3. CacheTyped'
      BY <1>0, <2>1, <2>2 DEF CacheTyped
    <2>4. CounterBound'
      <3>1. version \in Nat /\ events \in Nat /\ Pending = 0 /\ Pending' = 0
        BY <1>0, <2>1 DEF CacheTyped, Pending
      <3>2. CASE link = "dial" /\ link' = "connected" /\ events' = events
        BY <1>0, <2>1, <3>1, <3>2 DEF CounterBound
      <3>3. CASE link \in {"dial", "connected"} /\ link' = "lost" /\ events' = events + 1
        <4>1. version <= events
          BY <1>0, <3>1, <3>3 DEF CounterBound
        <4> QED BY <2>1, <3>1, <3>3, <4>1 DEF CounterBound
      <3>4. CASE link = "connected" /\ link' = "lost" /\ cancelled /\ events' = events
        BY <1>0, <2>1, <3>1, <3>4 DEF CounterBound
      <3>5. CASE link' = "returned" /\ cancelled /\ events' = events
        BY <1>0, <2>1, <3>1, <3>5 DEF CounterBound
      <3>6. CASE link = "backoff" /\ link' = "dial" /\ ~cancelled /\ events' = events
        BY <1>0, <2>1, <3>1, <3>6 DEF CounterBound
      <3> QED BY <2>2, <3>2, <3>3, <3>4, <3>5, <3>6
    <2>5. CounterTells'
      BY <1>0, <2>1 DEF CounterTells
    <2> QED BY <1>b, <1>c, <2>1, <2>3, <2>4, <2>5
  <1>3. CASE OnFrame \/ OnOffline \/ OnDisconnect
    <2>1. /\ ~bumping /\ bumping' = TRUE
          /\ UNCHANGED <<mergeAll, stalls, version, cancelled, main, exits, ffmpeg,
                         snapshot, current, payload, picture, loaded, lastVersion>>
      BY <1>3 DEF OnFrame, OnOffline, OnDisconnect, ClientStep,
                  Store, feedVars
    <2>2. frames' \in Shapes
      BY <1>0, <1>3, Pictured DEF OnFrame, OnOffline, OnDisconnect,
                                  Store, CacheTyped
    <2>3. /\ link' \in Links /\ events' \in 0..MaxEvents
          /\ \/ link = "connected" /\ link' = "connected" /\ events' = events + 1
             \/ link = "lost" /\ link' = "backoff" /\ events' = events
      BY <1>0, <1>3, StreamerAssumption DEF OnFrame, OnOffline, OnDisconnect, Links,
                        CacheTyped
    <2>4. CacheTyped'
      BY <1>0, <2>1, <2>2, <2>3 DEF CacheTyped
    <2>5. CounterBound'
      <3>1. version \in Nat /\ events \in Nat /\ Pending = 0 /\ Pending' = 1
        BY <1>0, <2>1 DEF CacheTyped, Pending
      <3>2. CASE link = "connected" /\ link' = "connected" /\ events' = events + 1
        <4>1. version <= events
          BY <1>0, <3>1, <3>2 DEF CounterBound
        <4> QED BY <2>1, <3>1, <3>2, <4>1 DEF CounterBound
      <3>3. CASE link = "lost" /\ link' = "backoff" /\ events' = events
        <4>1. version <= events /\ (~cancelled => version + 1 <= events)
          BY <1>0, <3>1, <3>3 DEF CounterBound
        <4> QED BY <2>1, <3>1, <3>3, <4>1 DEF CounterBound
      <3> QED BY <2>3, <3>2, <3>3
    <2>6. CounterTells'
      BY <2>1 DEF CounterTells
    <2> QED BY <1>b, <1>c, <2>1, <2>4, <2>5, <2>6
  <1>4. CASE Bump
    <2>1. /\ bumping /\ bumping' = FALSE /\ version' = version + 1
          /\ UNCHANGED <<mergeAll, stalls, frames, link, events, cancelled, main, exits, ffmpeg,
                         snapshot, current, payload, picture, loaded, lastVersion>>
      BY <1>4 DEF Bump, feedVars
    <2>2. CacheTyped' /\ FeedTyped'
      <3>1. version \in Nat /\ lastVersion \in 0..version /\ loaded \in 0..version
        BY <1>0 DEF CacheTyped, FeedTyped
      <3>2. version' \in Nat /\ lastVersion' \in 0..version' /\ loaded' \in 0..version'
        BY <2>1, <3>1
      <3> QED BY <1>0, <2>1, <3>2 DEF CacheTyped, FeedTyped
    <2>3. CounterBound'
      <3>1. version \in Nat /\ events \in Nat /\ Pending = 1 /\ Pending' = 0
        BY <1>0, <2>1 DEF CacheTyped, Pending
      <3> QED BY <1>0, <2>1, <3>1 DEF CounterBound
    <2>4. CounterTells'
      <3>1. version' # 0 /\ loaded' # version' /\ lastVersion' # version'
        BY <1>0, <2>1 DEF CacheTyped, FeedTyped
      <3> QED BY <3>1 DEF CounterTells
    <2> QED BY <1>c, <2>1, <2>2, <2>3, <2>4
  <1>5. CASE StartSession
    <2>1. /\ main' = "wait" /\ ffmpeg' = "running" /\ loaded' = 0 /\ lastVersion' = 0 /\ exits' = exits
          /\ snapshot' = Nothing /\ current' = Nothing
          /\ payload' = Nothing /\ picture' = Nothing
          /\ UNCHANGED <<mergeAll, stalls, frames, version, bumping, link, events, cancelled>>
      BY <1>5 DEF StartSession, MainStep, cacheVars
    <2>2. FeedTyped'
      <3>1. 0 \in 0..version'
        BY <1>0, <2>1 DEF CacheTyped
      <3> QED BY <2>1, <3>1, Pictured DEF FeedTyped
    <2>3. ProcessTyped'
      BY <1>0, <2>1 DEF ProcessTyped, Mains
    <2>4. CounterTells'
      BY <1>0, <2>1, Pictured DEF CounterTells
    <2> QED BY <1>a, <2>1, <2>2, <2>3, <2>4
  <1>6. CASE ProcessOnly
    <2>1. /\ main' # "encode" \/ main = "encode"
          /\ UNCHANGED <<mergeAll, stalls, frames, version, bumping, link, events, cancelled,
                         snapshot, current, payload, picture, loaded, lastVersion>>
      BY <1>6 DEF ProcessOnly, StartFails, StopRestarting, Restart,
                  WriteFails, PumpCancelled, Reap, FFmpegExits,
                  Kill, EndOfInput, MainStep, cacheVars,
                  feedVars
    <2>2. main' \in Mains /\ ffmpeg' \in {"none", "running", "exited"}
          /\ (main' \in Pumping => ffmpeg' # "none")
      BY <1>0, <1>6 DEF ProcessOnly, StartFails, StopRestarting, Restart,
                  WriteFails, PumpCancelled, Reap, FFmpegExits,
                  Kill, EndOfInput, ProcessTyped, Mains, Pumping
    <2>3. exits' \in 0..MaxExits
      BY <1>0, <1>6, StreamerAssumption DEF ProcessOnly, StartFails, StopRestarting, Restart,
                  WriteFails, PumpCancelled, Reap, FFmpegExits,
                  Kill, EndOfInput, feedVars, ProcessTyped
    <2>4. CounterTells'
      BY <1>0, <2>1 DEF CounterTells
    <2> QED BY <1>a, <1>b, <2>1, <2>2, <2>3, <2>4 DEF ProcessTyped
  <1>7. CASE TickSingle \/ TickMerged \/ AllLatest \/ Encode \/ Write
    <2>1. UNCHANGED <<mergeAll, stalls, frames, version, bumping, link, events, cancelled, exits, ffmpeg>>
      BY <1>7 DEF TickSingle, TickMerged, AllLatest, Encode,
                  Write, MainStep, cacheVars
    <2>2. main \in Pumping /\ main' \in Pumping
      BY <1>7 DEF TickSingle, TickMerged, AllLatest, Encode,
                  Write, Pumping
    <2>3. ProcessTyped'
      BY <1>0, <2>1, <2>2 DEF ProcessTyped, Mains, Pumping
    <2>4. FeedTyped' /\ CounterTells'
      <3>1. CASE TickSingle
        <4>1. Latest \in Shapes
          <5>1. frames[Camera] \in Pictures \cup {Broken, None} /\ Camera \in Cameras
            BY <1>0, StreamerAssumption DEF CacheTyped, Shapes
          <5> QED BY <5>1, Pictured DEF Latest
        <4>2. /\ payload' = Latest /\ main' # "encode"
              /\ UNCHANGED <<loaded, snapshot, current, lastVersion, picture>>
          BY <3>1 DEF TickSingle
        <4>3. FeedTyped'
          BY <1>0, <2>1, <4>1, <4>2 DEF FeedTyped
        <4> QED BY <1>0, <2>1, <4>2, <4>3 DEF CounterTells
      <3>2. CASE TickMerged
        <4>1. /\ loaded' = version /\ payload' \in {payload, current} /\ main' # "encode"
              /\ UNCHANGED <<snapshot, current, lastVersion, picture>>
          BY <3>2 DEF TickMerged
        <4>2. version \in 0..version'
          BY <1>0, <2>1 DEF CacheTyped
        <4>3. FeedTyped'
          BY <1>0, <2>1, <4>1, <4>2 DEF FeedTyped
        <4> QED BY <1>0, <2>1, <4>1, <4>3 DEF CounterTells
      <3>3. CASE AllLatest
        <4>1. snapshot' = frames /\ UNCHANGED <<loaded, current, lastVersion, payload, picture>>
          BY <3>3 DEF AllLatest
        <4>2. FeedTyped'
          BY <1>0, <2>1, <4>1 DEF FeedTyped, CacheTyped
        <4> QED BY <1>0, <2>1, <4>1, <4>2 DEF CounterTells
      <3>4. CASE Encode
        <4>1. /\ main = "encode" /\ main' # "encode" /\ payload' = current'
              /\ UNCHANGED <<loaded, snapshot, picture>>
              /\ \/ current' = Canvas(snapshot) /\ lastVersion' = loaded
                 \/ UNCHANGED <<current, lastVersion>>
          BY <3>4 DEF Encode
        <4>2. FeedTyped'
          BY <1>0, <2>1, <4>1, Pictured DEF FeedTyped
        <4> QED BY <1>0, <2>1, <4>1, <4>2 DEF CounterTells
      <3>5. CASE Write
        <4>1. /\ main' = "wait" /\ picture' = payload
              /\ UNCHANGED <<loaded, snapshot, current, lastVersion, payload>>
          BY <3>5 DEF Write
        <4>2. FeedTyped'
          BY <1>0, <2>1, <4>1 DEF FeedTyped
        <4> QED BY <1>0, <2>1, <4>1, <4>2 DEF CounterTells
      <3> QED BY <1>7, <3>1, <3>2, <3>3, <3>4, <3>5
    <2> QED BY <1>a, <2>1, <2>3, <2>4
  <1>8. CASE UNCHANGED fvars
    <2>1. UNCHANGED <<mergeAll, stalls, frames, version, bumping, link, events, exits, cancelled, main,
                      loaded, snapshot, current, lastVersion, payload, ffmpeg, picture>>
      BY <1>8 DEF fvars
    <2>2. CounterTells'
      BY <1>0, <2>1 DEF CounterTells
    <2> QED BY <1>a, <1>b, <1>c, <2>1, <2>2
  <1> QED BY <1>1, <1>2, <1>3, <1>4, <1>5, <1>6, <1>7, <1>8
          DEF FNext, Client, Feed, Session, ProcessOnly

\* Whatever races the composing of a canvas, one that the version calls current shows the frames of
\* the cache, and a feed always has its process (feed.go:62-75, ffmpeg.go:23-79).
THEOREM FeedStaysSound == FSpec => []FeedIsSound
  <1>1. FInit => FeedInv
    <2> SUFFICES ASSUME FInit PROVE FeedInv
      OBVIOUS
    <2>1. CacheTyped /\ FeedTyped
      <3>1. /\ mergeAll \in Modes /\ stalls \in BOOLEAN /\ bumping = FALSE /\ cancelled = FALSE
            /\ link = "dial" /\ version = 0 /\ lastVersion = 0 /\ loaded = 0 /\ events = 0
        BY DEF FInit
      <3>2. /\ frames = Nothing /\ snapshot = Nothing /\ current = Nothing
            /\ payload = Nothing /\ picture = Nothing
        BY DEF FInit
      <3>3. 0 \in 0..MaxEvents /\ 0 \in 0..0
        BY StreamerAssumption
      <3> QED BY <3>1, <3>2, <3>3, Pictured DEF CacheTyped, FeedTyped, Links
    <2>2. ProcessTyped
      BY StreamerAssumption DEF FInit, ProcessTyped, Mains, Pumping
    <2>3. CounterBound
      BY DEF FInit, CounterBound, Pending
    <2>4. CounterTells
      BY Pictured DEF FInit, CounterTells
    <2> QED BY <2>1, <2>2, <2>3, <2>4 DEF FeedInv
  <1>2. FeedInv /\ [FNext]_fvars => FeedInv'
    BY FeedStep
  <1>3. FeedInv => FeedIsSound
    BY FeedTypes DEF FeedInv, CounterTells, FeedIsSound, CanvasIsCurrent
  <1> QED BY <1>1, <1>2, <1>3, PTL DEF FSpec

\* While the connection is down the cache is empty; only merge mode composes.
Wiped == /\ link = "backoff" => frames = Nothing
         /\ main \in {"compose", "encode"} => mergeAll

\* In single mode no tick between a lost connection and the next one has a picture to feed: the
\* cache is wiped before the delay begins, and every tick asks it (reader.go:63, feed.go:11-52).
THEOREM NothingStaleIsFed == FSpec => NoStaleData
  <1>1. FInit => Wiped
    BY DEF FInit, Wiped
  <1>2. Wiped /\ [FNext]_fvars => Wiped'
    <2> SUFFICES ASSUME Wiped, [FNext]_fvars PROVE Wiped'
      OBVIOUS
    <2>1. CASE Cancel
      BY <2>1 DEF Cancel, cacheVars, Wiped, Nothing
    <2>2. CASE Client
      <3>1. UNCHANGED <<mergeAll, main>>
        BY <2>2 DEF Client, Dial, OnFrame, OnOffline,
                    Disconnect, OnDisconnect, Retry, Bump,
                    ClientStep
      <3>2. link' = "backoff" => frames' = Nothing
        <4>1. CASE OnDisconnect
          BY <4>1 DEF OnDisconnect, Store
        <4>2. CASE Bump
          BY <4>2 DEF Bump, Wiped
        <4>3. CASE Dial \/ OnFrame \/ OnOffline \/ Disconnect \/ Retry
          BY <4>3 DEF Dial, OnFrame, OnOffline, Disconnect, Retry
        <4> QED BY <2>2, <4>1, <4>2, <4>3 DEF Client
      <3> QED BY <3>1, <3>2 DEF Wiped, Nothing
    <2>3. CASE Feed \/ Write
      <3>1. UNCHANGED <<mergeAll, link, frames>>
        BY <2>3 DEF Feed, TickSingle, TickMerged, AllLatest,
                    Encode, Write, WriteFails, PumpCancelled,
                    MainStep, cacheVars
      <3>2. main' \in {"compose", "encode"} => mergeAll
        BY <2>3 DEF Feed, TickSingle, TickMerged, AllLatest,
                    Encode, Write, WriteFails, PumpCancelled, Wiped
      <3> QED BY <3>1, <3>2 DEF Wiped, Nothing
    <2>4. CASE StartSession \/ ProcessOnly
      <3>1. UNCHANGED <<mergeAll, link, frames>>
        BY <2>4 DEF ProcessOnly, StartSession, StartFails, StopRestarting,
                    Restart, WriteFails, PumpCancelled, Reap,
                    FFmpegExits, Kill, EndOfInput, MainStep,
                    cacheVars
      <3>2. main' = main \/ main' \notin {"compose", "encode"}
        BY <2>4 DEF ProcessOnly, StartSession, StartFails, StopRestarting,
                    Restart, WriteFails, PumpCancelled, Reap,
                    FFmpegExits, Kill, EndOfInput
      <3> QED BY <3>1, <3>2 DEF Wiped, Nothing
    <2>5. CASE UNCHANGED fvars
      BY <2>5 DEF fvars, Wiped, Nothing
    <2> QED BY <2>1, <2>2, <2>3, <2>4, <2>5
            DEF FNext, Session, Feed, ProcessOnly
  <1>3. Wiped /\ [FNext]_fvars =>
           [(TickWhileDown /\ ~mergeAll) => payload' = Nothing]_fvars
    <2> SUFFICES ASSUME Wiped, [FNext]_fvars, TickWhileDown, ~mergeAll
                 PROVE  FALSE
      OBVIOUS
    <2>1. link = "backoff" /\ frames = Nothing /\ main # "write" /\ main' = "write"
          /\ main # "encode"
      BY DEF TickWhileDown, Wiped
    <2>2. Latest = Nothing
      BY <2>1, StreamerAssumption DEF Latest, Nothing
    <2>3. ~TickSingle
      BY <2>1, <2>2 DEF TickSingle
    <2>4. ~TickMerged /\ ~Encode /\ ~AllLatest /\ ~Write
      BY <2>1 DEF TickMerged, Encode, AllLatest, Write
    <2>5. ~ProcessOnly /\ ~StartSession
      BY <2>1 DEF ProcessOnly, StartSession, StartFails, StopRestarting,
                    Restart, WriteFails, PumpCancelled, Reap,
                    FFmpegExits, Kill, EndOfInput
    <2>6. ~Client /\ ~Cancel /\ ~UNCHANGED fvars
      BY <2>1 DEF Client, Dial, OnFrame, OnOffline,
                    Disconnect, OnDisconnect, Retry, Bump,
                    ClientStep, Cancel, fvars
    <2> QED BY <2>3, <2>4, <2>5, <2>6 DEF FNext, Session, Feed, ProcessOnly
  <1> QED BY <1>1, <1>2, <1>3, PTL DEF FSpec, NoStaleData
=============================================================================
