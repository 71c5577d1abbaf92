-------------------------- MODULE TCPFanoutProofs --------------------------
(***************************************************************************)
(* Proofs about the Broadcaster and the TCP server fed by it, for any      *)
(* number of publishers, subscribers, frames and clients.                  *)
(***************************************************************************)
EXTENDS TCPFanout, FiniteSetTheorems, TLAPS

USE BroadcasterAssumption, TCPFanoutAssumption

(***************************************************************************)
(* A fan-out only has open channels in hand: it copied them from subs      *)
(* under the mutex, and nobody leaves subs while it holds the mutex.       *)
(***************************************************************************)
SubsAreOpen == /\ life \in [Subs -> {"new", "open", "removed", "closed"}]
               /\ subs = {s \in Subs : life[s] = "open"}
FanOutHoldsMutex ==
    /\ pc \in [Publishers -> {"idle", "got", "stored", "fanout"}]
    /\ todo \in [Publishers -> SUBSET Subs]
    /\ mu \in Publishers \cup {Free}
    /\ \A p \in Publishers : pc[p] = "fanout" => mu = p /\ todo[p] \subseteq subs

BInv == SubsAreOpen /\ FanOutHoldsMutex /\ ~panicked

\* No subscriber and no fan-out to begin with.
LEMMA BInvInit == BInit => BInv
  BY DEF BInit, BInv, SubsAreOpen, FanOutHoldsMutex

\* A fan-out holds the mutex and serves registered subscribers only, and a
\* channel is closed after it was removed from them: no step breaks that.
LEMMA BInvStep == BInv /\ [BNext]_bvars => BInv'
  <1> SUFFICES ASSUME BInv, [BNext]_bvars PROVE BInv'
    OBVIOUS
  <1> USE DEF BInv, SubsAreOpen, FanOutHoldsMutex
  <1>1. ASSUME NEW p \in Publishers, GetFrame(p) PROVE BInv'
    BY <1>1 DEF GetFrame
  <1>2. ASSUME NEW p \in Publishers, StoreLatest(p) PROVE BInv'
    BY <1>2 DEF StoreLatest
  <1>3. ASSUME NEW p \in Publishers, BeginFanOut(p) PROVE BInv'
    BY <1>3 DEF BeginFanOut
  <1>4. ASSUME NEW p \in Publishers, NEW s \in Subs, SendTo(p, s) PROVE BInv'
    <2>1. todo' \in [Publishers -> SUBSET Subs] /\ \A q \in Publishers : todo'[q] \subseteq todo[q]
      BY <1>4 DEF SendTo
    <2>2. life[s] = "open" /\ UNCHANGED <<pc, mu, subs, life>>
      BY <1>4 DEF SendTo
    <2>3. ~panicked'
      BY <1>4, <2>2 DEF SendTo
    <2> QED BY <2>1, <2>2, <2>3
  <1>5. ASSUME NEW p \in Publishers, EndFanOut(p) PROVE BInv'
    BY <1>5 DEF EndFanOut
  <1>6. ASSUME NEW s \in Subs, Subscribe(s) PROVE BInv'
    BY <1>6 DEF Subscribe, publisherVars
  <1>7. ASSUME NEW s \in Subs, Receive(s) PROVE BInv'
    BY <1>7 DEF Receive, publisherVars
  <1>8. ASSUME NEW s \in Subs, Remove(s) PROVE BInv'
    <2>1. mu = Free /\ UNCHANGED <<pc, todo, mu, panicked>>
      BY <1>8 DEF Remove, publisherVars
    <2>2. SubsAreOpen'
      BY <1>8 DEF Remove
    <2> QED BY <2>1, <2>2
  <1>9. ASSUME NEW s \in Subs, Close(s) PROVE BInv'
    <2>1. UNCHANGED <<pc, todo, mu, subs, panicked>>
      BY <1>9 DEF Close, publisherVars
    <2>2. SubsAreOpen'
      BY <1>9 DEF Close
    <2> QED BY <2>1, <2>2
  <1>10. CASE UNCHANGED bvars
    BY <1>10 DEF bvars
  <1> QED BY <1>1, <1>2, <1>3, <1>4, <1>5, <1>6, <1>7, <1>8, <1>9, <1>10 DEF BNext, Publish

\* No fan-out ever sends on a channel its unsubscribe function has closed, so
\* the process does not panic (broadcaster.go:33-42 and 60-65).
THEOREM BroadcasterNeverPanics == BSpec => []NoSendOnClosed
  <1>1. BInv => NoSendOnClosed
    BY DEF BInv, NoSendOnClosed
  <1> QED BY <1>1, BInvInit, BInvStep, PTL DEF BSpec

(***************************************************************************)
(* The TCP server: every step of it is a step of the Broadcaster, or none  *)
(* of its business.                                                        *)
(***************************************************************************)
\* What the server does to the feed, it does through Subscribe, the channel and
\* the unsubscribe function.
LEMMA FanoutIsBroadcaster == [Next]_vars => [BNext]_bvars
  BY DEF Next, Feed, Dial, GetStuck, Accept, Serve, ServeSubscribe, TakeFrame, TakeCancel,
         WriteOk, WriteFail, Unsubscribe, CountOff, Cancel, StopListening, BNext, vars

\* Clients that are accepted, refused, cut off or told to go away do nothing to the feed that
\* the Broadcaster does not provide for: the server implements it (tcpserver.go:49-112), its
\* obligation to get on with a Publish apart.
THEOREM FanoutImplementsBroadcaster == Spec => BInit /\ [][BNext]_bvars
  <1>1. Init => BInit
    BY DEF Init
  <1> QED BY <1>1, FanoutIsBroadcaster, PTL DEF Spec

\* A client that leaves, or is refused, cannot make the feed panic either.
THEOREM FanoutNeverPanics == Spec => []NoSendOnClosed
  <1>1. Init => BInit
    BY DEF Init
  <1>2. BInv => NoSendOnClosed
    BY DEF BInv, NoSendOnClosed
  <1> QED BY <1>1, <1>2, BInvInit, BInvStep, FanoutIsBroadcaster, PTL DEF Spec

(***************************************************************************)
(* The client bound: the counter is the number of clients' goroutines.     *)
(***************************************************************************)
CInv == /\ conn \in [Subs -> ConnStates]
        /\ maxClients \in Nat
        /\ IsFiniteSet(Active)
        /\ ClientsBounded

\* Accept and the end of a client's goroutine keep the counter in step with them.
LEMMA CInvStep == CInv /\ [Next]_vars => CInv'
  <1> SUFFICES ASSUME CInv, [Next]_vars PROVE CInv'
    OBVIOUS
  <1> USE DEF CInv, ClientsBounded, ConnStates
  <1>0. clients \in Nat
    BY FS_CardinalityType
  <1>1. ASSUME NEW c \in Subs, Accept(c) PROVE CInv'
    <2>1. conn' \in [Subs -> ConnStates] /\ c \notin Active /\ maxClients' = maxClients
      BY <1>1 DEF Accept, To, Active
    <2>2. CASE maxClients > 0 /\ clients >= maxClients
      <3>1. Active' = Active /\ clients' = clients
        BY <1>1, <2>2 DEF Accept, To, Active
      <3> QED BY <2>1, <3>1
    <2>3. CASE ~(maxClients > 0 /\ clients >= maxClients)
      <3>1. Active' = Active \cup {c} /\ clients' = clients + 1
        BY <1>1, <2>3 DEF Accept, To, Active
      <3>2. IsFiniteSet(Active') /\ Cardinality(Active') = clients + 1
        BY <2>1, <3>1, FS_AddElement
      <3> QED BY <1>0, <2>1, <2>3, <3>1, <3>2
    <2> QED BY <2>2, <2>3
  <1>2. ASSUME NEW c \in Subs, CountOff(c) PROVE CInv'
    <2>1. c \in Active /\ Active' = Active \ {c} /\ clients' = clients - 1
          /\ conn' \in [Subs -> ConnStates] /\ maxClients' = maxClients
      BY <1>2 DEF CountOff, To, Active
    <2>2. IsFiniteSet(Active') /\ Cardinality(Active') = clients - 1
      BY <2>1, FS_RemoveElement
    <2> QED BY <1>0, <2>1, <2>2
  <1>3. ASSUME conn' \in [Subs -> ConnStates], Active' = Active, clients' = clients,
              maxClients' = maxClients
         PROVE CInv'
    BY <1>3
  <1>4. ASSUME NEW c \in Subs, Dial(c) PROVE CInv'
    BY <1>3, <1>4 DEF Dial, To, Active
  <1>5. ASSUME NEW c \in Subs, Serve(c), ~CountOff(c) PROVE CInv'
    <2>1. CASE ServeSubscribe(c)
      BY <1>3, <2>1 DEF ServeSubscribe, To, Active
    <2>2. CASE TakeFrame(c)
      BY <1>3, <2>2 DEF TakeFrame, To, Active
    <2>3. CASE TakeCancel(c)
      BY <1>3, <2>3 DEF TakeCancel, To, Active
    <2>4. CASE WriteOk(c)
      BY <1>3, <2>4 DEF WriteOk, To, Active
    <2>5. CASE WriteFail(c)
      BY <1>3, <2>5 DEF WriteFail, To, Active
    <2>6. CASE Unsubscribe(c)
      BY <1>3, <2>6 DEF Unsubscribe, To, Active
    <2> QED BY <1>5, <2>1, <2>2, <2>3, <2>4, <2>5, <2>6 DEF Serve
  <1>6. ASSUME UNCHANGED <<conn, clients, maxClients>> PROVE CInv'
    BY <1>3, <1>6 DEF Active
  <1> QED
    BY <1>1, <1>2, <1>4, <1>5, <1>6
       DEF Next, Feed, GetStuck, Cancel, StopListening, vars, tvars

\* Whatever clients do, no more than maxClients of them are served at a time,
\* and a slot that was taken is given back exactly once (tcpserver.go:71-83).
THEOREM ClientBoundHolds == Spec => []ClientsBounded
  <1>1. Init => CInv
    <2> SUFFICES ASSUME Init PROVE CInv
      OBVIOUS
    <2>1. Active = {}
      BY DEF Init, TInit, Active
    <2> QED BY <2>1, FS_EmptySet, TCPFanoutAssumption
         DEF Init, TInit, CInv, ConnStates, ClientsBounded
  <1>2. CInv => ClientsBounded
    BY DEF CInv
  <1> QED BY <1>1, <1>2, CInvStep, PTL DEF Spec

(***************************************************************************)
(* The types of the feed, for any number of publishers.                    *)
(***************************************************************************)
\* A channel of two, after a send, a receive and a send that displaces.
LEMMA QueueFacts ==
    ASSUME NEW q \in Seq(Frames), NEW f \in Frames, Len(q) <= Cap
    PROVE  /\ Len(q) < Cap => Append(q, f) \in Seq(Frames) /\ Len(Append(q, f)) <= Cap
           /\ q # <<>> => /\ Tail(q) \in Seq(Frames) /\ Len(Tail(q)) < Cap /\ Head(q) \in Frames
                          /\ Append(Tail(q), f) \in Seq(Frames)
                          /\ Len(Append(Tail(q), f)) <= Cap
           /\ <<f>> \in Seq(Frames) /\ Len(<<f>>) <= Cap
  BY DEF Cap

\* Every step of Publish, Subscribe and the unsubscribe function keeps the types
\* (broadcaster.go:17-67).
LEMMA BTypeStep == BTypeOK /\ [BNext]_bvars => BTypeOK'
  <1> SUFFICES ASSUME BTypeOK, [BNext]_bvars PROVE BTypeOK'
    OBVIOUS
  <1> USE DEF BTypeOK
  <1>1. ASSUME NEW p \in Publishers, GetFrame(p) PROVE BTypeOK'
    <2>1. arrived' \in Frames /\ frame' \in [Publishers -> Frames]
      BY <1>1 DEF GetFrame, Frames
    <2> QED BY <1>1, <2>1 DEF GetFrame
  <1>2. ASSUME NEW p \in Publishers, StoreLatest(p) PROVE BTypeOK'
    BY <1>2 DEF StoreLatest
  <1>3. ASSUME NEW p \in Publishers, BeginFanOut(p) PROVE BTypeOK'
    BY <1>3 DEF BeginFanOut
  <1>4. ASSUME NEW p \in Publishers, NEW s \in Subs, SendTo(p, s) PROVE BTypeOK'
    <2>1. ASSUME NEW q \in Seq(Frames), Len(q) <= Cap, queue' = [queue EXCEPT ![s] = q]
          PROVE  queue' \in [Subs -> Seq(Frames)] /\ \A t \in Subs : Len(queue'[t]) <= Cap
      BY <2>1
    <2>2. queue' \in [Subs -> Seq(Frames)] /\ \A t \in Subs : Len(queue'[t]) <= Cap
      <3>1. CASE full[p] = Free /\ Len(queue[s]) < Cap
        <4>0. ~(Len(queue[s]) >= Cap) /\ s # Free
          BY <3>1 DEF Cap
        <4>1. queue' = [queue EXCEPT ![s] = Append(queue[s], frame[p])]
          BY <1>4, <3>1, <4>0 DEF SendTo
        <4> QED BY <2>1, <3>1, <4>1, QueueFacts
      <3>2. CASE full[p] = Free /\ Len(queue[s]) >= Cap
        BY <1>4, <3>2 DEF SendTo, Cap
      <3>3. CASE full[p] = s
        <4>1. s # Free
          OBVIOUS
        <4>2. queue' = [queue EXCEPT ![s] =
                  Append(IF queue[s] = <<>> THEN queue[s] ELSE Tail(queue[s]), frame[p])]
          BY <1>4, <3>3, <4>1 DEF SendTo
        <4>3. CASE queue[s] = <<>>
          <5>1. Len(queue[s]) < Cap
            BY <4>3 DEF Cap
          <5> QED BY <2>1, <4>2, <4>3, <5>1, QueueFacts
        <4>4. CASE queue[s] # <<>>
          BY <2>1, <4>2, <4>4, QueueFacts
        <4> QED BY <4>3, <4>4
      <3> QED BY <1>4, <3>1, <3>2, <3>3 DEF SendTo
    <2>3. todo' \in [Publishers -> SUBSET Subs]
      BY <1>4 DEF SendTo
    <2>4. full' \in [Publishers -> Subs \cup {Free}]
      BY <1>4 DEF SendTo
    <2>5. panicked' \in BOOLEAN /\ UNCHANGED <<arrived, latest, subs, mu, life, pc, frame, last, joined>>
      BY <1>4 DEF SendTo
    <2> QED BY <2>2, <2>3, <2>4, <2>5
  <1>5. ASSUME NEW p \in Publishers, EndFanOut(p) PROVE BTypeOK'
    BY <1>5 DEF EndFanOut
  <1>6. ASSUME NEW s \in Subs, Subscribe(s) PROVE BTypeOK'
    <2> DEFINE q == IF latest = NoFrame THEN <<>> ELSE <<latest>>
    <2>1. q \in Seq(Frames) /\ Len(q) <= Cap
      <3>1. <<>> \in Seq(Frames) /\ Len(<<>>) <= Cap
        BY DEF Cap
      <3>2. <<latest>> \in Seq(Frames) /\ Len(<<latest>>) <= Cap
        BY <3>1, QueueFacts
      <3> QED BY <3>1, <3>2
    <2>2. queue' = [queue EXCEPT ![s] = q]
      BY <1>6 DEF Subscribe
    <2> HIDE DEF q
    <2>3. queue' \in [Subs -> Seq(Frames)] /\ \A t \in Subs : Len(queue'[t]) <= Cap
      BY <2>1, <2>2
    <2> QED BY <1>6, <2>3 DEF Subscribe, publisherVars
  <1>7. ASSUME NEW s \in Subs, Receive(s) PROVE BTypeOK'
    <2>1. Tail(queue[s]) \in Seq(Frames) /\ Len(Tail(queue[s])) <= Cap /\ Head(queue[s]) \in Frames
      BY <1>7 DEF Receive, Cap
    <2>2. queue' = [queue EXCEPT ![s] = Tail(queue[s])] /\ last' = [last EXCEPT ![s] = Head(queue[s])]
      BY <1>7 DEF Receive
    <2>3. queue' \in [Subs -> Seq(Frames)] /\ (\A t \in Subs : Len(queue'[t]) <= Cap)
          /\ last' \in [Subs -> Frames]
      BY <2>1, <2>2
    <2> QED BY <1>7, <2>3 DEF Receive, publisherVars
  <1>8. ASSUME NEW s \in Subs, Remove(s) PROVE BTypeOK'
    BY <1>8 DEF Remove, publisherVars
  <1>9. ASSUME NEW s \in Subs, Close(s) PROVE BTypeOK'
    BY <1>9 DEF Close, publisherVars
  <1>10. CASE UNCHANGED bvars
    BY <1>10 DEF bvars
  <1> QED BY <1>1, <1>2, <1>3, <1>4, <1>5, <1>6, <1>7, <1>8, <1>9, <1>10 DEF BNext, Publish

\* Nothing has arrived and nobody has subscribed.
LEMMA BTypeInit == BInit => BTypeOK
  <1> SUFFICES ASSUME BInit PROVE BTypeOK
    OBVIOUS
  <1> USE DEF BInit
  <1>1. NoFrame \in Frames
    BY DEF NoFrame, Frames
  <1>2. queue \in [Subs -> Seq(Frames)] /\ \A s \in Subs : Len(queue[s]) <= Cap
    BY DEF Cap
  <1>3. arrived = NoFrame
    BY DEF NoFrame
  <1> QED BY <1>1, <1>2, <1>3 DEF BTypeOK

(***************************************************************************)
(* Who holds a subscription: the life of a client's channel follows the    *)
(* state of its handler.                                                   *)
(***************************************************************************)
Owned ==
    /\ conn \in [Subs -> ConnStates]
    /\ SubsAreOpen
    /\ \A c \in Subs :
          /\ conn[c] \in {"none", "backlog", "counted", "refused"} => life[c] = "new"
          /\ conn[c] \in {"serving", "writing"} => life[c] = "open"
          /\ conn[c] = "leaving" => life[c] \in {"open", "removed"}
          /\ conn[c] \in {"unsubbed", "gone"} => life[c] = "closed"

\* serve subscribes once, and its deferred unsub() runs to the end before the client is
\* counted off (tcpserver.go:77-112).
LEMMA OwnedStep == Owned /\ [Next]_vars => Owned'
  <1> SUFFICES ASSUME Owned, [Next]_vars PROVE Owned'
    OBVIOUS
  <1> USE DEF Owned, SubsAreOpen, ConnStates, To
  <1>1. ASSUME NEW c \in Subs, Dial(c) \/ GetStuck(c) PROVE Owned'
    BY <1>1 DEF Dial, GetStuck, bvars
  <1>2. ASSUME NEW c \in Subs, Accept(c) PROVE Owned'
    <2>1. conn[c] = "backlog" /\ conn' \in [Subs -> ConnStates] /\ conn'[c] \in {"counted", "refused"}
          /\ \A d \in Subs \ {c} : conn'[d] = conn[d]
      BY <1>2 DEF Accept
    <2>2. UNCHANGED <<life, subs>>
      BY <1>2 DEF Accept, bvars
    <2> QED BY <2>1, <2>2
  <1>3. ASSUME NEW c \in Subs, ServeSubscribe(c) PROVE Owned'
    BY <1>3 DEF ServeSubscribe, Subscribe
  <1>4. ASSUME NEW c \in Subs, TakeFrame(c) PROVE Owned'
    BY <1>4 DEF TakeFrame, Receive
  <1>5. ASSUME NEW c \in Subs, TakeCancel(c) \/ WriteOk(c) \/ WriteFail(c) \/ CountOff(c) PROVE Owned'
    BY <1>5 DEF TakeCancel, WriteOk, WriteFail, CountOff, bvars
  <1>6. ASSUME NEW c \in Subs, Unsubscribe(c) PROVE Owned'
    <2>1. CASE Remove(c) /\ conn' = conn
      BY <1>6, <2>1 DEF Unsubscribe, Remove
    <2>2. CASE Close(c) /\ To(c, "unsubbed")
      BY <1>6, <2>2 DEF Unsubscribe, Close
    <2> QED BY <1>6, <2>1, <2>2 DEF Unsubscribe
  <1>7. ASSUME Feed \/ Cancel \/ StopListening \/ UNCHANGED vars PROVE Owned'
    <2>1. UNCHANGED <<conn, life, subs>>
      BY <1>7 DEF Feed, GetFrame, Publish, StoreLatest, BeginFanOut, SendTo, EndFanOut, Cancel,
                  StopListening, vars, bvars, tvars
    <2> QED BY <2>1
  <1> QED BY <1>1, <1>2, <1>3, <1>4, <1>5, <1>6, <1>7 DEF Next, Serve

FanoutInv == BInv /\ BTypeOK /\ CInv /\ Owned /\ TypeOK

\* All of it together holds at the start, and after every step.
LEMMA FanoutStep == FanoutInv /\ [Next]_vars => FanoutInv'
  <1> SUFFICES ASSUME FanoutInv, [Next]_vars PROVE FanoutInv'
    OBVIOUS
  <1>1. BInv' /\ BTypeOK' /\ CInv' /\ Owned'
    BY FanoutIsBroadcaster, BInvStep, BTypeStep, CInvStep, OwnedStep DEF FanoutInv
  <1>2. clients' \in Nat
    BY <1>1, FS_CardinalityType DEF CInv, ClientsBounded
  <1>3. /\ stuck' \subseteq Subs
        /\ cancelled' \in BOOLEAN /\ listening' \in BOOLEAN /\ maxClients' \in Limits
    BY DEF FanoutInv, TypeOK, Next, Feed, Dial, GetStuck, Accept, Serve, ServeSubscribe, TakeFrame,
           TakeCancel, WriteOk, WriteFail, Unsubscribe, CountOff, Cancel, StopListening, vars, tvars
  <1> QED BY <1>1, <1>2, <1>3 DEF FanoutInv, TypeOK, Owned

\* No client, no subscription, nothing published.
LEMMA FanoutInit == Init => FanoutInv
  <1> SUFFICES ASSUME Init PROVE FanoutInv
    OBVIOUS
  <1>1. BInv /\ BTypeOK
    BY BInvInit, BTypeInit DEF Init
  <1>2. Active = {}
    BY DEF Init, TInit, Active
  <1>3. CInv
    BY <1>2, FS_EmptySet, TCPFanoutAssumption
       DEF Init, TInit, CInv, ConnStates, ClientsBounded
  <1>4. Owned
    BY DEF Init, TInit, BInit, Owned, SubsAreOpen, ConnStates
  <1>5. TypeOK
    BY <1>1 DEF Init, TInit, TypeOK, ConnStates
  <1> QED BY <1>1, <1>3, <1>4, <1>5 DEF FanoutInv

\* Only a client that is being served holds a subscription, and one that has gone has given it
\* back, with any number of publishers (tcpserver.go:77-112, broadcaster.go:45-66).
THEOREM SubscriptionsAreOwned == Spec => [](TypeOK /\ NoLeakedSubscription)
  <1>1. FanoutInv => TypeOK /\ NoLeakedSubscription
    BY DEF FanoutInv, Owned, SubsAreOpen, ConnStates, NoLeakedSubscription
  <1> QED BY <1>1, FanoutInit, FanoutStep, PTL DEF Spec

(***************************************************************************)
(* The order of what a subscriber sees.  j is the frame Subscribe gave it, *)
(* l the last it received, q what waits in its channel.                    *)
(***************************************************************************)
Follows(j, a, b) == a < b \/ (a = b /\ a = j)
InOrder(j, l, q) == /\ \A i \in 1..Len(q) : Follows(j, l, q[i])
                    /\ \A i, k \in 1..Len(q) : i < k => Follows(j, q[i], q[k])
Freshest(l, q) == IF q = <<>> THEN l ELSE q[Len(q)]

\* A frame that follows the freshest one may be sent.
LEMMA AppendInOrder ==
    ASSUME NEW j \in Nat, NEW l \in Nat, NEW q \in Seq(Nat), NEW f \in Nat,
           InOrder(j, l, q), Follows(j, Freshest(l, q), f)
    PROVE  InOrder(j, l, Append(q, f)) /\ Freshest(l, Append(q, f)) = f
  <1> DEFINE r == Append(q, f)
  <1>1. /\ Len(q) \in Nat /\ Len(r) = Len(q) + 1 /\ r[Len(q) + 1] = f /\ r # <<>>
        /\ \A i \in 1..Len(q) : r[i] = q[i] /\ q[i] \in Nat
    OBVIOUS
  <1>2. \A i \in 1..Len(r) : i \in 1..Len(q) \/ i = Len(q) + 1
    BY <1>1
  <1> HIDE DEF r
  <1>3. Follows(j, l, f) /\ \A i \in 1..Len(q) : Follows(j, q[i], f)
    <2>1. CASE q = <<>>
      <3>1. Len(q) = 0
        BY <2>1
      <3> QED BY <2>1, <3>1 DEF Freshest
    <2>2. CASE q # <<>>
      <3>1. Len(q) \in 1..Len(q)
        BY <2>2
      <3>2. Follows(j, q[Len(q)], f) /\ Follows(j, l, q[Len(q)])
        BY <2>2, <3>1 DEF Freshest, InOrder
      <3>3. \A i \in 1..Len(q) : i = Len(q) \/ Follows(j, q[i], q[Len(q)])
        BY <3>1 DEF InOrder
      <3> QED BY <1>1, <3>1, <3>2, <3>3 DEF Follows
    <2> QED BY <2>1, <2>2
  <1>4. ASSUME NEW i \in 1..Len(r) PROVE Follows(j, l, r[i])
    BY <1>1, <1>2, <1>3 DEF InOrder
  <1>5. ASSUME NEW i \in 1..Len(r), NEW k \in 1..Len(r), i < k PROVE Follows(j, r[i], r[k])
    <2>1. i \in 1..Len(q)
      BY <1>1, <1>2, <1>5
    <2> QED BY <1>1, <1>2, <1>3, <1>5, <2>1 DEF InOrder
  <1>6. Freshest(l, r) = f
    BY <1>1 DEF Freshest
  <1> QED BY <1>4, <1>5, <1>6 DEF InOrder, r

\* Taking the oldest frame out keeps the order, whether the subscriber received it or it is
\* thrown away.
LEMMA TailInOrder ==
    ASSUME NEW j \in Nat, NEW l \in Nat, NEW q \in Seq(Nat), q # <<>>, InOrder(j, l, q)
    PROVE  /\ Tail(q) \in Seq(Nat) /\ Head(q) \in Nat
           /\ InOrder(j, Head(q), Tail(q)) /\ Freshest(Head(q), Tail(q)) = Freshest(l, q)
           /\ InOrder(j, l, Tail(q))
           /\ \A f \in Nat : Follows(j, Freshest(l, q), f) => Follows(j, Freshest(l, Tail(q)), f)
  <1> DEFINE r == Tail(q)
  <1>1. /\ Len(q) \in Nat \ {0} /\ Len(r) = Len(q) - 1 /\ r \in Seq(Nat) /\ Head(q) = q[1]
        /\ \A i \in 1..Len(r) : i + 1 \in 1..Len(q) /\ r[i] = q[i + 1]
        /\ \A i \in 1..Len(q) : q[i] \in Nat
    OBVIOUS
  <1> HIDE DEF r
  <1>e. (r = <<>>) <=> (Len(r) = 0)
    BY <1>1
  <1>2. InOrder(j, Head(q), r)
    <2>1. ASSUME NEW i \in 1..Len(r) PROVE Follows(j, q[1], r[i])
      <3>1. 1 \in 1..Len(q) /\ i + 1 \in 1..Len(q) /\ 1 < i + 1 /\ r[i] = q[i + 1]
        BY <1>1
      <3> QED BY <3>1 DEF InOrder
    <2>2. ASSUME NEW i \in 1..Len(r), NEW k \in 1..Len(r), i < k PROVE Follows(j, r[i], r[k])
      <3>1. /\ i + 1 \in 1..Len(q) /\ k + 1 \in 1..Len(q) /\ i + 1 < k + 1
            /\ r[i] = q[i + 1] /\ r[k] = q[k + 1]
        BY <1>1, <2>2
      <3> QED BY <3>1 DEF InOrder
    <2> QED BY <1>1, <2>1, <2>2 DEF InOrder
  <1>3. InOrder(j, l, r)
    <2>1. ASSUME NEW i \in 1..Len(r) PROVE Follows(j, l, r[i])
      <3>1. i + 1 \in 1..Len(q) /\ r[i] = q[i + 1]
        BY <1>1
      <3> QED BY <3>1 DEF InOrder
    <2> QED BY <1>2, <2>1 DEF InOrder
  <1>4. CASE Len(q) = 1
    <2>1. r = <<>>
      BY <1>1, <1>e, <1>4
    <2>2. Freshest(Head(q), r) = q[1] /\ Freshest(l, q) = q[1] /\ Freshest(l, r) = l
      BY <1>1, <1>4, <2>1 DEF Freshest
    <2>3. Follows(j, l, q[1]) /\ q[1] \in Nat
      BY <1>1 DEF InOrder
    <2>4. \A f \in Nat : Follows(j, q[1], f) => Follows(j, l, f)
      BY <2>3 DEF Follows
    <2> QED BY <1>1, <1>2, <1>3, <2>2, <2>4 DEF r
  <1>5. CASE Len(q) # 1
    <2>1. r # <<>> /\ Len(r) \in 1..Len(r) /\ r[Len(r)] = q[Len(q)]
      BY <1>1, <1>e, <1>5
    <2>2. Freshest(Head(q), r) = q[Len(q)] /\ Freshest(l, q) = q[Len(q)] /\ Freshest(l, r) = q[Len(q)]
      BY <2>1 DEF Freshest
    <2> QED BY <1>1, <1>2, <1>3, <2>2 DEF r
  <1> QED BY <1>4, <1>5

(***************************************************************************)
(* One publisher.  Its frame is the last that arrived, and every channel   *)
(* is up to date but for those its Publish has still to serve.             *)
(***************************************************************************)
Behind(p, s) == pc[p] = "stored" \/ (pc[p] = "fanout" /\ s \in todo[p])
InStep(p) ==
    /\ frame[p] = arrived
    /\ pc[p] = "got" => latest = arrived - 1 /\ arrived > 0
    /\ pc[p] # "got" => latest = arrived
    /\ \A s \in Subs : life[s] = "new" => last[s] = 0 /\ queue[s] = <<>>
    /\ \A s \in Subs : InOrder(joined[s], last[s], queue[s])
    /\ \A s \in subs : IF Behind(p, s) THEN Follows(joined[s], Freshest(last[s], queue[s]), arrived)
                                       ELSE Freshest(last[s], queue[s]) = latest

\* No frame is overtaken by an older one, and no channel is left behind a Publish that has
\* ended (broadcaster.go:30-57).
LEMMA InStepStep ==
    ASSUME NEW p, Publishers = {p}, BInv, BTypeOK, InStep(p), [BNext]_bvars
    PROVE  InStep(p)'
  <1> USE DEF NoFrame
  <1>0. /\ arrived \in Nat /\ latest \in Nat /\ frame[p] \in Nat
        /\ queue \in [Subs -> Seq(Frames)] /\ (\A s \in Subs : queue[s] \in Seq(Nat))
        /\ last \in [Subs -> Nat] /\ joined \in [Subs -> Nat] /\ subs \subseteq Subs
        /\ life \in [Subs -> {"new", "open", "removed", "closed"}]
        /\ pc \in [Publishers -> {"idle", "got", "stored", "fanout"}]
        /\ frame \in [Publishers -> Frames] /\ todo \in [Publishers -> SUBSET Subs]
        /\ p \in Publishers
    BY DEF BTypeOK, Frames
  <1>i. \A s \in subs : life[s] = "open"
    BY DEF BInv, SubsAreOpen
  <1>1. CASE GetFrame(p)
    <2>1. /\ arrived' = arrived + 1 /\ frame'[p] = arrived + 1 /\ pc[p] = "idle" /\ pc'[p] = "got"
          /\ UNCHANGED <<latest, subs, queue, life, todo, last, joined>>
      BY <1>0, <1>1 DEF GetFrame
    <2>2. \A s \in subs : ~Behind(p, s) /\ ~Behind(p, s)'
      BY <2>1 DEF Behind
    <2> QED BY <1>0, <2>1, <2>2 DEF InStep
  <1>2. CASE StoreLatest(p)
    <2>1. /\ latest' = arrived /\ pc[p] = "got" /\ pc'[p] = "stored"
          /\ UNCHANGED <<arrived, subs, queue, life, frame, todo, last, joined>>
      BY <1>0, <1>2 DEF StoreLatest, InStep
    <2>2. \A s \in subs : Freshest(last[s], queue[s]) = arrived - 1
      BY <1>0, <2>1 DEF InStep, Behind
    <2>3. \A s \in subs : Follows(joined[s], Freshest(last[s], queue[s]), arrived)
      BY <1>0, <2>2 DEF Follows
    <2>4. \A s \in subs : Behind(p, s)'
      BY <2>1 DEF Behind
    <2> QED BY <1>0, <2>1, <2>3, <2>4 DEF InStep
  <1>3. CASE BeginFanOut(p)
    <2>1. /\ pc[p] = "stored" /\ pc'[p] = "fanout" /\ todo'[p] = subs
          /\ UNCHANGED <<arrived, latest, subs, queue, life, frame, last, joined>>
      BY <1>0, <1>3 DEF BeginFanOut
    <2>2. \A s \in subs : Behind(p, s) /\ Behind(p, s)'
      BY <2>1 DEF Behind
    <2> QED BY <1>0, <2>1, <2>2 DEF InStep
  <1>4. ASSUME NEW s \in Subs, SendTo(p, s) PROVE InStep(p)'
    <2>1. /\ pc[p] = "fanout" /\ s \in todo[p] /\ s \in subs /\ latest = arrived
          /\ UNCHANGED <<arrived, latest, subs, life, pc, frame, last, joined>>
      BY <1>0, <1>4 DEF SendTo, BInv, FanOutHoldsMutex, InStep
    <2>2. /\ Follows(joined[s], Freshest(last[s], queue[s]), arrived) /\ Behind(p, s)
          /\ InOrder(joined[s], last[s], queue[s])
      BY <1>0, <2>1 DEF InStep, Behind
    <2>3. ASSUME UNCHANGED <<queue, todo>> PROVE InStep(p)'
      <3>1. \A t \in subs : Behind(p, t)' <=> Behind(p, t)
        BY <2>1, <2>3 DEF Behind
      <3> QED BY <2>1, <2>3, <3>1 DEF InStep
    <2>4. ASSUME NEW q \in Seq(Nat), queue' = [queue EXCEPT ![s] = Append(q, arrived)],
                 todo' = [todo EXCEPT ![p] = todo[p] \ {s}],
                 InOrder(joined[s], last[s], q), Follows(joined[s], Freshest(last[s], q), arrived)
          PROVE  InStep(p)'
      <3>1. /\ InOrder(joined[s], last[s], Append(q, arrived))
            /\ Freshest(last[s], Append(q, arrived)) = arrived
        BY <1>0, <2>4, AppendInOrder
      <3>2. queue'[s] = Append(q, arrived) /\ \A t \in Subs \ {s} : queue'[t] = queue[t]
        BY <1>0, <2>4
      <3>3. ~Behind(p, s)' /\ \A t \in subs \ {s} : Behind(p, t)' <=> Behind(p, t)
        BY <1>0, <2>1, <2>4 DEF Behind
      <3>4. life[s] = "open"
        BY <1>i, <2>1
      <3>5. \A t \in Subs : life'[t] = "new" => last'[t] = 0 /\ queue'[t] = <<>>
        BY <2>1, <3>2, <3>4 DEF InStep
      <3>6. \A t \in Subs : InOrder(joined'[t], last'[t], queue'[t])
        BY <2>1, <3>1, <3>2 DEF InStep
      <3>7. \A t \in subs' : IF Behind(p, t)' THEN Follows(joined'[t], Freshest(last'[t], queue'[t]), arrived')
                                              ELSE Freshest(last'[t], queue'[t]) = latest'
        BY <1>0, <2>1, <3>1, <3>2, <3>3 DEF InStep
      <3> QED BY <2>1, <3>5, <3>6, <3>7 DEF InStep
    <2>5. CASE full[p] = s /\ queue[s] # <<>>
      <3>1. s # Free
        OBVIOUS
      <3>2. /\ queue' = [queue EXCEPT ![s] = Append(Tail(queue[s]), arrived)]
            /\ todo' = [todo EXCEPT ![p] = todo[p] \ {s}]
        BY <1>4, <2>5, <3>1 DEF SendTo, InStep
      <3>3. Tail(queue[s]) \in Seq(Nat) /\ InOrder(joined[s], last[s], Tail(queue[s]))
            /\ Follows(joined[s], Freshest(last[s], Tail(queue[s])), arrived)
        BY <1>0, <2>2, <2>5, TailInOrder
      <3> QED BY <2>4, <3>2, <3>3
    <2>6. CASE full[p] = s /\ queue[s] = <<>>
      <3>1. s # Free
        OBVIOUS
      <3>2. /\ queue' = [queue EXCEPT ![s] = Append(queue[s], arrived)]
            /\ todo' = [todo EXCEPT ![p] = todo[p] \ {s}]
        BY <1>4, <2>6, <3>1 DEF SendTo, InStep
      <3> QED BY <1>0, <2>2, <2>4, <3>2
    <2>7. CASE full[p] = Free
      <3>1. s # Free
        OBVIOUS
      <3>2. \/ /\ queue' = [queue EXCEPT ![s] = Append(queue[s], arrived)]
               /\ todo' = [todo EXCEPT ![p] = todo[p] \ {s}]
            \/ UNCHANGED <<queue, todo>>
        BY <1>4, <2>7, <3>1 DEF SendTo, InStep
      <3> QED BY <1>0, <2>2, <2>3, <2>4, <3>2
    <2> QED BY <1>4, <2>5, <2>6, <2>7 DEF SendTo
  <1>5. CASE EndFanOut(p)
    <2>1. /\ pc[p] = "fanout" /\ pc'[p] = "idle" /\ todo[p] = {}
          /\ UNCHANGED <<arrived, latest, subs, queue, life, frame, todo, last, joined>>
      BY <1>0, <1>5 DEF EndFanOut
    <2>2. \A s \in subs : ~Behind(p, s) /\ ~Behind(p, s)'
      BY <2>1 DEF Behind
    <2> QED BY <1>0, <2>1, <2>2 DEF InStep
  <1>6. ASSUME NEW s \in Subs, Subscribe(s) PROVE InStep(p)'
    <2>1. /\ life[s] = "new" /\ mu = Free /\ life' = [life EXCEPT ![s] = "open"] /\ subs' = subs \cup {s}
          /\ joined' = [joined EXCEPT ![s] = latest]
          /\ queue' = [queue EXCEPT ![s] = IF latest = 0 THEN <<>> ELSE <<latest>>]
          /\ UNCHANGED <<arrived, latest, pc, frame, todo, last>>
      BY <1>6 DEF Subscribe, publisherVars
    <2>2. pc[p] # "fanout" /\ s \notin subs
      BY <1>0, <1>i, <2>1 DEF BInv, FanOutHoldsMutex
    <2>3. last'[s] = 0 /\ joined'[s] = latest /\ life'[s] = "open"
      BY <1>0, <2>1 DEF InStep
    <2>4. /\ \A t \in Subs \ {s} : queue'[t] = queue[t] /\ joined'[t] = joined[t] /\ life'[t] = life[t]
          /\ \A t \in Subs : last'[t] = last[t] /\ (Behind(p, t)' <=> Behind(p, t))
      BY <1>0, <2>1 DEF Behind
    <2>5. InOrder(joined'[s], last'[s], queue'[s]) /\ Freshest(last'[s], queue'[s]) = latest
      <3>1. CASE latest = 0
        <4>1. queue'[s] = <<>> /\ Len(<<>>) = 0
          BY <1>0, <2>1, <3>1
        <4> QED BY <2>3, <3>1, <4>1 DEF InOrder, Freshest
      <3>2. CASE latest # 0
        <4>1. queue'[s] = <<latest>> /\ Len(<<latest>>) = 1 /\ <<latest>>[1] = latest /\ <<latest>> # <<>>
          BY <1>0, <2>1, <3>2
        <4> QED BY <1>0, <2>3, <3>2, <4>1 DEF InOrder, Freshest, Follows
      <3> QED BY <3>1, <3>2
    <2>6. Behind(p, s)' => Follows(joined'[s], latest, arrived)
      <3>1. Behind(p, s)' => pc[p] = "stored"
        BY <2>1, <2>2 DEF Behind
      <3> QED BY <2>3, <3>1 DEF InStep, Follows
    <2>7. \A t \in Subs : life'[t] = "new" => last'[t] = 0 /\ queue'[t] = <<>>
      BY <2>3, <2>4 DEF InStep
    <2>8. \A t \in Subs : InOrder(joined'[t], last'[t], queue'[t])
      BY <2>4, <2>5 DEF InStep
    <2>9. \A t \in subs' : IF Behind(p, t)' THEN Follows(joined'[t], Freshest(last'[t], queue'[t]), arrived')
                                            ELSE Freshest(last'[t], queue'[t]) = latest'
      <3>1. ASSUME NEW t \in subs
            PROVE  IF Behind(p, t)' THEN Follows(joined'[t], Freshest(last'[t], queue'[t]), arrived')
                                    ELSE Freshest(last'[t], queue'[t]) = latest'
        <4>1. t \in Subs \ {s}
          BY <1>0, <2>2
        <4> QED BY <2>1, <2>4, <4>1 DEF InStep
      <3> QED BY <2>1, <2>5, <2>6, <3>1
    <2> QED BY <2>1, <2>7, <2>8, <2>9 DEF InStep
  <1>7. ASSUME NEW s \in Subs, Receive(s) PROVE InStep(p)'
    <2>1. /\ life[s] = "open" /\ queue[s] # <<>>
          /\ last' = [last EXCEPT ![s] = Head(queue[s])] /\ queue' = [queue EXCEPT ![s] = Tail(queue[s])]
          /\ UNCHANGED <<arrived, latest, subs, life, pc, frame, todo, joined>>
      BY <1>7 DEF Receive, publisherVars
    <2>2. last'[s] = Head(queue[s]) /\ queue'[s] = Tail(queue[s])
          /\ \A t \in Subs \ {s} : last'[t] = last[t] /\ queue'[t] = queue[t]
      BY <1>0, <2>1
    <2>3. InOrder(joined[s], last[s], queue[s])
      BY DEF InStep
    <2>4. InOrder(joined[s], last'[s], queue'[s])
          /\ Freshest(last'[s], queue'[s]) = Freshest(last[s], queue[s])
      BY <1>0, <2>1, <2>2, <2>3, TailInOrder
    <2>5. \A t \in Subs : Freshest(last'[t], queue'[t]) = Freshest(last[t], queue[t])
      BY <2>2, <2>4
    <2>6. \A t \in Subs : InOrder(joined'[t], last'[t], queue'[t])
      BY <2>1, <2>2, <2>4 DEF InStep
    <2>7. \A t \in subs : Behind(p, t)' <=> Behind(p, t)
      BY <2>1 DEF Behind
    <2>8. \A t \in Subs : life'[t] = "new" => last'[t] = 0 /\ queue'[t] = <<>>
      BY <2>1, <2>2 DEF InStep
    <2>9. \A t \in subs' : IF Behind(p, t)' THEN Follows(joined'[t], Freshest(last'[t], queue'[t]), arrived')
                                            ELSE Freshest(last'[t], queue'[t]) = latest'
      BY <1>0, <2>1, <2>5, <2>7 DEF InStep
    <2> QED BY <2>1, <2>6, <2>8, <2>9 DEF InStep
  <1>8. ASSUME NEW s \in Subs, Remove(s) \/ Close(s) PROVE InStep(p)'
    <2>1. /\ UNCHANGED <<arrived, latest, queue, pc, frame, todo, last, joined>> /\ subs' \subseteq subs
          /\ \A t \in Subs : life'[t] = "new" => life[t] = "new"
      BY <1>0, <1>8 DEF Remove, Close, publisherVars
    <2>2. \A t \in subs : Behind(p, t)' <=> Behind(p, t)
      BY <2>1 DEF Behind
    <2> QED BY <2>1, <2>2 DEF InStep
  <1>9. CASE UNCHANGED bvars
    <2>1. UNCHANGED <<arrived, latest, subs, queue, life, pc, frame, todo, last, joined>>
      BY <1>9 DEF bvars
    <2>2. \A t \in subs : Behind(p, t)' <=> Behind(p, t)
      BY <2>1 DEF Behind
    <2> QED BY <2>1, <2>2 DEF InStep
  <1> QED BY <1>1, <1>2, <1>3, <1>4, <1>5, <1>6, <1>7, <1>8, <1>9 DEF BNext, Publish

\* The order that InOrder states with two quantifiers is the one of the sequence of all the
\* frames a subscriber has seen last or will see.
LEMMA SeenInOrder ==
    ASSUME NEW j \in Nat, NEW l \in Nat, NEW q \in Seq(Nat), InOrder(j, l, q)
    PROVE  LET seen == <<l>> \o q
           IN  \A i, k \in 1..Len(seen) : i < k => Follows(j, seen[i], seen[k])
  <1> DEFINE seen == <<l>> \o q
  <1>1. /\ Len(q) \in Nat /\ Len(seen) = 1 + Len(q) /\ seen[1] = l
        /\ \A i \in 1..Len(q) : seen[i + 1] = q[i]
    OBVIOUS
  <1> HIDE DEF seen
  <1>2. \A i \in 1..Len(seen) : i = 1 \/ (i - 1 \in 1..Len(q) /\ seen[i] = q[i - 1])
    BY <1>1
  <1>3. ASSUME NEW i \in 1..Len(seen), NEW k \in 1..Len(seen), i < k PROVE Follows(j, seen[i], seen[k])
    <2>1. k - 1 \in 1..Len(q) /\ seen[k] = q[k - 1]
      BY <1>1, <1>2, <1>3
    <2>2. CASE i = 1
      BY <1>1, <2>1, <2>2 DEF InOrder
    <2>3. CASE i # 1
      <3>1. i - 1 \in 1..Len(q) /\ seen[i] = q[i - 1] /\ i - 1 < k - 1
        BY <1>2, <1>3, <2>3
      <3> QED BY <2>1, <3>1 DEF InOrder
    <2> QED BY <2>2, <2>3
  <1> QED BY <1>3 DEF seen

\* With one publisher, which every feed but the upscaler's has, the viewers of the TCP output
\* are never left behind a Publish that has ended and see the frames in the order they
\* arrived in, however they connect, stop reading and leave (tcpserver.go:49-112,
\* broadcaster.go:27-57).
THEOREM SubscribersAreServed ==
    ASSUME NEW p, Publishers = {p} PROVE Spec => []SubscribersServed
  <1>1. Init => InStep(p)
    <2> SUFFICES ASSUME Init PROVE InStep(p)
      OBVIOUS
    <2>1. /\ arrived = 0 /\ latest = 0 /\ subs = {} /\ frame[p] = 0 /\ pc[p] = "idle"
          /\ \A s \in Subs : last[s] = 0 /\ queue[s] = <<>>
      BY DEF Init, BInit, NoFrame
    <2>2. \A j : InOrder(j, 0, <<>>)
      BY DEF InOrder
    <2> QED BY <2>1, <2>2 DEF InStep
  <1>2. FanoutInv /\ InStep(p) /\ [Next]_vars => InStep(p)'
    BY FanoutIsBroadcaster, InStepStep DEF FanoutInv
  <1>3. FanoutInv /\ InStep(p) => SubscribersServed
    <2> SUFFICES ASSUME FanoutInv, InStep(p) PROVE SubscribersServed
      OBVIOUS
    <2>1. TypeOK /\ NoLeakedSubscription
      BY DEF FanoutInv, Owned, SubsAreOpen, ConnStates, NoLeakedSubscription
    <2>2. subs \subseteq Subs /\ \A s \in Subs : queue[s] \in Seq(Nat) /\ last[s] \in Nat /\ joined[s] \in Nat
      BY DEF FanoutInv, BTypeOK, Frames
    <2>3. CaughtUp
      <3>1. pc[p] \in {"idle", "got"} => \A s \in subs : ~Behind(p, s)
        BY DEF Behind
      <3>2. \A s \in subs : Newest(s) = Freshest(last[s], queue[s])
        BY DEF Newest, Freshest
      <3> QED BY <3>1, <3>2 DEF CaughtUp, InStep
    <2>4. SolePublisherInOrder
      BY <2>2, SeenInOrder DEF SolePublisherInOrder, InStep, Follows
    <2> QED BY <2>1, <2>3, <2>4 DEF SubscribersServed
  <1> QED BY <1>1, <1>2, <1>3, FanoutInit, FanoutStep, PTL DEF Spec
=============================================================================
