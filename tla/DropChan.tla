------------------------------ MODULE DropChan ------------------------------
(***************************************************************************)
(* shared/dropchan: Send puts a value into a buffered channel without ever *)
(* waiting, making room by throwing the oldest queued value away.  Send is *)
(* three separate non-blocking selects, so the consumer and the other      *)
(* producers run between them.                                             *)
(***************************************************************************)
EXTENDS Naturals, Sequences, FiniteSets

CONSTANTS
    Producers,   \* goroutines that call Send on the channel
    Cap,         \* capacity of the channel
    MaxSends     \* bound: calls of Send by one producer

ASSUME DropChanAssumption == Cap \in Nat \ {0} /\ MaxSends \in Nat

VARIABLES
    chan,        \* the channel's buffer, oldest value first
    pc,          \* the select a producer is about to execute
    displaced,   \* Send's local variable of that name
    outcome,     \* what the producer's last completed Send returned
    sent,        \* how many calls of Send each producer has made
    counted,     \* the producer's loss counter: one per outcome with Lost()
    received,    \* the values the consumer has taken out
    lost         \* the values that were thrown away

vars == <<chan, pc, displaced, outcome, sent, counted, received, lost>>

Steps    == {"idle", "makeRoom", "retry"}
Outcomes == {"none", "Delivered", "ReplacedOldest", "Dropped"}
Values   == [from : Producers, num : Nat]

\* The value p is sending, or sent last.
Value(p) == [from |-> p, num |-> sent[p]]

\* Mutant: only a value that was given up counts as lost.
LostIfDropped(o) == o = "Dropped"

\* Outcome.Lost
Lost(o) == o # "Delivered"

Init == /\ chan = <<>>
        /\ pc = [p \in Producers |-> "idle"]
        /\ displaced = [p \in Producers |-> FALSE]
        /\ outcome = [p \in Producers |-> "none"]
        /\ sent = [p \in Producers |-> 0]
        /\ counted = [p \in Producers |-> 0]
        /\ received = {}
        /\ lost = {}

Return(p, o) == /\ pc' = [pc EXCEPT ![p] = "idle"]
                /\ outcome' = [outcome EXCEPT ![p] = o]
                /\ counted' = [counted EXCEPT ![p] = @ + (IF Lost(o) THEN 1 ELSE 0)]

\* Mutant: no return after the first send.
TrySendFallsThrough(p) ==
    /\ pc[p] = "idle" /\ sent[p] < MaxSends
    /\ sent' = [sent EXCEPT ![p] = @ + 1]
    /\ displaced' = [displaced EXCEPT ![p] = FALSE]
    /\ chan' = IF Len(chan) < Cap THEN Append(chan, Value(p)') ELSE chan
    /\ pc' = [pc EXCEPT ![p] = "makeRoom"]
    /\ UNCHANGED <<outcome, counted, received, lost>>

\* The call, and the first select: send if there is room.
TrySend(p) ==
    /\ pc[p] = "idle"
    /\ sent[p] < MaxSends
    /\ sent' = [sent EXCEPT ![p] = @ + 1]
    /\ displaced' = [displaced EXCEPT ![p] = FALSE]
    /\ \/ /\ Len(chan) < Cap
          /\ chan' = Append(chan, Value(p)')
          /\ Return(p, "Delivered")
       \/ /\ Len(chan) >= Cap
          /\ pc' = [pc EXCEPT ![p] = "makeRoom"]
          /\ UNCHANGED <<chan, outcome, counted>>
    /\ UNCHANGED <<received, lost>>

\* Mutant: the receive has no default.
MakeRoomBlocks(p) ==
    /\ pc[p] = "makeRoom" /\ chan # <<>>
    /\ pc' = [pc EXCEPT ![p] = "retry"]
    /\ chan' = Tail(chan) /\ lost' = lost \cup {Head(chan)}
    /\ displaced' = [displaced EXCEPT ![p] = TRUE]
    /\ UNCHANGED <<outcome, sent, counted, received>>

\* The second select: take the oldest value out, if there still is one.
MakeRoom(p) ==
    /\ pc[p] = "makeRoom"
    /\ pc' = [pc EXCEPT ![p] = "retry"]
    /\ \/ /\ chan # <<>>
          /\ chan' = Tail(chan)
          /\ lost' = lost \cup {Head(chan)}
          /\ displaced' = [displaced EXCEPT ![p] = TRUE]
       \/ /\ chan = <<>>
          /\ UNCHANGED <<chan, lost, displaced>>
    /\ UNCHANGED <<outcome, sent, counted, received>>

\* The third select: send if there is room now, give the value up otherwise.
Retry(p) ==
    /\ pc[p] = "retry"
    /\ \/ /\ Len(chan) < Cap
          /\ chan' = Append(chan, Value(p))
          /\ lost' = lost
          /\ Return(p, IF displaced[p] THEN "ReplacedOldest" ELSE "Delivered")
       \/ /\ Len(chan) >= Cap
          /\ lost' = lost \cup {Value(p)}
          /\ Return(p, "Dropped")
          /\ chan' = chan
    /\ UNCHANGED <<displaced, sent, received>>

\* The consumer takes a value whenever it gets to it.
Receive ==
    /\ chan # <<>>
    /\ chan' = Tail(chan)
    /\ received' = received \cup {Head(chan)}
    /\ UNCHANGED <<pc, displaced, outcome, sent, counted, lost>>

Send(p) == TrySend(p) \/ MakeRoom(p) \/ Retry(p)

Next == Receive \/ \E p \in Producers : Send(p)

Spec == Init /\ [][Next]_vars

\* A goroutine inside Send is always runnable; nothing is assumed of the
\* consumer, nor of a producer that has not called Send.
FairSpec == Spec /\ \A p \in Producers : WF_vars(MakeRoom(p) \/ Retry(p))

-----------------------------------------------------------------------------
\* The channel never exceeds its capacity, and each producer is at one of the
\* three selects of its Send or outside, with the Outcome of the last (dropchan.go:48-78).
TypeOK == /\ chan \in Seq(Values)
          /\ Len(chan) <= Cap
          /\ pc \in [Producers -> Steps]
          /\ displaced \in [Producers -> BOOLEAN]
          /\ outcome \in [Producers -> Outcomes]
          /\ sent \in [Producers -> Nat]
          /\ counted \in [Producers -> Nat]
          /\ received \subseteq Values
          /\ lost \subseteq Values

Begun   == UNION {{[from |-> p, num |-> n] : n \in 1..sent[p]} : p \in Producers}
Queued  == {chan[i] : i \in 1..Len(chan)}
Pending == {Value(p) : p \in {q \in Producers : pc[q] # "idle"}}

\* Whatever order the steps of concurrent Sends and receives take, a value
\* that was sent is in exactly one place: still in the hands of its producer,
\* queued, received, or lost (dropchan.go:48-78; "never corrupts anything").
Accounted ==
    /\ Begun = Pending \cup Queued \cup received \cup lost
    /\ Pending \cap (Queued \cup received \cup lost) = {}
    /\ Queued \cap (received \cup lost) = {}
    /\ received \cap lost = {}
    /\ \A i, j \in 1..Len(chan) : chan[i] = chan[j] => i = j

\* The consumer sees the values of one producer in the order it sent them,
\* although the first value may be displaced by its own successor.
InOrder ==
    /\ \A i, j \in 1..Len(chan) :
         i < j /\ chan[i].from = chan[j].from => chan[i].num < chan[j].num
    /\ \A v \in received, i \in 1..Len(chan) :
         v.from = chan[i].from => v.num < chan[i].num

\* What the callers' counters add up to, an element for every time one was raised.
Counted    == UNION {{[from |-> p, num |-> n] : n \in 1..counted[p]} : p \in Producers}
\* The producers that have thrown a value out in the Send they are in.
Displacing == {p \in Producers : pc[p] = "retry" /\ displaced[p]}

\* The drop counters kept by the callers (recorder/camera.go:73,
\* pipeline/pool.go:65) add one per outcome with Lost().  One such outcome is
\* one lost value, or two when a Dropped also displaced one (dropchan.go:76);
\* a value just displaced is counted when its Send returns.
LossBounds ==
    /\ Cardinality(Counted) <= Cardinality(lost)
    /\ Cardinality(lost) <= 2 * Cardinality(Counted) + Cardinality(Displacing)

\* The queue as its callers may rely on it: within its capacity, nothing that was sent is
\* forgotten, duplicated or overtaken, in whatever order the three selects of concurrent
\* Sends meet (dropchan.go:48-78).
QueueIsSound == TypeOK /\ Accounted /\ InOrder

\* Every Send that has begun returns, even if the consumer never receives
\* ("without ever blocking", dropchan.go:48).
SendReturns == \A p \in Producers : pc[p] # "idle" ~> pc[p] = "idle"

Alone(p) == \A q \in Producers \ {p} : sent[q] = 0

\* As long as one producer alone sends, as in the uses of Send in this
\* repository, the third select always finds room, so the newest value is never
\* the one dropped and the caller's counter is exact (dropchan.go:24-27, 82).
SoleProducerExact ==
    \A p \in Producers : Alone(p) =>
        /\ outcome[p] # "Dropped"
        /\ pc[p] = "idle" => counted[p] = Cardinality(lost)

\* "discarding the oldest queued value if that is what it takes"
\* (dropchan.go:48-49): a value is displaced only from a full channel.
DisplaceOnlyWhenFull ==
    [][(\E p \in Producers : MakeRoom(p) /\ displaced'[p]) => Len(chan) = Cap]_vars

\* With one producer, Send is the indivisible offer of KeepNewest: it takes
\* effect when the value is first sure to get in, at the second select.
Sure(p)  == pc[p] = "retry"
Abstract == INSTANCE KeepNewest WITH
    queue   <- IF \E p \in Producers : Sure(p)
               THEN Append(chan, Value(CHOOSE p \in Producers : Sure(p)))
               ELSE chan,
    offered <- [p \in Producers |-> IF pc[p] = "makeRoom" THEN sent[p] - 1 ELSE sent[p]]

\* The select-by-select code of Send does what the package promises its callers: each
\* call keeps the newest values of a single producer's stream (dropchan.go:1-12, 48-78).
ImplementsKeepNewest == Abstract!KSpec
=============================================================================
