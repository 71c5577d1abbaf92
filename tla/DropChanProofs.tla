--------------------------- MODULE DropChanProofs ---------------------------
(***************************************************************************)
(* Proofs about module DropChan, for any set of producers, any capacity    *)
(* and any number of sends.                                                *)
(***************************************************************************)
EXTENDS DropChan, FiniteSetTheorems, TLAPS

USE DropChanAssumption

(***************************************************************************)
(* Facts about the queue of the channel.                                   *)
(***************************************************************************)

\* Sending to a channel adds its value behind those already queued.
LEMMA AppendFacts ==
    ASSUME NEW S, NEW q \in Seq(S), NEW v \in S
    PROVE  /\ Append(q, v) \in Seq(S)
           /\ Len(Append(q, v)) = Len(q) + 1
           /\ \A i \in 1..Len(q) : Append(q, v)[i] = q[i]
           /\ Append(q, v)[Len(q) + 1] = v
  OBVIOUS

\* Receiving from a channel takes the first value and moves the others up.
LEMMA TailFacts ==
    ASSUME NEW S, NEW q \in Seq(S), q # <<>>
    PROVE  /\ Tail(q) \in Seq(S)
           /\ Len(q) \in Nat \ {0}
           /\ Len(Tail(q)) = Len(q) - 1
           /\ \A i \in 1..Len(Tail(q)) : Tail(q)[i] = q[i + 1]
           /\ Head(q) = q[1]
           /\ Head(q) \in S
  OBVIOUS

(***************************************************************************)
(* Type correctness, and with it that the channel never exceeds its        *)
(* capacity: a Send never waits and yet never overfills (dropchan.go:48).  *)
(***************************************************************************)
\* No select of Send, and no receive, leaves the types or overfills the channel.
LEMMA TypeStep == TypeOK /\ [Next]_vars => TypeOK'
  <1> SUFFICES ASSUME TypeOK, [Next]_vars PROVE TypeOK'
    OBVIOUS
  <1> USE DEF TypeOK, Steps, Outcomes, Return, Lost
  <1>1. CASE Receive
    <2>1. chan # <<>> /\ chan' = Tail(chan) /\ received' = received \cup {Head(chan)}
          /\ UNCHANGED <<pc, displaced, outcome, sent, counted, lost>>
      BY <1>1 DEF Receive
    <2>2. chan' \in Seq(Values) /\ Len(chan') <= Cap /\ Head(chan) \in Values
      BY <2>1, TailFacts
    <2> QED BY <2>1, <2>2
  <1>2. ASSUME NEW p \in Producers, TrySend(p) PROVE TypeOK'
    <2>1. sent' \in [Producers -> Nat] /\ displaced' \in [Producers -> BOOLEAN]
          /\ received' = received /\ lost' = lost
      BY <1>2 DEF TrySend
    <2>2. Value(p)' \in Values
      BY <2>1 DEF Value, Values
    <2>3. CASE Len(chan) < Cap /\ chan' = Append(chan, Value(p)') /\ Return(p, "Delivered")
      <3>1. chan' \in Seq(Values) /\ Len(chan') <= Cap
        BY <2>2, <2>3, AppendFacts
      <3> QED BY <2>1, <2>3, <3>1
    <2>4. CASE pc' = [pc EXCEPT ![p] = "makeRoom"] /\ UNCHANGED <<chan, outcome, counted>>
      BY <2>1, <2>4
    <2> QED BY <1>2, <2>3, <2>4 DEF TrySend
  <1>3. ASSUME NEW p \in Producers, MakeRoom(p) PROVE TypeOK'
    <2>1. pc' \in [Producers -> Steps] /\ UNCHANGED <<outcome, sent, counted, received>>
      BY <1>3 DEF MakeRoom
    <2>2. CASE chan # <<>> /\ chan' = Tail(chan) /\ lost' = lost \cup {Head(chan)}
               /\ displaced' = [displaced EXCEPT ![p] = TRUE]
      <3>1. chan' \in Seq(Values) /\ Len(chan') <= Cap /\ Head(chan) \in Values
        BY <2>2, TailFacts
      <3> QED BY <2>1, <2>2, <3>1
    <2>3. CASE UNCHANGED <<chan, lost, displaced>>
      BY <2>1, <2>3
    <2> QED BY <1>3, <2>2, <2>3 DEF MakeRoom
  <1>4. ASSUME NEW p \in Producers, Retry(p) PROVE TypeOK'
    <2>1. UNCHANGED <<displaced, sent, received>> /\ Value(p) \in Values
      BY <1>4 DEF Retry, Value, Values
    <2>2. CASE Len(chan) < Cap /\ chan' = Append(chan, Value(p)) /\ lost' = lost
               /\ Return(p, IF displaced[p] THEN "ReplacedOldest" ELSE "Delivered")
      <3>1. chan' \in Seq(Values) /\ Len(chan') <= Cap
        BY <2>1, <2>2, AppendFacts
      <3> QED BY <2>1, <2>2, <3>1
    <2>3. CASE lost' = lost \cup {Value(p)} /\ Return(p, "Dropped") /\ chan' = chan
      BY <2>1, <2>3
    <2> QED BY <1>4, <2>2, <2>3 DEF Retry
  <1>5. CASE UNCHANGED vars
    BY <1>5 DEF vars
  <1> QED BY <1>1, <1>2, <1>3, <1>4, <1>5 DEF Next, Send

\* Every state of every behaviour is well typed, whatever the producers do.
THEOREM TypeCorrect == Spec => []TypeOK
  <1>1. Init => TypeOK
    BY DEF Init, TypeOK, Steps, Outcomes
  <1> QED BY <1>1, TypeStep, PTL DEF Spec

(***************************************************************************)
(* Where the values are.  Accounted and InOrder together are inductive:    *)
(* what has begun and is not pending is older than what is pending, so the *)
(* value a Send puts in is new and goes behind its own predecessors.       *)
(***************************************************************************)
Ledger == TypeOK /\ Accounted /\ InOrder

\* The queued values after a send, and before a receive.
LEMMA QueuedFacts ==
    ASSUME TypeOK
    PROVE  /\ \A v \in Values : chan' = Append(chan, v) => Queued' = Queued \cup {v}
           /\ chan # <<>> /\ chan' = Tail(chan) => Queued = Queued' \cup {Head(chan)}
           /\ chan # <<>> => Head(chan) \in Queued
           /\ chan' = chan => Queued' = Queued
  <1>0. chan \in Seq(Values)
    BY DEF TypeOK
  <1>1. ASSUME NEW v \in Values, chan' = Append(chan, v)
        PROVE  Queued' = Queued \cup {v}
    <2>1. Len(chan') = Len(chan) + 1 /\ Len(chan) \in Nat /\ chan'[Len(chan) + 1] = v
          /\ \A i \in 1..Len(chan) : chan'[i] = chan[i]
      BY <1>0, <1>1, AppendFacts
    <2>2. ASSUME NEW x \in Queued PROVE x \in Queued'
      BY <2>1 DEF Queued
    <2>3. v \in Queued'
      BY <2>1 DEF Queued
    <2>4. ASSUME NEW x \in Queued', x # v PROVE x \in Queued
      BY <2>1, <2>4 DEF Queued
    <2> QED BY <2>2, <2>3, <2>4
  <1>2. ASSUME chan # <<>>, chan' = Tail(chan)
        PROVE  Queued = Queued' \cup {Head(chan)}
    <2>1. Len(chan) \in Nat \ {0} /\ Len(chan') = Len(chan) - 1 /\ Head(chan) = chan[1]
          /\ \A i \in 1..Len(chan') : chan'[i] = chan[i + 1]
      BY <1>0, <1>2, TailFacts
    <2>2. ASSUME NEW x \in Queued' PROVE x \in Queued
      BY <2>1 DEF Queued
    <2>3. ASSUME NEW i \in 1..Len(chan), i # 1 PROVE chan[i] \in Queued'
      <3>1. i - 1 \in 1..Len(chan') /\ chan'[i - 1] = chan[(i - 1) + 1] /\ (i - 1) + 1 = i
        BY <2>1, <2>3
      <3> QED BY <3>1 DEF Queued
    <2>4. ASSUME NEW x \in Queued PROVE x \in Queued' \cup {Head(chan)}
      <3>1. PICK i \in 1..Len(chan) : x = chan[i]
        BY DEF Queued
      <3> QED BY <3>1, <2>1, <2>3
    <2>5. Head(chan) \in Queued
      BY <2>1 DEF Queued
    <2> QED BY <2>2, <2>4, <2>5
  <1>3. chan # <<>> => Head(chan) \in Queued
    BY <1>0, TailFacts DEF Queued
  <1> QED BY <1>1, <1>2, <1>3 DEF Queued

\* A value is its producer and its number.
LEMMA ValueFacts ==
    /\ \A v \in Values : v.from \in Producers /\ v.num \in Nat
    /\ \A v, w \in Values : v.from = w.from /\ v.num = w.num => v = w
  BY DEF Values

\* Every value in a channel, in hand, received or lost is one that was begun.
LEMMA BegunFacts ==
    ASSUME TypeOK
    PROVE  \A v : v \in Begun <=> v \in Values /\ v.num \in 1..sent[v.from]
  BY DEF Begun, Values, TypeOK

\* A producer inside Send has exactly the value it sent last in hand.
LEMMA PendingFacts ==
    ASSUME TypeOK
    PROVE  /\ \A v : v \in Pending <=> \E p \in Producers : v = Value(p) /\ pc[p] # "idle"
           /\ \A p \in Producers : Value(p) \in Values /\ Value(p).from = p /\ Value(p).num = sent[p]
  BY DEF Pending, Values, Value, TypeOK

\* A receive, by the consumer or by a producer making room, moves the oldest
\* value out and keeps the order of the others.
LEMMA TailKeepsOrder ==
    ASSUME Ledger, chan # <<>>, chan' = Tail(chan)
    PROVE  /\ Head(chan) \notin Queued'
           /\ \A i, j \in 1..Len(chan') : chan'[i] = chan'[j] => i = j
           /\ \A i, j \in 1..Len(chan') :
                i < j /\ chan'[i].from = chan'[j].from => chan'[i].num < chan'[j].num
           /\ \A v \in received \cup {Head(chan)}, i \in 1..Len(chan') :
                v.from = chan'[i].from => v.num < chan'[i].num
  <1>1. /\ Len(chan) \in Nat \ {0} /\ Len(chan') = Len(chan) - 1 /\ Head(chan) = chan[1]
        /\ \A i \in 1..Len(chan') : i + 1 \in 1..Len(chan) /\ chan'[i] = chan[i + 1]
    BY TailFacts DEF Ledger, TypeOK
  <1>2. Head(chan) \notin Queued'
    BY <1>1 DEF Queued, Ledger, Accounted
  <1>3. ASSUME NEW v \in received \cup {Head(chan)}, NEW i \in 1..Len(chan'),
               v.from = chan'[i].from
        PROVE  v.num < chan'[i].num
    BY <1>1, <1>3 DEF Ledger, InOrder
  <1> QED BY <1>1, <1>2, <1>3 DEF Ledger, InOrder, Accounted

\* A value sent after everything begun goes in at the end of its own order.
LEMMA AppendKeepsOrder ==
    ASSUME Ledger, NEW v \in Values, chan' = Append(chan, v),
           \A w \in Queued \cup received : w.from = v.from => w.num < v.num
    PROVE  /\ \A i, j \in 1..Len(chan') : chan'[i] = chan'[j] => i = j
           /\ \A i, j \in 1..Len(chan') :
                i < j /\ chan'[i].from = chan'[j].from => chan'[i].num < chan'[j].num
           /\ \A w \in received, i \in 1..Len(chan') :
                w.from = chan'[i].from => w.num < chan'[i].num
  <1>1. /\ Len(chan) \in Nat /\ Len(chan') = Len(chan) + 1 /\ chan'[Len(chan) + 1] = v
        /\ \A i \in 1..Len(chan) : chan'[i] = chan[i] /\ chan[i] \in Queued
    BY AppendFacts DEF Ledger, TypeOK, Queued
  <1>2. \A i \in 1..Len(chan') : i \in 1..Len(chan) \/ i = Len(chan) + 1
    BY <1>1
  <1>3. v \notin Queued /\ v.num \in Nat
    BY DEF Values
  <1>4. \A i, j \in 1..Len(chan') : chan'[i] = chan'[j] => i = j
    BY <1>1, <1>2, <1>3 DEF Ledger, Accounted
  <1>5. ASSUME NEW i \in 1..Len(chan'), NEW j \in 1..Len(chan'), i < j,
               chan'[i].from = chan'[j].from
        PROVE  chan'[i].num < chan'[j].num
    <2>1. i \in 1..Len(chan)
      BY <1>1, <1>2, <1>5
    <2> QED BY <1>1, <1>2, <1>5, <2>1 DEF Ledger, InOrder
  <1>6. ASSUME NEW w \in received, NEW i \in 1..Len(chan'), w.from = chan'[i].from
        PROVE  w.num < chan'[i].num
    BY <1>1, <1>2, <1>6 DEF Ledger, InOrder
  <1> QED BY <1>4, <1>5, <1>6

\* The consumer's receive moves one value from the queue to the received ones.
LEMMA LedgerReceive == Ledger /\ Receive /\ TypeOK' => Ledger'
  <1> SUFFICES ASSUME Ledger, Receive, TypeOK' PROVE Ledger'
    OBVIOUS
  <1>1. chan # <<>> /\ chan' = Tail(chan) /\ received' = received \cup {Head(chan)}
        /\ UNCHANGED <<pc, sent, lost>>
    BY DEF Receive
  <1>2. Pending' = Pending /\ Begun' = Begun
    BY <1>1 DEF Pending, Begun, Value
  <1>3. Queued = Queued' \cup {Head(chan)}
    BY <1>1, QueuedFacts DEF Ledger
  <1>4. Accounted'
    BY <1>1, <1>2, <1>3, TailKeepsOrder DEF Ledger, Accounted
  <1>5. InOrder'
    BY <1>1, TailKeepsOrder DEF InOrder
  <1> QED BY <1>4, <1>5 DEF Ledger

\* The first select queues the new value, or leaves it in its producer's hands.
LEMMA LedgerTrySend ==
    ASSUME NEW p \in Producers PROVE Ledger /\ TrySend(p) /\ TypeOK' => Ledger'
  <1> SUFFICES ASSUME Ledger, TrySend(p), TypeOK' PROVE Ledger'
    OBVIOUS
  <1> DEFINE v == Value(p)'
  <1>0. TypeOK
    BY DEF Ledger
  <1>1. /\ pc[p] = "idle" /\ sent' = [sent EXCEPT ![p] = @ + 1]
        /\ received' = received /\ lost' = lost
    BY DEF TrySend
  <1>2. v \in Values /\ v.from = p /\ v.num = sent[p] + 1 /\ sent[p] \in Nat
    BY <1>0, <1>1 DEF Value, Values, TypeOK
  <1>3. Begun' = Begun \cup {v} /\ v \notin Begun
        /\ \A w \in Begun : w.from = p => w.num < v.num
    <2>1. \A w : w \in Begun' <=> w \in Values /\ w.num \in 1..sent'[w.from]
      BY DEF Begun, Values, TypeOK
    <2>2. sent'[p] = sent[p] + 1 /\ \A q \in Producers \ {p} : sent'[q] = sent[q]
      BY <1>0, <1>1 DEF TypeOK
    <2>3. ASSUME NEW w \in Begun', w \notin Begun PROVE w = v
      <3>1. w \in Values /\ w.num \in 1..sent'[w.from] /\ w.num \notin 1..sent[w.from]
        BY <1>0, <2>1, <2>3, BegunFacts
      <3>2. w.from = p /\ w.num = sent[p] + 1
        BY <1>2, <2>2, <3>1, ValueFacts
      <3> QED BY <1>2, <3>1, <3>2, ValueFacts
    <2>4. ASSUME NEW w \in Begun PROVE w \in Begun' /\ (w.from = p => w.num < v.num)
      <3>1. w \in Values /\ w.num \in 1..sent[w.from]
        BY <1>0, BegunFacts
      <3>2. w.num \in 1..sent'[w.from]
        BY <1>2, <2>2, <3>1, ValueFacts
      <3> QED BY <1>2, <2>1, <3>1, <3>2
    <2>5. v \in Begun' /\ v \notin Begun
      <3>1. v.num \in 1..sent'[v.from] /\ v.num \notin 1..sent[v.from]
        BY <1>2, <2>2
      <3> QED BY <1>0, <1>2, <2>1, <3>1, BegunFacts
    <2> QED BY <2>3, <2>4, <2>5
  <1>4. Queued \cup received \cup lost \cup Pending = Begun
    BY DEF Ledger, Accounted
  <1>5. ASSUME chan' = Append(chan, v), pc' = [pc EXCEPT ![p] = "idle"]
        PROVE  Ledger'
    <2>1. Queued' = Queued \cup {v}
      BY <1>0, <1>2, <1>5, QueuedFacts
    <2>2. Pending' = Pending
      BY <1>0, <1>1, <1>5 DEF Pending, Value, TypeOK
    <2>3. \A w \in Queued \cup received : w.from = v.from => w.num < v.num
      BY <1>2, <1>3, <1>4
    <2>4. /\ \A i, j \in 1..Len(chan') : chan'[i] = chan'[j] => i = j
          /\ \A i, j \in 1..Len(chan') :
               i < j /\ chan'[i].from = chan'[j].from => chan'[i].num < chan'[j].num
          /\ \A w \in received, i \in 1..Len(chan') :
               w.from = chan'[i].from => w.num < chan'[i].num
      BY <1>2, <1>5, <2>3, AppendKeepsOrder
    <2>5. Accounted'
      BY <1>1, <1>3, <2>1, <2>2, <2>4 DEF Ledger, Accounted
    <2>6. InOrder'
      BY <1>1, <2>4 DEF InOrder
    <2> QED BY <2>5, <2>6 DEF Ledger
  <1>6. ASSUME chan' = chan, pc' = [pc EXCEPT ![p] = "makeRoom"]
        PROVE  Ledger'
    <2>1. Queued' = Queued
      BY <1>6 DEF Queued
    <2>2. Pending' = Pending \cup {v}
      <3>1. \A w : w \in Pending' <=> \E q \in Producers : w = Value(q)' /\ pc'[q] # "idle"
        BY DEF Pending
      <3>2. \A q \in Producers \ {p} : Value(q)' = Value(q) /\ pc'[q] = pc[q]
        BY <1>0, <1>1, <1>6 DEF Value, TypeOK
      <3>3. pc'[p] # "idle"
        BY <1>0, <1>6 DEF TypeOK
      <3> QED BY <1>0, <1>1, <3>1, <3>2, <3>3, PendingFacts
    <2>3. Accounted'
      BY <1>1, <1>3, <1>6, <2>1, <2>2 DEF Ledger, Accounted
    <2>4. InOrder'
      BY <1>1, <1>6 DEF Ledger, InOrder
    <2> QED BY <2>3, <2>4 DEF Ledger
  <1> QED BY <1>5, <1>6 DEF TrySend, Return

\* The second select moves the oldest queued value, if any, to the lost ones.
LEMMA LedgerMakeRoom ==
    ASSUME NEW p \in Producers PROVE Ledger /\ MakeRoom(p) /\ TypeOK' => Ledger'
  <1> SUFFICES ASSUME Ledger, MakeRoom(p), TypeOK' PROVE Ledger'
    OBVIOUS
  <1>0. TypeOK
    BY DEF Ledger
  <1>1. /\ pc[p] = "makeRoom" /\ pc' = [pc EXCEPT ![p] = "retry"]
        /\ UNCHANGED <<sent, received>>
    BY DEF MakeRoom
  <1>2. Begun' = Begun
    BY <1>1 DEF Begun
  <1>3. Pending' = Pending
    BY <1>0, <1>1 DEF Pending, Value, TypeOK
  <1>4. ASSUME chan # <<>>, chan' = Tail(chan), lost' = lost \cup {Head(chan)}
        PROVE  Ledger'
    <2>1. Queued = Queued' \cup {Head(chan)}
      BY <1>0, <1>4, QueuedFacts
    <2>2. Accounted'
      BY <1>1, <1>2, <1>3, <1>4, <2>1, TailKeepsOrder DEF Ledger, Accounted
    <2>3. InOrder'
      BY <1>1, <1>4, TailKeepsOrder DEF InOrder
    <2> QED BY <2>2, <2>3 DEF Ledger
  <1>5. ASSUME UNCHANGED <<chan, lost>> PROVE Ledger'
    <2>1. Queued' = Queued
      BY <1>5 DEF Queued
    <2> QED BY <1>1, <1>2, <1>3, <1>5, <2>1 DEF Ledger, Accounted, InOrder
  <1> QED BY <1>4, <1>5 DEF MakeRoom

\* The third select queues the value in hand, or gives it up.
LEMMA LedgerRetry ==
    ASSUME NEW p \in Producers PROVE Ledger /\ Retry(p) /\ TypeOK' => Ledger'
  <1> SUFFICES ASSUME Ledger, Retry(p), TypeOK' PROVE Ledger'
    OBVIOUS
  <1> DEFINE v == Value(p)
  <1>0. TypeOK
    BY DEF Ledger
  <1>1. /\ pc[p] = "retry" /\ pc' = [pc EXCEPT ![p] = "idle"]
        /\ UNCHANGED <<sent, received>>
    BY DEF Retry, Return
  <1>2. Begun' = Begun
    BY <1>1 DEF Begun
  <1>3. v \in Values /\ v.from = p /\ v.num = sent[p] /\ v \in Pending
    BY <1>0, <1>1, PendingFacts
  <1>4. Pending' = Pending \ {v}
    <2>1. \A w : w \in Pending' <=> \E q \in Producers \ {p} : w = Value(q) /\ pc[q] # "idle"
      BY <1>0, <1>1 DEF Pending, Value, TypeOK
    <2> QED BY <2>1, <1>0, <1>3, PendingFacts
  <1>5. \A w \in Queued \cup received : w.from = p => w.num < v.num
    <2>1. \A w \in Queued \cup received : w \in Begun /\ w \notin Pending
      BY DEF Ledger, Accounted
    <2>2. ASSUME NEW w \in Begun, w # v, w.from = p PROVE w.num < v.num
      <3>1. w \in Values /\ w.num \in 1..sent[p]
        BY <1>0, <2>2, BegunFacts
      <3>2. w.num # v.num
        BY <1>3, <2>2, <3>1, ValueFacts
      <3> QED BY <1>0, <1>3, <3>1, <3>2 DEF TypeOK
    <2> QED BY <1>3, <2>1, <2>2
  <1>6. ASSUME chan' = Append(chan, v), lost' = lost PROVE Ledger'
    <2>1. Queued' = Queued \cup {v}
      BY <1>0, <1>3, <1>6, QueuedFacts
    <2>2. /\ \A i, j \in 1..Len(chan') : chan'[i] = chan'[j] => i = j
          /\ \A i, j \in 1..Len(chan') :
               i < j /\ chan'[i].from = chan'[j].from => chan'[i].num < chan'[j].num
          /\ \A w \in received, i \in 1..Len(chan') :
               w.from = chan'[i].from => w.num < chan'[i].num
      BY <1>3, <1>5, <1>6, AppendKeepsOrder
    <2>3. Accounted'
      BY <1>1, <1>2, <1>3, <1>4, <1>6, <2>1, <2>2 DEF Ledger, Accounted
    <2>4. InOrder'
      BY <1>1, <2>2 DEF InOrder
    <2> QED BY <2>3, <2>4 DEF Ledger
  <1>7. ASSUME chan' = chan, lost' = lost \cup {v} PROVE Ledger'
    <2>1. Queued' = Queued
      BY <1>7 DEF Queued
    <2>2. Accounted'
      BY <1>1, <1>2, <1>3, <1>4, <1>7, <2>1 DEF Ledger, Accounted
    <2>3. InOrder'
      BY <1>1, <1>7 DEF Ledger, InOrder
    <2> QED BY <2>2, <2>3 DEF Ledger
  <1> QED BY <1>6, <1>7 DEF Retry

\* Nothing has been sent yet.
LEMMA InitLedger == Init => Ledger
  <1> SUFFICES ASSUME Init PROVE Ledger
    OBVIOUS
  <1>1. TypeOK
    BY DEF Init, TypeOK, Steps, Outcomes
  <1>2. Begun = {} /\ Pending = {} /\ Queued = {} /\ Len(chan) = 0
    BY DEF Init, Begun, Pending, Queued
  <1> QED BY <1>1, <1>2 DEF Init, Ledger, Accounted, InOrder

\* The ledger balances after every step of every goroutine.
LEMMA LedgerStep == Ledger /\ [Next]_vars => Ledger'
  <1> SUFFICES ASSUME Ledger, [Next]_vars PROVE Ledger'
    OBVIOUS
  <1>1. TypeOK'
    BY TypeStep DEF Ledger
  <1>2. CASE UNCHANGED vars
    <2>1. UNCHANGED <<Begun, Pending, Queued>>
      BY <1>2 DEF vars, Begun, Pending, Queued, Value
    <2> QED BY <1>1, <1>2, <2>1 DEF vars, Ledger, Accounted, InOrder
  <1> QED BY <1>1, <1>2, LedgerReceive, LedgerTrySend, LedgerMakeRoom, LedgerRetry
          DEF Next, Send

\* The queue stays within its capacity and no value sent is ever duplicated,
\* forgotten or reordered, whatever the interleaving of any number of
\* concurrent Sends with the consumer (dropchan.go:48-78).
THEOREM LedgerCorrect == Spec => []QueueIsSound
  <1>1. TypeOK /\ Ledger => QueueIsSound
    BY DEF Ledger, QueueIsSound
  <1> QED BY <1>1, InitLedger, LedgerStep, TypeCorrect, PTL DEF Spec

(***************************************************************************)
(* One producer.  Between its second and its third select nobody adds to   *)
(* the channel, so the third select finds the room the second one made.    *)
(***************************************************************************)
RoomMade(p) == pc[p] = "retry" => Len(chan) < Cap
Exact(p) ==
    /\ outcome[p] # "Dropped"
    /\ pc[p] = "makeRoom" => ~displaced[p]
    /\ IsFiniteSet(lost)
    /\ Cardinality(lost) = counted[p] + (IF pc[p] = "retry" /\ displaced[p] THEN 1 ELSE 0)
Sole(p) == Ledger /\ RoomMade(p) /\ Exact(p)

\* Nobody fills the room the second select of the sole producer has made.
LEMMA SoleStep ==
    ASSUME NEW p \in Producers, Sole(p), Receive \/ Send(p), Ledger'
    PROVE  Sole(p)'
  <1>0. /\ TypeOK /\ Len(chan) \in Nat /\ chan \in Seq(Values) /\ p \in Producers
        /\ Cardinality(lost) \in Nat /\ counted[p] \in Nat /\ sent[p] \in Nat
        /\ pc[p] \in Steps /\ displaced[p] \in BOOLEAN
    BY FS_CardinalityType DEF Sole, Ledger, TypeOK, Exact
  <1>1. CASE Receive
    <2>1. chan # <<>> /\ chan' = Tail(chan)
          /\ UNCHANGED <<pc, displaced, outcome, counted, lost>>
      BY <1>1 DEF Receive
    <2>2. RoomMade(p)'
      BY <1>0, <2>1, TailFacts DEF Sole, RoomMade
    <2> QED BY <2>1, <2>2 DEF Sole, Exact
  <1>2. CASE TrySend(p)
    <2>1. pc[p] = "idle" /\ lost' = lost /\ displaced'[p] = FALSE
      BY <1>0, <1>2 DEF TrySend, TypeOK
    <2>2. pc'[p] \in {"idle", "makeRoom"} /\ outcome'[p] \in {outcome[p], "Delivered"}
          /\ counted'[p] = counted[p]
      BY <1>0, <1>2 DEF TrySend, Return, Lost, TypeOK
    <2> QED BY <2>1, <2>2 DEF Sole, RoomMade, Exact
  <1>3. CASE MakeRoom(p)
    <2>1. pc'[p] = "retry" /\ UNCHANGED <<outcome, counted>> /\ pc[p] = "makeRoom"
      BY <1>0, <1>3 DEF MakeRoom, TypeOK
    <2>2. CASE chan # <<>> /\ chan' = Tail(chan) /\ lost' = lost \cup {Head(chan)}
               /\ displaced' = [displaced EXCEPT ![p] = TRUE]
      <3>1. Len(chan') < Cap /\ Head(chan) \in Queued
        BY <1>0, <2>2, TailFacts, QueuedFacts DEF TypeOK
      <3>2. Head(chan) \notin lost
        BY <3>1 DEF Sole, Ledger, Accounted
      <3>3. IsFiniteSet(lost') /\ Cardinality(lost') = Cardinality(lost) + 1
        BY <2>2, <3>2, FS_AddElement DEF Sole, Exact
      <3>4. displaced'[p]
        BY <1>0, <2>2 DEF TypeOK
      <3>5. Cardinality(lost) = counted[p]
        BY <1>0, <2>1 DEF Sole, Exact
      <3>6. Cardinality(lost') = counted'[p] + (IF pc'[p] = "retry" /\ displaced'[p] THEN 1 ELSE 0)
        BY <2>1, <3>3, <3>4, <3>5
      <3> QED BY <2>1, <3>1, <3>3, <3>6 DEF Sole, RoomMade, Exact
    <2>3. CASE chan = <<>> /\ UNCHANGED <<chan, lost, displaced>>
      <3>1. ~displaced[p]
        BY <2>1 DEF Sole, Exact
      <3> QED BY <1>0, <2>1, <2>3, <3>1 DEF Sole, RoomMade, Exact
    <2> QED BY <1>3, <2>2, <2>3 DEF MakeRoom
  <1>4. CASE Retry(p)
    <2>1. pc[p] = "retry" /\ pc'[p] = "idle" /\ Len(chan) < Cap
      BY <1>0, <1>4 DEF Retry, Return, Sole, RoomMade, TypeOK
    <2>2. lost' = lost /\ Return(p, IF displaced[p] THEN "ReplacedOldest" ELSE "Delivered")
      BY <1>0, <1>4, <2>1 DEF Retry
    <2>3. outcome'[p] # "Dropped" /\ counted'[p] = counted[p] + (IF displaced[p] THEN 1 ELSE 0)
      BY <1>0, <2>2 DEF Return, Lost, TypeOK
    <2> QED BY <1>0, <2>1, <2>2, <2>3 DEF Sole, RoomMade, Exact
  <1> QED BY <1>1, <1>2, <1>3, <1>4 DEF Send

\* A producer that has not called Send is not inside it.
Quiet == \A q \in Producers : sent[q] = 0 => pc[q] = "idle"
AloneInv == Ledger /\ Quiet /\ \A p \in Producers : Alone(p) => Sole(p)

\* The first Send of another producer is what ends the time of a sole one.
LEMMA AloneStep == ASSUME AloneInv, [Next]_vars, Ledger' PROVE AloneInv'
  <1>0. sent \in [Producers -> Nat] /\ pc \in [Producers -> Steps]
    BY DEF AloneInv, Ledger, TypeOK
  <1>1. CASE UNCHANGED vars
    BY <1>1 DEF vars, AloneInv, Quiet, Alone, Sole, RoomMade, Exact
  <1>2. CASE Receive
    <2>1. UNCHANGED <<sent, pc>>
      BY <1>2 DEF Receive
    <2>2. ASSUME NEW p \in Producers, Alone(p)' PROVE Sole(p)'
      BY <1>2, <2>1, <2>2, SoleStep DEF AloneInv, Alone
    <2> QED BY <2>1, <2>2 DEF AloneInv, Quiet
  <1>3. ASSUME NEW q \in Producers, Send(q) PROVE AloneInv'
    <2>1. \/ pc[q] = "idle" /\ sent' = [sent EXCEPT ![q] = @ + 1]
          \/ pc[q] # "idle" /\ sent' = sent
      BY <1>3 DEF Send, TrySend, MakeRoom, Retry
    <2>2. \A r \in Producers \ {q} : pc'[r] = pc[r]
      BY <1>3, <1>0 DEF Send, TrySend, MakeRoom, Retry, Return
    <2>3. sent'[q] # 0
      BY <1>0, <2>1 DEF AloneInv, Quiet
    <2>4. \A r \in Producers \ {q} : sent'[r] = sent[r]
      BY <1>0, <2>1
    <2>5. Quiet'
      BY <2>2, <2>3, <2>4 DEF AloneInv, Quiet
    <2>6. ASSUME NEW p \in Producers, Alone(p)' PROVE Sole(p)'
      <3>1. p = q
        BY <2>3, <2>6 DEF Alone
      <3>2. Alone(p)
        BY <2>4, <2>6, <3>1 DEF Alone
      <3> QED BY <1>3, <3>1, <3>2, SoleStep DEF AloneInv
    <2> QED BY <2>5, <2>6 DEF AloneInv
  <1> QED BY <1>1, <1>2, <1>3 DEF Next

\* It holds in every behaviour.
LEMMA AloneAlways == Spec => []AloneInv
  <1>1. Init => AloneInv
    <2> SUFFICES ASSUME Init PROVE AloneInv
      OBVIOUS
    <2>1. Ledger
      BY InitLedger
    <2>2. IsFiniteSet(lost) /\ Cardinality(lost) = 0
      BY FS_EmptySet DEF Init
    <2> QED BY <2>1, <2>2 DEF Init, AloneInv, Quiet, Sole, RoomMade, Exact
  <1>2. AloneInv /\ Ledger' /\ [Next]_vars => AloneInv'
    BY AloneStep
  <1>3. Spec => []Ledger
    BY InitLedger, LedgerStep, PTL DEF Spec
  <1> QED BY <1>1, <1>2, <1>3, PTL DEF Spec

\* Where there is one producer only, it is the sole one for ever.
LEMMA SoleAlways == ASSUME NEW p, Producers = {p} PROVE Spec => []Sole(p)
  <1>1. AloneInv => Sole(p)
    BY DEF AloneInv, Alone
  <1> QED BY <1>1, AloneAlways, PTL

\* As long as it is alone a producer never sees Dropped, and its counter is the
\* number of lost values whenever it is not inside Send (dropchan.go:24-27, 82).
THEOREM SoleProducerIsExact == Spec => []SoleProducerExact
  <1>1. AloneInv => SoleProducerExact
    <2> SUFFICES ASSUME AloneInv, NEW p \in Producers, Alone(p)
                 PROVE  outcome[p] # "Dropped" /\ (pc[p] = "idle" => counted[p] = Cardinality(lost))
      BY DEF SoleProducerExact
    <2>1. counted[p] \in Nat /\ Sole(p)
      BY DEF AloneInv, Ledger, TypeOK
    <2> QED BY <2>1 DEF Sole, Exact
  <1> QED BY <1>1, AloneAlways, PTL

(***************************************************************************)
(* Many producers.  A counter is raised when its Send returns, and a value *)
(* may be lost before that: the lost values are at least those counted and *)
(* those displaced by a Send under way, and one more for every Dropped.    *)
(***************************************************************************)
Losses ==
    /\ \A p \in Producers : pc[p] = "makeRoom" => ~displaced[p]
    /\ IsFiniteSet(lost) /\ IsFiniteSet(Counted) /\ IsFiniteSet(Displacing)
    /\ Cardinality(Counted) + Cardinality(Displacing) <= Cardinality(lost)
    /\ Cardinality(lost) <= 2 * Cardinality(Counted) + Cardinality(Displacing)
LossInv == Ledger /\ Losses

\* Raising one counter by one adds one element to what the counters add up to.
LEMMA CountedFacts ==
    ASSUME TypeOK, NEW p \in Producers, IsFiniteSet(Counted),
           counted' = [counted EXCEPT ![p] = @ + 1]
    PROVE  IsFiniteSet(Counted') /\ Cardinality(Counted') = Cardinality(Counted) + 1
  <1> DEFINE new == [from |-> p, num |-> counted[p] + 1]
  <1>0. counted \in [Producers -> Nat]
    BY DEF TypeOK
  <1>1. \A v : v \in Counted <=> v \in Values /\ v.num \in 1..counted[v.from]
    BY <1>0 DEF Counted, Values
  <1>2. \A v : v \in Counted' <=> v \in Values /\ v.num \in 1..counted'[v.from]
    BY <1>0 DEF Counted, Values
  <1>3. counted'[p] = counted[p] + 1 /\ \A q \in Producers \ {p} : counted'[q] = counted[q]
    BY <1>0
  <1>4. new \in Values /\ new.from = p /\ new.num = counted[p] + 1 /\ counted[p] \in Nat
    BY <1>0 DEF Values
  <1> HIDE DEF new
  <1>5. ASSUME NEW v \in Counted', v \notin Counted PROVE v = new
    <2>1. v \in Values /\ v.num \in 1..counted'[v.from] /\ v.num \notin 1..counted[v.from]
      BY <1>1, <1>2, <1>5
    <2>2. v.from = p /\ v.num = counted[p] + 1
      BY <1>3, <1>4, <2>1, ValueFacts
    <2> QED BY <1>4, <2>1, <2>2, ValueFacts
  <1>6. ASSUME NEW v \in Counted PROVE v \in Counted'
    <2>1. v \in Values /\ v.num \in 1..counted[v.from]
      BY <1>1
    <2>2. v.num \in 1..counted'[v.from]
      BY <1>3, <1>4, <2>1, ValueFacts
    <2> QED BY <1>2, <2>1, <2>2
  <1>7. new \in Counted' /\ new \notin Counted
    <2>1. new.num \in 1..counted'[new.from] /\ new.num \notin 1..counted[new.from]
      BY <1>3, <1>4
    <2> QED BY <1>1, <1>2, <1>4, <2>1
  <1>8. Counted' = Counted \cup {new}
    BY <1>5, <1>6, <1>7
  <1> QED BY <1>7, <1>8, FS_AddElement

\* The first select loses nothing, whether it finds room or not.
LEMMA LossesTrySend ==
    ASSUME NEW p \in Producers, LossInv, TrySend(p) PROVE Losses'
  <1>0. /\ pc \in [Producers -> Steps] /\ displaced \in [Producers -> BOOLEAN]
        /\ counted \in [Producers -> Nat]
    BY DEF LossInv, Ledger, TypeOK
  <1>1. pc[p] = "idle" /\ lost' = lost /\ displaced' = [displaced EXCEPT ![p] = FALSE]
    BY DEF TrySend
  <1>2. counted' = counted /\ (\A q \in Producers \ {p} : pc'[q] = pc[q]) /\ pc'[p] # "retry"
    BY <1>0 DEF TrySend, Return, Lost
  <1>3. Counted' = Counted /\ Displacing' = Displacing
    BY <1>0, <1>1, <1>2 DEF Counted, Displacing
  <1>4. \A q \in Producers : pc'[q] = "makeRoom" => ~displaced'[q]
    BY <1>0, <1>1, <1>2 DEF LossInv, Losses
  <1> QED BY <1>1, <1>3, <1>4 DEF LossInv, Losses

\* The second select loses a value that its producer has yet to count.
LEMMA LossesMakeRoom ==
    ASSUME NEW p \in Producers, LossInv, MakeRoom(p) PROVE Losses'
  <1>0. /\ pc \in [Producers -> Steps] /\ displaced \in [Producers -> BOOLEAN] /\ TypeOK
        /\ IsFiniteSet(lost) /\ IsFiniteSet(Counted) /\ IsFiniteSet(Displacing)
        /\ Cardinality(lost) \in Nat /\ Cardinality(Counted) \in Nat
        /\ Cardinality(Displacing) \in Nat
    BY FS_CardinalityType DEF LossInv, Losses, Ledger, TypeOK
  <1>1. pc[p] = "makeRoom" /\ pc' = [pc EXCEPT ![p] = "retry"] /\ counted' = counted
    BY DEF MakeRoom
  <1>2. Counted' = Counted /\ p \notin Displacing
    BY <1>1 DEF Counted, Displacing
  <1>3. CASE chan # <<>> /\ lost' = lost \cup {Head(chan)}
             /\ displaced' = [displaced EXCEPT ![p] = TRUE]
    <2>1. Head(chan) \notin lost
      BY <1>0, <1>3, QueuedFacts DEF LossInv, Ledger, Accounted
    <2>2. IsFiniteSet(lost') /\ Cardinality(lost') = Cardinality(lost) + 1
      BY <1>0, <1>3, <2>1, FS_AddElement
    <2>3. Displacing' = Displacing \cup {p}
      BY <1>0, <1>1, <1>3 DEF Displacing
    <2>4. IsFiniteSet(Displacing') /\ Cardinality(Displacing') = Cardinality(Displacing) + 1
      BY <1>0, <1>2, <2>3, FS_AddElement
    <2>5. \A q \in Producers : pc'[q] = "makeRoom" => ~displaced'[q]
      BY <1>0, <1>1, <1>3 DEF LossInv, Losses
    <2> QED BY <1>0, <1>2, <2>2, <2>4, <2>5 DEF LossInv, Losses
  <1>4. CASE UNCHANGED <<lost, displaced>>
    <2>1. ~displaced[p]
      BY <1>1 DEF LossInv, Losses
    <2>2. Displacing' = Displacing
      BY <1>0, <1>1, <1>4, <2>1 DEF Displacing
    <2>3. \A q \in Producers : pc'[q] = "makeRoom" => ~displaced'[q]
      BY <1>0, <1>1, <1>4 DEF LossInv, Losses
    <2> QED BY <1>2, <1>4, <2>2, <2>3 DEF LossInv, Losses
  <1> QED BY <1>3, <1>4 DEF MakeRoom

\* The third select counts the value displaced before, and a value it gives up.
LEMMA LossesRetry ==
    ASSUME NEW p \in Producers, LossInv, Retry(p) PROVE Losses'
  <1>0. /\ pc \in [Producers -> Steps] /\ displaced \in [Producers -> BOOLEAN] /\ TypeOK
        /\ IsFiniteSet(lost) /\ IsFiniteSet(Counted) /\ IsFiniteSet(Displacing)
        /\ Cardinality(lost) \in Nat /\ Cardinality(Counted) \in Nat
        /\ Cardinality(Displacing) \in Nat
    BY FS_CardinalityType DEF LossInv, Losses, Ledger, TypeOK
  <1>1. pc[p] = "retry" /\ pc' = [pc EXCEPT ![p] = "idle"] /\ displaced' = displaced
    BY DEF Retry, Return
  <1>2. Displacing' = Displacing \ {p} /\ (p \in Displacing <=> displaced[p])
    BY <1>0, <1>1 DEF Displacing
  <1>3. /\ IsFiniteSet(Displacing')
        /\ displaced[p] => /\ Cardinality(Displacing') = Cardinality(Displacing) - 1
                           /\ Cardinality(Displacing') \in Nat
        /\ ~displaced[p] => Displacing' = Displacing
    BY <1>0, <1>2, FS_RemoveElement, FS_CardinalityType
  <1>4. \A q \in Producers : pc'[q] = "makeRoom" => ~displaced'[q]
    BY <1>0, <1>1 DEF LossInv, Losses
  <1>5. CASE lost' = lost /\ displaced[p] /\ Return(p, "ReplacedOldest")
    <2>1. counted' = [counted EXCEPT ![p] = @ + 1]
      BY <1>5 DEF Return, Lost
    <2>2. IsFiniteSet(Counted') /\ Cardinality(Counted') = Cardinality(Counted) + 1
      BY <1>0, <2>1, CountedFacts
    <2> QED BY <1>0, <1>3, <1>4, <1>5, <2>2 DEF LossInv, Losses
  <1>6. CASE lost' = lost /\ ~displaced[p] /\ Return(p, "Delivered")
    <2>1. counted' = counted
      BY <1>0, <1>6 DEF Return, Lost, TypeOK
    <2>2. Counted' = Counted
      BY <2>1 DEF Counted
    <2> QED BY <1>3, <1>4, <1>6, <2>2 DEF LossInv, Losses
  <1>7. CASE lost' = lost \cup {Value(p)} /\ Return(p, "Dropped")
    <2>1. counted' = [counted EXCEPT ![p] = @ + 1]
      BY <1>7 DEF Return, Lost
    <2>2. IsFiniteSet(Counted') /\ Cardinality(Counted') = Cardinality(Counted) + 1
      BY <1>0, <2>1, CountedFacts
    <2>3. Value(p) \notin lost
      BY <1>0, <1>1, PendingFacts DEF LossInv, Ledger, Accounted
    <2>4. IsFiniteSet(lost') /\ Cardinality(lost') = Cardinality(lost) + 1
      BY <1>0, <1>7, <2>3, FS_AddElement
    <2> QED BY <1>0, <1>3, <1>4, <2>2, <2>4 DEF LossInv, Losses
  <1> QED BY <1>0, <1>5, <1>6, <1>7 DEF Retry

\* "Lost reports whether the outcome means a value was thrown away": what the counters of any
\* number of concurrent producers add up to is never more than was lost, and at least half of it but
\* for what Sends under way have just displaced (dropchan.go:48-82).
THEOREM CountersBoundTheLoss == Spec => []LossBounds
  <1>1. Init => LossInv
    <2> SUFFICES ASSUME Init PROVE LossInv
      OBVIOUS
    <2>1. lost = {} /\ Counted = {} /\ Displacing = {}
      BY DEF Init, Counted, Displacing
    <2>2. IsFiniteSet({}) /\ Cardinality({}) = 0
      BY FS_EmptySet
    <2>3. \A p \in Producers : pc[p] # "makeRoom"
      BY DEF Init
    <2> QED BY <2>1, <2>2, <2>3, InitLedger DEF LossInv, Losses
  <1>2. LossInv /\ [Next]_vars => LossInv'
    <2> SUFFICES ASSUME LossInv, [Next]_vars PROVE Losses'
      BY LedgerStep DEF LossInv
    <2>1. CASE Receive \/ UNCHANGED vars
      <3>1. UNCHANGED <<pc, displaced, counted, lost>>
        BY <2>1 DEF Receive, vars
      <3>2. Counted' = Counted /\ Displacing' = Displacing
        BY <3>1 DEF Counted, Displacing
      <3> QED BY <3>1, <3>2 DEF LossInv, Losses
    <2> QED BY <2>1, LossesTrySend, LossesMakeRoom, LossesRetry DEF Next, Send
  <1>3. LossInv => LossBounds
    <2> SUFFICES ASSUME LossInv PROVE LossBounds
      OBVIOUS
    <2>1. Cardinality(Counted) \in Nat /\ Cardinality(Displacing) \in Nat /\ Cardinality(lost) \in Nat
      BY FS_CardinalityType DEF LossInv, Losses
    <2> QED BY <2>1 DEF LossInv, Losses, LossBounds
  <1> QED BY <1>1, <1>2, <1>3, PTL DEF Spec

(***************************************************************************)
(* A sole producer's Send is one indivisible step of KeepNewest.           *)
(***************************************************************************)

\* The queue and the offers KeepNewest sees, read off the state of Send.
AbsQueue == IF \E p \in Producers : Sure(p)
            THEN Append(chan, Value(CHOOSE p \in Producers : Sure(p)))
            ELSE chan
AbsOffered == [p \in Producers |-> IF pc[p] = "makeRoom" THEN sent[p] - 1 ELSE sent[p]]

\* The abstract queue and offers, when p is the only producer.
LEMMA AbsFacts ==
    ASSUME NEW p, Producers = {p}
    PROVE  /\ AbsQueue = IF pc[p] = "retry" THEN Append(chan, Value(p)) ELSE chan
           /\ AbsOffered = [q \in {p} |-> IF pc[p] = "makeRoom" THEN sent[p] - 1 ELSE sent[p]]
  <1>1. (\E q \in Producers : Sure(q)) <=> pc[p] = "retry"
    BY DEF Sure
  <1>2. pc[p] = "retry" => (CHOOSE q \in Producers : Sure(q)) = p
    BY DEF Sure
  <1> QED BY <1>1, <1>2 DEF AbsQueue, AbsOffered

\* The first select of Send is an offer when there is room and nothing to
\* KeepNewest otherwise, the second one is the offer that makes room, the
\* third one is nothing.
LEMMA AbstractStep ==
    ASSUME NEW p, Producers = {p}, Sole(p), Sole(p)', [Next]_vars
    PROVE  [Abstract!KNext]_(Abstract!kvars)
  <1> DEFINE v == [from |-> p, num |-> AbsOffered[p] + 1]
  <1>0. /\ TypeOK /\ Len(chan) \in Nat /\ chan \in Seq(Values) /\ p \in Producers
        /\ sent[p] \in Nat /\ pc[p] \in Steps /\ RoomMade(p) /\ sent' \in [{p} -> Nat]
        /\ pc' \in [{p} -> Steps] /\ Value(p) \in Values
    BY PendingFacts DEF Sole, Ledger, TypeOK
  <1>a. /\ AbsQueue = IF pc[p] = "retry" THEN Append(chan, Value(p)) ELSE chan
        /\ AbsOffered = [q \in {p} |-> IF pc[p] = "makeRoom" THEN sent[p] - 1 ELSE sent[p]]
    BY AbsFacts
  <1>b. /\ AbsQueue' = IF pc'[p] = "retry" THEN Append(chan', Value(p)') ELSE chan'
        /\ AbsOffered' = [q \in {p} |-> IF pc'[p] = "makeRoom" THEN sent'[p] - 1 ELSE sent'[p]]
    <2>1. (\E q \in Producers : pc'[q] = "retry") <=> pc'[p] = "retry"
      OBVIOUS
    <2>2. pc'[p] = "retry" => (CHOOSE q \in Producers : pc'[q] = "retry") = p
      OBVIOUS
    <2>3. AbsQueue' = IF \E q \in Producers : pc'[q] = "retry"
                      THEN LET c == CHOOSE q \in Producers : pc'[q] = "retry"
                           IN  Append(chan', [from |-> c, num |-> sent'[c]])
                      ELSE chan'
      BY DEF AbsQueue, Sure, Value
    <2>4. AbsOffered' = [q \in {p} |-> IF pc'[p] = "makeRoom" THEN sent'[p] - 1 ELSE sent'[p]]
      BY DEF AbsOffered
    <2> QED BY <2>1, <2>2, <2>3, <2>4 DEF Value
  <1>c. (UNCHANGED <<AbsQueue, AbsOffered, lost>>) => [Abstract!KNext]_(Abstract!kvars)
    BY DEF Abstract!kvars, AbsQueue, AbsOffered
  <1>d. ASSUME AbsOffered' = [AbsOffered EXCEPT ![p] = @ + 1],
               \/ Len(AbsQueue) < Cap /\ AbsQueue' = Append(AbsQueue, v) /\ lost' = lost
               \/ /\ AbsQueue # <<>> /\ AbsQueue' = Append(Tail(AbsQueue), v)
                  /\ lost' = lost \cup {Head(AbsQueue)}
        PROVE  [Abstract!KNext]_(Abstract!kvars)
    <2>1. Abstract!Offer(p)
      BY <1>d DEF Abstract!Offer, AbsQueue, AbsOffered
    <2> QED BY <1>0, <2>1 DEF Abstract!KNext
  <1>1. CASE Receive
    <2>1. /\ chan # <<>> /\ chan' = Tail(chan) /\ lost' = lost
          /\ UNCHANGED <<pc, sent>>
      BY <1>1 DEF Receive
    <2>2. AbsOffered' = AbsOffered /\ Value(p)' = Value(p)
      BY <1>a, <1>b, <2>1 DEF Value
    <2>3. AbsQueue # <<>> /\ AbsQueue' = Tail(AbsQueue)
      <3>1. CASE pc[p] = "retry"
        <4>1. AbsQueue = Append(chan, Value(p)) /\ AbsQueue' = Append(Tail(chan), Value(p))
          BY <1>a, <1>b, <2>1, <2>2, <3>1
        <4>2. /\ Append(chan, Value(p)) # <<>>
              /\ Tail(Append(chan, Value(p))) = Append(Tail(chan), Value(p))
          BY <1>0, <2>1
        <4> QED BY <4>1, <4>2
      <3>2. CASE pc[p] # "retry"
        BY <1>a, <1>b, <2>1, <3>2
      <3> QED BY <3>1, <3>2
    <2>4. Abstract!Take
      BY <2>1, <2>2, <2>3 DEF Abstract!Take, AbsQueue, AbsOffered
    <2> QED BY <2>4 DEF Abstract!KNext
  <1>2. CASE TrySend(p)
    <2>1. pc[p] = "idle" /\ sent'[p] = sent[p] + 1 /\ lost' = lost
          /\ AbsQueue = chan /\ AbsOffered = [q \in {p} |-> sent[p]]
      BY <1>0, <1>2, <1>a DEF TrySend, TypeOK
    <2>2. v = Value(p)'
      BY <2>1 DEF Value
    <2>3. CASE Len(chan) < Cap /\ chan' = Append(chan, Value(p)') /\ Return(p, "Delivered")
      <3>1. pc'[p] = "idle"
        BY <1>0, <2>3 DEF Return, TypeOK
      <3>2. AbsQueue' = Append(AbsQueue, v) /\ AbsOffered' = [q \in {p} |-> sent[p] + 1]
        BY <1>b, <2>1, <2>2, <2>3, <3>1
      <3> QED BY <1>d, <2>1, <2>3, <3>2
    <2>4. CASE pc' = [pc EXCEPT ![p] = "makeRoom"] /\ UNCHANGED <<chan, outcome, counted>>
      <3>1. pc'[p] = "makeRoom"
        BY <1>0, <2>4 DEF TypeOK
      <3>2. AbsQueue' = AbsQueue /\ AbsOffered' = AbsOffered
        BY <1>0, <1>b, <2>1, <2>4, <3>1
      <3> QED BY <1>c, <2>1, <3>2
    <2> QED BY <1>2, <2>3, <2>4 DEF TrySend
  <1>3. CASE MakeRoom(p)
    <2>1. /\ pc[p] = "makeRoom" /\ pc'[p] = "retry" /\ sent' = sent
          /\ AbsQueue = chan /\ AbsOffered = [q \in {p} |-> sent[p] - 1]
          /\ AbsQueue' = Append(chan', Value(p)) /\ AbsOffered' = [q \in {p} |-> sent[p]]
      BY <1>0, <1>3, <1>a, <1>b DEF MakeRoom, TypeOK, Value
    <2>2. v = Value(p) /\ AbsOffered' = [AbsOffered EXCEPT ![p] = @ + 1]
      BY <1>0, <2>1 DEF Value
    <2>3. CASE chan # <<>> /\ chan' = Tail(chan) /\ lost' = lost \cup {Head(chan)}
      BY <1>d, <2>1, <2>2, <2>3
    <2>4. CASE chan = <<>> /\ UNCHANGED <<chan, lost, displaced>>
      <3>1. Len(AbsQueue) < Cap /\ AbsQueue' = Append(AbsQueue, v) /\ lost' = lost
        BY <2>1, <2>2, <2>4
      <3> QED BY <1>d, <2>2, <3>1
    <2> QED BY <1>3, <2>3, <2>4 DEF MakeRoom
  <1>4. CASE Retry(p)
    <2>1. /\ pc[p] = "retry" /\ pc'[p] = "idle" /\ sent' = sent
          /\ chan' = Append(chan, Value(p)) /\ lost' = lost
      BY <1>0, <1>4 DEF Retry, RoomMade, Return, TypeOK
    <2>2. AbsQueue' = AbsQueue /\ AbsOffered' = AbsOffered
      BY <1>a, <1>b, <2>1
    <2> QED BY <1>c, <2>1, <2>2
  <1>5. CASE UNCHANGED vars
    <2>1. UNCHANGED <<chan, pc, sent, lost>> /\ Value(p)' = Value(p)
      BY <1>5 DEF vars, Value
    <2>2. AbsQueue' = AbsQueue /\ AbsOffered' = AbsOffered
      BY <1>a, <1>b, <2>1
    <2> QED BY <1>c, <2>1, <2>2
  <1> QED BY <1>1, <1>2, <1>3, <1>4, <1>5 DEF Next, Send

\* With one producer the three selects of Send are one indivisible offer that
\* always puts its value in and loses at most the oldest queued one
\* (dropchan.go:48-78).
THEOREM SendIsKeepNewest ==
    ASSUME NEW p, Producers = {p} PROVE Spec => ImplementsKeepNewest
  <1>1. Init => Abstract!KInit
    <2> SUFFICES ASSUME Init PROVE Abstract!KInit
      OBVIOUS
    <2>1. AbsQueue = <<>> /\ AbsOffered = [q \in Producers |-> 0] /\ lost = {}
      BY AbsFacts DEF Init, AbsOffered
    <2> QED BY <2>1 DEF Abstract!KInit, AbsQueue, AbsOffered
  <1>2. Sole(p) /\ Sole(p)' /\ [Next]_vars => [Abstract!KNext]_(Abstract!kvars)
    BY AbstractStep
  <1> QED BY <1>1, <1>2, SoleAlways, PTL DEF Spec, ImplementsKeepNewest, Abstract!KSpec
=============================================================================
