------------------------ MODULE ServeLifecycleProofs ------------------------
(***************************************************************************)
(* Theorems about module ServeLifecycle, for every number of workers,      *)
(* requests, frames and connections.                                       *)
(***************************************************************************)
EXTENDS ServeLifecycle, FiniteSetTheorems, TLAPS

USE ServeAssumption

(***************************************************************************)
(* The pool is closed only after the join, and the reader that has         *)
(* returned never has a frame in hand again.                               *)
(***************************************************************************)
Joined == main \in {"close", "wait", "exited"} => upstream = "returned"
ClosedAfterJoin == queueClosed => main \in {"wait", "exited"}

PInv == Joined /\ ClosedAfterJoin /\ ~panicked

\* No step of any goroutine closes the pool under the reader.
LEMMA PInvStep == PInv /\ [Next]_vars => PInv'
  <1> SUFFICES ASSUME PInv, [Next]_vars PROVE PInv'
    OBVIOUS
  <1> USE DEF PInv, Joined, ClosedAfterJoin, poolVars, readerVars
  <1>1. CASE Cancel
    BY <1>1 DEF Cancel
  <1>2. CASE Main
    BY <1>2 DEF Main, Bind, ServerClosed, JoinUpstream, AfterServe, ClosePool
  <1>3. CASE HTTPFails
    BY <1>3 DEF HTTPFails
  <1>4. CASE BeginShutdown \/ EndShutdown
    BY <1>4 DEF BeginShutdown, EndShutdown
  <1>5. CASE Reader \/ ReadFrame \/ ReadFails
    <2>1. CASE Connect
      BY <2>1 DEF Connect, To
    <2>2. CASE ReadFrame
      BY <2>2 DEF ReadFrame, To
    <2>3. CASE ReadFails \/ Lose \/ Retry
      BY <2>3 DEF ReadFails, Lose, Retry, To
    <2>4. CASE Pass \/ BeginDetect \/ Infer \/ Annotate
      <3>1. upstream \in Transforming /\ upstream' \in {"read", "infer", "annotate"}
            /\ UNCHANGED <<main, queueClosed, panicked>>
        BY <2>4 DEF Pass, BeginDetect, Infer, Annotate, UnchangedByTransform, Transforming, To
      <3> QED BY <3>1 DEF Transforming
    <2>5. CASE Process
      <3>1. upstream \in {"transform", "room"} /\ upstream' \in {"read", "room"}
            /\ main' = main /\ queueClosed' = queueClosed
            /\ panicked' = (panicked \/ queueClosed)
        BY <2>5 DEF Process, UnchangedByTransform, To
      <3> QED BY <3>1
    <2> QED BY <1>5, <2>1, <2>2, <2>3, <2>4, <2>5 DEF Reader, Transform
  <1>6. ASSUME NEW r \in Requests, Request(r) \/ Answer(r) PROVE PInv'
    BY <1>6 DEF Request, Answer
  <1>7. ASSUME NEW w \in Workers, Work(w) PROVE PInv'
    BY <1>7 DEF Work, TakeJob, FinishJob, StopWorker, Push
  <1>8. CASE Release
    BY <1>8 DEF Release
  <1>9. CASE UseReleased
    BY <1>9 DEF UseReleased
  <1>10. CASE UNCHANGED vars
    BY <1>10 DEF vars
  <1> QED BY <1>1, <1>2, <1>3, <1>4, <1>5, <1>6, <1>7, <1>8, <1>9, <1>10 DEF Next

\* "closing that pool while the reader was still running would be a send on a
\* closed channel" (service.go:49-51): it never is.
THEOREM PoolIsClosedAfterTheReader == Spec => []NoSendOnClosed
  <1>1. Init => PInv
    BY DEF Init, PInv, Joined, ClosedAfterJoin
  <1>2. PInv => NoSendOnClosed
    BY DEF PInv, NoSendOnClosed
  <1> QED BY <1>1, <1>2, PInvStep, PTL DEF Spec

(***************************************************************************)
(* Arithmetic: the powers of two behind the reader's delays, and multiples *)
(* of DetectEvery.                                                         *)
(***************************************************************************)
\* 2 ^ n is the number of subsets of a set of n elements; one more element
\* doubles them.
LEMMA PowerDoubles ==
    ASSUME NEW n \in Nat PROVE 2 ^ n \in Nat /\ 2 ^ (n + 1) = 2 * 2 ^ n
  <1> DEFINE S == SUBSET (1..n)
             T == {X \in SUBSET (1..(n + 1)) : n + 1 \in X}
             f == [X \in S |-> X \cup {n + 1}]
  <1>1. /\ IsFiniteSet(1..n) /\ Cardinality(1..n) = n
        /\ IsFiniteSet(1..(n + 1)) /\ Cardinality(1..(n + 1)) = n + 1
    BY FS_Interval
  <1>2. IsFiniteSet(S) /\ Cardinality(S) = 2 ^ n /\ Cardinality(S) \in Nat
    BY <1>1, FS_SUBSET, FS_CardinalityType
  <1>3. Cardinality(SUBSET (1..(n + 1))) = 2 ^ (n + 1)
    BY <1>1, FS_SUBSET
  <1>4. 1..(n + 1) = (1..n) \cup {n + 1} /\ n + 1 \notin 1..n
    OBVIOUS
  <1>5. SUBSET (1..(n + 1)) = S \cup T /\ S \cap T = {}
    BY <1>4
  <1>6. ExistsBijection(S, T)
    <2>1. f \in [S -> T]
      BY <1>4
    <2>2. ASSUME NEW X \in S, NEW Y \in S, f[X] = f[Y] PROVE X = Y
      <3>1. X \cup {n + 1} = Y \cup {n + 1}
        BY <2>2
      <3>2. n + 1 \notin X /\ n + 1 \notin Y
        BY <1>4
      <3> QED BY <3>1, <3>2
    <2>3. ASSUME NEW Y \in T PROVE \E X \in S : f[X] = Y
      <3>1. Y \ {n + 1} \in S /\ f[Y \ {n + 1}] = Y
        BY <1>4
      <3> QED BY <3>1
    <2> HIDE DEF S, T, f
    <2>4. f \in Bijection(S, T)
      BY <2>1, <2>2, <2>3 DEF Bijection, Injection, Surjection, IsInjective
    <2> QED BY <2>4 DEF ExistsBijection
  <1> HIDE DEF S, T, f
  <1>7. IsFiniteSet(T) /\ Cardinality(T) = Cardinality(S)
    BY <1>2, <1>6, FS_Bijection
  <1>8. Cardinality(S \cup T) = Cardinality(S) + Cardinality(T) - Cardinality(S \cap T)
    BY <1>2, <1>7, FS_Union
  <1>9. Cardinality(S \cap T) = 0
    BY <1>5, FS_EmptySet
  <1>10. Cardinality(S \cup T) = 2 * Cardinality(S)
    BY <1>2, <1>7, <1>8, <1>9
  <1> QED BY <1>2, <1>3, <1>5, <1>10, Zenon

\* Between one multiple of d and the next but m there are less than d * (m + 1) steps.
LEMMA Multiples ==
    ASSUME NEW d \in Nat \ {0}, NEW a \in Nat, NEW b \in Nat, NEW m \in Nat,
           a % d # 0, b % d = 0, b < a, (a - 1) - b < d + d * m
    PROVE  a - b < d + d * m
  <1>1. PICK k \in Nat : b = d * k
    OBVIOUS
  <1>2. d * m \in Nat /\ d * k \in Nat
    OBVIOUS
  <1>3. a - b <= d + d * m
    BY <1>2
  <1>4. ASSUME a - b = d + d * m PROVE FALSE
    <2>1. a = d * k + (d + d * m)
      BY <1>1, <1>2, <1>4
    <2>2. d * k + (d + d * m) = d * (k + 1 + m)
      OBVIOUS
    <2>3. k + 1 + m \in Nat
      OBVIOUS
    <2>4. (d * (k + 1 + m)) % d = 0
      BY <2>3
    <2> QED BY <2>1, <2>2, <2>4
  <1> QED BY <1>2, <1>3, <1>4

(***************************************************************************)
(* The steps that touch neither the frames nor the delays of the reader:   *)
(* the owner of ctx, the viewers, the HTTP server, Serve itself, and what  *)
(* a worker does without a frame.                                          *)
(***************************************************************************)
Outside == \/ Cancel \/ Bind \/ ServerClosed \/ JoinUpstream \/ ClosePool \/ HTTPFails
           \/ BeginShutdown \/ EndShutdown \/ Release \/ UseReleased
           \/ \E r \in Requests : Request(r) \/ Answer(r)
           \/ \E w \in Workers : StopWorker(w)
           \/ UNCHANGED vars

\* Every step is one of those, a step of the reader or one of a worker with a frame.
LEMMA Steps ==
    [Next]_vars => \/ Outside \/ Connect \/ ReadFrame \/ ReadFails \/ Lose \/ Retry
                   \/ Pass \/ BeginDetect \/ Infer \/ Annotate \/ Process
                   \/ \E w \in Workers : TakeJob(w) \/ FinishJob(w)
  BY DEF Next, Outside, Main, Reader, Transform, Work

\* They leave all of it unchanged.
LEMMA OutsideSteps ==
    ASSUME Outside
    PROVE  UNCHANGED <<service, upstream, connects, got, carried, backoff, barren, online, boxes,
                       missed, queue, worker, pushed, evicted>>
  <1> USE DEF readerVars, poolVars, detectorVars
  <1>1. CASE Cancel \/ Bind \/ ServerClosed \/ JoinUpstream \/ ClosePool \/ HTTPFails
    BY <1>1 DEF Cancel, Bind, ServerClosed, JoinUpstream, ClosePool, HTTPFails
  <1>2. CASE BeginShutdown \/ EndShutdown \/ Release \/ UseReleased
    BY <1>2 DEF BeginShutdown, EndShutdown, Release, UseReleased
  <1>3. ASSUME NEW r \in Requests, Request(r) \/ Answer(r)
        PROVE  UNCHANGED <<service, upstream, connects, got, carried, backoff, barren, online, boxes,
                           missed, queue, worker, pushed, evicted>>
    BY <1>3 DEF Request, Answer
  <1>4. ASSUME NEW w \in Workers, StopWorker(w)
        PROVE  UNCHANGED <<service, upstream, connects, got, carried, backoff, barren, online, boxes,
                           missed, queue, worker, pushed, evicted>>
    BY <1>4 DEF StopWorker
  <1>5. CASE UNCHANGED vars
    BY <1>5 DEF vars
  <1> QED BY <1>1, <1>2, <1>3, <1>4, <1>5 DEF Outside

(***************************************************************************)
(* The queue of the pool as the set of the frames in it.                   *)
(***************************************************************************)
Elements(q) == {q[i] : i \in 1..Len(q)}
Distinct(q) == \A i, k \in 1..Len(q) : q[i] = q[k] => i = k

\* A frame that is new to the queue goes in.
LEMMA AppendElement ==
    ASSUME NEW S, NEW q \in Seq(S), NEW f \in S, Distinct(q), f \notin Elements(q)
    PROVE  /\ Append(q, f) \in Seq(S) /\ Len(Append(q, f)) = Len(q) + 1 /\ Len(q) \in Nat
           /\ Distinct(Append(q, f)) /\ Elements(Append(q, f)) = Elements(q) \cup {f}
  <1> DEFINE r == Append(q, f)
  <1>1. /\ Len(q) \in Nat /\ Len(r) = Len(q) + 1 /\ r[Len(q) + 1] = f /\ r \in Seq(S)
        /\ \A i \in 1..Len(q) : r[i] = q[i]
    OBVIOUS
  <1> HIDE DEF r
  <1>2. \A i \in 1..Len(r) : i \in 1..Len(q) \/ i = Len(q) + 1
    BY <1>1
  <1>3. \A i \in 1..Len(q) : i \in 1..Len(r)
    BY <1>1
  <1>4. Len(q) + 1 \in 1..Len(r)
    BY <1>1
  <1>5. Distinct(r)
    <2> SUFFICES ASSUME NEW i \in 1..Len(r), NEW k \in 1..Len(r), r[i] = r[k] PROVE i = k
      BY DEF Distinct
    <2>1. CASE i \in 1..Len(q) /\ k \in 1..Len(q)
      BY <1>1, <2>1 DEF Distinct
    <2>2. CASE ~(i \in 1..Len(q) /\ k \in 1..Len(q))
      BY <1>1, <1>2, <2>2 DEF Elements
    <2> QED BY <2>1, <2>2
  <1>6. ASSUME NEW x \in Elements(r) PROVE x \in Elements(q) \cup {f}
    BY <1>1, <1>2 DEF Elements
  <1>7. ASSUME NEW x \in Elements(q) \cup {f} PROVE x \in Elements(r)
    BY <1>1, <1>3, <1>4 DEF Elements
  <1> QED BY <1>1, <1>5, <1>6, <1>7 DEF r

\* The oldest frame goes out.
LEMMA TailElements ==
    ASSUME NEW S, NEW q \in Seq(S), q # <<>>, Distinct(q)
    PROVE  /\ Tail(q) \in Seq(S) /\ Len(q) \in Nat /\ Len(Tail(q)) = Len(q) - 1
           /\ Head(q) \in S /\ Head(q) \in Elements(q)
           /\ Distinct(Tail(q)) /\ Elements(Tail(q)) = Elements(q) \ {Head(q)}
  <1> DEFINE r == Tail(q)
  <1>1. /\ Len(q) \in Nat \ {0} /\ Len(r) = Len(q) - 1 /\ r \in Seq(S) /\ Head(q) = q[1]
        /\ \A i \in 1..Len(r) : i + 1 \in 1..Len(q) /\ r[i] = q[i + 1]
        /\ Head(q) \in S
    OBVIOUS
  <1> HIDE DEF r
  <1>2. 1 \in 1..Len(q)
    BY <1>1
  <1>3. \A i \in 1..Len(q) : i = 1 \/ (i - 1 \in 1..Len(r) /\ r[i - 1] = q[i])
    <2> SUFFICES ASSUME NEW i \in 1..Len(q), i # 1 PROVE i - 1 \in 1..Len(r) /\ r[i - 1] = q[i]
      OBVIOUS
    <2>1. i - 1 \in 1..Len(r) /\ (i - 1) + 1 = i
      BY <1>1
    <2> QED BY <1>1, <2>1
  <1>4. Distinct(r)
    <2> SUFFICES ASSUME NEW i \in 1..Len(r), NEW k \in 1..Len(r), r[i] = r[k] PROVE i = k
      BY DEF Distinct
    <2>1. i + 1 \in 1..Len(q) /\ k + 1 \in 1..Len(q) /\ q[i + 1] = q[k + 1]
      BY <1>1
    <2>2. i + 1 = k + 1
      BY <2>1 DEF Distinct
    <2> QED BY <1>1, <2>2
  <1>5. ASSUME NEW x \in Elements(r) PROVE x \in Elements(q) \ {Head(q)}
    <2>1. PICK i \in 1..Len(r) : x = r[i]
      BY DEF Elements
    <2>2. i + 1 \in 1..Len(q) /\ x = q[i + 1] /\ i + 1 # 1
      BY <1>1, <2>1
    <2> QED BY <1>1, <1>2, <2>2 DEF Elements, Distinct
  <1>6. ASSUME NEW x \in Elements(q), x # Head(q) PROVE x \in Elements(r)
    <2>1. PICK i \in 1..Len(q) : x = q[i]
      BY DEF Elements
    <2> QED BY <1>1, <1>3, <1>6, <2>1 DEF Elements
  <1>7. Head(q) \in Elements(q)
    BY <1>1, <1>2 DEF Elements
  <1> QED BY <1>1, <1>4, <1>5, <1>6, <1>7 DEF r

(***************************************************************************)
(* Types.                                                                  *)
(***************************************************************************)
\* Which steps and places the service at hand has, and that a step with a frame has one.
Lanes ==
    /\ upstream \in {"infer", "annotate"} => service = "detector"
    /\ upstream = "room" => service = "pool"
    /\ main \in {"close", "wait"} => service = "pool"
    /\ service # "pool" => queue = <<>> /\ evicted = {} /\ \A w \in Workers : worker[w] = 0
    /\ upstream \in Transforming => got \in 1..MaxFrames

\* No step of another service is ever taken (service.go:84-94, pool.go:64, detector.go:309).
LEMMA LanesStep == TypeOK /\ Lanes /\ [Next]_vars => Lanes'
  <1> SUFFICES ASSUME TypeOK, Lanes, [Next]_vars PROVE Lanes'
    OBVIOUS
  <1> USE DEF Lanes, To
  <1>1. CASE Outside
    <2>1. UNCHANGED <<service, upstream, got, queue, worker, evicted>>
      BY <1>1, OutsideSteps
    <2>2. main' \in {"close", "wait"} => main \in {"close", "wait"} \/ service = "pool"
      BY <1>1 DEF Outside, Cancel, Bind, ServerClosed, JoinUpstream, AfterServe, ClosePool, HTTPFails,
                  BeginShutdown, EndShutdown, Release, UseReleased, Request, Answer, StopWorker, vars
    <2> QED BY <2>1, <2>2
  <1>2. CASE Connect \/ ReadFails \/ Lose \/ Retry
    <2>1. /\ upstream' \in {"returned", "read", "lost", "backoff", "dial"}
          /\ UNCHANGED <<main, service, queue, worker, evicted>>
      BY <1>2 DEF Connect, ReadFails, Lose, Retry, poolVars
    <2> QED BY <2>1 DEF Transforming
  <1>3. CASE ReadFrame
    <2>1. /\ upstream' = "transform" /\ got < MaxFrames /\ got' = got + 1 /\ got \in 0..MaxFrames
          /\ UNCHANGED <<main, service, queue, worker, evicted>>
      BY <1>3 DEF ReadFrame, poolVars, TypeOK
    <2>2. got' \in 1..MaxFrames
      BY <2>1
    <2> QED BY <2>1, <2>2
  <1>4. CASE Pass \/ BeginDetect \/ Infer \/ Annotate
    <2>1. /\ upstream \in Transforming /\ upstream' \in {"read", "infer", "annotate"}
          /\ upstream' # "read" => service = "detector"
          /\ UNCHANGED <<main, service, got, queue, worker, evicted>>
      BY <1>4 DEF Pass, BeginDetect, Infer, Annotate, UnchangedByTransform, Transforming
    <2> QED BY <2>1
  <1>5. CASE Process
    <2>1. /\ service = "pool" /\ upstream \in Transforming /\ upstream' \in {"read", "room"}
          /\ UNCHANGED <<main, service, got>>
      BY <1>5 DEF Process, UnchangedByTransform, Transforming
    <2> QED BY <2>1
  <1>6. ASSUME NEW w \in Workers, TakeJob(w) \/ FinishJob(w) PROVE Lanes'
    <2>1. queue # <<>> \/ worker[w] # 0
      BY <1>6 DEF TakeJob, FinishJob
    <2>2. service = "pool"
      BY <2>1
    <2>3. UNCHANGED <<main, service, got, upstream>>
      BY <1>6 DEF TakeJob, FinishJob, readerVars
    <2> QED BY <2>2, <2>3
  <1> QED BY <1>1, <1>2, <1>3, <1>4, <1>5, <1>6, Steps

\* Every variable stays in its type, and the queue within its size (tcpupstream.go:50-82,
\* pool.go:45-85).
LEMMA TypeStep == TypeOK /\ Lanes /\ [Next]_vars => TypeOK'
  <1> SUFFICES ASSUME TypeOK, Lanes, [Next]_vars PROVE TypeOK'
    OBVIOUS
  <1> DEFINE Reading == /\ upstream \in UpstreamStates /\ connects \in 0..MaxConnects
                        /\ got \in 0..MaxFrames /\ carried \in BOOLEAN
                        /\ backoff \in MinBackoff..MaxBackoff /\ barren \in 0..MaxBarren
             Drawing == boxes \in 0..MaxFrames /\ missed \subseteq 1..MaxFrames
             Pooling == /\ queue \in Seq(1..MaxFrames) /\ Len(queue) <= QueueSize
                        /\ worker \in [Workers -> 0..MaxFrames]
                        /\ pushed \subseteq 1..MaxFrames /\ evicted \subseteq 1..MaxFrames
                        /\ online \in BOOLEAN
             Serving == /\ service \in Services /\ cancelled \in BOOLEAN /\ main \in MainStates
                        /\ http \in {"unbound", "serving", "closed", "failed"}
                        /\ shutdown \in {"waiting", "draining", "drained", "expired"}
                        /\ request \in [Requests -> {"none", "active", "done"}]
                        /\ session \in {"live", "released"} /\ done \subseteq Workers
                        /\ queueClosed \in BOOLEAN /\ panicked \in BOOLEAN
  <1>0. Reading /\ Drawing /\ Pooling /\ Serving
    BY DEF TypeOK
  <1> SUFFICES Reading' /\ Drawing' /\ Pooling' /\ Serving'
    BY DEF TypeOK
  <1> HIDE DEF Reading, Drawing, Pooling, Serving
  <1>1. Serving'
    <2> USE <1>0 DEF Serving, httpVars, poolVars, detectorVars, MainStates
    <2>1. CASE Cancel \/ Bind \/ ServerClosed \/ JoinUpstream \/ ClosePool \/ HTTPFails
      BY <2>1 DEF Cancel, Bind, ServerClosed, JoinUpstream, AfterServe, ClosePool, HTTPFails
    <2>2. CASE BeginShutdown \/ EndShutdown \/ Release \/ UseReleased
      BY <2>2 DEF BeginShutdown, EndShutdown, Release, UseReleased
    <2>3. ASSUME NEW r \in Requests, Request(r) \/ Answer(r) PROVE Serving'
      BY <2>3 DEF Request, Answer
    <2>4. ASSUME NEW w \in Workers, Work(w) PROVE Serving'
      BY <2>4 DEF Work, TakeJob, FinishJob, StopWorker
    <2>5. CASE Connect \/ ReadFrame \/ ReadFails \/ Lose \/ Retry
      BY <2>5 DEF Connect, ReadFrame, ReadFails, Lose, Retry
    <2>6. CASE Pass \/ BeginDetect \/ Infer \/ Annotate
      BY <2>6 DEF Pass, BeginDetect, Infer, Annotate, UnchangedByTransform
    <2>7. CASE Process
      <3>1. /\ UNCHANGED <<service, cancelled, main, http, shutdown, request, session, done, queueClosed>>
            /\ panicked' = (panicked \/ queueClosed)
        BY <2>7 DEF Process, UnchangedByTransform
      <3> QED BY <3>1
    <2>8. CASE UNCHANGED vars
      BY <2>8 DEF vars
    <2> QED BY <2>1, <2>2, <2>3, <2>4, <2>5, <2>6, <2>7, <2>8 DEF Next, Main, Reader, Transform
  <1>2. CASE Outside
    <2>1. Reading' /\ Drawing' /\ Pooling'
      BY <1>0, <1>2, OutsideSteps DEF Reading, Drawing, Pooling
    <2> QED BY <1>1, <2>1
  <1>3. CASE Connect \/ ReadFrame \/ ReadFails \/ Lose \/ Retry
    <2>1. Drawing' /\ Pooling'
      BY <1>0, <1>3 DEF Drawing, Pooling, Connect, ReadFrame, ReadFails, Lose, Retry, poolVars, detectorVars
    <2>2. upstream' \in UpstreamStates /\ carried' \in BOOLEAN
      BY <1>0, <1>3 DEF Reading, Connect, ReadFrame, ReadFails, Lose, Retry, To, UpstreamStates,
                        Transforming, Disconnected
    <2>3. connects' \in 0..MaxConnects /\ got' \in 0..MaxFrames
      BY <1>0, <1>3 DEF Reading, Connect, ReadFrame, ReadFails, Lose, Retry
    <2>4. backoff' \in MinBackoff..MaxBackoff
      BY <1>0, <1>3 DEF Reading, Connect, ReadFrame, ReadFails, Lose, Retry, Least
    <2>5. barren' \in 0..MaxBarren
      BY <1>0, <1>3 DEF Reading, Connect, ReadFrame, ReadFails, Lose, Retry, Least
    <2>6. Reading'
      BY <2>2, <2>3, <2>4, <2>5 DEF Reading
    <2> QED BY <1>1, <2>1, <2>6
  <1>4. CASE Pass \/ BeginDetect \/ Infer \/ Annotate \/ Process
    <2>1. upstream \in Transforming /\ got \in 1..MaxFrames
      BY <1>4 DEF Pass, BeginDetect, Infer, Annotate, Process, Transforming, Lanes
    <2>2. Reading'
      BY <1>0, <1>4 DEF Reading, Pass, BeginDetect, Infer, Annotate, Process, UnchangedByTransform, To,
                        UpstreamStates, Transforming
    <2>3. Drawing'
      <3>1. boxes' \in {boxes, got} /\ missed' \subseteq missed \cup {got}
        BY <1>4 DEF Pass, BeginDetect, Infer, Annotate, Process
      <3>2. got \in 0..MaxFrames
        BY <2>1
      <3> QED BY <1>0, <2>1, <3>1, <3>2 DEF Drawing
    <2>4. Pooling'
      <3>1. CASE Pass \/ BeginDetect \/ Infer \/ Annotate
        BY <1>0, <2>1, <3>1 DEF Pooling, Pass, BeginDetect, Infer, Annotate, UnchangedByTransform, Push
      <3>2. CASE Process
        <4>1. UNCHANGED <<worker, pushed, online>>
          BY <3>2 DEF Process, UnchangedByTransform
        <4>2. CASE Len(queue) < QueueSize /\ queue' = Append(queue, got) /\ evicted' = evicted
          BY <1>0, <2>1, <4>1, <4>2 DEF Pooling
        <4>3. CASE UNCHANGED <<queue, evicted>>
          BY <1>0, <4>1, <4>3 DEF Pooling
        <4>4. CASE queue = <<>> /\ queue' = Append(queue, got) /\ evicted' = evicted
          <5>1. Len(queue) < QueueSize
            BY <4>4
          <5> QED BY <4>2, <4>4, <5>1
        <4>5. CASE queue # <<>> /\ queue' = Append(Tail(queue), got) /\ evicted' = evicted \cup {Head(queue)}
          <5>1. /\ Tail(queue) \in Seq(1..MaxFrames) /\ Head(queue) \in 1..MaxFrames
                /\ Len(Tail(queue)) = Len(queue) - 1 /\ Len(queue) \in Nat
            BY <1>0, <4>5 DEF Pooling
          <5>2. Append(Tail(queue), got) \in Seq(1..MaxFrames)
                /\ Len(Append(Tail(queue), got)) = Len(Tail(queue)) + 1
            BY <2>1, <5>1
          <5>3. Len(queue') <= QueueSize
            BY <1>0, <4>5, <5>1, <5>2 DEF Pooling
          <5> QED BY <1>0, <4>1, <4>5, <5>1, <5>2, <5>3 DEF Pooling
        <4> QED BY <3>2, <4>2, <4>3, <4>4, <4>5 DEF Process
      <3> QED BY <1>4, <3>1, <3>2
    <2> QED BY <1>1, <2>2, <2>3, <2>4
  <1>5. ASSUME NEW w \in Workers, TakeJob(w) PROVE Reading' /\ Drawing' /\ Pooling'
    <2>1. queue # <<>> /\ queue' = Tail(queue) /\ worker' = [worker EXCEPT ![w] = Head(queue)]
          /\ UNCHANGED <<pushed, evicted, online>>
      BY <1>5 DEF TakeJob
    <2>2. /\ Tail(queue) \in Seq(1..MaxFrames) /\ Head(queue) \in 1..MaxFrames
          /\ Len(Tail(queue)) <= QueueSize
      BY <1>0, <2>1 DEF Pooling
    <2>3. Reading' /\ Drawing'
      BY <1>0, <1>5 DEF Reading, Drawing, TakeJob, readerVars, detectorVars
    <2> QED BY <1>0, <2>1, <2>2, <2>3 DEF Pooling
  <1>6. ASSUME NEW w \in Workers, FinishJob(w) PROVE Reading' /\ Drawing' /\ Pooling'
    <2>1. Reading' /\ Drawing'
      BY <1>0, <1>6 DEF Reading, Drawing, FinishJob, readerVars, detectorVars
    <2>2. worker[w] \in 1..MaxFrames
      BY <1>0, <1>6 DEF Pooling, FinishJob
    <2>3. /\ worker' = [worker EXCEPT ![w] = 0] /\ queue' = queue /\ online' \in {online, TRUE}
          /\ pushed' \in {pushed, pushed \cup {worker[w]}} /\ evicted' \in {evicted, evicted \cup {worker[w]}}
      BY <1>6 DEF FinishJob, Push
    <2>4. worker' \in [Workers -> 0..MaxFrames]
      BY <1>0, <2>3 DEF Pooling
    <2>5. pushed' \subseteq 1..MaxFrames /\ evicted' \subseteq 1..MaxFrames
      BY <1>0, <2>2, <2>3 DEF Pooling
    <2>6. online' \in BOOLEAN
      BY <1>0, <2>3 DEF Pooling
    <2> QED BY <1>0, <2>1, <2>3, <2>4, <2>5, <2>6 DEF Pooling
  <1> QED BY <1>1, <1>2, <1>3, <1>4, <1>5, <1>6, Steps

\* Nothing has been read, and nothing asked.
LEMMA TypeInit == Init => TypeOK /\ Lanes
  <1> SUFFICES ASSUME Init PROVE TypeOK /\ Lanes
    OBVIOUS
  <1> USE DEF Init
  <1>1. backoff \in MinBackoff..MaxBackoff /\ connects \in 0..MaxConnects /\ got \in 0..MaxFrames
        /\ barren \in 0..MaxBarren /\ boxes \in 0..MaxFrames
    OBVIOUS
  <1>2. queue \in Seq(1..MaxFrames) /\ Len(queue) <= QueueSize
    OBVIOUS
  <1>3. worker \in [Workers -> 0..MaxFrames]
    OBVIOUS
  <1>4. TypeOK
    BY <1>1, <1>2, <1>3 DEF TypeOK, MainStates, UpstreamStates, Disconnected
  <1>5. Lanes
    BY DEF Lanes, Transforming
  <1> QED BY <1>4, <1>5

(***************************************************************************)
(* Where the frames are: a frame that was read is in the reader's hands,   *)
(* in the queue, at a worker, pushed or given up, and in one place only.   *)
(***************************************************************************)
Hand   == IF upstream \in Transforming THEN {got} ELSE {}
AtWork == {worker[w] : w \in Workers} \ {0}
Placed ==
    /\ pushed \cup evicted \cup Hand \cup Elements(queue) \cup AtWork = 1..got
    /\ pushed \cap evicted = {}
    /\ (pushed \cup evicted) \cap (Hand \cup Elements(queue) \cup AtWork) = {}
    /\ Hand \cap (Elements(queue) \cup AtWork) = {}
    /\ Elements(queue) \cap AtWork = {}
    /\ Distinct(queue)
    /\ \A v, w \in Workers : worker[v] = worker[w] /\ worker[v] # 0 => v = w

\* The reader, the transforms and the workers pass a frame on, and never a copy of it
\* (pool.go:64-85, service.go:84-90).
LEMMA PlacedStep == TypeOK /\ Placed /\ [Next]_vars => Placed'
  <1> SUFFICES ASSUME TypeOK, Placed, [Next]_vars PROVE Placed'
    OBVIOUS
  <1>0. /\ got \in Nat /\ queue \in Seq(1..MaxFrames) /\ worker \in [Workers -> 0..MaxFrames]
        /\ got <= MaxFrames
    BY DEF TypeOK
  <1>a. ASSUME UNCHANGED <<got, queue, worker, pushed, evicted>>, Hand' = Hand PROVE Placed'
    BY <1>a DEF Placed, AtWork, Elements, Distinct
  <1>1. CASE Outside
    <2>1. UNCHANGED <<upstream, got, queue, worker, pushed, evicted>>
      BY <1>1, OutsideSteps
    <2> QED BY <1>a, <2>1 DEF Hand
  <1>2. CASE Connect \/ ReadFails \/ Lose \/ Retry
    <2>1. /\ upstream \notin Transforming /\ upstream' \notin Transforming
          /\ UNCHANGED <<got, queue, worker, pushed, evicted>>
      BY <1>2 DEF Connect, ReadFails, Lose, Retry, To, Transforming, poolVars
    <2> QED BY <1>a, <2>1 DEF Hand
  <1>3. CASE ReadFrame
    <2>1. /\ upstream = "read" /\ upstream' = "transform" /\ got' = got + 1
          /\ UNCHANGED <<queue, worker, pushed, evicted>>
      BY <1>3 DEF ReadFrame, To, poolVars
    <2>2. Hand = {} /\ Hand' = {got'} /\ AtWork' = AtWork
      BY <2>1 DEF Hand, Transforming, AtWork
    <2>3. 1..got' = (1..got) \cup {got'} /\ got' \notin 1..got
      BY <1>0, <2>1
    <2> QED BY <2>1, <2>2, <2>3 DEF Placed
  <1>4. CASE Pass \/ Annotate
    <2>1. /\ upstream \in Transforming /\ upstream' = "read" /\ pushed' = pushed \cup {got}
          /\ UNCHANGED <<got, queue, worker, evicted>>
      BY <1>4 DEF Pass, Annotate, Push, To, Transforming, UnchangedByTransform
    <2>2. Hand = {got} /\ Hand' = {} /\ AtWork' = AtWork
      BY <2>1 DEF Hand, Transforming, AtWork
    <2> QED BY <2>1, <2>2 DEF Placed
  <1>5. CASE BeginDetect \/ Infer
    <2>1. /\ upstream \in Transforming /\ upstream' \in Transforming
          /\ UNCHANGED <<got, queue, worker, pushed, evicted>>
      BY <1>5 DEF BeginDetect, Infer, To, Transforming, UnchangedByTransform
    <2> QED BY <1>a, <2>1 DEF Hand
  <1>6. CASE Process
    <2>1. upstream \in Transforming /\ UNCHANGED <<got, worker, pushed>> /\ AtWork' = AtWork /\ Hand = {got}
      BY <1>6 DEF Process, UnchangedByTransform, Transforming, AtWork, Hand
    <2>2. got \notin Elements(queue) /\ got \in 1..MaxFrames
      <3>1. got \in 1..got
        BY <2>1 DEF Placed
      <3> QED BY <1>0, <2>1, <3>1 DEF Placed
    <2>3. CASE queue' = Append(queue, got) /\ evicted' = evicted /\ upstream' = "read"
      <3>1. Elements(queue') = Elements(queue) \cup {got} /\ Distinct(queue')
        BY <1>0, <2>2, <2>3, AppendElement DEF Placed
      <3>2. Hand' = {}
        BY <2>3 DEF Hand, Transforming
      <3> QED BY <2>1, <2>3, <3>1, <3>2 DEF Placed
    <2>4. CASE UNCHANGED <<queue, evicted>> /\ upstream' = "room"
      <3>1. Hand' = Hand
        BY <2>1, <2>4 DEF Hand, Transforming
      <3> QED BY <1>a, <2>1, <2>4, <3>1
    <2>5. CASE /\ queue # <<>> /\ queue' = Append(Tail(queue), got) /\ upstream' = "read"
               /\ evicted' = evicted \cup {Head(queue)}
      <3>1. /\ Tail(queue) \in Seq(1..MaxFrames) /\ Head(queue) \in Elements(queue)
            /\ Distinct(Tail(queue)) /\ Elements(Tail(queue)) = Elements(queue) \ {Head(queue)}
        BY <1>0, <2>5, TailElements DEF Placed
      <3>2. got \notin Elements(Tail(queue))
        BY <2>2, <3>1
      <3>3. /\ Elements(Append(Tail(queue), got)) = Elements(Tail(queue)) \cup {got}
            /\ Distinct(Append(Tail(queue), got))
        <4> DEFINE r == Tail(queue)
        <4>1. r \in Seq(1..MaxFrames) /\ Distinct(r) /\ got \notin Elements(r)
          BY <3>1, <3>2
        <4> HIDE DEF r
        <4>2. Elements(Append(r, got)) = Elements(r) \cup {got} /\ Distinct(Append(r, got))
          BY <2>2, <4>1, AppendElement
        <4> QED BY <4>2 DEF r
      <3>4. Elements(queue') = (Elements(queue) \ {Head(queue)}) \cup {got} /\ Distinct(queue')
        BY <2>5, <3>1, <3>3
      <3>5. Hand' = {}
        BY <2>5 DEF Hand, Transforming
      <3> QED BY <2>1, <2>5, <3>1, <3>4, <3>5 DEF Placed
    <2>6. \/ queue' = Append(queue, got) /\ evicted' = evicted /\ upstream' = "read"
          \/ UNCHANGED <<queue, evicted>> /\ upstream' = "room"
          \/ /\ queue # <<>> /\ queue' = Append(Tail(queue), got) /\ upstream' = "read"
             /\ evicted' = evicted \cup {Head(queue)}
      <3>1. CASE queue = <<>>
        BY <1>6, <3>1 DEF Process, To
      <3>2. CASE queue # <<>>
        BY <1>6, <3>2 DEF Process, To
      <3> QED BY <3>1, <3>2
    <2> QED BY <2>3, <2>4, <2>5, <2>6
  <1>7. ASSUME NEW w \in Workers, TakeJob(w) PROVE Placed'
    <2>1. /\ worker[w] = 0 /\ queue # <<>> /\ queue' = Tail(queue)
          /\ worker' = [worker EXCEPT ![w] = Head(queue)]
          /\ UNCHANGED <<upstream, got, pushed, evicted>>
      BY <1>7 DEF TakeJob, readerVars
    <2>2. /\ Head(queue) \in 1..MaxFrames /\ Head(queue) \in Elements(queue)
          /\ Distinct(queue') /\ Elements(queue') = Elements(queue) \ {Head(queue)}
      BY <1>0, <2>1, TailElements DEF Placed
    <2>3. worker'[w] = Head(queue) /\ \A v \in Workers \ {w} : worker'[v] = worker[v]
      BY <1>0, <2>1
    <2>4. AtWork' = AtWork \cup {Head(queue)}
      <3>1. ASSUME NEW x \in AtWork PROVE x \in AtWork'
        <4>1. PICK v \in Workers : x = worker[v] /\ x # 0
          BY DEF AtWork
        <4>2. v # w
          BY <2>1, <4>1
        <4> QED BY <2>3, <4>1, <4>2 DEF AtWork
      <3>2. Head(queue) \in AtWork'
        BY <2>2, <2>3 DEF AtWork
      <3>3. ASSUME NEW x \in AtWork', x # Head(queue) PROVE x \in AtWork
        BY <2>3, <3>3 DEF AtWork
      <3> QED BY <3>1, <3>2, <3>3
    <2>5. Head(queue) \notin AtWork
      BY <2>2 DEF Placed
    <2>6. ASSUME NEW v \in Workers, NEW u \in Workers, worker'[v] = worker'[u], worker'[v] # 0
          PROVE  v = u
      <3>1. \A x \in Workers \ {w} : worker[x] # 0 => worker[x] \in AtWork
        BY DEF AtWork
      <3> QED BY <2>3, <2>5, <2>6, <3>1 DEF Placed
    <2>7. Hand' = Hand
      BY <2>1 DEF Hand
    <2> QED BY <2>1, <2>2, <2>4, <2>5, <2>6, <2>7 DEF Placed
  <1>8. ASSUME NEW w \in Workers, FinishJob(w) PROVE Placed'
    <2>1. /\ worker[w] # 0 /\ worker' = [worker EXCEPT ![w] = 0]
          /\ UNCHANGED <<upstream, got, queue>>
          /\ \/ pushed' = pushed \cup {worker[w]} /\ evicted' = evicted
             \/ pushed' = pushed /\ evicted' = evicted \cup {worker[w]}
      BY <1>8 DEF FinishJob, Push, readerVars
    <2>2. worker'[w] = 0 /\ \A v \in Workers \ {w} : worker'[v] = worker[v]
      BY <1>0, <2>1
    <2>3. AtWork' = AtWork \ {worker[w]} /\ worker[w] \in AtWork
      <3>1. \A v \in Workers \ {w} : worker[v] # worker[w]
        BY <2>1 DEF Placed
      <3>2. ASSUME NEW x \in AtWork' PROVE x \in AtWork \ {worker[w]}
        <4>1. PICK v \in Workers : x = worker'[v] /\ x # 0
          BY DEF AtWork
        <4>2. v # w
          BY <2>2, <4>1
        <4> QED BY <2>2, <3>1, <4>1, <4>2 DEF AtWork
      <3>3. ASSUME NEW x \in AtWork, x # worker[w] PROVE x \in AtWork'
        <4>1. PICK v \in Workers : x = worker[v] /\ x # 0
          BY DEF AtWork
        <4>2. v # w
          BY <3>3, <4>1
        <4> QED BY <2>2, <4>1, <4>2 DEF AtWork
      <3>4. worker[w] \in AtWork
        BY <2>1 DEF AtWork
      <3> QED BY <3>2, <3>3, <3>4
    <2>4. \A v, u \in Workers : worker'[v] = worker'[u] /\ worker'[v] # 0 => v = u
      BY <2>2 DEF Placed
    <2>5. Hand' = Hand
      BY <2>1 DEF Hand
    <2>6. Elements(queue') = Elements(queue) /\ Distinct(queue')
      BY <2>1 DEF Placed
    <2> QED BY <2>1, <2>3, <2>4, <2>5, <2>6 DEF Placed
  <1> QED BY <1>1, <1>2, <1>3, <1>4, <1>5, <1>6, <1>7, <1>8, Steps

\* A worker that is done has seen the closed queue empty, which it stays, and Close waits for
\* all of them.
Drained ==
    /\ done # {} => queueClosed /\ queue = <<>>
    /\ \A w \in done : worker[w] = 0
    /\ main = "exited" /\ service = "pool" => done = Workers

\* Once the queue is closed nobody puts a frame in, so the workers end with it empty
\* (pool.go:70-85).
LEMMA DrainedStep == TypeOK /\ PInv /\ Drained /\ [Next]_vars => Drained'
  <1> SUFFICES ASSUME TypeOK, PInv, Drained, [Next]_vars PROVE Drained'
    OBVIOUS
  <1> USE DEF Drained
  <1>1. ASSUME UNCHANGED <<queue, worker, done, queueClosed, service>>, main' = "exited" => main = "exited"
        PROVE  Drained'
    BY <1>1
  <1>2. CASE Outside
    <2>1. CASE Cancel \/ Bind \/ HTTPFails \/ ServerClosed \/ BeginShutdown \/ EndShutdown \/ Release
               \/ UseReleased \/ UNCHANGED vars
      BY <1>1, <2>1 DEF Cancel, Bind, HTTPFails, ServerClosed, BeginShutdown, EndShutdown, Release,
                        UseReleased, poolVars, vars
    <2>2. CASE JoinUpstream
      <3>1. UNCHANGED <<queue, worker, done, queueClosed, service>> /\ (service = "pool" => main' = "close")
        BY <2>2 DEF JoinUpstream, AfterServe, poolVars
      <3> QED BY <3>1
    <2>3. CASE ClosePool
      <3>1. UNCHANGED <<queue, worker, done, service>> /\ (queueClosed => queueClosed')
        BY <2>3 DEF ClosePool
      <3>2. main' = "exited" => done = Workers
        BY <2>3 DEF ClosePool
      <3> QED BY <3>1, <3>2
    <2>4. ASSUME NEW r \in Requests, Request(r) \/ Answer(r) PROVE Drained'
      BY <1>1, <2>4 DEF Request, Answer, poolVars
    <2>5. ASSUME NEW w \in Workers, StopWorker(w) PROVE Drained'
      <3>1. /\ worker[w] = 0 /\ queueClosed /\ queue = <<>> /\ done' = done \cup {w}
            /\ UNCHANGED <<queue, worker, queueClosed, service, main>> /\ main # "exited"
        BY <2>5 DEF StopWorker, Running, Ended
      <3> QED BY <3>1
    <2> QED BY <1>2, <2>1, <2>2, <2>3, <2>4, <2>5 DEF Outside
  <1>3. CASE Connect \/ ReadFrame \/ ReadFails \/ Lose \/ Retry \/ Pass \/ BeginDetect \/ Infer \/ Annotate
    BY <1>1, <1>3 DEF Connect, ReadFrame, ReadFails, Lose, Retry, Pass, BeginDetect, Infer, Annotate,
                      UnchangedByTransform, poolVars
  <1>4. CASE Process
    <2>1. upstream # "returned" /\ UNCHANGED <<main, service, done, worker, queueClosed>>
      BY <1>4 DEF Process, UnchangedByTransform
    <2>2. ~queueClosed /\ main # "exited"
      BY <2>1 DEF PInv, Joined, ClosedAfterJoin
    <2> QED BY <2>1, <2>2
  <1>5. ASSUME NEW w \in Workers, TakeJob(w) PROVE Drained'
    <2>1. queue # <<>> /\ UNCHANGED <<main, service, done, queueClosed>>
      BY <1>5 DEF TakeJob
    <2>2. done = {} /\ main # "exited"
      BY <1>5, <2>1 DEF TakeJob, Running, Ended
    <2> QED BY <2>1, <2>2
  <1>6. ASSUME NEW w \in Workers, FinishJob(w) PROVE Drained'
    <2>1. worker' = [worker EXCEPT ![w] = 0] /\ UNCHANGED <<main, service, queue, done, queueClosed>>
      BY <1>6 DEF FinishJob
    <2>2. \A v \in Workers : worker'[v] = worker[v] \/ worker'[v] = 0
      BY <2>1 DEF TypeOK
    <2>3. done \subseteq Workers
      BY DEF TypeOK
    <2> QED BY <2>1, <2>2, <2>3
  <1> QED BY <1>2, <1>3, <1>4, <1>5, <1>6, Steps

(***************************************************************************)
(* The detector: how old the boxes may be.                                 *)
(***************************************************************************)
\* The frames Process has counted and is through with, up to the inference.
Before == IF upstream \in {"transform", "infer"} THEN got - 1 ELSE got
Since(m, b) == {f \in m : f > b}
Boxed ==
    /\ boxes % DetectEvery = 0 /\ boxes \in 0..Before /\ missed \subseteq 1..Before
    /\ service = "detector" =>
        Before - boxes < DetectEvery + DetectEvery * Cardinality(Since(missed, boxes))
    /\ upstream = "infer" => got % DetectEvery = 0

\* The failed inferences since a frame are finitely many; a later one is one more.
LEMMA SinceFacts ==
    ASSUME NEW n \in Nat, NEW m \in SUBSET (1..n), NEW b \in 0..n
    PROVE  /\ Cardinality(Since(m, b)) \in Nat
           /\ Cardinality(Since(m \cup {n + 1}, b)) = Cardinality(Since(m, b)) + 1
           /\ Cardinality(Since(m, n + 1)) = 0
  <1>1. IsFiniteSet(1..n)
    BY FS_Interval
  <1>2. Since(m, b) \subseteq 1..n
    BY DEF Since
  <1>3. IsFiniteSet(Since(m, b)) /\ Cardinality(Since(m, b)) \in Nat
    BY <1>1, <1>2, FS_Subset, FS_CardinalityType
  <1>4. Since(m \cup {n + 1}, b) = Since(m, b) \cup {n + 1} /\ n + 1 \notin Since(m, b)
    BY DEF Since
  <1>5. Cardinality(Since(m, b) \cup {n + 1}) = Cardinality(Since(m, b)) + 1
    BY <1>3, <1>4, FS_AddElement
  <1>6. Since(m, n + 1) = {}
    <2>1. \A f \in m : f \in 1..n
      OBVIOUS
    <2>2. \A f \in m : ~(f > n + 1)
      BY <2>1
    <2> QED BY <2>2 DEF Since
  <1> QED BY <1>3, <1>4, <1>5, <1>6, FS_EmptySet

\* Every DetectEvery-th frame either brings new boxes or is one more that failed
\* (detector.go:309-343).
LEMMA BoxedStep == TypeOK /\ Lanes /\ Boxed /\ [Next]_vars => Boxed'
  <1> SUFFICES ASSUME TypeOK, Lanes, Boxed, [Next]_vars PROVE Boxed'
    OBVIOUS
  <1>0. /\ got \in Nat /\ boxes \in Nat /\ Before \in Nat
        /\ upstream \in Transforming => got \in Nat \ {0}
    <2>1. got \in Nat /\ boxes \in Nat /\ (upstream \in Transforming => got \in 1..MaxFrames)
      BY DEF TypeOK, Lanes
    <2> QED BY <2>1 DEF Before, Transforming
  <1>a. ASSUME UNCHANGED <<service, boxes, missed>>, Before' = Before, upstream' # "infer" PROVE Boxed'
    BY <1>a DEF Boxed
  <1>1. CASE Outside \/ \E w \in Workers : TakeJob(w) \/ FinishJob(w)
    <2>1. UNCHANGED <<service, upstream, got, boxes, missed>>
      <3>1. ASSUME NEW w \in Workers, TakeJob(w) \/ FinishJob(w)
            PROVE  UNCHANGED <<service, upstream, got, boxes, missed>>
        BY <3>1 DEF TakeJob, FinishJob, readerVars, detectorVars
      <3> QED BY <1>1, <3>1, OutsideSteps
    <2>2. Before' = Before
      BY <2>1 DEF Before
    <2> QED BY <2>1, <2>2 DEF Boxed
  <1>2. CASE Connect \/ ReadFails \/ Lose \/ Retry
    <2>1. /\ upstream \notin {"transform", "infer"} /\ upstream' \notin {"transform", "infer"}
          /\ UNCHANGED <<service, got, boxes, missed>>
      BY <1>2 DEF Connect, ReadFails, Lose, Retry, To, detectorVars
    <2>2. Before' = Before
      BY <2>1 DEF Before
    <2> QED BY <1>a, <2>1, <2>2
  <1>3. CASE ReadFrame
    <2>1. /\ upstream = "read" /\ upstream' = "transform" /\ got' = got + 1
          /\ UNCHANGED <<service, boxes, missed>>
      BY <1>3 DEF ReadFrame, To, detectorVars
    <2>2. Before' = Before
      BY <1>0, <2>1 DEF Before
    <2> QED BY <1>a, <2>1, <2>2
  <1>4. CASE Pass \/ Process
    <2>1. /\ service # "detector" /\ upstream' \in {"read", "room"}
          /\ UNCHANGED <<service, got, boxes, missed>>
      BY <1>4 DEF Pass, Process, To, UnchangedByTransform
    <2>2. Before' = got /\ (Before = got \/ Before = got - 1)
      BY <2>1 DEF Before
    <2>3. boxes \in 0..Before' /\ missed \subseteq 1..Before'
      <3>1. boxes \in 0..Before /\ missed \subseteq 1..Before
        BY DEF Boxed
      <3> QED BY <1>0, <2>2, <3>1
    <2> QED BY <2>1, <2>3 DEF Boxed
  <1>5. CASE BeginDetect
    <2>1. /\ upstream = "transform" /\ service = "detector" /\ UNCHANGED <<service, got, boxes, missed>>
          /\ upstream' = IF got % DetectEvery = 0 THEN "infer" ELSE "annotate"
      BY <1>5 DEF BeginDetect, To, UnchangedByTransform
    <2>2. Before = got - 1 /\ got \in Nat \ {0}
      BY <1>0, <2>1 DEF Before, Transforming
    <2>3. CASE got % DetectEvery = 0
      <3>1. upstream' = "infer" /\ Before' = Before
        BY <2>1, <2>3 DEF Before
      <3> QED BY <2>1, <2>3, <3>1 DEF Boxed
    <2>4. CASE got % DetectEvery # 0
      <3> DEFINE c == Cardinality(Since(missed, boxes))
      <3>1. upstream' = "annotate" /\ Before' = got
        BY <2>1, <2>4 DEF Before
      <3>2. /\ boxes \in 0..(got - 1) /\ missed \subseteq 1..(got - 1) /\ boxes % DetectEvery = 0
            /\ (got - 1) - boxes < DetectEvery + DetectEvery * c
        BY <2>1, <2>2 DEF Boxed
      <3>3. c \in Nat
        <4>1. PICK n \in Nat : got = n + 1
          BY <2>2
        <4>2. missed \in SUBSET (1..n) /\ boxes \in 0..n
          BY <3>2, <4>1
        <4> QED BY <4>2, SinceFacts
      <3> HIDE DEF c
      <3>4. got - boxes < DetectEvery + DetectEvery * c
        <4>1. /\ got \in Nat /\ boxes \in Nat /\ boxes < got /\ boxes % DetectEvery = 0
              /\ (got - 1) - boxes < DetectEvery + DetectEvery * c
          BY <1>0, <2>2, <3>2 DEF c
        <4> QED BY <2>4, <3>3, <4>1, Multiples
      <3>5. boxes \in 0..got /\ missed \subseteq 1..got
        BY <1>0, <3>2
      <3> QED BY <2>1, <3>1, <3>2, <3>4, <3>5 DEF Boxed, c
    <2> QED BY <2>3, <2>4
  <1>6. CASE Infer
    <2>1. /\ upstream = "infer" /\ upstream' = "annotate" /\ UNCHANGED <<service, got>>
          /\ \/ boxes' = got /\ missed' = missed
             \/ boxes' = boxes /\ missed' = missed \cup {got}
      BY <1>6 DEF Infer, To, UnchangedByTransform
    <2>2. Before = got - 1 /\ Before' = got /\ got \in Nat \ {0} /\ service = "detector"
      BY <1>0, <2>1 DEF Before, Transforming, Lanes
    <2>3. /\ boxes \in 0..(got - 1) /\ missed \subseteq 1..(got - 1) /\ boxes % DetectEvery = 0
          /\ (got - 1) - boxes < DetectEvery + DetectEvery * Cardinality(Since(missed, boxes))
          /\ got % DetectEvery = 0
      BY <2>1, <2>2 DEF Boxed
    <2>4. /\ Cardinality(Since(missed, boxes)) \in Nat
          /\ Cardinality(Since(missed \cup {got}, boxes)) = Cardinality(Since(missed, boxes)) + 1
          /\ Cardinality(Since(missed, got)) = 0
      <3>1. PICK n \in Nat : got = n + 1
        BY <2>2
      <3>2. missed \in SUBSET (1..n) /\ boxes \in 0..n
        BY <2>3, <3>1
      <3> QED BY <3>1, <3>2, SinceFacts
    <2>5. CASE boxes' = got /\ missed' = missed
      <3>1. got - got < DetectEvery + DetectEvery * 0
        BY <2>2
      <3>2. got \in 0..got /\ missed \subseteq 1..got
        BY <2>2, <2>3
      <3> QED BY <2>1, <2>2, <2>3, <2>4, <2>5, <3>1, <3>2 DEF Boxed
    <2>6. CASE boxes' = boxes /\ missed' = missed \cup {got}
      <3> DEFINE c == Cardinality(Since(missed, boxes))
      <3>1. c \in Nat /\ (got - 1) - boxes < DetectEvery + DetectEvery * c
        BY <2>3, <2>4
      <3> HIDE DEF c
      <3>2. DetectEvery * (c + 1) = DetectEvery * c + DetectEvery /\ DetectEvery * c \in Nat
        BY <3>1
      <3>3. got - boxes < DetectEvery + DetectEvery * (c + 1)
        BY <1>0, <3>1, <3>2
      <3>4. boxes \in 0..got /\ missed \cup {got} \subseteq 1..got
        BY <2>2, <2>3
      <3>5. Cardinality(Since(missed', boxes')) = c + 1
        BY <2>4, <2>6 DEF c
      <3> QED BY <2>1, <2>2, <2>3, <2>6, <3>3, <3>4, <3>5 DEF Boxed
    <2> QED BY <2>1, <2>5, <2>6
  <1>7. CASE Annotate
    <2>1. /\ upstream = "annotate" /\ upstream' = "read" /\ UNCHANGED <<service, got, boxes, missed>>
      BY <1>7 DEF Annotate, To, UnchangedByTransform
    <2>2. Before' = Before
      BY <2>1 DEF Before
    <2> QED BY <1>a, <2>1, <2>2
  <1> QED BY <1>1, <1>2, <1>3, <1>4, <1>5, <1>6, <1>7, Steps

(***************************************************************************)
(* The reader: the delays between its attempts, and the flag of the hub.   *)
(***************************************************************************)
Delay(n) == Least(MinBackoff * 2 ^ n, MaxBackoff)
Backed ==
    /\ OfflineWhenLost
    /\ upstream \in {"backoff", "dial"} => backoff = Delay(barren)
    /\ upstream \notin {"backoff", "dial", "returned"} =>
          IF carried THEN barren = 0 ELSE Least(2 * backoff, MaxBackoff) = Delay(barren)

\* The delay after one more failing attempt is twice the delay, up to MaxBackoff.
LEMMA DelayDoubles ==
    ASSUME NEW n \in 0..MaxBarren
    PROVE  /\ Least(2 * Delay(n), MaxBackoff) = Delay(Least(n + 1, MaxBarren))
           /\ Delay(0) = MinBackoff
  <1> DEFINE p == MinBackoff * 2 ^ n
  <1>1. n \in Nat /\ 2 ^ n \in Nat /\ 2 ^ (n + 1) = 2 * 2 ^ n
    BY PowerDoubles
  <1>2. p \in Nat /\ MinBackoff * 2 ^ (n + 1) = 2 * p
    <2>1. \A x \in Nat : MinBackoff * x \in Nat /\ MinBackoff * (2 * x) = 2 * (MinBackoff * x)
      OBVIOUS
    <2> QED BY <1>1, <2>1
  <1>3. n = MaxBarren => p >= MaxBackoff
    OBVIOUS
  <1>4. Delay(n) = Least(p, MaxBackoff) /\ Delay(n + 1) = Least(2 * p, MaxBackoff)
    BY <1>2 DEF Delay
  <1>5. Delay(0) = MinBackoff
    <2>1. 2 ^ 0 = 1
      OBVIOUS
    <2> QED BY <2>1 DEF Delay, Least
  <1> HIDE DEF p
  <1>6. CASE n = MaxBarren
    <2>1. Least(n + 1, MaxBarren) = n /\ Delay(n) = MaxBackoff
      BY <1>1, <1>2, <1>3, <1>4, <1>6 DEF Least
    <2> QED BY <1>5, <2>1 DEF Least
  <1>7. CASE n # MaxBarren
    <2>1. Least(n + 1, MaxBarren) = n + 1
      BY <1>1, <1>7 DEF Least
    <2>2. Least(2 * Least(p, MaxBackoff), MaxBackoff) = Least(2 * p, MaxBackoff)
      BY <1>2 DEF Least
    <2> QED BY <1>4, <1>5, <2>1, <2>2
  <1> QED BY <1>6, <1>7

\* Every attempt that carries no frame doubles the delay, one that does resets it, and
\* nothing but a frame brings the cameras back (tcpupstream.go:50-82, service.go:92).
LEMMA BackedStep == TypeOK /\ Lanes /\ Backed /\ [Next]_vars => Backed'
  <1> SUFFICES ASSUME TypeOK, Lanes, Backed, [Next]_vars PROVE Backed'
    OBVIOUS
  <1>0. barren \in 0..MaxBarren /\ carried \in BOOLEAN
    BY DEF TypeOK
  <1>1. CASE Outside
    <2>1. UNCHANGED <<service, upstream, carried, backoff, barren, online>>
      BY <1>1, OutsideSteps
    <2> QED BY <2>1 DEF Backed, OfflineWhenLost
  <1>2. CASE Connect
    <2>1. upstream = "dial" /\ backoff = Delay(barren)
      BY <1>2 DEF Connect, Backed
    <2>2. UNCHANGED backoff
      BY <1>2 DEF Connect
    <2>3. CASE upstream' = "returned"
      BY <2>3 DEF Backed, OfflineWhenLost
    <2>4. CASE upstream' # "returned"
      <3>1. upstream' \in {"read", "lost"} /\ carried' = FALSE /\ barren' = Least(barren + 1, MaxBarren)
        BY <1>2, <2>4 DEF Connect, To
      <3>2. Least(2 * backoff', MaxBackoff) = Delay(barren')
        BY <1>0, <2>1, <2>2, <3>1, DelayDoubles
      <3> QED BY <3>1, <3>2 DEF Backed, OfflineWhenLost
    <2> QED BY <2>3, <2>4
  <1>3. CASE ReadFrame
    <2>1. upstream' = "transform" /\ carried' = TRUE /\ barren' = 0
      BY <1>3 DEF ReadFrame, To
    <2> QED BY <2>1 DEF Backed, OfflineWhenLost
  <1>4. CASE ReadFails
    <2>1. upstream = "read" /\ upstream' = "lost" /\ UNCHANGED <<carried, backoff, barren>>
      BY <1>4 DEF ReadFails, To
    <2> QED BY <2>1 DEF Backed, OfflineWhenLost
  <1>5. CASE Lose
    <2>1. /\ upstream = "lost" /\ upstream' = "backoff" /\ online' = FALSE /\ UNCHANGED barren
          /\ backoff' = IF carried THEN MinBackoff ELSE Least(2 * backoff, MaxBackoff)
      BY <1>5 DEF Lose, To
    <2>2. backoff' = Delay(barren)
      <3>1. CASE carried
        BY <1>0, <2>1, <3>1, DelayDoubles DEF Backed
      <3>2. CASE ~carried
        BY <2>1, <3>2 DEF Backed
      <3> QED BY <3>1, <3>2
    <2> QED BY <2>1, <2>2 DEF Backed, OfflineWhenLost
  <1>6. CASE Retry
    <2>1. /\ \/ upstream = "backoff" /\ upstream' = "dial"
             \/ upstream' = "returned"
          /\ UNCHANGED <<service, online, backoff, barren>>
      BY <1>6 DEF Retry, To
    <2> QED BY <2>1 DEF Backed, OfflineWhenLost
  <1>7. CASE Pass \/ BeginDetect \/ Infer \/ Annotate \/ Process
    <2>1. /\ upstream \in Transforming /\ upstream' \in Transforming \cup {"read"}
          /\ UNCHANGED <<carried, backoff, barren>>
      BY <1>7 DEF Pass, BeginDetect, Infer, Annotate, Process, To, UnchangedByTransform, Transforming
    <2> QED BY <2>1 DEF Backed, OfflineWhenLost, Transforming
  <1>8. ASSUME NEW w \in Workers, TakeJob(w) \/ FinishJob(w) PROVE Backed'
    <2>1. UNCHANGED <<service, upstream, carried, backoff, barren>>
      BY <1>8 DEF TakeJob, FinishJob, readerVars
    <2>2. service = "pool"
      <3>1. queue # <<>> \/ worker[w] # 0
        BY <1>8 DEF TakeJob, FinishJob
      <3> QED BY <3>1 DEF Lanes
    <2> QED BY <2>1, <2>2 DEF Backed, OfflineWhenLost
  <1> QED BY <1>1, <1>2, <1>3, <1>4, <1>5, <1>6, <1>7, <1>8, Steps

(***************************************************************************)
(* The theorems.                                                           *)
(***************************************************************************)
SInv == PInv /\ TypeOK /\ Lanes /\ Drained /\ Placed /\ Boxed /\ Backed

\* Before the first frame nothing is anywhere.
LEMMA SInvInit == Init => SInv
  <1> SUFFICES ASSUME Init PROVE SInv
    OBVIOUS
  <1>1. PInv
    BY DEF Init, PInv, Joined, ClosedAfterJoin
  <1>2. TypeOK /\ Lanes
    BY TypeInit
  <1>3. Drained
    BY DEF Init, Drained
  <1>4. Placed
    <2>1. /\ upstream = "dial" /\ got = 0 /\ queue = <<>> /\ pushed = {} /\ evicted = {}
          /\ worker = [w \in Workers |-> 0]
      BY DEF Init
    <2>2. Hand = {} /\ AtWork = {} /\ 1..got = {} /\ 1..Len(queue) = {}
      BY <2>1 DEF Hand, AtWork, Transforming
    <2>3. Elements(queue) = {} /\ Distinct(queue)
      BY <2>2 DEF Elements, Distinct
    <2> QED BY <2>1, <2>2, <2>3 DEF Placed
  <1>5. Boxed
    <2>1. upstream = "dial" /\ boxes = 0 /\ got = 0 /\ missed = {} /\ Before = 0
      BY DEF Init, Before
    <2>2. Since(missed, boxes) = {} /\ Cardinality(Since(missed, boxes)) = 0
      BY <2>1, FS_EmptySet DEF Since
    <2>3. 0 % DetectEvery = 0 /\ 0 - 0 < DetectEvery + DetectEvery * 0
      OBVIOUS
    <2> QED BY <2>1, <2>2, <2>3 DEF Boxed
  <1>6. Backed
    <2>1. upstream = "dial" /\ backoff = MinBackoff /\ barren = 0 /\ online = FALSE
      BY DEF Init
    <2>2. Delay(0) = MinBackoff
      <3>1. 0 \in 0..MaxBarren
        OBVIOUS
      <3> QED BY <3>1, DelayDoubles
    <2> QED BY <2>1, <2>2 DEF Backed, OfflineWhenLost
  <1> QED BY <1>1, <1>2, <1>3, <1>4, <1>5, <1>6 DEF SInv

\* All of it holds in every state of the process.
THEOREM ServiceInvariant == Spec => []SInv
  <1>1. SInv /\ [Next]_vars => SInv'
    BY PInvStep, TypeStep, LanesStep, DrainedStep, PlacedStep, BoxedStep, BackedStep DEF SInv
  <1> QED BY <1>1, SInvInit, PTL DEF Spec

\* The pool stays within its capacity, and when Close has drained it every frame was pushed or
\* given up, and none twice or both (pool.go:64-85), whatever the number of workers.
THEOREM PoolStaysSound == Spec => []PoolIsSound
  <1>1. SInv => PoolIsSound
    <2> SUFFICES ASSUME SInv, main = "exited", service = "pool"
                 PROVE  /\ queue = <<>> /\ \A w \in Workers : worker[w] = 0
                        /\ pushed \cup evicted = 1..got /\ pushed \cap evicted = {}
      BY DEF PoolIsSound, PoolDrained, SInv
    <2>1. done = Workers /\ upstream = "returned"
      BY DEF SInv, Drained, PInv, Joined
    <2>2. queue = <<>> /\ \A w \in Workers : worker[w] = 0
      BY <2>1 DEF SInv, Drained
    <2>3. Hand = {} /\ AtWork = {} /\ 1..Len(queue) = {}
      BY <2>1, <2>2 DEF Hand, AtWork, Transforming
    <2>4. Elements(queue) = {}
      BY <2>3 DEF Elements
    <2> QED BY <2>2, <2>3, <2>4 DEF SInv, Placed
  <1> QED BY <1>1, ServiceInvariant, PTL

\* Without a pool every frame is pushed once before the next is read; what is drawn on a frame
\* is recent; a lost upstream shows, and its delays double (tcpupstream.go:50-82,
\* detector.go:309-343, service.go:43-92), for every DetectEvery and every pair of delays.
THEOREM ReaderStaysSound == Spec => []ReaderIsSound
  <1>1. SInv => ReaderIsSound
    <2> SUFFICES ASSUME SInv PROVE ReaderIsSound
      OBVIOUS
    <2>0. got \in Nat
      BY DEF SInv, TypeOK
    <2>1. PushedOnce
      <3> SUFFICES ASSUME service # "pool"
                   PROVE  /\ pushed = 1..(IF upstream \in Transforming THEN got - 1 ELSE got)
                          /\ evicted = {} /\ queue = <<>>
        BY DEF PushedOnce
      <3>1. /\ queue = <<>> /\ evicted = {} /\ \A w \in Workers : worker[w] = 0
            /\ upstream \in Transforming => got \in 1..MaxFrames
        BY DEF SInv, Lanes
      <3>2. AtWork = {} /\ 1..Len(queue) = {}
        BY <3>1 DEF AtWork
      <3>3. Elements(queue) = {}
        BY <3>2 DEF Elements
      <3>4. pushed \cup Hand = 1..got /\ pushed \cap Hand = {}
        BY <3>1, <3>2, <3>3 DEF SInv, Placed
      <3>5. CASE upstream \in Transforming
        <4>1. Hand = {got} /\ 1..(got - 1) = (1..got) \ {got}
          BY <2>0, <3>5 DEF Hand
        <4> QED BY <3>1, <3>4, <3>5, <4>1
      <3>6. CASE upstream \notin Transforming
        BY <3>1, <3>4, <3>6 DEF Hand
      <3> QED BY <3>5, <3>6
    <2>2. BoxesAreRecent
      <3>1. /\ boxes % DetectEvery = 0 /\ boxes \in 0..Before
            /\ service = "detector" =>
                 Before - boxes < DetectEvery + DetectEvery * Cardinality({f \in missed : f > boxes})
        BY DEF SInv, Boxed, Since
      <3>2. Before <= got /\ Before \in Int /\ (upstream \notin {"transform", "infer"} => Before = got)
        BY <2>0 DEF Before
      <3>3. boxes <= got
        BY <2>0, <3>1, <3>2
      <3> QED BY <3>1, <3>2, <3>3 DEF BoxesAreRecent
    <2>3. OfflineWhenLost /\ BackoffDoubles
      BY DEF SInv, Backed, BackoffDoubles, Delay
    <2> QED BY <2>1, <2>2, <2>3 DEF ReaderIsSound
  <1> QED BY <1>1, ServiceInvariant, PTL
=============================================================================
