--------------------------- MODULE ServeLifecycle ---------------------------
(***************************************************************************)
(* shared/livefeed Serve with the Run of a restream proxy around it: its   *)
(* process from the start to the exit.  Serve runs the HTTP server;        *)
(* goroutines of its own shut that server down and read the upstream       *)
(* (streamproto TCPUpstream), whose frames go to the service's transform:  *)
(*   "direct"    the restreamer, the enhancer, and the detector without a  *)
(*               model: the frame is pushed before transform returns;      *)
(*   "detector"  every DetectEvery-th frame refreshes the boxes, and all   *)
(*               frames are annotated with the newest and pushed;          *)
(*   "pool"      the upscaler: the frame goes to the worker pool           *)
(*               (pipeline.Pool), which Run closes when Serve returns.     *)
(***************************************************************************)
EXTENDS Naturals, Sequences, FiniteSets

CONSTANTS
    Services,     \* the kinds of transform to look at
    Workers,      \* the pool's goroutines; a queue with room (see QueueSize) has some
    Requests,     \* HTTP requests of viewers
    QueueSize,    \* capacity of the pool's queue, a multiple of the number of workers
    DetectEvery,  \* detectEveryN
    MinBackoff, MaxBackoff,
    MaxBarren,    \* bound: failing attempts in a row that are told apart; the delay
                  \* has reached MaxBackoff by then
    MaxFrames,    \* bound: frames the upstream sends
    MaxConnects   \* bound: connections to the upstream

ASSUME ServeAssumption == /\ Services \subseteq {"direct", "detector", "pool"}
                          /\ Workers # {} /\ QueueSize \in Nat \ {0} /\ DetectEvery \in Nat \ {0}
                          /\ MinBackoff \in Nat \ {0} /\ MaxBackoff \in Nat /\ MinBackoff <= MaxBackoff
                          /\ MaxBarren \in Nat /\ MinBackoff * 2 ^ MaxBarren >= MaxBackoff
                          /\ MaxFrames \in Nat /\ MaxConnects \in Nat \ {0}

VARIABLES
    service,      \* which proxy this is
    cancelled,    \* ctx has been cancelled
    main,         \* Run's goroutine, see MainStates
    http,         \* the listener: "unbound", "serving", "closed", "failed"
    shutdown,     \* the goroutine of Shutdown: "waiting", "draining", "drained", "expired"
    request,      \* of each request: "none", "active", "done"
    upstream,     \* TCPUpstream.Run, see UpstreamStates
    connects,     \* connections made so far
    got,          \* frames read from the upstream
    carried,      \* connect's frames > 0: this connection has carried a frame
    backoff,      \* the delay before the next attempt
    barren,       \* history: attempts since the last one that carried a frame
    online,       \* the hub's flag, its staleness left to LiveHub
    session,      \* the detector's ONNX session: "live", "released"
    boxes,        \* lastDets: the frame they were found in, or 0
    missed,       \* history: frames whose inference failed
    queue,        \* Pool.queue: frames waiting for a worker
    queueClosed,  \* close(p.queue)
    worker,       \* of each worker: 0, or the frame it works on
    done,         \* workers that have seen the closed queue
    pushed,       \* frames that push was called for
    evicted,      \* frames dropchan.Send took out again, and frames no JPEG
    panicked      \* a frame was sent on the closed queue

httpVars == <<http, shutdown, request>>
readerVars == <<upstream, connects, got, carried, backoff, barren>>
detectorVars == <<session, boxes, missed>>
poolVars == <<queue, queueClosed, worker, done, pushed, evicted, panicked>>
vars == <<service, cancelled, main, httpVars, readerVars, online, detectorVars, poolVars>>

\* "listen": in ListenAndServe; "join": the deferred upstreamDone.Wait;
\* "close": Serve has returned, the deferred pool.Close; "wait": its wg.Wait.
MainStates == {"listen", "join", "close", "wait", "exited", "crashed"}
\* "transform": a frame is in hand; "infer", "annotate": in Detector.Process; "room":
\* Send found the queue full.
Transforming == {"transform", "infer", "annotate", "room"}
Disconnected == {"dial", "lost", "backoff"}
UpstreamStates == {"read", "returned"} \cup Transforming \cup Disconnected

Init == /\ service \in Services /\ cancelled = FALSE /\ main = "listen" /\ http = "unbound" /\ shutdown = "waiting"
        /\ request = [r \in Requests |-> "none"]
        /\ upstream = "dial" /\ connects = 0 /\ got = 0
        /\ carried = FALSE /\ backoff = MinBackoff /\ barren = 0
        /\ online = FALSE /\ session = "live" /\ boxes = 0 /\ missed = {}
        /\ queue = <<>> /\ queueClosed = FALSE
        /\ worker = [w \in Workers |-> 0] /\ done = {}
        /\ pushed = {} /\ evicted = {} /\ panicked = FALSE

Ended == main \in {"exited", "crashed"}
Running == ~Ended

-----------------------------------------------------------------------------
(* The owner of ctx, the viewers and the HTTP server *)

Cancel == /\ ~cancelled /\ Running
          /\ cancelled' = TRUE
          /\ UNCHANGED <<service, main, httpVars, readerVars, online, detectorVars, poolVars>>

\* ListenAndServe binds the address.
Bind == /\ main = "listen" /\ http = "unbound"
        /\ http' = "serving"
        /\ UNCHANGED <<service, cancelled, main, shutdown, request, readerVars, online, detectorVars, poolVars>>

\* The address cannot be bound, or accepting fails for good.
HTTPFails ==
    /\ main = "listen" /\ http \in {"unbound", "serving"}
    /\ http' = "failed" /\ main' = "join"
    /\ UNCHANGED <<service, cancelled, shutdown, request, readerVars, online, detectorVars, poolVars>>

Request(r) ==
    /\ Running /\ http = "serving" /\ request[r] = "none"
    /\ request' = [request EXCEPT ![r] = "active"]
    /\ UNCHANGED <<service, cancelled, main, http, shutdown, readerVars, online, detectorVars, poolVars>>

\* The handler ends: the viewer leaves, or has its answer.
Answer(r) ==
    /\ Running /\ request[r] = "active"
    /\ request' = [request EXCEPT ![r] = "done"]
    /\ UNCHANGED <<service, cancelled, main, http, shutdown, readerVars, online, detectorVars, poolVars>>

\* Shutdown closes the listener and waits for the requests that are active;
\* the closed listener ends ListenAndServe.
BeginShutdown ==
    /\ Running /\ cancelled /\ shutdown = "waiting"
    /\ shutdown' = "draining"
    /\ http' = IF http = "failed" THEN http ELSE "closed"
    /\ UNCHANGED <<service, cancelled, main, request, readerVars, online, detectorVars, poolVars>>

\* No request is active any more, or shutdownTimeout has passed.
EndShutdown ==
    /\ Running /\ shutdown = "draining"
    /\ \/ /\ \A r \in Requests : request[r] # "active"
          /\ shutdown' = "drained"
       \/ shutdown' = "expired"
    /\ UNCHANGED <<service, cancelled, main, http, request, readerVars, online, detectorVars, poolVars>>

\* ListenAndServe returns ErrServerClosed.
ServerClosed ==
    /\ main = "listen" /\ http = "closed"
    /\ main' = "join"
    /\ UNCHANGED <<service, cancelled, httpVars, readerVars, online, detectorVars, poolVars>>

\* Only the upscaler has something to close when Serve has returned.
AfterServe == IF service = "pool" THEN "close" ELSE "exited"

\* Mutant: Serve does not wait for the upstream reader.
ReturnAtOnce ==
    /\ main = "join"
    /\ main' = AfterServe
    /\ UNCHANGED <<service, cancelled, httpVars, readerVars, online, detectorVars, poolVars>>

\* The deferred upstreamDone.Wait; Serve returns.
JoinUpstream ==
    /\ main = "join" /\ upstream = "returned"
    /\ main' = AfterServe
    /\ UNCHANGED <<service, cancelled, httpVars, readerVars, online, detectorVars, poolVars>>

-----------------------------------------------------------------------------
(* The upstream reader *)

To(state) == upstream' = state
Least(a, b) == IF a < b THEN a ELSE b

\* Run's check of ctx, and the dial.
Connect ==
    /\ Running /\ upstream = "dial"
    /\ \/ cancelled /\ To("returned") /\ UNCHANGED <<connects, carried, barren>>
       \/ /\ ~cancelled /\ carried' = FALSE /\ barren' = Least(barren + 1, MaxBarren)
          /\ \/ connects < MaxConnects /\ To("read") /\ connects' = connects + 1
             \/ To("lost") /\ connects' = connects
    /\ UNCHANGED <<service, cancelled, main, httpVars, got, backoff, online, detectorVars, poolVars>>

ReadFrame ==
    /\ Running /\ upstream = "read" /\ got < MaxFrames
    /\ got' = got + 1 /\ carried' = TRUE /\ barren' = 0
    /\ To("transform")
    /\ UNCHANGED <<service, cancelled, main, httpVars, connects, backoff, online, detectorVars,
                   poolVars>>

\* Mutant: no watchdog, and an upstream that is quiet after the cancellation.
ReadFailsUnwatched ==
    /\ Running /\ upstream = "read" /\ ~cancelled
    /\ To("lost")
    /\ UNCHANGED <<service, cancelled, main, httpVars, connects, got, carried, backoff, barren,
                   online, detectorVars, poolVars>>

\* The connection breaks, or the watchdog closes it for the cancellation.
ReadFails ==
    /\ Running /\ upstream = "read"
    /\ To("lost")
    /\ UNCHANGED <<service, cancelled, main, httpVars, connects, got, carried, backoff, barren,
                   online, detectorVars, poolVars>>

\* The connection is over: onOffline is MarkAllOffline, and the next delay is set.
Lose ==
    /\ Running /\ upstream = "lost" /\ ~cancelled
    /\ online' = FALSE
    /\ backoff' = IF carried THEN MinBackoff ELSE Least(2 * backoff, MaxBackoff)
    /\ To("backoff")
    /\ UNCHANGED <<service, cancelled, main, httpVars, connects, got, carried, barren,
                   detectorVars, poolVars>>

\* Run returns when ctx is cancelled, or dials again when the delay is over.
Retry ==
    /\ Running
    /\ \/ upstream = "backoff" /\ To("dial")
       \/ upstream \in {"lost", "backoff"} /\ cancelled /\ To("returned")
    /\ UNCHANGED <<service, cancelled, main, httpVars, connects, got, carried, backoff, barren,
                   online, detectorVars, poolVars>>

-----------------------------------------------------------------------------
(* The transforms *)

\* The push of Serve: the frame is published and the camera is online.
Push(frame) == pushed' = pushed \cup {frame} /\ online' = TRUE

UnchangedByTransform ==
    UNCHANGED <<service, cancelled, main, httpVars, connects, got, carried, backoff, barren,
                session, queueClosed, worker, done>>

\* Mutant: a frame that cannot be decoded is dropped.
PassDrops ==
    /\ Running /\ service = "direct" /\ upstream = "transform"
    /\ Push(got) \/ UNCHANGED <<pushed, online>>
    /\ To("read")
    /\ UnchangedByTransform /\ UNCHANGED <<boxes, missed, queue, evicted, panicked>>

\* The frame as it came, or enhanced; one that cannot be decoded or encoded goes
\* on as it came.
Pass ==
    /\ Running /\ service = "direct" /\ upstream = "transform"
    /\ Push(got)
    /\ To("read")
    /\ UnchangedByTransform /\ UNCHANGED <<boxes, missed, queue, evicted, panicked>>

\* Detector.Process counts the frame; nobody else holds mu, so TryLock succeeds.
BeginDetect ==
    /\ Running /\ service = "detector" /\ upstream = "transform"
    /\ To(IF got % DetectEvery = 0 THEN "infer" ELSE "annotate")
    /\ UnchangedByTransform
    /\ UNCHANGED <<online, boxes, missed, queue, pushed, evicted, panicked>>

\* inferenceOnly replaces the boxes, or fails: no JPEG, or an error of ONNX.
Infer ==
    /\ Running /\ upstream = "infer"
    /\ \/ boxes' = got /\ missed' = missed
       \/ boxes' = boxes /\ missed' = missed \cup {got}
    /\ To("annotate")
    /\ UnchangedByTransform /\ UNCHANGED <<online, queue, pushed, evicted, panicked>>

\* The annotated frame, or the frame as it came if there is an error.
Annotate ==
    /\ Running /\ upstream = "annotate"
    /\ Push(got)
    /\ To("read")
    /\ UnchangedByTransform /\ UNCHANGED <<boxes, missed, queue, evicted, panicked>>

\* The goroutine of the detector's Run that waits for ctx: Destroy takes no lock.
Release ==
    /\ Running /\ service = "detector" /\ cancelled /\ session = "live"
    /\ session' = "released"
    /\ UNCHANGED <<service, cancelled, main, httpVars, readerVars, online, boxes, missed, poolVars>>

\* What the C library does with a released session is undefined: the process may die.
UseReleased ==
    /\ Running /\ upstream = "infer" /\ session = "released"
    /\ main' = "crashed"
    /\ UNCHANGED <<service, cancelled, httpVars, readerVars, online, detectorVars, poolVars>>

\* Pool.Process: dropchan.Send, its last two selects in one.
Process ==
    /\ Running /\ service = "pool"
    /\ \/ /\ upstream = "transform" /\ Len(queue) < QueueSize
          /\ queue' = Append(queue, got) /\ To("read") /\ evicted' = evicted
       \/ /\ upstream = "transform" /\ Len(queue) >= QueueSize
          /\ To("room") /\ UNCHANGED <<queue, evicted>>
       \/ /\ upstream = "room" /\ To("read")
          /\ queue' = Append(IF queue = <<>> THEN queue ELSE Tail(queue), got)
          /\ evicted' = evicted \cup (IF queue = <<>> THEN {} ELSE {Head(queue)})
    /\ panicked' = (panicked \/ queueClosed)
    /\ UnchangedByTransform /\ UNCHANGED <<online, boxes, missed, pushed>>

-----------------------------------------------------------------------------
(* The pool *)

\* workerLoop: a frame is taken; decoded and pushed, or no JPEG; at the end of
\* the closed queue the worker is done.
TakeJob(w) ==
    /\ Running /\ worker[w] = 0 /\ queue # <<>> /\ w \notin done
    /\ worker' = [worker EXCEPT ![w] = Head(queue)]
    /\ queue' = Tail(queue)
    /\ UNCHANGED <<service, cancelled, main, httpVars, readerVars, online, detectorVars,
                   queueClosed, done, pushed, evicted, panicked>>

FinishJob(w) ==
    /\ Running /\ worker[w] # 0
    /\ \/ Push(worker[w]) /\ evicted' = evicted
       \/ evicted' = evicted \cup {worker[w]} /\ UNCHANGED <<pushed, online>>
    /\ worker' = [worker EXCEPT ![w] = 0]
    /\ UNCHANGED <<service, cancelled, main, httpVars, readerVars, detectorVars,
                   queue, queueClosed, done, panicked>>

\* Mutant: a worker leaves as soon as the queue is closed.
StopWorkerEarly(w) ==
    /\ Running /\ worker[w] = 0 /\ queueClosed /\ w \notin done
    /\ done' = done \cup {w}
    /\ UNCHANGED <<service, cancelled, main, httpVars, readerVars, online, detectorVars,
                   queue, queueClosed, worker, pushed, evicted, panicked>>

StopWorker(w) ==
    /\ Running /\ worker[w] = 0 /\ queueClosed /\ queue = <<>> /\ w \notin done
    /\ done' = done \cup {w}
    /\ UNCHANGED <<service, cancelled, main, httpVars, readerVars, online, detectorVars,
                   queue, queueClosed, worker, pushed, evicted, panicked>>

\* Pool.Close: the queue is closed; the workers are waited for.  Then Run
\* returns, and with it the process ends.
ClosePool ==
    /\ \/ main = "close" /\ main' = "wait" /\ queueClosed' = TRUE
       \/ main = "wait" /\ done = Workers /\ main' = "exited" /\ queueClosed' = queueClosed
    /\ UNCHANGED <<service, cancelled, httpVars, readerVars, online, detectorVars,
                   queue, worker, done, pushed, evicted, panicked>>

Main     == Bind \/ ServerClosed \/ JoinUpstream \/ ClosePool
Transform == Pass \/ BeginDetect \/ Infer \/ Annotate \/ Process
Reader   == Connect \/ Lose \/ Retry \/ Transform
Work(w)  == TakeJob(w) \/ FinishJob(w) \/ StopWorker(w)

Next == \/ Cancel \/ Main \/ HTTPFails \/ BeginShutdown \/ EndShutdown
        \/ Reader \/ ReadFrame \/ ReadFails \/ Release \/ UseReleased
        \/ \E r \in Requests : Request(r) \/ Answer(r)
        \/ \E w \in Workers : Work(w)

Spec == Init /\ [][Next]_vars

\* The goroutines run.  A read is sure to end only when the cancellation has
\* closed the connection; nothing makes viewers leave.
FairSpec == /\ Spec
            /\ WF_vars(Main) /\ WF_vars(BeginShutdown) /\ WF_vars(EndShutdown)
            /\ WF_vars(Reader) /\ WF_vars(cancelled /\ ReadFails)
            /\ \A w \in Workers : WF_vars(Work(w))

-----------------------------------------------------------------------------
\* The main goroutine of Serve, the upstream, the HTTP server and its shutdown each
\* are at one step, the frame queue stays within its size, and a worker holds at
\* most one frame (livefeed's Serve).
TypeOK ==
    /\ service \in Services /\ cancelled \in BOOLEAN /\ main \in MainStates /\ upstream \in UpstreamStates
    /\ http \in {"unbound", "serving", "closed", "failed"}
    /\ shutdown \in {"waiting", "draining", "drained", "expired"}
    /\ request \in [Requests -> {"none", "active", "done"}]
    /\ connects \in 0..MaxConnects /\ got \in 0..MaxFrames
    /\ carried \in BOOLEAN /\ backoff \in MinBackoff..MaxBackoff /\ barren \in 0..MaxBarren
    /\ online \in BOOLEAN /\ session \in {"live", "released"}
    /\ boxes \in 0..MaxFrames /\ missed \subseteq 1..MaxFrames
    /\ queue \in Seq(1..MaxFrames) /\ Len(queue) <= QueueSize
    /\ worker \in [Workers -> 0..MaxFrames] /\ done \subseteq Workers
    /\ pushed \subseteq 1..MaxFrames /\ evicted \subseteq 1..MaxFrames
    /\ queueClosed \in BOOLEAN /\ panicked \in BOOLEAN

\* "closing that pool while the reader was still running would be a send on a
\* closed channel" (service.go:49-51): the pool is closed only when no call of
\* transform is in flight or can follow.
NoSendOnClosed == ~panicked

\* Close "drains remaining jobs and waits for all workers to finish"
\* (pool.go:70): when the process ends every frame it has read was pushed or
\* given up, and none twice or both.
PoolDrained ==
    main = "exited" /\ service = "pool" =>
        /\ queue = <<>> /\ \A w \in Workers : worker[w] = 0
        /\ pushed \cup evicted = 1..got /\ pushed \cap evicted = {}

\* The pool is never over its capacity, and when the process ends nothing is left in it
\* (pool.go:64-85).
PoolIsSound == TypeOK /\ PoolDrained

\* transform "must call push exactly once" (service.go:43): without a pool every frame
\* read has been pushed when the next one is read, also one that is no JPEG, and also by a
\* detector whose inferences fail.
PushedOnce ==
    service # "pool" =>
        /\ pushed = 1..(IF upstream \in Transforming THEN got - 1 ELSE got)
        /\ evicted = {} /\ queue = <<>>

\* "Inference runs on every Nth frame to refresh detections; every frame is annotated with
\* the most recent" (detector.go:306-307): what is drawn on a frame was found fewer than
\* DetectEvery frames earlier, or the inferences in between have failed.
BoxesAreRecent ==
    /\ boxes <= got /\ boxes % DetectEvery = 0
    /\ service = "detector" /\ upstream \notin {"transform", "infer"} =>
        got - boxes < DetectEvery + DetectEvery * Cardinality({f \in missed : f > boxes})

\* While there is no connection no camera is shown as online (service.go:92): no push is
\* left over from before MarkAllOffline, except by the pool's workers.
OfflineWhenLost == service # "pool" /\ upstream \in {"backoff", "dial"} => ~online

\* "reconnecting with exponential backoff on every disconnect" (tcpupstream.go:49): the
\* delay has doubled with every attempt since one that carried a frame.
BackoffDoubles ==
    upstream \in {"backoff", "dial"} => backoff = Least(MinBackoff * 2 ^ barren, MaxBackoff)

\* The reader and its transform: every frame goes on once, with recent boxes; a lost upstream
\* shows, and is not asked again at once (tcpupstream.go:50-82, detector.go:309-343).
ReaderIsSound == PushedOnce /\ BoxesAreRecent /\ OfflineWhenLost /\ BackoffDoubles

\* "shuts everything down when ctx is cancelled" (service.go:41): the process
\* ends, whatever the upstream does and however long viewers keep streaming.
CancelledExits == cancelled ~> Ended

\* Serve "blocks until the HTTP server stops" (service.go:38-39): it does not
\* when the HTTP server fails.
FailureExits == http = "failed" ~> Ended

\* "shutdownTimeout is how long in-flight HTTP requests get to finish after
\* the process is asked to stop" (service.go:21-22).
RequestsGetToFinish ==
    main = "exited" /\ http = "closed" =>
        shutdown = "expired" \/ \A r \in Requests : request[r] # "active"

\* transform "must call push exactly once" (service.go:43) for each frame, in a pool too.
EveryFramePushed == main = "exited" => pushed = 1..got

\* Destroy: "Call once when the detector is no longer needed" (detector.go:287); an
\* inference needs its session.
SessionLives == upstream = "infer" => session = "live"
=============================================================================
