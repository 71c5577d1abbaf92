# Formal specification of instachron

TLA+ modules for the Go services of this repository, the TLC configurations
that check them on small instances, and theorems checked by TLAPS.  The code
modelled is under `src/shared` and `src/services`; a path below is relative to
`src/` and, in a service, to its `internal/` directory.

    tlc  -config Recorder_all.cfg Recorder.tla        # one run
    tlapm RecorderProofs.tla                           # the proofs of a module

`PROJECT.json` lists, for every definition that stands for code, the lines it
stands for; every run with the properties it checks; a mutant of the model for
every property, which the property must catch; the theorems; and the hazards
the properties are aimed at.

## 1. The system

JPEG frames flow one way, from the cameras to viewers and to files.  Every
arrow is a queue or a socket at which frames can be lost, and every box a Go
process that can be restarted by itself.

    cameras --TCP--> tcp-camera-backend --unix socket--> camera-web-api --HTTP--> dashboard
                     (ingest server,     frameipc             |
                      IPC publisher)         |                | restream TCP
                                             v                v
                                       ffmpeg-streamer    restreamer, enhancer,
                                          | stdin         upscaler, detector --HTTP/TCP--> ...
                                          v                   camera-recorder --> files
                                        ffmpeg --> RTMP          | stdin/stdout
                                                                 v
                                                               ffmpeg

| component | state it keeps | operations | hard because |
|---|---|---|---|
| `shared/dropchan` | a bounded Go channel | `Send` (three selects), `Lost` | other producers and the consumer act between the selects |
| `shared/livefeed` `Broadcaster` | latest frame, map of subscriber channels | `Publish`, `Subscribe`, unsubscribe | latest is stored before the lock is taken; a channel is closed while others fan out |
| `shared/streamproto` `TCPServer` | client count, cancellation | accept with limit, handle client, shutdown | stuck clients, refusals, cancellation in any order |
| `shared/streamproto` `TCPUpstream` | connection, backoff | `Run`, `connect`, callbacks | reconnection against cancellation |
| `shared/livefeed` `Hub`, `Registry` and the HTTP requests | latest frame, last seen, online flag, viewers, the map of hubs | `Push`, `Subscribe`, `CheckLiveness`, `MarkOffline`, list, snapshot, stream | three atomics and a map that are not updated together |
| `livefeed.Serve` and the four proxies | HTTP server, upstream reader, the transform's state | start, cancel, shutdown, join, transform, `Close` | closing a channel, or releasing a session, that a callback still uses |
| ingest server | connections, accept failures | accept loop, one handler per camera, watchdog | cancellation between accept and registration; reconnecting cameras |
| IPC publisher and `frameipc` client | consumers and their queues; the view of a consumer | `fanOut`, `serveConsumer`, `Run`, `connect` | full queues, restarts of either side |
| wire formats | a byte stream | write and read a message | chunking, cut streams, bounds on lengths |
| camera-recorder: one camera | segment, encoder, files on disk | the loop: open, write, rotate, finish, prune | every call can fail; the process may crash between any two |
| camera-recorder: process | map of camera sessions | `Submit`, `Close`, `Run` | the map is copied while a callback may still add to it |
| camera-recorder: segment encoder | two pipes and an ffmpeg process | `WriteJPEG`, `Close`, `Kill` | circular waits over full pipes |
| camera-recorder: archive | the directory | `List`, `Open`, `UsageBytes` | reads without a lock while segments appear and go |
| ffmpeg-streamer | frame cache, version, canvas | callbacks, `canvasSource`, `pump` | version counter bumped outside the lock; dead ffmpeg |
| detector proxy | ONNX session, last boxes, a counter | `Process`, `Destroy`, letterbox, `parseOutput`, `nms` | release while a run is under way; boxes across scaling, padding and two tensor layouts |
| camera-web-api | hubs, angles, sequence numbers | callbacks of the client, `Apply` | any integer angle, pictures of any shape |

`PROJECT.json` has all components, the ones not modelled included (section 7).

What makes each correct, in a sentence: no frame is forged, duplicated or
reordered by a queue, and what is lost is what the producer is told; whoever
has caught up has the newest frame; no goroutine sends on a closed channel;
every process ends once it is cancelled, and no segment is left open when the
recorder does; a camera that has gone is shown offline and one that sends is
not; a recording appears whole or not at all, recordings do not overlap, only
the oldest ones are pruned, and a failed one leaves nothing on the disk; what is
drawn on a picture is where the object is.  The
end of section 3 says where the code falls short of this.

## 2. Modules

| module | models | state and actions against the code |
|---|---|---|
| `KeepNewest` | what callers expect of a drop-oldest queue | one atomic `Offer`; abstract |
| `DropChan` | `dropchan.go` | `chan` is the Go channel, `pc` the select a producer is at: `TrySend`, `MakeRoom`, `Retry` are the three selects, `Receive` the consumer |
| `Broadcaster` | `livefeed/broadcaster.go` | `mu` the mutex, `latest` the atomic pointer, `todo` what is left of a fan-out loop |
| `TCPFanout` (extends `Broadcaster`) | `streamproto/tcpserver.go` | `conn[c]` the step of a client's goroutine, `clients` the atomic counter, `maxClients` the limit of the configuration, `cancelled` the context |
| `LiveHub` | `hub.go`, `registry.go`, the requests of `httpapi.go` | the atomics `latest`, `lastSeen`, `online`; `pc[p]` the line of `Push`, `check` that of `CheckLiveness`; `known` whether the map has the camera, `listed` (history) whether a listing has shown it online |
| `ServeLifecycle` | `service.go`, `tcpupstream.go`, and the `Run` of the four proxies: `pool.go`, `Detector.Process` and `Destroy`, the synchronous transforms | `service` says which proxy; `main`, `upstream`, `http`, `shutdown`, `worker` are the goroutines, `queue` the job channel, `boxes` the frame `lastDets` was found in, `backoff` the delay |
| `Detections` | `rotation.go`, `preprocess.go`, `postprocess.go`, `inferenceOnly` | one picture on its way: `stage` the function it is in, `lb` the letterbox, with the scale to divide by and the rounded size that is drawn (`Drawn`), `data` the output tensor, `candidates`, `kept`, `dets` the boxes; one action per function, one `Keep` per turn of the loop of `nms` |
| `IngestServer` | `server/server.go` | `loop` the accept loop, `handler[c]` a connection's goroutine, `conns` the map of open connections, `seen[c]` its set of cameras, `published` all that `Publish` was called with |
| `IPCFanout` | `publisher.go`, `frameipc/client.go`, the callbacks of camera-web-api | `ch[s]` the queue of a session, `sock[s]` the socket, `view` what the consumer shows |
| `Backend` (extends `IngestServer`, `IPCFanout`) | `tcp-camera-backend` `app/run.go` | server and publisher in one process: `PublishAndFanOut` is a handler's call of `Publish`, one step of both; `RestartRun` gives the next process an empty server |
| `WireFraming` | `streamproto.go`, `frameipc.go`, `protocol.go` | a stream of units; one reader action per `io.ReadFull` |
| `SegmentLife` | what a viewer of the recordings may count on | `Begin`, `Publish`, `Lose`, `Spoil`, `Expire`; abstract |
| `Recorder` | `recorder/camera.go`, `recorder/encoder.go`, `storage/local.go` | `pc` the call the loop is at; `tmp`, `mp4`, `json`, `latest` the directory; `Crash` and `Restart` keep the directory only |
| `RecorderProcess` (extends `FFmpegEncoder`) | `app/run.go`, `sessions.go`, the loop of `camera.go` | `main` the goroutine of `Run`, `upstream` the reader, the loops of the cameras; the segments of the camera `Watched` are encoded by `FFmpegEncoder`, one step at a time |
| `FFmpegEncoder` | `encoder/ffmpeg.go` | the two pipes as counters up to a capacity, the copying goroutine, the process |
| `Archive` | readers in `storage/local.go`, `usage.go` | `List`, `Open`, `UsageBytes` one directory read or `Stat` at a time, against `Complete` and `Prune` |
| `FFmpegStreamer` | `reader.go`, `feed.go`, `ffmpeg.go` | the cache and its `version`, the local variables of a canvas source, `pump`'s select; `mergeAll` the mode, `stalls` whether ffmpeg stops reading |
| `MCDetections` | | values for the run of `Detections` |
| `DropChanProofs`, `TCPFanoutProofs`, `ServeLifecycleProofs`, `RecorderProcessProofs`, `DetectionsProofs` | | theorems on the module extended (section 5) |
| `RecorderProofs`, `LiveHubProofs`, `IngestServerProofs` | | the same, and on a neighbour extended as well: `Archive`; `FFmpegStreamer`; `IPCFanout`, `Backend` and `WireFraming`.  `LiveHubProofs` also has `HSpec`, the hub with history variables for what its viewers get |

The specifications that are extended together have names of their own: `SSpec` is
that of `IngestServer`, `ISpec` of `IPCFanout`, `FSpec` of `FFmpegStreamer`, `ASpec`
of `Archive`, `ESpec` of `FFmpegEncoder` and `BSpec` of `Broadcaster`.

Conventions.  A goroutine is a variable that holds the step it is at.  An
action is a stretch of code that other goroutines cannot see the inside of: a
section under a mutex, one select, one atomic operation, one system call,
together with the local computing around it.  Where the code touches two
shared things without a lock there are two actions.  A frame is its number or
its camera; pixels appear in `Detections` only, where an object is one of them.  A call that can fail is an action
with a successful and a failing disjunct; in `Recorder` the CONSTANT `Faults`
says which calls may fail.  A real time is either abstracted to what the code
tests (`recent`, `old`) or, in `Recorder`, a small counter that counts frame
timestamps.  External parts (ffmpeg, ONNX, the kernel's sockets, the cameras,
browsers) are modelled as the code uses them and are marked external in the
map.

## 3. Runs

One run per module that is not composed into another one, each with every
property of its module that the code meets; all of them pass.  `Backend` is
composed the other way round: its parts have the runs, and the whole has a
configuration besides (the end of this section).

| run (configuration) | property | what it says |
|---|---|---|
| `dropchan` (`DropChan_concurrent`) | `QueueIsSound` | the queue stays within its capacity (`TypeOK`), a value sent is in exactly one place (`Accounted`), and none overtakes another of its producer (`InOrder`) |
| | `LossBounds` | what the callers' counters say against what was lost |
| | `SoleProducerExact` | while one producer alone sends, its counter is exact and it never sees `Dropped` |
| | `SendReturns` | `Send` never blocks |
| `tcpfanout` (`TCPFanout_serve`) | `ClientsBounded` | the limit on clients holds and the counter is exact |
| | `NoSendOnClosed` | no fan-out sends on a channel that an unsubscribe has closed |
| | `SubscribersServed` | a subscription ends with its handler (`NoLeakedSubscription`), holds the latest frame when no `Publish` is under way (`CaughtUp`), and carries frames in order (`SolePublisherInOrder`) |
| | `ShutDown`, `ReaderServed` | cancellation ends every handler; a client that reads is up to date in the end, whatever the others do |
| `livehub` (`LiveHub_all`) | `HubIsSound` | a camera shown online has a frame and a time (`OnlineIsBacked`), and one that a listing has shown online answers a snapshot with a frame (`ListedIsShown`) |
| | `NoSendOnClosed` | as above, for `Push` and `Unsubscribe` |
| | `Progress` | a silent camera goes offline for good (`SilentGoesOffline`), and no viewer holds up a `Push` (`PushEnds`) |
| `serve` (`ServeLifecycle_all`) | `NoSendOnClosed`, `PoolIsSound` | the pool is closed after the upstream reader has ended; it is drained when the process exits and no frame is pushed and given up (`PoolDrained`) |
| | `ReaderIsSound` | a frame is pushed once where there is no pool (`PushedOnce`), the boxes drawn on it are recent (`BoxesAreRecent`), nothing is online while the connection is lost (`OfflineWhenLost`), and the delay doubles with each failure (`BackoffDoubles`) |
| | `CancelledExits` | a cancelled process exits |
| `ingest` (`IngestServer_all`) | `OfflineClosesEveryCamera` | a connection announces offline, once and last, exactly the cameras it announced |
| | `ServerIsSound` | the map of connections is that of the handlers (`ConnsAreHandled`) |
| | `EndsForGood` | nothing is published after the return (`SilentAfterReturn`); only a camera that keeps sending can delay it (`OnlySendersDelayReturn`) |
| `ipc` (`IPCFanout_all`) | `ViewIsSound` | a consumer that lost nothing is on its way to the state of the cameras (`ViewConverges`), and shows nothing without a connection (`NothingShownUnconnected`) |
| | `GetsThrough` | what was queued arrives (`QueuedArrives`), and a lost connection is made again (`Reconnects`) |
| `recorder` (`Recorder_all`) | `ArchiveIsSound` | listed recordings are whole and within their length (`ListedAreWhole`), do not overlap (`NoOverlap`), and `latest.mp4` does not dangle (`LatestIsThere`) |
| | `EncoderMatchesSegment`, `NoStrandedTmp` | no failing call leaves an encoder, the gauge or a temporary file behind |
| | `PruneBounds` | the number of recordings after `Prune` |
| | `ImplementsSegmentLife` | `Recorder` refines `SegmentLife` |
| | `Stops` | a cancelled loop finishes its segment and stops |
| `process` (`RecorderProcess_all`) | `CamerasAreClosed` | after a shutdown by ctx no segment is open (`NothingLeftOpen`) |
| | `ReturnIsTrusted` | a `Close` without error vouches for the file (`CloseTellsTheTruth`), and nothing writes it afterwards (`QuietAfterReturn`) |
| | `WaitsEnd` | `rec.Close` returns (`CloseReturns`), and there is no circular wait over the pipes (`NeverStuck`), as long as the file takes the writes |
| `archive` (`Archive_all`) | `AnswersAreSound` | each recording of a listing was available at some moment of the call, not all at the same one, and none that was throughout is missing but for the limit (`ListIsSound`), 404 means pruned (`NotFoundOnlyIfPruned`) |
| | `GaugeSettles` | the published usage comes to be that of the directory |
| `streamer` (`FFmpegStreamer_all`) | `FeedIsSound` | the canvas that the version calls current is (`CanvasIsCurrent`) |
| | `StreamIsKeptUp` | cancellation ends the process (`CancelEnds`), a dead ffmpeg is replaced (`ExitNoticed`), and one that reads is left with the last pictures (`Converges`) |
| | `NoStaleData` | in single mode nothing is fed while the connection is down; in merge mode the last canvas is (`FFmpegStreamer_stale`) |
| `framing` (`WireFraming_all`) | `FramingIsSound` | what is read is a prefix of what was written (`PrefixReceived`), and a failure has a cause (`NoFalseAlarm`) |
| | `Delivered` | a connection that lasts carries every message |
| `detections` (`MCDetections`) | `PictureIsTurned` | a picture is turned clockwise about its middle by the legal angle nearest to the configured one |
| | `BoxesAreSound` | boxes are inside the picture and not empty (`BoxesAreInside`), no two of a class overlap (`KeptApart`), and one that was given up yields to a better one (`SuppressedByBetter`) that is shown (`AllAreShown`) |
| | `ObjectIsFound` | an object that the model sees has its box, drawn or given up for a better one: each corner where it was, but for `Tolerance`.  That is nothing if the scale is a whole number; less than a pixel of the square along a side that the scale makes whole, as it does the longer one; else up to half a pixel too far and less than one and a half too near, because `letterbox` draws the picture with rounded sides and `toOriginal` divides by the scale before the rounding |

The composed invariants (`QueueIsSound`, `ArchiveIsSound`, ...) begin with the
type invariant of their module.

Bounds, and why they are enough:

- `dropchan`: two producers with three sends each over two slots: a producer
  finds the queue full, loses the slot it made to the other, and finds it
  emptied, in one behaviour.
- `tcpfanout`: two clients under a limit of one, so that one is refused while
  the other comes and goes, and without a limit (0), where both are served; two
  frames over a queue whose size is the code's (2), after the one Subscribe gives.
- `livehub`: two pushing workers, two viewers with a queue of one, two frames,
  one explicit OFFLINE: the queue overflows, the ticker and the listing look at
  every step, and the hub is created by either worker or by a request.
- `serve`: all three kinds of transform.  Two workers, a queue of two and three
  frames, so that jobs wait, are worked on and are left in the queue at the end
  (`Process` finds it full when no worker has taken one); an inference on every
  second frame, so that a frame has boxes of its own, old ones or none; delays
  of 1, 2 and 3 at the most, so that the limit cuts a doubling; one
  reconnection, one request that may never end.
- `ingest`: two connections that may each carry both cameras, the same one at
  the same time included; a frame of each; two accept failures in a row.
- `ipc`: one camera, a queue and a socket of one: three messages overflow both;
  two sessions and one restart of the backend, so that messages of the old
  session can be late.
- `recorder`: all twelve kinds of failure, one crash with a restart at any step
  (`MaxRuns = 2`), one recording kept.  Three instants and segments of two or
  three instants hold a segment that is ended by rotation and the next one,
  whose completion prunes the first.
- `process`: two cameras whose first frames may arrive at any step of a
  shutdown by ctx or by the failing HTTP server.  Three frames over pipes of one
  and a lookahead of one: both pipes of the watched camera's encoder fill while
  it is written to and while it is closed; ffmpeg may die, and the file may
  refuse the writes.
- `archive`: three recordings of which two are kept, a listing limited to one:
  a call meets a recording before, during and after its life.
- `streamer`: two cameras with two pictures and one that does not decode, three
  events from the IPC side and one exit of ffmpeg, in both modes, with an
  ffmpeg that reads and one that does not.
- `framing`: payloads of none up to more than the limit, cut at every place, two
  messages, all three formats.
- `detections`: wide and high pictures, in a square of four that scales them by
  one, two, 4/3 and 4/5, so that corners fall between pixels, and one picture is
  reduced; the shorter side of the last two is rounded, one down (4/3 to 1) and one
  up (8/5 to 2), so that it is drawn with another scale than the one divided by;
  padded by half a pixel, which is rounded, and by one;
  the angles just below and at a boundary, a negative one, and one that wraps;
  three reports, which hit the object, miss it by half a pixel, a pixel or
  altogether, with two classes and a score below the threshold.

`CHECK_DEADLOCK FALSE` stands in every configuration but that of `Archive`:
cameras, consumers and operators may stop, the bounds are reached, and
processes end; what must not stop is stated by liveness properties instead.

### Where code and comments disagree

The configurations below are kept beside the runs; for `ScaleIsUndone` put it in the
place of the invariants of `MCDetections.cfg`.  All but the last two end
in a counterexample, which shows the code doing something other than the quoted
sentence says.

| configuration | property | what happens |
|---|---|---|
| `DropChan_displace` | `DisplaceOnlyWhenFull` | "discarding the oldest queued value if that is what it takes" (`dropchan.go:48`): the oldest value is thrown out of a queue that the consumer has made room in |
| `Broadcaster_workers` | `CaughtUp` | "subscribers always hold the freshest data" (`broadcaster.go:27`): with two publishers, the upscaler's two workers, they can be left with the older of two frames |
| `IngestServer_return` | `ReturnsOnceCancelled` | "returns once ctx is cancelled" (`app/run.go:15`): a connection accepted while the others are being closed is never closed, and the server does not return while that camera sends |
| `IngestServer_giveup` | `GivingUpExits` | "turns a silent spin into a process exit" (`server.go:26`): giving up waits for the connected cameras, whose connections nobody closes |
| `IngestServer_offline` | `OfflineMeansStopped` | "announces that a camera has stopped sending" (`frameipc.go:34`): the handler of an old connection announces a camera that sends on a new one |
| `IPCFanout_offline` | `OfflineReachesConsumer` | "all consumers receive a CAMERA_OFFLINE notification" (`tcp-camera-backend/README.md:7`): one that meets a full queue is displaced by later messages |
| `Recorder_discard` | `FailedLeavesNothing` | "thrown away instead of being published" (`camera.go:236`): failing metadata leaves the renamed video behind, listed and pruned by nobody |
| `LiveHub_flicker` | `OfflineOnlyWhenSilent` | "how long a camera may stay silent" (`hub.go:9`): a camera that has just sent is reported offline |
| `LiveHub_unseen` | `OnlySeenAreListed` | "every camera seen since startup" (`registry.go:81`): in camera-web-api a stream request of an id that never sent a frame puts it in the listing for good |
| `LiveHub_newest` | `ViewersHoldLatest` | "the one queueing policy every live-video path needs" (`dropchan.go:1`): a viewer with a full queue loses the newest frame |
| `ServeLifecycle_failure` | `FailureExits` | "blocks until the HTTP server stops" (`service.go:38`): when the server fails `Serve` waits for a reader that nobody stops |
| `ServeLifecycle_drain` | `RequestsGetToFinish` | "how long in-flight HTTP requests get to finish" (`service.go:21`): the process exits before |
| `ServeLifecycle_release` | `SessionLives` | "Call once when the detector is no longer needed" (`detector.go:287`): the session is destroyed while an inference runs, or before the next one |
| `ServeLifecycle_pushes` | `EveryFramePushed` | "must call push exactly once" (`service.go:43`): the upscaler drops frames without pushing them |
| `FFmpegStreamer_stale` | `NoStaleDataEver` | "wipe frames so ffmpeg doesn't loop stale data" (`reader.go:63`): in merge mode the last canvas is fed on |
| `FFmpegEncoder_stuck` | `EncoderCloseReturns` | "If any step fails the half-written file is thrown away" (`camera.go:236`): a failed copy leaves `Close`, `cmd.Wait` and ffmpeg waiting for each other |
| `RecorderProcess_failure` | `NothingLeftOpenEver` | "stops the running ffmpeg encoders" (`app/run.go:23`): after a failed HTTP server a camera first seen when the sessions were copied is never closed |
| `Archive_gauge` | `GaugeCountsPresent` | "the gauge keeps its previous value, which is a better answer than zero" (`usage.go:41`): a file pruned during the walk ends it with a result of zero, which is published |
| `MCDetections` | `ScaleIsUndone` | "then divide by the scale that was applied" (`preprocess.go:33`): the scale applied to a side is that of its rounded length, and the one divided by is not rounded: a picture of 2 x 5 is drawn two pixels wide in a square of four, where the scale makes it 1.6, and the box of an object in its left column comes back a quarter of a pixel too wide |
| `DropChan_sole` | `SoleProducerExact`, `ImplementsKeepNewest` | passes: with one producer `DropChan` refines `KeepNewest`, which section 5 proves |
| `Backend_shown` | `ShownIsSending` | passes, on twenty million states: the composition of server, publisher and consumer, which section 5 proves |

`ShownIsSending` is what is left of "announces that a camera has stopped sending"
where `IngestServer_offline` refutes it.  A consumer that has lost nothing will
show, by what is on its way to it, only cameras that a connection still open has
sent it; and all of those, unless the camera has had another connection, the case
of the counterexample.

## 4. Fairness

Fairness is assumed of goroutines that can run, never of the outside world: no
specification makes cameras send, consumers read, viewers leave, an operator
cancel or a process crash.

- `DropChan`: a producer inside `Send` is never blocked, since each select has a
  `default`; weak fairness of its later steps.  `LiveHub`: a publisher inside
  `Push` runs on, time passes and the ticker ticks.
- `TCPFanout`: `Subscribe` and unsubscribe wait for a mutex that is taken again
  and again, hence strong fairness (Go's mutex does not starve a waiter).  A
  write to a client that does not read ends because of the write deadline: weak
  fairness of "the write succeeds or fails", of which only failing is possible.
- `IngestServer`: a read must fail when the connection is closed, when the peer
  is gone, or when it has been silent past the read deadline (`MustFail`); a
  camera that sends is read for ever, so nothing is assumed of its handler.
- `IPCFanout`: both processes run; restarts and messages may stop.
- `ServeLifecycle`: the reader dials, transforms and pushes on, and the workers
  work; a blocked read is sure to end only after cancellation has closed the
  connection.  A failing HTTP server does not close it, so
  `FailureExits` fails.  Nothing makes a request end.
- `Recorder`, `RecorderProcess`, `FFmpegStreamer`: a loop selects among ctx, a
  ticker and a queue.  Go picks among ready cases at random, so a context that is
  done is chosen in the end: strong fairness of that one case.  Finishing a
  segment is a sequence of calls that return; those to the encoder of the watched
  camera return when `FFmpegEncoder` lets them.
- `FFmpegStreamer`: a write into the pipe ends if ffmpeg reads, `~stalls`; the
  initial states have both values of `stalls`, and `Converges` speaks of the one.
- `FFmpegEncoder`: ffmpeg runs unless it crashed, and the copying goroutine runs.
  `Detections` has safety properties only.
- `Archive`: the recorder's step under way is ended, and the ticker of `usage.Run`
  goes on.  `WireFraming`: both ends run.

## 5. Theorems

They hold for every value of the constants that meets the assumptions named in
the modules (capacities are positive, the "no one" value is not a member).  Nothing
else is assumed but in `SubscribersAreServed` and `SendIsKeepNewest`, which are
about one publisher and one producer, and in the two theorems on `Backend`, which
take the server's cameras to be among the publisher's (`Cameras \subseteq
CameraIds`): both are `streamproto.CameraID`s.

Every proof has the same outline.  The property is seldom inductive; an invariant
that says more, named in the last column, holds at the start, survives every
action, and implies it.  TLC checked each of these invariants before it was
proved.

**Queues and fan-out**

| theorem | states | argument |
|---|---|---|
| `TypeCorrect`, `LedgerCorrect` (`DropChanProofs`) | `Spec => []TypeOK`, `Spec => []QueueIsSound` | `Ledger` is inductive: `TypeOK`, every value sent is in exactly one of the channel, the received, the lost and a producer's hand, and the channel holds each producer's values in ascending order.  Order is what rules out that a value comes back |
| `SoleProducerIsExact` | `Spec => []SoleProducerExact` | `AloneInv`: while `Alone(p)`, the room made by the second select can only grow before the third, so `Retry` never drops, and every displaced value is one `counted` |
| `CountersBoundTheLoss` | `Spec => []LossBounds` | `LossInv`: the lost values are at least those counted and those that a `Send` under way has displaced, and at most twice and once as many: a `Send` loses two values at the most, the one it displaces and its own, and counts one.  The sums over producers are cardinalities of sets of pairs, since a fold cannot be reasoned about by induction here |
| `SendIsKeepNewest` | `Spec => ImplementsKeepNewest`, if `Producers = {p}` | each select maps to `Offer`, `Take` or a stutter |
| `BroadcasterNeverPanics` (`TCPFanoutProofs`) | `BSpec => []NoSendOnClosed` | `BInv`: a channel in the map is open, and a fan-out only has subscribers in hand while it holds the mutex.  Without the second part a subscriber could be closed in mid-fan-out |
| `FanoutImplementsBroadcaster` | `Spec => BInit /\ [][BNext]_bvars` | each step of `TCPFanout` is a step of `Broadcaster` or leaves its variables alone (`FanoutIsBroadcaster`) |
| `FanoutNeverPanics` | `Spec => []NoSendOnClosed` | by that, `BInv` carries over |
| `ClientBoundHolds` | `Spec => []ClientsBounded` | the counter equals the cardinality of the active clients; uses the theorems on finite sets |
| `SubscriptionsAreOwned` | `Spec => [](TypeOK /\ NoLeakedSubscription)` | `Owned`: the state of a subscription follows from that of its handler |
| `SubscribersAreServed` | `Spec => []SubscribersServed`, if `Publishers = {p}` | `InStep(p)`: a subscriber has the latest frame, or the one fan-out under way has it still to do; its queue ascends from what it saw last, but for the frame that `Subscribe` may give twice.  With two publishers `CaughtUp` is false (`Broadcaster_workers`) |
| `HubSound` (`LiveHubProofs`) | `Spec => []HubIsSound` | `Backed`: whoever is about to set one of the three atomics has set those before it (`InOrder`), and only the flag is ever taken back.  `OnlineIsBacked` alone does not say that a publisher at the flag has stored a frame |
| `HubNeverPanics` | `Spec => []NoSendOnClosed` | `Safe`: a fan-out holds the mutex and has only open viewers in hand, whom nobody removes meanwhile |
| `ViewersSeeInOrder` | `HSpec => []ViewersGetInOrder` | `HSpec` is `Spec` with history variables: the publisher of each frame, what each viewer's channel was sent, and the frame it joined at.  `HistoryInv`: a frame in a publisher's hand that is still to be sent to a viewer is newer than all the viewer was sent of that publisher, unless the viewer joined at it (`Ahead`).  Between two publishers there is no order, and Subscribe does give a frame twice: TLC refutes the property without either exception, and found it true of two publishers, a viewer and four frames |

**The ingest server, its consumers, and the wire**

| theorem | states | argument |
|---|---|---|
| `ServerStaysSound` (`IngestServerProofs`) | `SSpec => []ServerIsSound` | `ServerInv`: with `ConnsAreHandled`, that a connection just accepted has no handler yet and that nobody handles one after the return |
| `ReturnIsSilent` | `SSpec => SilentAfterReturn` | the half of `EndsForGood` that is not liveness: after the return all handlers are done, so only stutters are left |
| `OfflineClosesAll` | `SSpec => []OfflineClosesEveryCamera` | `WordsInv`: of each camera a connection has published at most one OFFLINE, after all its frames, and the camera is in `seen` exactly in between.  The property speaks of connections that have ended; the invariant of all |
| `ViewStaysSound` | `ISpec => []ViewIsSound` | `InStep`: unless its channel overflowed, what a session has been told, its socket, the writer's hand and its channel lie one behind the other in what the publisher fanned out since the registration (`Streaming`), so the view is that of a known prefix.  `Linked` is needed to rule out messages of an old session |
| `BackendIsPublisher` | `BackendSpec => ISpec` | a step of the process is one of the publisher and its consumer, or none, and one of the server, or none, or a restart (`BackendIsBoth`).  So all of the publisher's theorems hold in the process |
| `ShownStaysSending` | `BackendSpec => []ShownIsSending` | the invariants of both parts and `Coupled`: the words this process has published are the last ones fanned out, and consumers are registered with this process.  By `InStep` what the consumer will show is decided by the last word on each camera since its registration (`LiveShows`).  If that is a frame, `WordsInv` says that its connection has not ended (`ShownHasSender`); if a connection is alone with its camera and has sent since, the last word is a frame, as its OFFLINE would come last (`SenderIsShown`) |
| `FramingStaysSound` | `Spec => []FramingIsSound` | `Framed`: while the reader has not failed there is a stream, the encodings of all messages sent one behind the other (`Laid`), of which what is used, the reader's buffer, the wire and the writer's rest are consecutive parts (`Flow`), up to the end if nothing was cut (`Full`).  Hence the parts the reader takes are those of the message due (`BufIsDue`), and it gets back the message |

**The life of a proxy**

| theorem | states | argument |
|---|---|---|
| `PoolIsClosedAfterTheReader` (`ServeLifecycleProofs`) | `Spec => []NoSendOnClosed` | `PInv`: `main` is past the join only if the reader has returned, and the pool is closed only past the join |
| `PoolStaysSound` | `Spec => []PoolIsSound` | `Placed`: every frame read is in the reader's hand, in the queue, at a worker, pushed or given up, and in one of them only; `Drained`: a worker ends on a closed, empty queue, and nobody adds to it |
| `ReaderStaysSound` | `Spec => []ReaderIsSound` | `Placed` again; `Boxed`: the boxes' age is below `DetectEvery` times one and the inferences that failed since (`SinceFacts` on cardinalities); `Backed`: the delay is that of the attempts since a frame (`DelayDoubles`) |

**The recorder**

| theorem | states | argument |
|---|---|---|
| `EncoderIsTheSegments` (`RecorderProofs`) | `Spec => []EncoderMatchesSegment` | `EInv` says at which steps of the loop there is a segment and an encoder |
| `NothingIsStranded` | `Spec => []NoStrandedTmp` | `TInv`: `EInv`, and a temporary file is the current segment's, one about to be renamed or discarded, or among `leftover` |
| `ArchiveStaysSound` | `Spec => []ArchiveIsSound` | `IInv`.  `Clock` orders files, open segment, frame in hand and `nextKeepAt`, at every call of the loop and over a restart, and `Disk` says the same of pairs of files: that is why recordings cannot overlap.  `Pruning` says that a newer video is always left, which keeps `latest.mp4` from dangling |
| `PruneIsBounded` | `Spec => PruneBounds` | `Pruning`: what is neither doomed nor stuck is never more than `Keep`, and `Prune` ends with nothing doomed |
| `RecorderRefines` | `Spec => ImplementsSegmentLife` | each step maps to `Begin`, `Publish`, `Lose`, `Spoil`, `Expire` or a stutter under `Recording`; that a published segment is new, and an expired one not among the `Keep` newest, is in `IInv` |
| `AnswersStaySound` | `ASpec => []AnswersAreSound` | `DirInv`.  `Scanning`: what was available from the start of a call to now is in the result or still to be read, and what is in the result was available at some time of it; what the limit cuts off a listing is its oldest (`FewAreNewest`).  `Few` is the part of the type invariant that is not one: no more than `KeepFiles` are available between two prunings.  `Seen`: whoever asks for a recording saw it whole, so that only a missing video is a 404 |
| `EncoderIsTrusted` (`RecorderProcessProofs`) | `ESpec => []ReturnIsTrusted` | `Flow`: while no copy failed, the JPEGs written are in a pipe, in ffmpeg or in the file, and the copying ends only once the pipes are empty |
| `ProcessUsesEncoder`, `ReturnStaysTrusted` | `Spec => ESpec`, `Spec => []ReturnIsTrusted` | every step of the process is one of the encoder's or leaves it alone, so that the theorem carries over |
| `CamerasStayClosed` | `Spec => []CamerasAreClosed` | `Closed`: after a cancellation the cameras outside the copy that `Close` works through have no segment, and `Begin` finds the ctx done |

**Pictures**

| theorem | states | argument |
|---|---|---|
| `FeedStaysSound` (`LiveHubProofs`) | `FSpec => []FeedIsSound` | `CounterTells`: with no callback between store and bump, a canvas whose version has not moved, a snapshot under way included, is of the frames cached now.  It rests on the version being loaded before the snapshot.  `CounterBound` bounds the counter by the events, for the type invariant |
| `NothingStaleIsFed` | `FSpec => NoStaleData` | `Wiped`: the cache is empty throughout the delay, and single mode asks it on every tick |
| `PicturesAreTurned` (`DetectionsProofs`) | `Spec => []PictureIsTurned` | only the first action matters: `Normalize` is 90 k for the k nearest to the angle (`NormalizeIsNearest`, by cases of the wrapped angle), and `Rotate` by 90 k moves every pixel, seen from the middle, by `Turned(k, _)` (`PixelsTurn`, `RotateTurns`) |
| `BoxesSound` | `Spec => []BoxesAreSound` | the invariant is the property itself with its `TypeOK`.  A box is inside because both its corners are clamped (`Clamped`, `DetectionIsInside`), which needs every index into the tensor to exist (`IndexInRange`, `IndexIsSplit`, `AtType`).  A step of `nms` adds a box that nothing kept overlaps, so the kept stay apart, overlap being symmetric, and it is the best of those left, so that whatever it suppresses is no better (`KeepStep`) |
| `ObjectStaysFound` | `Spec => []ObjectIsFound` | `ObjectFollowed`: until `parseOutput` has read the tensor, its first column is the true report (`InferIsTrue`, `FirstValues`), and from then on its box is among the candidates, and so in `AllAreShown`.  A side is drawn at most half a pixel longer or shorter than the scale makes it (`ScaledIsNear`).  A corner loses a share of that, and less than a pixel by the report's rounding, on the way to the square and back (`CornerIsNear`); what is clamped comes only nearer (`BackIsNear`), and of two corners only the farther one can be, so that the box is not empty (`CornersAreDrawn`, `BackIsOrdered`) |
| `TurnsCompose` | | the three loops of `rotation.go` undo and make up one another, from their index arithmetic alone |

Two assumptions carry more than "not a member".  `ServeAssumption` asks that
`MaxBarren` doublings reach `MaxBackoff`: the model counts failures no further,
as the delay no longer changes (the code's delays are 500 ms and 10 s).
`RecorderAssumption` asks for positive durations and intervals, as `Recorder`
does everywhere (section 7 on `keepEvery`).

Every invariant that a run checks is a theorem, and so are the refinements and the
action properties.  Only model-checked are the liveness properties, which rest on
fairness (TLAPS does not reason about ENABLED): `SendReturns`, `ShutDown`,
`ReaderServed`, `Progress`, `CancelledExits`, `OnlySendersDelayReturn` in
`EndsForGood`, `GetsThrough`, `Stops`, `WaitsEnd`, `GaugeSettles`, `StreamIsKeptUp`
and `Delivered`.  The theorems on `Backend` have the converse gap: they are about
safety, and what the process is sure to do is stated of its parts.

## 6. Counters and widths

Every counter that grows in the code has a bound with a name: `MaxSends`,
`MaxFrame(s)`, `MaxMessages`, `MaxFanned`, `MaxFailures`, `MaxRestarts`, `MaxConnects`, `MaxEvents`,
`MaxExits`, `MaxOffline`, `MaxTime`, `MaxRuns`, `MaxSegments`, `MaxSize`, `MaxBarren`.  They
stand in the guards of the actions of the environment (a camera sends, a
process restarts), so that reaching one ends new work and lets the work under
way end.  Most queues are shorter than in the code: the code
tests only whether they are full or empty, and two slots tell first, middle and
last apart.  The `Int` widths of Go matter in one place, named as a hazard
(`keepEvery`), which no module covers.  `Detections` counts coordinates in parts
of a pixel, exactly; the code's are `float32`, whose error the properties do not
speak of.

## 7. What is not modelled

- Arithmetic on pixels: the drawing of boxes and labels (`draw.go`), the tone
  curve, blur and sharpening of the enhancer, the bilinear sampling of
  `letterbox` and of the upscaler, JPEG coding.  The geometry of the merged
  canvas (`compose.go`) is left out as well: `FFmpegStreamer` knows which
  pictures a canvas shows, not where.
- The probing of a model file (`probeModel`), and a model with outputs other than
  boxes.
- The overflow of `keepEvery`, which makes `shouldKeep` loop for ever with
  configurations that `Validate` lets through but nobody would write: `Recorder`
  takes a positive `Interval`.
- The effect of one camera's traffic on another one's in the detector: the counter
  and the boxes are shared by all cameras of an upstream, so that with several of
  them boxes found in one picture are drawn on another.  `ServeLifecycle` follows
  one counter and one list of boxes, as the code does, and does not tell cameras
  apart.
- The wall-clock order of a connection's end and the camera's next connection: the
  code does not observe it, and `Backend` leaves it open.  With two sessions or
  two frames for each connection its states exceed what TLC can go through, so
  that `Backend_shown` has one of each, with a restart, and the theorem the rest.
- Parsing of configuration (including the rotation file, read once), metrics, log
  lines, JSON text, embedded pages, the dashboard and deployment files.

## 8. Plan

Done, in this order: queues and fan-out (`DropChan`, `Broadcaster`, `TCPFanout`),
ingestion and IPC, the recorder with its process, encoder and archive, the hub
and the life of the proxies, the streamer, the wire formats; first theorems.
Then the other proxies and the backoff in `ServeLifecycle`, the composition of
`RecorderProcess` with its encoder, the registry and the requests in `LiveHub`,
the rotation and the boxes in `Detections` with their theorems.

The theorems then reached every safety property of the runs, with the refinement of
`SegmentLife` by `Recorder`, of `Broadcaster` by `TCPFanout` and of the publisher by
the process it is in, and last the way of a camera's state through server,
publisher and consumer (`Backend`), and the order in which viewers see frames
(`ViewersSeeInOrder`).

Next, in order of importance:

1. One box further than `Backend`: the same with the `LiveHub` of camera-web-api in
   place of the `view`.
2. The timelapse arithmetic with its width, and the grid of the merged canvas.
