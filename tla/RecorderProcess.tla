--------------------------- MODULE RecorderProcess ---------------------------
(***************************************************************************)
(* The camera-recorder process from its start to its exit: app.Run, the    *)
(* HTTP server, the goroutine of streamproto.TCPUpstream that submits the  *)
(* frames, and recorder.Sessions with one Camera goroutine for every       *)
(* camera seen.  Module Recorder looks into one Camera; here a segment is  *)
(* only open or not, and what matters is who waits for whom and who still  *)
(* runs when Run returns.  Of one camera, Watched, the encoder is the one  *)
(* of FFmpegEncoder; the encoders of the others just return.               *)
(***************************************************************************)
EXTENDS FFmpegEncoder   \* its MaxFrames: the frames submitted

CONSTANTS
    Cameras, Watched,
    QueueSize,   \* QueueSizePerCamera
    HttpFails    \* TRUE: the HTTP server may fail (its port is taken)

ASSUME ProcessAssumption == /\ Watched \in Cameras
                            /\ QueueSize \in Nat \ {0} /\ HttpFails \in BOOLEAN

VARIABLES
    cancelled,   \* the ctx of Run is cancelled
    main,        \* the goroutine of Run, see Mains
    orderly,     \* history: ctx was cancelled when Close copied the map
    toClose,     \* Sessions.Close: its copy of the map, without those already joined
    upstream,    \* "read", "returned", or the camera whose frame is submitted
    submitted,   \* frames read so far
    camera,      \* the map and its goroutines: the state of each camera's loop
    stopped,     \* Camera.cancel was called
    queue        \* frames in Camera.queue

upstreamVars == <<upstream, submitted>>
cameraVars == <<camera, stopped, queue>>
processVars == <<cancelled, main, orderly, toClose, upstreamVars, cameraVars>>
vars == <<processVars, evars>>

\* "serve": ListenAndServe; "snapshot", "cancel", "join": in the deferred rec.Close.
Mains == {"serve", "snapshot", "cancel", "join", "exited"}
\* "none": not in the map; "opening": BeginSegment has seen a live ctx; "writing": in
\* WriteJPEG; "rollover": the segment is finished, and the frame in hand opens the next;
\* "rotating": it is finished; "discarding": after a failed write; "finishing": the last.
Closing == {"rollover", "rotating", "finishing"}
OnDisk == {"opening", "recording", "writing", "discarding"} \cup Closing
Loops == {"none", "idle", "returned"} \cup OnDisk

Init == /\ EInit /\ cancelled = FALSE /\ main = "serve" /\ orderly = FALSE /\ toClose = {}
        /\ upstream = "read" /\ submitted = 0
        /\ camera = [c \in Cameras |-> "none"]
        /\ stopped = [c \in Cameras |-> FALSE] /\ queue = [c \in Cameras |-> 0]

Running == main # "exited"
\* A Camera's ctx is a child of Run's.
Done(c) == cancelled \/ stopped[c]

-----------------------------------------------------------------------------
(* Run and Sessions.Close *)

Cancel == /\ ~cancelled /\ Running /\ cancelled' = TRUE
          /\ UNCHANGED <<main, orderly, toClose, upstreamVars, cameraVars, evars>>

\* Shutdown makes ListenAndServe return at once; or the server fails.
ServeReturns == /\ main = "serve" /\ (cancelled \/ HttpFails) /\ main' = "snapshot"
                /\ UNCHANGED <<cancelled, orderly, toClose, upstreamVars, cameraVars, evars>>

\* Close copies the map under the lock.
Snapshot == /\ main = "snapshot" /\ toClose' = {c \in Cameras : camera[c] # "none"}
            /\ main' = "cancel" /\ orderly' = cancelled
            /\ UNCHANGED <<cancelled, upstreamVars, cameraVars, evars>>

\* Camera.Close for one after the other, in the map's order.
CancelOne == /\ main = "cancel"
             /\ \/ /\ toClose = {} /\ main' = "exited" /\ UNCHANGED stopped
                \/ \E c \in toClose : /\ stopped' = [stopped EXCEPT ![c] = TRUE]
                                      /\ main' = "join"
             /\ UNCHANGED <<cancelled, orderly, toClose, upstreamVars, camera, queue, evars>>

\* wg.Wait of the camera that was cancelled last.
JoinOne == /\ main = "join"
           /\ \E c \in toClose : /\ stopped[c] /\ camera[c] = "returned"
                                 /\ toClose' = toClose \ {c}
           /\ main' = "cancel"
           /\ UNCHANGED <<cancelled, orderly, upstreamVars, cameraVars, evars>>

-----------------------------------------------------------------------------
(* The upstream's goroutine *)

\* A frame of any camera; connections lost and made again come between two frames.
ReadFrame == /\ Running /\ upstream = "read" /\ submitted < MaxFrames
             /\ submitted' = submitted + 1 /\ upstream' \in Cameras
             /\ UNCHANGED <<cancelled, main, orderly, toClose, cameraVars, evars>>

\* Sessions.camera, the first time it sees the camera, and dropchan.Send by the only
\* sender: the queue holds the newest QueueSize frames.
Submit == /\ Running /\ upstream \in Cameras /\ upstream' = "read"
          /\ camera' = [camera EXCEPT ![upstream] = IF @ = "none" THEN "idle" ELSE @]
          /\ queue' = [queue EXCEPT ![upstream] = IF @ = QueueSize THEN @ ELSE @ + 1]
          /\ UNCHANGED <<cancelled, main, orderly, toClose, submitted, stopped, evars>>

UpstreamReturns == /\ Running /\ upstream = "read" /\ cancelled /\ upstream' = "returned"
                   /\ UNCHANGED <<cancelled, main, orderly, toClose, submitted, cameraVars, evars>>

-----------------------------------------------------------------------------
(* Camera.run: its select may take a frame although its ctx is done *)

Loop(c, from, to) == /\ Running /\ camera[c] = from
                     /\ camera' = [camera EXCEPT ![c] = to]
                     /\ UNCHANGED <<cancelled, main, orderly, toClose, upstreamVars, stopped>>
Take(c) == queue[c] > 0 /\ queue' = [queue EXCEPT ![c] = @ - 1]

\* The frame is not kept, or BeginSegment refuses (a done ctx, a full disk).
Skip(c) == Take(c) /\ UNCHANGED evars /\ \E s \in {"idle", "recording"} : Loop(c, s, s)

\* Mutant: BeginSegment gets the context that is never cancelled.
BeginRegardless(c) == Take(c) /\ UNCHANGED evars /\ Loop(c, "idle", "opening")

\* BeginSegment checks ctx before it makes the file.
Begin(c) == Take(c) /\ ~Done(c) /\ UNCHANGED evars /\ Loop(c, "idle", "opening")

\* The frame goes to the encoder of the watched camera.  That of another has taken it at
\* once, and the segment may have become too long, or the write has failed.
Give(c, from) == \/ c = Watched /\ Loop(c, from, "writing")
                 \/ c # Watched /\ \E to \in {"recording", "rotating", "idle"} : Loop(c, from, to)

\* The encoder starts, and is given the frame; or it does not, and the file is discarded.
Open(c) == /\ \/ Give(c, "opening") /\ IF c = Watched THEN Start ELSE UNCHANGED evars
              \/ Loop(c, "opening", "idle") /\ UNCHANGED evars
           /\ UNCHANGED queue

\* A frame is recorded, after the segment was finished if its time has come.
Record(c) == /\ Take(c) /\ UNCHANGED evars
             /\ Give(c, "recording") \/ Loop(c, "recording", "rollover")

\* WriteJPEG returns, and the segment may have become too long; or it fails.
Write == /\ \/ WriteJPEG /\ Loop(Watched, "writing", "writing")
            \/ Written /\ \E to \in {"recording", "rotating"} : Loop(Watched, "writing", to)
            \/ BrokenPipe /\ Loop(Watched, "writing", "discarding")
         /\ UNCHANGED queue

\* discardSegment: Kill returns.
Discard == /\ \/ Kill /\ Loop(Watched, "discarding", "discarding")
              \/ KillReceive /\ Loop(Watched, "discarding", "idle")
           /\ UNCHANGED queue

\* The ticker closes the segment of a camera gone quiet.
Inactive(c) == Loop(c, "recording", "rotating") /\ UNCHANGED <<queue, evars>>

\* case <-ctx.Done()
SeeDone(c) == /\ Done(c) /\ UNCHANGED <<queue, evars>>
              /\ Loop(c, "idle", "returned") \/ Loop(c, "recording", "finishing")

\* finishSegment: the encoder's Close returns, and the file is completed or discarded.
\* After that a frame in hand opens the next segment, unless BeginSegment refuses.
Finished(c) == \/ Loop(c, "rotating", "idle") \/ Loop(c, "finishing", "returned")
               \/ Loop(c, "rollover", IF Done(c) THEN "idle" ELSE "opening")
               \/ Loop(c, "rollover", "idle")
FinishSegment(c) ==
    /\ \/ c = Watched /\ Close /\ \E s \in Closing : Loop(c, s, s)
       \/ Finished(c) /\ IF c = Watched THEN CloseReceive ELSE UNCHANGED evars
    /\ UNCHANGED queue

\* ffmpeg and the goroutine of Start, while the process lives.
EncoderStep == /\ Running /\ (Encode \/ Crash \/ CopyOut) /\ UNCHANGED processVars

Busy(c) == Open(c) \/ FinishSegment(c) \/ (c = Watched /\ (Write \/ Discard))
CameraStep(c) == Skip(c) \/ Begin(c) \/ Record(c) \/ Inactive(c) \/ SeeDone(c) \/ Busy(c)
MainStep == ServeReturns \/ Snapshot \/ CancelOne \/ JoinOne
UpstreamStep == ReadFrame \/ Submit \/ UpstreamReturns

Next == Cancel \/ MainStep \/ UpstreamStep \/ EncoderStep \/ \E c \in Cameras : CameraStep(c)
Spec == Init /\ [][Next]_vars
\* Every goroutine and ffmpeg run, and the loop's select, which picks at random, does not
\* pass over a done ctx for ever.
FairSpec == /\ Spec /\ WF_vars(MainStep)
            /\ WF_vars(Running /\ Encode /\ UNCHANGED processVars)
            /\ WF_vars(Running /\ CopyOut /\ UNCHANGED processVars)
            /\ \A c \in Cameras : WF_vars(Busy(c)) /\ SF_vars(SeeDone(c))

-----------------------------------------------------------------------------
(* Properties *)

\* Types; and only a camera of the map has frames or a cancelled ctx of its own.
TypeOK == /\ cancelled \in BOOLEAN /\ orderly \in BOOLEAN /\ main \in Mains /\ toClose \subseteq Cameras
          /\ upstream \in {"read", "returned"} \cup Cameras /\ submitted \in 0..MaxFrames
          /\ camera \in [Cameras -> Loops]
          /\ stopped \in [Cameras -> BOOLEAN] /\ queue \in [Cameras -> 0..QueueSize]
          /\ \A c \in Cameras : (queue[c] > 0 \/ stopped[c]) => camera[c] # "none"

\* "The deferred rec.Close below is what stops the running ffmpeg encoders and finishes
\* their segments" (app/run.go:23-25): when Run has returned no segment is left open and no
\* ffmpeg is running.
NothingLeftOpenEver ==
    main = "exited" => Exited /\ \A c \in Cameras : camera[c] \notin OnDisk

\* True of a shutdown by ctx, since BeginSegment refuses a done one, however late the
\* upstream submits a camera's first frame (sessions.go:67-77, local.go:44-47).
NothingLeftOpen == orderly => NothingLeftOpenEver

\* Queues stay within their size, only a camera of the map runs, and after a shutdown by ctx
\* no camera's segment is open (sessions.go:62-102).
CamerasAreClosed == TypeOK /\ NothingLeftOpen

\* A failed copy of the encoder's output: its pipe is full and nobody reads it, and the
\* camera waits.
Jammed == copyErr /\ user \in {"writing", "closing"}

\* The two waits for ffmpeg end unless the segment's file refused a write: the camera's, for
\* room in the pipe or the end of the process (ffmpeg.go:67-88), and that of rec.Close for
\* its cameras, also when the HTTP server has failed and frames keep coming
\* (sessions.go:67-77, camera.go:78-81).
CloseReturns == main = "snapshot" ~> main = "exited" \/ Jammed
NeverStuck == user \in {"writing", "broken", "closing", "killing"}
                  ~> user \in {"idle", "none"} \/ Jammed \/ ~Running
WaitsEnd == CloseReturns /\ NeverStuck
=============================================================================
