------------------------ MODULE RecorderProcessProofs ------------------------
(***************************************************************************)
(* Theorems about modules FFmpegEncoder and RecorderProcess, for any       *)
(* cameras, queues, pipes and numbers of frames, with or without failures. *)
(***************************************************************************)
EXTENDS RecorderProcess, TLAPS

(***************************************************************************)
(* The encoder.  As long as the copy has not failed no frame is lost       *)
(* between WriteJPEG and the file; and what ends the copy is that ffmpeg   *)
(* has closed a pipe that is empty.                                        *)
(***************************************************************************)
Flow == /\ user = "none" => copier = "gone" /\ Empty /\ ~eof /\ ~copyErr /\ ~killed
        /\ copier = "gone" => user = "none"
        /\ user = "writing" => written < MaxFrames
        /\ ~copyErr => stdin + held + stdout + file = written
        /\ ~copyErr /\ copier \in {"wait", "done"} => HungUp /\ stdout = 0
        /\ ffmpeg \in {"ending", "succeeded"} => stdin = 0 /\ held = 0

EncoderInv == EncoderTypeOK /\ Flow

\* The camera's calls: none loses a frame, and a result is taken once.
LEMMA CallKeeps ==
    ASSUME EncoderInv, Start \/ WriteJPEG \/ Close \/ User
    PROVE  EncoderInv'
  <1> USE EncoderAssumption DEF EncoderInv, EncoderTypeOK, Flow, Users, Processes, Copiers, HungUp,
                                Exited, Empty
  <1>1. CASE Start
    BY <1>1 DEF Start
  <1>2. CASE WriteJPEG
    BY <1>2 DEF WriteJPEG
  <1>3. CASE Close
    BY <1>3 DEF Close
  <1>4. CASE Written
    BY <1>4 DEF Written
  <1>5. CASE BrokenPipe
    BY <1>5 DEF BrokenPipe
  <1>6. CASE Kill
    BY <1>6 DEF Kill
  <1>7. CASE KillReceive \/ CloseReceive
    <2>1. Receive
      BY <1>7 DEF KillReceive, CloseReceive
    <2>2. Exited' /\ copier' = "gone" /\ user' = "none" /\ ffmpeg' \in Processes
      BY <2>1 DEF Receive
    <2>3. /\ written' \in 0..MaxFrames /\ file' \in 0..MaxFrames
          /\ stdin' \in 0..InPipe /\ held' \in 0..Lookahead /\ stdout' \in 0..OutPipe
          /\ stdin' + held' + stdout' + file' = written'
          /\ written' = 0 /\ stdin' = 0 /\ held' = 0 /\ stdout' = 0 /\ file' = 0
          /\ eof' = FALSE /\ copyErr' = FALSE /\ killed' = FALSE
      BY <2>1 DEF Receive
    <2>4. stdin' + held' + stdout' + file' <= written'
      BY <2>3
    <2>b. eof' \in BOOLEAN /\ copyErr' \in BOOLEAN /\ killed' \in BOOLEAN
      BY <2>3, Zenon
    <2>5. EncoderTypeOK'
      BY <2>2, <2>3, <2>4, <2>b
    <2>6. Flow'
      BY <2>2, <2>3
    <2> QED BY <2>5, <2>6
  <1> QED BY <1>1, <1>2, <1>3, <1>4, <1>5, <1>6, <1>7 DEF User

\* ffmpeg: it ends by itself only when it has written out all that it read.
LEMMA FFmpegKeeps ==
    ASSUME EncoderInv, Encode \/ Crash
    PROVE  EncoderInv'
  <1> USE EncoderAssumption DEF EncoderInv, EncoderTypeOK, Flow, Users, Processes, Copiers, HungUp,
                                Exited, Empty, Process
  <1>1. CASE Read
    BY <1>1 DEF Read
  <1>2. CASE WriteOut
    BY <1>2 DEF WriteOut
  <1>3. CASE Finish
    BY <1>3 DEF Finish
  <1>4. CASE Crash
    BY <1>4 DEF Crash
  <1>5. CASE Exit
    BY <1>5 DEF Exit
  <1>6. CASE Killed
    BY <1>6 DEF Killed
  <1> QED BY <1>1, <1>2, <1>3, <1>4, <1>5, <1>6 DEF Encode

\* The copy: it ends without an error only on an empty pipe.
LEMMA CopyKeeps ==
    ASSUME EncoderInv, CopyOut
    PROVE  EncoderInv'
  <1> USE EncoderAssumption DEF EncoderInv, EncoderTypeOK, Flow, Users, Processes, Copiers, HungUp,
                                Exited, Empty, Copier
  <1>1. CASE Copy
    BY <1>1 DEF Copy
  <1>2. CASE CopyFails
    BY <1>2 DEF CopyFails
  <1>3. CASE CopyEnds
    BY <1>3 DEF CopyEnds
  <1>4. CASE Wait
    BY <1>4 DEF Wait
  <1> QED BY <1>1, <1>2, <1>3, <1>4 DEF CopyOut

LEMMA EncoderInit == EInit => EncoderInv
  <1> SUFFICES ASSUME EInit PROVE EncoderInv
    OBVIOUS
  <1>1. /\ written \in 0..MaxFrames /\ file \in 0..MaxFrames
        /\ stdin \in 0..InPipe /\ held \in 0..Lookahead /\ stdout \in 0..OutPipe
        /\ stdin + held + stdout + file = written
        /\ stdin + held + stdout + file <= written
    BY EncoderAssumption DEF EInit, Empty
  <1>b. eof \in BOOLEAN /\ copyErr \in BOOLEAN /\ killed \in BOOLEAN /\ Exited
    BY DEF EInit, Exited
  <1>c. user \in Users /\ ffmpeg \in Processes /\ copier \in Copiers
    BY DEF EInit, Users, Copiers, Processes
  <1>2. EncoderTypeOK
    BY <1>1, <1>b, <1>c DEF EncoderTypeOK
  <1>3. Flow
    BY <1>1 DEF EInit, Flow, Empty
  <1> QED BY <1>2, <1>3 DEF EncoderInv

LEMMA EncoderKeeps == EncoderInv /\ [ENext]_evars => EncoderInv'
  <1>1. CASE UNCHANGED evars
    BY <1>1 DEF evars, EncoderInv, EncoderTypeOK, Flow, HungUp, Exited, Empty
  <1> QED BY <1>1, CallKeeps, FFmpegKeeps, CopyKeeps DEF ENext

LEMMA EncoderTrusted == EncoderInv => ReturnIsTrusted
  BY DEF EncoderInv, EncoderTypeOK, Flow, ReturnIsTrusted, CloseTellsTheTruth, QuietAfterReturn

\* A nil error of Close vouches for every JPEG that was written, and nothing
\* writes the file when Close or Kill has returned, whatever the sizes of the
\* pipes and whether the copy fails or ffmpeg crashes (ffmpeg.go:49-88).
THEOREM EncoderIsTrusted == ESpec => []ReturnIsTrusted
  BY EncoderInit, EncoderKeeps, EncoderTrusted, PTL DEF ESpec

(***************************************************************************)
(* The process.  Its watched camera uses the encoder as the encoder's      *)
(* specification says: Start without a segment, one call at a time, and    *)
(* Kill after a failed write only.                                         *)
(***************************************************************************)
\* Every step of the process is one of the encoder's or leaves it alone.
LEMMA ProcessSteps == [Next]_vars => [ENext]_evars
  <1> SUFFICES ASSUME [Next]_vars PROVE [ENext]_evars
    OBVIOUS
  <1>1. CASE Cancel
    BY <1>1 DEF Cancel
  <1>2. CASE MainStep
    BY <1>2 DEF MainStep, ServeReturns, Snapshot, CancelOne, JoinOne
  <1>3. CASE UpstreamStep
    BY <1>3 DEF UpstreamStep, ReadFrame, Submit, UpstreamReturns
  <1>4. CASE EncoderStep
    BY <1>4 DEF EncoderStep, ENext
  <1>5. ASSUME NEW c \in Cameras, CameraStep(c) PROVE [ENext]_evars
    <2>1. CASE Skip(c) \/ Begin(c) \/ Record(c) \/ Inactive(c) \/ SeeDone(c)
      BY <2>1 DEF Skip, Begin, Record, Inactive, SeeDone
    <2>2. CASE Open(c)
      BY <2>2 DEF Open, ENext
    <2>3. CASE FinishSegment(c)
      BY <2>3 DEF FinishSegment, ENext, User
    <2>4. CASE Write
      BY <2>4 DEF Write, ENext, User
    <2>5. CASE Discard
      BY <2>5 DEF Discard, ENext, User
    <2> QED BY <1>5, <2>1, <2>2, <2>3, <2>4, <2>5 DEF CameraStep, Busy
  <1>6. CASE UNCHANGED vars
    BY <1>6 DEF vars
  <1> QED BY <1>1, <1>2, <1>3, <1>4, <1>5, <1>6 DEF Next

\* The camera's goroutine drives the encoder as its specification says.
THEOREM ProcessUsesEncoder == Spec => ESpec
  <1>1. Init => EInit
    BY DEF Init
  <1> QED BY <1>1, ProcessSteps, PTL DEF Spec, ESpec

\* So what the recorder concludes from Close and Kill is right in the process.
THEOREM ReturnStaysTrusted == Spec => []ReturnIsTrusted
  BY ProcessUsesEncoder, EncoderIsTrusted, PTL

(***************************************************************************)
(* The shutdown.  After a shutdown by ctx a camera that Close did not      *)
(* find, or has joined, has no segment open and opens none; and while the  *)
(* watched camera has no segment there is no encoder.                      *)
(***************************************************************************)
Idle == {"none", "idle", "returned"}

Closed == /\ camera[Watched] \in Idle \cup {"opening"} => user = "none"
          /\ \A c \in toClose : camera[c] # "none"
          /\ main \in {"serve", "snapshot"} => ~orderly
          /\ orderly => cancelled /\ \A c \in Cameras \ toClose : camera[c] \in Idle
          /\ main = "exited" => toClose = {}

ProcessInv == EncoderInv /\ TypeOK /\ Closed

\* What a step of a camera's loop may do to it: Begin sees a live ctx, nothing
\* takes a camera out of the map, and the last call of a segment ends the encoder.
LEMMA CameraMoves ==
    ASSUME ProcessInv, NEW c \in Cameras, CameraStep(c)
    PROVE  \E to \in Loops :
              /\ camera' = [camera EXCEPT ![c] = to] /\ to # "none"
              /\ camera[c] \in Idle => to \in Idle \/ ~cancelled
              /\ camera[c] # "none"
              /\ c = Watched /\ to \in Idle \cup {"opening"} => user' = "none"
              /\ c # Watched => UNCHANGED evars
              /\ UNCHANGED <<cancelled, main, orderly, toClose, upstreamVars, stopped>>
              /\ queue' = queue \/ (queue[c] > 0 /\ queue' = [queue EXCEPT ![c] = @ - 1])
  <1>t. camera \in [Cameras -> Loops]
    BY DEF ProcessInv, TypeOK
  <1>u. camera[Watched] \in Idle \cup {"opening"} => user = "none"
    BY DEF ProcessInv, Closed
  <1>q. queue[c] > 0 => camera[c] # "none"
    BY DEF ProcessInv, TypeOK
  <1> DEFINE Same == queue' = queue
             Less == queue[c] > 0 /\ queue' = [queue EXCEPT ![c] = @ - 1]
  <1> USE DEF Loop, Loops, OnDisk, Closing, Idle
  <1>1. CASE Skip(c)
    BY <1>1, <1>t, <1>u, <1>q DEF Skip, Take, evars
  <1>2. CASE Begin(c)
    BY <1>2, <1>t, <1>u, <1>q DEF Begin, Take, Done, evars
  <1>3. CASE Open(c)
    <2>1. CASE Give(c, "opening") /\ c = Watched
      BY <1>3, <2>1, <1>t DEF Open, Give
    <2>2. CASE Give(c, "opening") /\ c # Watched
      BY <1>3, <2>2, <1>t DEF Open, Give
    <2>3. CASE Loop(c, "opening", "idle") /\ UNCHANGED evars
      BY <1>3, <2>3, <1>t, <1>u DEF Open, evars
    <2> QED BY <1>3, <2>1, <2>2, <2>3 DEF Open
  <1>4. CASE Record(c)
    BY <1>4, <1>t, <1>u, <1>q DEF Record, Take, Give
  <1>5. CASE Inactive(c)
    BY <1>5, <1>t DEF Inactive
  <1>6. CASE SeeDone(c)
    BY <1>6, <1>t, <1>u DEF SeeDone, evars
  <1>7. CASE FinishSegment(c)
    <2>1. CASE c = Watched /\ Close /\ \E s \in Closing : Loop(c, s, s)
      BY <1>7, <2>1, <1>t DEF FinishSegment
    <2>2. CASE Finished(c) /\ c = Watched /\ CloseReceive
      BY <1>7, <2>2, <1>t DEF FinishSegment, Finished, CloseReceive, Receive
    <2>3. CASE Finished(c) /\ c # Watched /\ UNCHANGED evars
      BY <1>7, <2>3, <1>t DEF FinishSegment, Finished
    <2> QED BY <1>7, <2>1, <2>2, <2>3 DEF FinishSegment
  <1>8. CASE c = Watched /\ Write
    BY <1>8, <1>t DEF Write
  <1>9. CASE c = Watched /\ Discard
    <2>1. CASE Kill /\ Loop(Watched, "discarding", "discarding")
      BY <1>9, <2>1, <1>t DEF Discard
    <2>2. CASE KillReceive /\ Loop(Watched, "discarding", "idle")
      BY <1>9, <2>2, <1>t DEF Discard, KillReceive, Receive
    <2> QED BY <1>9, <2>1, <2>2 DEF Discard
  <1> QED BY <1>1, <1>2, <1>3, <1>4, <1>5, <1>6, <1>7, <1>8, <1>9 DEF CameraStep, Busy

\* No order of the shutdown, the frames and the calls leaves a segment open.
LEMMA ProcessStep == ASSUME ProcessInv, [Next]_vars PROVE ProcessInv'
  <1>e. EncoderInv'
    BY ProcessSteps, EncoderKeeps DEF ProcessInv
  <1>t. /\ TypeOK /\ Closed
        /\ camera \in [Cameras -> Loops] /\ stopped \in [Cameras -> BOOLEAN]
        /\ queue \in [Cameras -> 0..QueueSize] /\ Watched \in Cameras /\ QueueSize \in Nat \ {0}
    BY ProcessAssumption DEF ProcessInv, TypeOK
  <1> SUFFICES TypeOK' /\ Closed'
    BY <1>e DEF ProcessInv
  <1> USE DEF upstreamVars, cameraVars, processVars
  <1>1. CASE Cancel
    BY <1>1, <1>t DEF Cancel, evars, TypeOK, Closed
  <1>2. CASE ServeReturns
    BY <1>2, <1>t DEF ServeReturns, evars, TypeOK, Closed, Mains
  <1>3. CASE Snapshot
    BY <1>3, <1>t DEF Snapshot, evars, TypeOK, Closed, Mains, Idle
  <1>4. CASE CancelOne
    BY <1>4, <1>t DEF CancelOne, evars, TypeOK, Closed, Mains
  <1>5. CASE JoinOne
    BY <1>5, <1>t DEF JoinOne, evars, TypeOK, Closed, Mains, Idle
  <1>6. CASE ReadFrame
    <2>1. submitted' \in 0..MaxFrames
      BY <1>6, EncoderAssumption DEF ReadFrame, TypeOK, ProcessInv
    <2> QED BY <1>6, <2>1, <1>t DEF ReadFrame, evars, TypeOK, Closed
  <1>7. CASE Submit
    <2>1. /\ camera' \in [Cameras -> Loops] /\ camera'[upstream] # "none" /\ upstream \in Cameras
          /\ camera'[upstream] \in Idle <=> camera[upstream] \in Idle
          /\ camera'[upstream] = "opening" => camera[upstream] = "opening"
          /\ \A c \in Cameras \ {upstream} : camera'[c] = camera[c] /\ queue'[c] = queue[c]
      BY <1>7, <1>t DEF Submit, Loops, Idle
    <2>2. queue' \in [Cameras -> 0..QueueSize]
      <3>1. \A n \in 0..QueueSize : (IF n = QueueSize THEN n ELSE n + 1) \in 0..QueueSize
        BY <1>t
      <3>2. queue[upstream] \in 0..QueueSize /\ upstream \in Cameras
        BY <2>1, <1>t
      <3> QED BY <1>7, <1>t, <3>1, <3>2 DEF Submit
    <2>3. /\ UNCHANGED <<cancelled, main, orderly, toClose, submitted, stopped, user>>
          /\ upstream' = "read"
      BY <1>7 DEF Submit, evars
    <2>4. TypeOK'
      BY <2>1, <2>2, <2>3, <1>t DEF TypeOK
    <2>5. Closed'
      <3>1. toClose \subseteq Cameras
        BY <1>t DEF TypeOK
      <3>2. camera'[Watched] \in Idle \cup {"opening"} => user' = "none"
        BY <2>1, <2>3, <1>t DEF Closed
      <3>3. \A c \in toClose : camera'[c] # "none"
        BY <2>1, <3>1, <1>t DEF Closed
      <3> QED BY <2>1, <2>3, <3>2, <3>3, <1>t DEF Closed
    <2> QED BY <2>4, <2>5
  <1>8. CASE UpstreamReturns
    BY <1>8, <1>t DEF UpstreamReturns, evars, TypeOK, Closed
  <1>9. CASE EncoderStep
    <2>1. user' = user
      BY <1>9 DEF EncoderStep, Encode, Crash, CopyOut, Read, WriteOut, Finish, Exit, Killed, Process,
                  Copy, CopyFails, CopyEnds, Wait, Copier
    <2> QED BY <1>9, <2>1, <1>t DEF EncoderStep, TypeOK, Closed
  <1>10. ASSUME NEW c \in Cameras, CameraStep(c) PROVE TypeOK' /\ Closed'
    <2>1. PICK to \in Loops :
              /\ camera' = [camera EXCEPT ![c] = to] /\ to # "none"
              /\ camera[c] \in Idle => to \in Idle \/ ~cancelled
              /\ camera[c] # "none"
              /\ c = Watched /\ to \in Idle \cup {"opening"} => user' = "none"
              /\ c # Watched => UNCHANGED evars
              /\ UNCHANGED <<cancelled, main, orderly, toClose, upstreamVars, stopped>>
              /\ queue' = queue \/ (queue[c] > 0 /\ queue' = [queue EXCEPT ![c] = @ - 1])
      BY <1>10, CameraMoves
    <2>2. /\ camera' \in [Cameras -> Loops] /\ camera'[c] = to
          /\ \A d \in Cameras \ {c} : camera'[d] = camera[d]
      BY <2>1, <1>t
    <2>3. queue' \in [Cameras -> 0..QueueSize] /\ \A d \in Cameras : queue'[d] > 0 => queue[d] > 0
      <3>1. \A n \in 0..QueueSize : n > 0 => n - 1 \in 0..QueueSize
        BY <1>t
      <3>2. queue[c] \in 0..QueueSize
        BY <1>t
      <3>3. CASE queue' = [queue EXCEPT ![c] = queue[c] - 1] /\ queue[c] > 0
        BY <3>1, <3>2, <3>3, <1>t
      <3> QED BY <2>1, <3>3, <1>t
    <2>4. TypeOK'
      BY <2>1, <2>2, <2>3, <1>t DEF TypeOK
    <2>5. Closed'
      <3>1. camera'[Watched] \in Idle \cup {"opening"} => user' = "none"
        BY <2>1, <2>2, <1>t DEF Closed, evars
      <3>2. orderly' => cancelled' /\ \A d \in Cameras \ toClose' : camera'[d] \in Idle
        BY <2>1, <2>2, <1>t DEF Closed
      <3>3. \A d \in toClose' : camera'[d] # "none"
        BY <2>1, <2>2, <1>t DEF Closed, TypeOK
      <3> QED BY <2>1, <3>1, <3>2, <3>3, <1>t DEF Closed
    <2> QED BY <2>4, <2>5
  <1>11. CASE UNCHANGED vars
    BY <1>11, <1>t DEF vars, evars, TypeOK, Closed
  <1> QED BY <1>1, <1>2, <1>3, <1>4, <1>5, <1>6, <1>7, <1>8, <1>9, <1>10, <1>11
          DEF Next, MainStep, UpstreamStep

\* When Run returns after its ctx was cancelled no segment is open and no ffmpeg
\* is running, however late a camera's first frame came (sessions.go:62-102).
THEOREM CamerasStayClosed == Spec => []CamerasAreClosed
  <1>1. Init => ProcessInv
    <2> SUFFICES ASSUME Init PROVE ProcessInv
      OBVIOUS
    <2>1. EncoderInv
      BY EncoderInit DEF Init
    <2>2. TypeOK
      <3>1. 0 \in 0..QueueSize /\ 0 \in 0..MaxFrames
        BY ProcessAssumption, EncoderAssumption
      <3>2. queue \in [Cameras -> 0..QueueSize] /\ submitted \in 0..MaxFrames
        BY <3>1 DEF Init
      <3>3. \A c \in Cameras : ~(queue[c] > 0) /\ ~stopped[c]
        BY DEF Init
      <3> QED BY <3>2, <3>3 DEF Init, TypeOK, Mains, Loops
    <2>3. Closed
      BY DEF Init, EInit, Closed
    <2> QED BY <2>1, <2>2, <2>3 DEF ProcessInv
  <1>2. ProcessInv => CamerasAreClosed
    <2> SUFFICES ASSUME ProcessInv, orderly, main = "exited"
                 PROVE  Exited /\ \A c \in Cameras : camera[c] \notin OnDisk
      BY DEF CamerasAreClosed, NothingLeftOpen, NothingLeftOpenEver, ProcessInv
    <2>1. \A c \in Cameras : camera[c] \in Idle
      BY DEF ProcessInv, Closed
    <2>2. user = "none"
      BY <2>1, ProcessAssumption DEF ProcessInv, Closed
    <2>3. Exited
      BY <2>2 DEF ProcessInv, EncoderInv, EncoderTypeOK, Flow
    <2> QED BY <2>1, <2>3 DEF Idle, OnDisk, Closing
  <1> QED BY <1>1, <1>2, ProcessStep, PTL DEF Spec
=============================================================================
