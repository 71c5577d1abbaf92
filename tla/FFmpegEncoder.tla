---------------------------- MODULE FFmpegEncoder ----------------------------
(***************************************************************************)
(* camera-recorder's encoder.FFmpeg: the ffmpeg process behind one segment. *)
(* The camera's goroutine writes JPEGs into the pipe of its stdin, ffmpeg  *)
(* encodes them, and a goroutine of the encoder copies the pipe of its     *)
(* stdout into the segment's file and then waits for the process.  Module  *)
(* Recorder takes of this only that Close and Kill return and what Close   *)
(* reports; here is what that rests on.                                    *)
(***************************************************************************)
EXTENDS Naturals

CONSTANTS
    MaxFrames,   \* bound: JPEGs of the segment
    InPipe,      \* capacity of the stdin pipe, in frames
    OutPipe,     \* capacity of the stdout pipe
    Lookahead,   \* frames ffmpeg holds before it must write some out
    OutFails,    \* TRUE: a write to the segment's file may fail (a full disk)
    Crashes      \* TRUE: ffmpeg may exit by itself

ASSUME EncoderAssumption == /\ MaxFrames \in Nat
                            /\ InPipe \in Nat \ {0} /\ OutPipe \in Nat \ {0}
                            /\ Lookahead \in Nat \ {0}
                            /\ OutFails \in BOOLEAN /\ Crashes \in BOOLEAN

VARIABLES
    user,      \* the camera's goroutine, see Users
    written,   \* JPEGs whose WriteJPEG returned nil
    stdin,     \* frames in the stdin pipe
    eof,       \* its write end is closed
    held,      \* frames inside ffmpeg
    ffmpeg,    \* the process, see Processes
    stdout,    \* encoded frames in the stdout pipe
    copier,    \* the goroutine of Start, see Copiers
    copyErr,   \* io.Copy returned an error
    file,      \* encoded frames in the segment's file
    killed     \* cancel() was called: exec kills the process

evars == <<user, written, stdin, eof, held, ffmpeg, stdout, copier, copyErr,
          file, killed>>

\* "none": no segment is open; "writing": inside stdin.Write; "broken": WriteJPEG
\* returned an error, Kill comes next.
Users == {"none", "idle", "writing", "broken", "closing", "killing"}
\* "done": the result is in the channel done.
Copiers == {"copy", "wait", "done", "gone"}

\* "ending", "crashing": its ends of the pipes are closed, the process is still there.
Processes == {"running", "ending", "crashing", "succeeded", "failed"}

HungUp == ffmpeg # "running"
Exited == ffmpeg \in {"succeeded", "failed"}

Empty == stdin = 0 /\ held = 0 /\ stdout = 0 /\ file = 0 /\ written = 0
EInit == /\ Empty /\ user = "none" /\ ffmpeg = "succeeded" /\ copier = "gone"
         /\ eof = FALSE /\ copyErr = FALSE /\ killed = FALSE

-----------------------------------------------------------------------------
(* The camera's goroutine: Start, WriteJPEG, Close, Kill *)

\* The encoder of the next segment: new pipes, a new process and a new goroutine.
Start == /\ user = "none" /\ user' = "idle" /\ ffmpeg' = "running" /\ copier' = "copy"
         /\ UNCHANGED <<written, stdin, eof, held, stdout, copyErr, file, killed>>

WriteJPEG == /\ user = "idle" /\ written < MaxFrames /\ user' = "writing"
             /\ UNCHANGED <<written, stdin, eof, held, ffmpeg, stdout, copier,
                            copyErr, file, killed>>

\* The write blocks while the pipe is full.
Written == /\ user = "writing" /\ ~HungUp /\ stdin < InPipe
           /\ stdin' = stdin + 1 /\ written' = written + 1 /\ user' = "idle"
           /\ UNCHANGED <<eof, held, ffmpeg, stdout, copier, copyErr, file, killed>>

BrokenPipe == /\ user = "writing" /\ HungUp /\ user' = "broken"
              /\ UNCHANGED <<written, stdin, eof, held, ffmpeg, stdout, copier,
                             copyErr, file, killed>>

\* Mutant: Close waits for the process without closing its stdin.
CloseKeepsStdin == /\ user = "idle" /\ user' = "closing"
                   /\ UNCHANGED <<written, stdin, eof, held, ffmpeg, stdout, copier,
                                  copyErr, file, killed>>

Close == /\ user = "idle" /\ user' = "closing" /\ eof' = TRUE
         /\ UNCHANGED <<written, stdin, held, ffmpeg, stdout, copier,
                        copyErr, file, killed>>

\* discardSegment calls Kill after a failed write only.
Kill == /\ user = "broken" /\ user' = "killing" /\ eof' = TRUE /\ killed' = TRUE
        /\ UNCHANGED <<written, stdin, held, ffmpeg, stdout, copier, copyErr, file>>

\* The caller has the result, and forgets the encoder.
Receive == /\ copier = "done" /\ user' = "none" /\ copier' = "gone" /\ ffmpeg' = ffmpeg
           /\ stdin' = 0 /\ held' = 0 /\ stdout' = 0 /\ file' = 0 /\ written' = 0
           /\ eof' = FALSE /\ copyErr' = FALSE /\ killed' = FALSE

\* Kill throws the result away.
KillReceive  == user = "killing" /\ Receive
CloseReceive == user = "closing" /\ Receive

-----------------------------------------------------------------------------
(* The ffmpeg process *)

Process == UNCHANGED <<user, written, eof, copier, copyErr, file, killed>>

Read == /\ ~HungUp /\ stdin > 0 /\ held < Lookahead
        /\ stdin' = stdin - 1 /\ held' = held + 1 /\ UNCHANGED <<ffmpeg, stdout>> /\ Process

\* The write blocks while the pipe is full.
WriteOut == /\ ~HungUp /\ held > 0 /\ stdout < OutPipe
            /\ held' = held - 1 /\ stdout' = stdout + 1 /\ UNCHANGED <<ffmpeg, stdin>> /\ Process

Finish == /\ ~HungUp /\ eof /\ stdin = 0 /\ held = 0
          /\ ffmpeg' = "ending" /\ UNCHANGED <<stdin, held, stdout>> /\ Process

Crash == /\ ~HungUp /\ Crashes /\ ffmpeg' = "crashing"
         /\ UNCHANGED <<stdin, held, stdout>> /\ Process

\* The pipes are closed before there is anything to wait for.
Exit == /\ \/ ffmpeg = "ending" /\ ffmpeg' = "succeeded"
           \/ ffmpeg = "crashing" /\ ffmpeg' = "failed"
        /\ UNCHANGED <<stdin, held, stdout>> /\ Process

Killed == /\ ~Exited /\ killed /\ ffmpeg' = "failed"
          /\ UNCHANGED <<stdin, held, stdout>> /\ Process

-----------------------------------------------------------------------------
(* The goroutine of Start: io.Copy, cmd.Wait, done *)

Copier == UNCHANGED <<user, written, stdin, eof, held, ffmpeg, killed>>

Copy == /\ copier = "copy" /\ stdout > 0 /\ stdout' = stdout - 1 /\ file' = file + 1
        /\ UNCHANGED <<copier, copyErr>> /\ Copier

\* What was read is lost, and io.Copy reads no more.
CopyFails == /\ copier = "copy" /\ stdout > 0 /\ OutFails
             /\ stdout' = stdout - 1 /\ copyErr' = TRUE /\ copier' = "wait"
             /\ UNCHANGED file /\ Copier

\* Mutant: cmd.Wait is not kept back until the copy has drained the pipe.
CopyEndsEarly == /\ copier = "copy" /\ HungUp /\ copier' = "wait"
                 /\ UNCHANGED <<stdout, copyErr, file>> /\ Copier

\* The end of file is read once ffmpeg has closed the pipe and the pipe is empty.
CopyEnds == /\ copier = "copy" /\ HungUp /\ stdout = 0 /\ copier' = "wait"
            /\ UNCHANGED <<stdout, copyErr, file>> /\ Copier

\* cmd.Wait closes the read end of the pipe after the process is gone.
Wait == /\ copier = "wait" /\ Exited /\ copier' = "done" /\ stdout' = 0
        /\ UNCHANGED <<copyErr, file>> /\ Copier

User == Written \/ BrokenPipe \/ Kill \/ KillReceive \/ CloseReceive
Encode == Read \/ WriteOut \/ Finish \/ Exit \/ Killed
CopyOut == Copy \/ CopyFails \/ CopyEnds \/ Wait
ENext == Start \/ WriteJPEG \/ Close \/ User \/ Encode \/ Crash \/ CopyOut

ESpec == EInit /\ [][ENext]_evars
\* The goroutines run; ffmpeg reads and encodes, and exits at the end of its input.
EFairSpec == ESpec /\ WF_evars(User) /\ WF_evars(Encode) /\ WF_evars(CopyOut)

-----------------------------------------------------------------------------
(* Properties *)

\* Types; and no frame is made on the way: what is in flight was written.
EncoderTypeOK ==
    /\ user \in Users /\ ffmpeg \in Processes /\ copier \in Copiers
    /\ written \in 0..MaxFrames /\ file \in 0..MaxFrames
    /\ stdin \in 0..InPipe /\ held \in 0..Lookahead /\ stdout \in 0..OutPipe
    /\ eof \in BOOLEAN /\ copyErr \in BOOLEAN /\ killed \in BOOLEAN
    /\ stdin + held + stdout + file <= written
    /\ copier \in {"done", "gone"} => Exited

\* A Close that is to return nil vouches for the file: every JPEG of the segment is in it,
\* so CompleteSegment publishes a whole recording (ffmpeg.go 49-62, camera.go 243-251).
CloseTellsTheTruth ==
    user = "closing" /\ copier = "done" /\ ~copyErr /\ ffmpeg = "succeeded" => file = written

\* When Close or Kill has returned nothing writes the file any more: the store may
\* close, rename or delete it (camera.go 247-251, 271-272).
QuietAfterReturn == user = "none" => copier = "gone"

\* What the recorder may conclude when Close or Kill returns: the file is quiet, and a nil
\* error means that it is whole (ffmpeg.go 49-62, 77-88).
ReturnIsTrusted == EncoderTypeOK /\ CloseTellsTheTruth /\ QuietAfterReturn

\* "If any step fails the half-written file is thrown away instead of being published"
\* (camera.go 236-237): so Close has to return, also when the copy has failed.
EncoderCloseReturns == user = "closing" ~> user = "none"
=============================================================================
