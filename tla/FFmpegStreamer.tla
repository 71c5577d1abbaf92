--------------------------- MODULE FFmpegStreamer ---------------------------
(***************************************************************************)
(* services/ffmpeg-streamer.  The goroutine of frameipc.Client feeds the   *)
(* cache of ipcclient.Reader: the map of latest frames under a lock, and   *)
(* beside it, outside the lock, the atomic version counter.  The main      *)
(* goroutine keeps an ffmpeg process alive and, on every tick, writes the  *)
(* picture of the moment into its stdin: one camera's latest frame, or in  *)
(* merge mode the canvas of them all, composed again when the version has  *)
(* moved.                                                                  *)
(***************************************************************************)
EXTENDS Naturals

CONSTANTS
    Cameras,
    Camera,      \* the camera of single mode
    Modes,       \* values of --merge: a subset of BOOLEAN
    Pictures,    \* JPEG payloads that decode
    Broken,      \* a payload that does not
    None,        \* no frame
    MaxEvents,   \* bound: IPC messages and connections lost
    MaxExits     \* bound: times ffmpeg exits by itself or does not start

ASSUME StreamerAssumption == /\ Camera \in Cameras /\ Modes \subseteq BOOLEAN
                             /\ Broken \notin Pictures /\ None \notin Pictures \cup {Broken}
                             /\ MaxEvents \in Nat /\ MaxExits \in Nat

VARIABLES
    mergeAll,    \* cfg.mergeAll
    stalls,      \* ffmpeg may stop reading its stdin for good
    frames,      \* Reader.frames
    version,     \* Reader.version
    bumping,     \* a callback has released the lock and not yet added to version
    link,        \* the Client's goroutine, see Links
    events, exits,
    cancelled,
    main,        \* the goroutine of run, see Mains
    loaded,      \* v: the version loaded at the head of the tick
    snapshot,    \* AllLatest's copy of frames
    current,     \* the canvas mergedCanvasSource keeps
    lastVersion, \* and the version it believes the canvas to show
    payload,     \* what the tick has to write
    ffmpeg,      \* "none", "running", "exited"
    picture      \* the last picture ffmpeg took

fvars == <<mergeAll, stalls, frames, version, bumping, link, events, exits, cancelled, main, loaded,
           snapshot, current, lastVersion, payload, ffmpeg, picture>>
cacheVars == <<mergeAll, stalls, frames, version, bumping, link, events>>
feedVars == <<loaded, snapshot, current, lastVersion, payload, picture>>

\* "lost": connect has returned, OnDisconnect comes next; "backoff": reconnDelay.
Links == {"dial", "connected", "lost", "backoff", "returned"}
\* "wait": pump's select; "reap": stdin is closed, cmd.Wait; "pause": restartDelay.
Mains == {"start", "wait", "compose", "encode", "write", "reap", "pause", "exited"}
Pumping == {"wait", "compose", "encode", "write"}

Nothing == [c \in Cameras |-> None]
\* compose.Canvas: the cells are the frames that decode; Nothing stands for nil.
Canvas(f) == [c \in Cameras |-> IF f[c] = Broken THEN None ELSE f[c]]
\* ipc.Latest(cfg.cameraID), on a canvas of one cell.
Latest == [Nothing EXCEPT ![Camera] = frames[Camera]]

FInit == /\ mergeAll \in Modes /\ stalls \in BOOLEAN /\ frames = Nothing /\ version = 0 /\ bumping = FALSE
         /\ link = "dial" /\ events = 0 /\ exits = 0 /\ cancelled = FALSE
         /\ main = "start" /\ loaded = 0 /\ snapshot = Nothing /\ current = Nothing /\ lastVersion = 0
         /\ payload = Nothing /\ ffmpeg = "none" /\ picture = Nothing

Cancel == /\ main # "exited" /\ ~cancelled /\ cancelled' = TRUE
          /\ UNCHANGED <<cacheVars, feedVars, exits, main, ffmpeg>>

-----------------------------------------------------------------------------
(* The Client's goroutine and the Reader's callbacks on it *)

ClientStep == /\ main # "exited" /\ ~bumping
              /\ UNCHANGED <<mergeAll, stalls, version, exits, cancelled, main, feedVars, ffmpeg>>

Dial == /\ ClientStep /\ link = "dial"
        /\ \/ link' = "connected" /\ ~cancelled /\ UNCHANGED events
           \/ link' = "lost" /\ ~cancelled /\ events < MaxEvents /\ events' = events + 1
           \/ link' = "returned" /\ cancelled /\ UNCHANGED events
        /\ UNCHANGED <<frames, bumping>>

\* A message changes the map under the lock; version.Add comes after the unlock.
Store(f) == /\ frames' = f /\ bumping' = TRUE

OnFrame == /\ ClientStep /\ link = "connected" /\ events < MaxEvents /\ events' = events + 1
           /\ \E c \in Cameras, p \in Pictures \cup {Broken} : Store([frames EXCEPT ![c] = p])
           /\ UNCHANGED link

\* Mutant: dropFrame forgets version.Add.
OnOfflineNoBump == /\ ClientStep /\ link = "connected" /\ events < MaxEvents
                   /\ events' = events + 1 /\ UNCHANGED <<link, bumping>>
                   /\ \E c \in Cameras : frames' = [frames EXCEPT ![c] = None]

OnOffline == /\ ClientStep /\ link = "connected" /\ events < MaxEvents /\ events' = events + 1
             /\ \E c \in Cameras : Store([frames EXCEPT ![c] = None])
             /\ UNCHANGED link

\* The socket fails, or the watchdog closes it once ctx is cancelled.
Disconnect == /\ ClientStep /\ link = "connected" /\ link' = "lost"
              /\ \/ cancelled /\ UNCHANGED events
                 \/ events < MaxEvents /\ events' = events + 1
              /\ UNCHANGED <<frames, bumping>>

\* Mutant: the cache survives the connection.
OnDisconnectKeeps == /\ ClientStep /\ link = "lost" /\ link' = "backoff"
                     /\ Store(frames) /\ UNCHANGED events

OnDisconnect == /\ ClientStep /\ link = "lost" /\ link' = "backoff"
                /\ Store(Nothing) /\ UNCHANGED events

Retry == /\ ClientStep /\ link = "backoff"
         /\ link' = IF cancelled THEN "returned" ELSE "dial"
         /\ UNCHANGED <<frames, bumping, events>>

Bump == /\ main # "exited" /\ bumping /\ bumping' = FALSE /\ version' = version + 1
        /\ UNCHANGED <<mergeAll, stalls, frames, link, events, exits, cancelled, main, feedVars, ffmpeg>>

Client == Dial \/ OnFrame \/ OnOffline \/ Disconnect \/ OnDisconnect \/ Retry \/ Bump

-----------------------------------------------------------------------------
(* run and runFFmpegSession *)

MainStep == UNCHANGED <<cacheVars, cancelled>>

\* A session starts with a fresh mergedCanvasSource; exec refuses a cancelled ctx.
StartSession == /\ main = "start" /\ ~cancelled /\ MainStep
                /\ main' = "wait" /\ ffmpeg' = "running"
                /\ loaded' = 0 /\ snapshot' = Nothing /\ current' = Nothing /\ lastVersion' = 0 /\ payload' = Nothing
                /\ picture' = Nothing /\ UNCHANGED exits

StartFails == /\ main = "start" /\ ~cancelled /\ exits < MaxExits /\ MainStep
              /\ main' = "pause" /\ exits' = exits + 1
              /\ UNCHANGED <<feedVars, ffmpeg>>

\* Kept apart from every other exit: the loop's head and the restart delay.
StopRestarting == /\ main \in {"start", "pause"} /\ cancelled /\ main' = "exited" /\ MainStep
                  /\ UNCHANGED <<feedVars, exits, ffmpeg>>

Restart == /\ main = "pause" /\ ~cancelled /\ main' = "start" /\ MainStep
           /\ UNCHANGED <<feedVars, exits, ffmpeg>>

\* pump's select may take the tick although ctx is cancelled.
TickSingle == /\ main = "wait" /\ ~mergeAll /\ MainStep
              /\ payload' = Latest
              /\ main' = IF Latest = Nothing THEN "wait" ELSE "write"
              /\ UNCHANGED <<loaded, snapshot, current, lastVersion, picture, exits, ffmpeg>>

\* mergedCanvasSource: the version is loaded before AllLatest takes its snapshot.
TickMerged == /\ main = "wait" /\ mergeAll /\ MainStep /\ loaded' = version
              /\ \/ /\ version # lastVersion /\ main' = "compose" /\ UNCHANGED payload
                 \/ /\ version = lastVersion /\ payload' = current
                    /\ main' = IF current = Nothing THEN "wait" ELSE "write"
              /\ UNCHANGED <<snapshot, current, lastVersion, picture, exits, ffmpeg>>

\* composeCanvas: AllLatest copies the map under the lock; then the decoding, the
\* layout and the encoding, which take long, work on the copy.
AllLatest == /\ main = "compose" /\ MainStep /\ snapshot' = frames /\ main' = "encode"
             /\ UNCHANGED <<loaded, current, lastVersion, payload, picture, exits, ffmpeg>>

\* Mutant: the version is loaded when the canvas is stored, not before the snapshot.
EncodeThenLoad == /\ main = "encode" /\ MainStep
                  /\ \/ /\ Canvas(snapshot) # Nothing /\ current' = Canvas(snapshot)
                        /\ lastVersion' = version
                     \/ /\ Canvas(snapshot) = Nothing /\ UNCHANGED <<current, lastVersion>>
                  /\ payload' = current'
                  /\ main' = IF current' = Nothing THEN "wait" ELSE "write"
                  /\ UNCHANGED <<loaded, snapshot, picture, exits, ffmpeg>>

\* A nil canvas leaves the old one, and the version it was composed for, in place.
Encode == /\ main = "encode" /\ MainStep
          /\ \/ /\ Canvas(snapshot) # Nothing /\ current' = Canvas(snapshot)
                /\ lastVersion' = loaded
             \/ /\ Canvas(snapshot) = Nothing /\ UNCHANGED <<current, lastVersion>>
          /\ payload' = current'
          /\ main' = IF current' = Nothing THEN "wait" ELSE "write"
          /\ UNCHANGED <<loaded, snapshot, picture, exits, ffmpeg>>

\* The write returns when ffmpeg has read the picture.
Write == /\ main = "write" /\ ffmpeg = "running" /\ MainStep
         /\ picture' = payload /\ main' = "wait"
         /\ UNCHANGED <<loaded, snapshot, current, lastVersion, payload, exits, ffmpeg>>

WriteFails == /\ main = "write" /\ ffmpeg = "exited" /\ MainStep /\ main' = "reap"
              /\ UNCHANGED <<feedVars, exits, ffmpeg>>

PumpCancelled == /\ main = "wait" /\ cancelled /\ MainStep /\ main' = "reap"
                 /\ UNCHANGED <<feedVars, exits, ffmpeg>>

Reap == /\ main = "reap" /\ ffmpeg = "exited" /\ MainStep
        /\ main' = IF cancelled THEN "exited" ELSE "pause"
        /\ ffmpeg' = "none" /\ UNCHANGED <<feedVars, exits>>

\* ffmpeg ends by itself, at the end of its stdin, or killed by CommandContext.
FFmpegExits == /\ ffmpeg = "running" /\ main # "exited" /\ exits < MaxExits
               /\ ffmpeg' = "exited" /\ exits' = exits + 1
               /\ MainStep /\ UNCHANGED <<main, feedVars>>
Kill == /\ ffmpeg = "running" /\ cancelled /\ ffmpeg' = "exited"
        /\ MainStep /\ UNCHANGED <<main, feedVars, exits>>
EndOfInput == /\ ffmpeg = "running" /\ main = "reap" /\ ffmpeg' = "exited"
              /\ MainStep /\ UNCHANGED <<main, feedVars, exits>>

Feed == TickSingle \/ TickMerged \/ AllLatest \/ Encode \/ WriteFails \/ PumpCancelled
Session == StartSession \/ StartFails \/ StopRestarting \/ Restart \/ Reap

FNext == Cancel \/ Client \/ Feed \/ Write \/ Session \/ FFmpegExits \/ Kill \/ EndOfInput
FSpec == FInit /\ [][FNext]_fvars

\* pump's select picks among its ready cases at random, so the cancelled ctx is
\* taken in the end although the ticker keeps firing.
FFairSpec == /\ FSpec
             /\ WF_fvars(Bump) /\ WF_fvars(OnDisconnect) /\ WF_fvars(Retry) /\ WF_fvars(Dial)
             /\ WF_fvars(Feed) /\ SF_fvars(PumpCancelled) /\ WF_fvars(Session) /\ WF_fvars(Kill)
             /\ WF_fvars(~stalls /\ Write)

-----------------------------------------------------------------------------
(* Properties *)

Shapes == [Cameras -> Pictures \cup {Broken, None}]

\* Types; and pump only runs beside a process that was started.
FTypeOK == /\ mergeAll \in Modes /\ stalls \in BOOLEAN
           /\ {frames, snapshot, current, payload, picture} \subseteq Shapes
           /\ version \in 0..(MaxEvents + 1) /\ lastVersion \in 0..version /\ loaded \in 0..version
           /\ bumping \in BOOLEAN /\ cancelled \in BOOLEAN
           /\ link \in Links /\ main \in Mains
           /\ events \in 0..MaxEvents /\ exits \in 0..MaxExits
           /\ ffmpeg \in {"none", "running", "exited"}
           /\ main \in Pumping => ffmpeg # "none"

\* The version counter is enough: whenever no callback is between its map update and
\* its version.Add, and the feed trusts its canvas (version unmoved, between ticks),
\* that canvas shows exactly the cached frames (reader.go 88-89, feed.go 66-72).
CanvasIsCurrent == (mergeAll /\ main = "wait" /\ ~bumping /\ lastVersion = version)
                       => current = Canvas(frames)

\* The feed and its ffmpeg go together, and the canvas that the version calls current is
\* (feed.go 62-75, ffmpeg.go 23-79).
FeedIsSound == FTypeOK /\ CanvasIsCurrent

Wanted == IF mergeAll THEN Canvas(frames) ELSE Latest
Sourced == IF mergeAll THEN current # Nothing ELSE Latest # Nothing

\* Once the cameras fall silent, an ffmpeg that reads is left holding the picture of the
\* last frames of every camera, whatever updates raced the composing (feed.go 62-75).
Converges == <>[](stalls \/ main = "exited" \/ Wanted = Nothing \/ picture = Wanted)

\* Cancelling ctx ends run even while a write into a stalled ffmpeg blocks: the
\* context kills the process and the write fails (ffmpeg.go 47-79).
CancelEnds == cancelled ~> main = "exited"

\* While there is a picture to write, a dead ffmpeg is noticed and replaced (ffmpeg.go 23-42).
ExitNoticed == (ffmpeg = "exited" /\ Sourced)
                   ~> (ffmpeg = "running" \/ ~Sourced \/ main = "exited")

\* The stream is kept up, and ends: a dead ffmpeg is replaced, one that reads is left with the
\* last pictures, and one that stalls is killed with ctx (feed.go 62-75, ffmpeg.go 23-79).
StreamIsKeptUp == CancelEnds /\ ExitNoticed /\ Converges

\* A tick that decides to write between a lost connection and the next one.
TickWhileDown == link = "backoff" /\ ~bumping /\ main # "write" /\ main' = "write"

\* "Lost the connection — wipe frames so ffmpeg doesn't loop stale data" (reader.go:63):
\* no such tick has a picture.  In single mode, where every tick asks the cache.
NoStaleData == [][(TickWhileDown /\ ~mergeAll) => payload' = Nothing]_fvars

\* The same in both modes.
NoStaleDataEver == [][TickWhileDown => payload' = Nothing]_fvars
=============================================================================
