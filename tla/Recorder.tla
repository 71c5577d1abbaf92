------------------------------ MODULE Recorder ------------------------------
(***************************************************************************)
(* camera-recorder: the recording loop of one camera (recorder/camera.go)  *)
(* and the files it leaves through storage.Local (storage/local.go).  The  *)
(* loop is one goroutine, but the process may crash between any two of its *)
(* steps, and every call on the encoder and on the disk may fail.          *)
(* A segment is named by its start, as its files are.                      *)
(***************************************************************************)
EXTENDS Integers, FiniteSets, FiniteSetsExt

CONSTANTS
    MaxTime,      \* bound: timestamps of frames are 1..MaxTime
    Interval,     \* keepEvery()
    Durations,    \* values of SegmentRawDuration
    Keep,         \* KeepFilesPerCamera
    MaxRuns,      \* bound: runs of the process
    Faults        \* the calls that may fail

\* The error of a BeginSegment, an encoder start, a WriteJPEG, the two Closes,
\* the rename, writeMetadata, the two calls on latest.mp4, Prune's List, and
\* os.Remove in Prune and in DiscardSegment.
Calls == {"begin", "start", "write", "encoder", "writer", "rename", "metadata",
          "unlink", "link", "list", "remove", "discard"}

ASSUME RecorderAssumption ==
    /\ MaxTime \in Nat /\ Interval \in Nat \ {0} /\ Durations \subseteq Nat \ {0}
    /\ Keep \in Nat \ {0} /\ MaxRuns \in Nat \ {0} /\ Faults \subseteq Calls

Time == 1..MaxTime
Zero == 0         \* the zero time.Time, and no segment

VARIABLES
    pc,           \* the call the loop is about to make, see Steps
    after,        \* where it goes on when a segment has been finished
    ts,           \* the timestamp of the frame in hand
    seg,          \* st.seg: the start of the open segment, or Zero
    lastRecorded, \* its timestamp of that name
    nextKeepAt,   \* st.nextKeepAt
    lastFrameAt,  \* st.lastFrameAt
    encoder,      \* an ffmpeg runs for the segment
    gauge,        \* the active-encoders metric
    tmp,          \* segments with a temporary file
    mp4,          \* segments with a final file
    json,         \* segments with readable metadata
    ended,        \* EndedAt in the metadata
    latest,       \* the segment latest.mp4 points to, or Zero
    doomed,       \* the segments Prune has still to remove
    whole,        \* segments whose final file closed without error
    failed,       \* segments some step of whose finishing failed
    leftover,     \* temporary files that a crash, or a failed os.Remove, left
    stuck,        \* segments Prune failed to remove, and Zero for latest.mp4
    cancelled,    \* ctx has been cancelled
    run,          \* runs of the process so far
    duration      \* SegmentRawDuration

fileVars == <<tmp, mp4, json, ended, latest>>
ghosts   == <<whole, failed, leftover, stuck>>
loopVars == <<ts, lastRecorded, nextKeepAt, lastFrameAt>>
vars == <<pc, after, ts, seg, lastRecorded, nextKeepAt, lastFrameAt, encoder, gauge,
          tmp, mp4, json, ended, latest, doomed, whole, failed, leftover, stuck,
          cancelled, run, duration>>

Steps == {"loop", "begin", "start", "write", "kill", "closeEncoder", "closeWriter",
          "rename", "metadata", "unlink", "link", "list", "pruneFile", "pruneMeta",
          "discard", "stopped", "down"}

Init == /\ pc = "loop" /\ after = "loop" /\ ts = Zero
        /\ seg = Zero /\ lastRecorded = Zero /\ nextKeepAt = Zero /\ lastFrameAt = Zero
        /\ encoder = FALSE /\ gauge = 0
        /\ tmp = {} /\ mp4 = {} /\ json = {} /\ ended = [t \in Time |-> Zero] /\ latest = Zero
        /\ doomed = {} /\ whole = {} /\ failed = {} /\ leftover = {} /\ stuck = {}
        /\ cancelled = FALSE /\ run = 1 /\ duration \in Durations

\* What viewers see: the final files with readable metadata (List).
Listed == mp4 \cap json

\* shouldRotate by age; by size it depends on how much ffmpeg has written.
TooOld(start, now) == now - start >= duration

\* The first nextKeepAt + k * Interval after t (the loop of shouldKeep).
NextAfter(next, t) == next + Interval * ((t - next) \div Interval + 1)

\* The Store's DiscardSegment, whose error nobody looks at.
Discard == \/ tmp' = tmp \ {seg} /\ leftover' = leftover
           \/ /\ "discard" \in Faults
              /\ tmp' = tmp /\ leftover' = leftover \cup (tmp \cap {seg})

\* finishSegment is called, to go on at next.  With no segment it returns.
Finish(next) ==
    /\ after' = next
    /\ IF seg = Zero
       THEN pc' = next /\ gauge' = gauge
       ELSE pc' = "closeEncoder" /\ gauge' = gauge - 1
    /\ UNCHANGED <<seg, encoder>>

-----------------------------------------------------------------------------
(* The loop: a frame, the ticker, the cancellation *)

\* handleFrame up to its first call.  A frame that is no JPEG, or comes before
\* its turn, is dropped; a kept one may find the open segment at its limit.
HandleFrame(t, jpeg) ==
    /\ pc = "loop"
    /\ lastFrameAt' = t /\ ts' = t
    /\ \/ /\ ~jpeg \/ (nextKeepAt # Zero /\ t < nextKeepAt)
          /\ UNCHANGED <<pc, after, seg, encoder, gauge, nextKeepAt>>
       \/ /\ jpeg /\ (nextKeepAt = Zero \/ t >= nextKeepAt)
          /\ nextKeepAt' = IF nextKeepAt = Zero THEN t + Interval ELSE NextAfter(nextKeepAt, t)
          /\ \/ seg = Zero /\ pc' = "begin" /\ UNCHANGED <<after, seg, encoder, gauge>>
             \/ seg # Zero /\ ~TooOld(seg, t) /\ pc' = "write"
                  /\ UNCHANGED <<after, seg, encoder, gauge>>
             \/ seg # Zero /\ Finish("begin")
    /\ UNCHANGED <<lastRecorded, fileVars, doomed, ghosts, cancelled, run, duration>>

\* The wall clock is not the clock of the timestamps, so an open segment may
\* be found inactive at any tick.
CloseInactive ==
    /\ pc = "loop" /\ seg # Zero /\ lastFrameAt # Zero
    /\ Finish("loop")
    /\ UNCHANGED <<loopVars, fileVars, doomed, ghosts, cancelled, run, duration>>

\* Mutant: no return after the segment is finished.
StopGoesOn ==
    /\ pc = "loop" /\ cancelled
    /\ Finish("loop")
    /\ UNCHANGED <<loopVars, fileVars, doomed, ghosts, cancelled, run, duration>>

Stop ==
    /\ pc = "loop" /\ cancelled
    /\ Finish("stopped")
    /\ UNCHANGED <<loopVars, fileVars, doomed, ghosts, cancelled, run, duration>>

-----------------------------------------------------------------------------
(* openSegment and WriteJPEG *)

\* BeginSegment opens the temporary file, unless ctx is cancelled.  One of
\* that name that was left behind is truncated and used.
BeginSegment ==
    /\ pc = "begin"
    /\ \/ /\ ~cancelled
          /\ tmp' = tmp \cup {ts}
          /\ pc' = "start" /\ seg' = ts
          /\ leftover' = leftover \ {ts} /\ failed' = failed \ {ts}
       \/ /\ cancelled \/ "begin" \in Faults
          /\ pc' = "loop" /\ UNCHANGED <<tmp, seg, leftover, failed>>
    /\ UNCHANGED <<after, loopVars, encoder, gauge, mp4, json, ended, latest, doomed,
                   whole, stuck, cancelled, run, duration>>

\* Mutant: the temporary file stays when the encoder does not start.
StartEncoderNoCleanup ==
    /\ pc = "start"
    /\ \/ /\ encoder' = TRUE /\ gauge' = gauge + 1
          /\ lastRecorded' = ts /\ pc' = "write" /\ seg' = seg
       \/ /\ "start" \in Faults
          /\ seg' = Zero /\ pc' = "loop"
          /\ UNCHANGED <<encoder, gauge, lastRecorded>>
    /\ UNCHANGED <<after, ts, nextKeepAt, lastFrameAt, fileVars, doomed, ghosts, cancelled,
                   run, duration>>

StartEncoder ==
    /\ pc = "start"
    /\ \/ /\ encoder' = TRUE /\ gauge' = gauge + 1
          /\ lastRecorded' = ts /\ pc' = "write"
          /\ UNCHANGED <<tmp, seg, leftover>>
       \/ /\ "start" \in Faults
          /\ Discard /\ seg' = Zero /\ pc' = "loop"
          /\ UNCHANGED <<encoder, gauge, lastRecorded>>
    /\ UNCHANGED <<after, ts, nextKeepAt, lastFrameAt, mp4, json, ended, latest, doomed,
                   whole, failed, stuck, cancelled, run, duration>>

\* Mutant: the gauge keeps counting an encoder that was killed.
WriteJPEGKeepsGauge ==
    /\ pc = "write"
    /\ \/ /\ lastRecorded' = ts
          /\ \/ ~TooOld(seg, ts) /\ pc' = "loop" /\ UNCHANGED <<after, seg, encoder, gauge>>
             \/ Finish("loop")
       \/ /\ "write" \in Faults
          /\ pc' = "kill" /\ UNCHANGED <<after, seg, encoder, lastRecorded, gauge>>
    /\ UNCHANGED <<ts, nextKeepAt, lastFrameAt, fileVars, doomed, ghosts, cancelled,
                   run, duration>>

\* The frame is written; the size limit may be reached with it.
WriteJPEG ==
    /\ pc = "write"
    /\ \/ /\ lastRecorded' = ts
          /\ \/ ~TooOld(seg, ts) /\ pc' = "loop" /\ UNCHANGED <<after, seg, encoder, gauge>>
             \/ Finish("loop")
       \/ /\ "write" \in Faults
          /\ pc' = "kill" /\ gauge' = gauge - 1
          /\ UNCHANGED <<after, seg, encoder, lastRecorded>>
    /\ UNCHANGED <<ts, nextKeepAt, lastFrameAt, fileVars, doomed, ghosts, cancelled,
                   run, duration>>

\* discardSegment after a failed write: Kill, then DiscardSegment.
KillEncoder ==
    /\ pc = "kill"
    /\ encoder' = FALSE
    /\ pc' = "discard" /\ after' = "loop"
    /\ UNCHANGED <<loopVars, seg, gauge, fileVars, doomed, ghosts, cancelled, run, duration>>

DiscardSegment ==
    /\ pc = "discard"
    /\ Discard
    /\ seg' = Zero /\ pc' = after
    /\ UNCHANGED <<after, loopVars, encoder, gauge, mp4, json, ended, latest, doomed,
                   whole, failed, stuck, cancelled, run, duration>>

-----------------------------------------------------------------------------
(* finishSegment, CompleteSegment and Prune *)

\* A step of the finish: it works and the next one follows, or it fails and
\* abortSegment discards the segment.
Try(call, step, next) ==
    \/ pc' = next /\ failed' = failed
    \/ call \in Faults /\ pc' = "discard" /\ failed' = failed \cup {seg}

\* Mutant: an encoder that ends with an error is taken for one that does not.
CloseEncoderAnyway ==
    /\ pc = "closeEncoder"
    /\ encoder' = FALSE /\ pc' = "closeWriter"
    /\ failed' \in {failed, failed \cup {seg}}
    /\ UNCHANGED <<after, loopVars, seg, gauge, fileVars, doomed, whole, leftover, stuck,
                   cancelled, run, duration>>

CloseEncoder ==
    /\ pc = "closeEncoder"
    /\ encoder' = FALSE
    /\ Try("encoder", pc, "closeWriter")
    /\ UNCHANGED <<after, loopVars, seg, gauge, fileVars, doomed, whole, leftover, stuck,
                   cancelled, run, duration>>

CloseWriter ==
    /\ pc = "closeWriter"
    /\ Try("writer", pc, "rename")
    /\ UNCHANGED <<after, loopVars, seg, encoder, gauge, fileVars, doomed, whole, leftover,
                   stuck, cancelled, run, duration>>

Rename ==
    /\ pc = "rename"
    /\ Try("rename", pc, "metadata")
    /\ IF pc' = "metadata"
       THEN /\ tmp' = tmp \ {seg} /\ mp4' = mp4 \cup {seg}
            /\ whole' = IF seg \in failed THEN whole \ {seg} ELSE whole \cup {seg}
       ELSE UNCHANGED <<tmp, mp4, whole>>
    /\ UNCHANGED <<after, loopVars, seg, encoder, gauge, json, ended, latest, doomed,
                   leftover, stuck, cancelled, run, duration>>

\* os.WriteFile truncates before it writes: if it fails the metadata that an
\* earlier recording of that name has may have become unreadable.
WriteMetadata ==
    /\ pc = "metadata"
    /\ Try("metadata", pc, "unlink")
    /\ IF pc' = "unlink"
       THEN json' = json \cup {seg} /\ ended' = [ended EXCEPT ![seg] = lastRecorded]
       ELSE json' \in {json, json \ {seg}} /\ ended' = ended
    /\ UNCHANGED <<after, loopVars, seg, encoder, gauge, tmp, mp4, latest, doomed,
                   whole, leftover, stuck, cancelled, run, duration>>

\* latest.mp4 is removed, and linked to the new segment; errors are ignored,
\* and a link cannot take the place of another.
LinkLatest ==
    /\ \/ pc = "unlink" /\ latest' = Zero /\ pc' = "link" /\ stuck' = stuck \ {Zero}
       \/ /\ pc = "unlink" /\ latest # Zero /\ "unlink" \in Faults
          /\ latest' = latest /\ pc' = "link" /\ stuck' = stuck \cup {Zero}
       \/ /\ pc = "link" /\ latest' = (IF latest = Zero THEN seg ELSE latest) /\ pc' = "list"
          /\ stuck' = stuck
       \/ pc = "link" /\ "link" \in Faults /\ pc' = "list" /\ UNCHANGED <<latest, stuck>>
    /\ UNCHANGED <<after, loopVars, seg, encoder, gauge, tmp, mp4, json, ended, doomed,
                   whole, failed, leftover, cancelled, run, duration>>

\* Mutant: one segment too many is kept.
PruneListOneMore ==
    /\ pc = "list"
    /\ doomed' = {s \in Listed : Cardinality({t \in Listed : t > s}) > Keep}
    /\ IF doomed' = {} THEN pc' = after /\ seg' = Zero ELSE pc' = "pruneFile" /\ seg' = seg
    /\ UNCHANGED <<after, loopVars, encoder, gauge, fileVars, ghosts, cancelled, run, duration>>

\* Mutant: sorted the wrong way round, so that the newest are removed.
PruneListNewest ==
    /\ pc = "list"
    /\ doomed' = {s \in Listed : Cardinality({t \in Listed : t < s}) >= Keep}
    /\ IF doomed' = {} THEN pc' = after /\ seg' = Zero ELSE pc' = "pruneFile" /\ seg' = seg
    /\ UNCHANGED <<after, loopVars, encoder, gauge, fileVars, ghosts, cancelled, run, duration>>

\* Prune's List: all but the Keep newest are doomed.
PruneList ==
    /\ pc = "list"
    /\ \/ doomed' = {s \in Listed : Cardinality({t \in Listed : t > s}) >= Keep}
       \/ "list" \in Faults /\ doomed' = {}
    /\ IF doomed' = {} THEN pc' = after /\ seg' = Zero ELSE pc' = "pruneFile" /\ seg' = seg
    /\ UNCHANGED <<after, loopVars, encoder, gauge, fileVars, ghosts, cancelled, run, duration>>

\* The oldest goes first, its file before its metadata; errors are ignored.
PruneFile ==
    /\ pc = "pruneFile"
    /\ \/ mp4' = mp4 \ {Min(doomed)}
       \/ "remove" \in Faults /\ mp4' = mp4
    /\ pc' = "pruneMeta"
    /\ stuck' = IF Min(doomed) \in mp4' THEN stuck \cup {Min(doomed)} ELSE stuck
    /\ UNCHANGED <<after, loopVars, seg, encoder, gauge, tmp, json, ended, latest, doomed,
                   whole, failed, leftover, cancelled, run, duration>>

PruneMeta ==
    /\ pc = "pruneMeta"
    /\ \/ json' = json \ {Min(doomed)}
       \/ "remove" \in Faults /\ json' = json
    /\ doomed' = doomed \ {Min(doomed)}
    /\ IF doomed' = {} THEN pc' = after /\ seg' = Zero ELSE pc' = "pruneFile" /\ seg' = seg
    /\ UNCHANGED <<after, loopVars, encoder, gauge, tmp, mp4, ended, latest, ghosts, cancelled,
                   run, duration>>

-----------------------------------------------------------------------------
(* The process *)

Cancel == /\ ~cancelled /\ pc \notin {"stopped", "down"}
          /\ cancelled' = TRUE
          /\ UNCHANGED <<pc, after, loopVars, seg, encoder, gauge, fileVars, doomed, ghosts,
                         run, duration>>

\* The process dies with the loop at any of its calls; ffmpeg dies with it.
\* In the middle of writeMetadata it leaves unreadable metadata.
Crash == /\ pc # "down" /\ run < MaxRuns
         /\ pc' = "down" /\ seg' = Zero /\ encoder' = FALSE /\ gauge' = 0 /\ doomed' = {}
         /\ leftover' = tmp
         /\ json' \in {json} \cup (IF pc = "metadata" THEN {json \ {seg}} ELSE {})
         /\ UNCHANGED <<after, loopVars, tmp, mp4, ended, latest, whole, failed, stuck,
                        cancelled, run, duration>>

\* A new run starts from the files alone.
Restart == /\ pc = "down"
           /\ run' = run + 1
           /\ pc' = "loop" /\ cancelled' = FALSE
           /\ lastRecorded' = Zero /\ nextKeepAt' = Zero /\ lastFrameAt' = Zero
           /\ UNCHANGED <<after, ts, seg, encoder, gauge, fileVars, doomed, ghosts, duration>>

\* Timestamps may repeat or go back while the process runs.  The first one of a
\* new run may repeat the last one, as TCPServer sends its latest frame to a new
\* client (broadcaster.go:52-57), but is no earlier than what is on the disk.
Arrives(t) == nextKeepAt = Zero =>
                \A s \in leftover \cup mp4 \cup json : t >= s /\ t >= ended[s]

Loop == \/ \E t \in Time, jpeg \in BOOLEAN : Arrives(t) /\ HandleFrame(t, jpeg)
        \/ CloseInactive \/ Stop

Finishing == \/ BeginSegment \/ StartEncoder \/ WriteJPEG \/ KillEncoder \/ DiscardSegment
             \/ CloseEncoder \/ CloseWriter \/ Rename \/ WriteMetadata \/ LinkLatest
             \/ PruneList \/ PruneFile \/ PruneMeta

Next == Loop \/ Finishing \/ Cancel \/ Crash \/ Restart

Spec == Init /\ [][Next]_vars

\* The goroutine runs on; of its select only the cancellation is certain to
\* be there to be taken, again and again between frames.
FairSpec == Spec /\ WF_vars(Finishing) /\ SF_vars(Stop)

-----------------------------------------------------------------------------
\* The recorder is at one step of its loop, its segment fields are instants or the
\* zero time, the gauge of active segments is 0 or 1, and the files are those of
\* segments that were begun (the recorder's Run, and the segment's begin and end).
TypeOK == /\ pc \in Steps /\ after \in {"loop", "begin", "stopped"}
          /\ {ts, seg, lastRecorded, lastFrameAt, latest} \subseteq Time \cup {Zero}
          /\ nextKeepAt \in Nat
          /\ encoder \in BOOLEAN /\ gauge \in 0..1
          /\ tmp \subseteq Time /\ mp4 \subseteq Time /\ json \subseteq Time
          /\ ended \in [Time -> Time \cup {Zero}]
          /\ doomed \subseteq Time
          /\ whole \subseteq Time /\ failed \subseteq Time /\ leftover \subseteq Time
          /\ stuck \subseteq Time \cup {Zero}
          /\ cancelled \in BOOLEAN /\ run \in 1..MaxRuns /\ duration \in Durations

AtRest == pc \in {"loop", "stopped"}

\* A half-written recording is never listed, whatever failed or crashed, and
\* a listed one covers less than SegmentRawDuration: the frame that would
\* exceed it starts the next segment (camera.go:150-152).
ListedAreWhole == \A s \in Listed : s \in whole /\ s <= ended[s] /\ ended[s] - s < duration

\* The listed recordings of a camera do not overlap, although frames may come
\* with any timestamps: shouldKeep lets only later ones through (camera.go:191-203).
\* Only a frame that is repeated after a restart can end one and start the next.
NoOverlap == \A s, t \in Listed : s < t => ended[s] <= t

\* There is an ffmpeg exactly while there is an open segment, and the metric
\* says so: no failing call leaves a process running or the gauge off
\* (camera.go:230, 242, 270).
EncoderMatchesSegment ==
    AtRest => /\ encoder = (seg # Zero)
              /\ gauge = (IF seg = Zero THEN 0 ELSE 1)

\* No temporary file is left stranded but by a crash or an os.Remove that
\* fails: not by any other failing call, and not by the cancellation
\* (camera.go:100-105).
NoStrandedTmp == AtRest => tmp \ leftover = {seg} \ {Zero}

\* latest.mp4 never dangles, although Prune removes segments without looking at
\* it (local.go:105-106, 139-146), as long as the last attempt to remove the
\* old link worked: whatever fails otherwise, it points to one of the newest.
LatestIsThere == latest # Zero /\ Zero \notin stuck => latest \in mp4

\* The archive a viewer finds, whatever call failed and wherever the process crashed: whole
\* recordings within their length, one after the other, and a link to one of them
\* (camera.go:150-203, local.go:96-146).
ArchiveIsSound == TypeOK /\ ListedAreWhole /\ NoOverlap /\ LatestIsThere

\* When Prune has gone through, no more than Keep segments are listed besides
\* those it could not remove, also when an earlier run crashed in the middle of
\* it (local.go:136-146).
PruneBounds == [][pc = "pruneMeta" /\ pc' \in {"loop", "begin", "stopped"}
                    => Cardinality(Listed' \ stuck') <= Keep]_vars

\* After a cancellation the loop finishes the segment and stops, unless the
\* process dies.
Stops == cancelled ~> pc \in {"stopped", "down"}

\* "If any step fails the half-written file is thrown away instead of being
\* published" (camera.go:236-237).
FailedLeavesNothing == AtRest => failed \cap mp4 = {}

\* The viewers' side: module SegmentLife.  A segment is recorded until its
\* metadata is written.
Published == {"unlink", "link", "list", "pruneFile", "pruneMeta"}
Abstract == INSTANCE SegmentLife WITH
    Starts    <- Time,
    recording <- IF pc \in Published THEN {} ELSE {seg} \ {Zero},
    listed    <- Listed

\* Through begin, encode, rename, write of the sidecar, deletion and a restart of the
\* process, what the disk shows of a segment goes through the life a reader of the
\* archive relies on: absent, being recorded, listed whole, removed.
ImplementsSegmentLife == Abstract!LSpec
=============================================================================
