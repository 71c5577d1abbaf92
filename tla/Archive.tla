------------------------------- MODULE Archive -------------------------------
(***************************************************************************)
(* The directory of one camera's recordings (camera-recorder, storage      *)
(* Local) under everyone who uses it at the same time and without a lock:  *)
(* the camera's goroutine completing and pruning segments (module Recorder *)
(* has its faults), GET /videos listing them, GET /videos/{camera}/{file}  *)
(* opening one, and usage.Run measuring the storage.                       *)
(***************************************************************************)
EXTENDS Naturals, FiniteSets

CONSTANTS
    MaxSegments,  \* bound: segments recorded
    KeepFiles,    \* KeepFilesPerCamera; 0 keeps all
    Limit,        \* the limit parameter of GET /videos; 0 is no limit
    CallSets      \* bound: the sets of calls of which one behaviour makes those of one

AllCalls == {"List", "Open", "UsageBytes"}
ASSUME ArchiveAssumption == /\ MaxSegments \in Nat /\ KeepFiles \in Nat /\ Limit \in Nat
                            /\ CallSets \subseteq SUBSET AllCalls

VARIABLES
    calls,    \* the calls that are made: they only read, so none affects another but
              \* that Open asks for what List has shown
    video,    \* segments whose .mp4 is in the directory
    meta,     \* their .json: "absent", "partial" (os.WriteFile has truncated it), "whole"
    made,     \* segments begun so far; a greater number has a later StartedAt
    writer,   \* the camera's goroutine, see Writers
    condemned, \* what Prune has still to delete
    lister,   \* "idle", "scan"
    wanted,   \* the segments that the from and to of the request admit
    entries,  \* directory entries still to be read
    out,      \* List's out
    stable,   \* history: recordings available since the call began
    ever,     \* history: recordings available at some time since then
    listing,  \* what the last List returned, with its stable and ever
    opener,   \* "idle", "read" (the metadata), "open" (the video)
    target,   \* the file it was asked for, one that a listing has shown
    answer,   \* of the last Open: "none", "ok", "notfound"
    walker,   \* "idle", "walk"
    walk,     \* directory entries the walk has still to stat
    total,    \* UsageBytes' total, in segments
    present,  \* history: videos that have been there since the walk began
    reported  \* storage bytes as published, with the present of that walk

avars == <<calls, video, meta, made, writer, condemned, lister, wanted, entries, out, stable, ever,
           listing, opener, target, answer, walker, walk, total, present, reported>>
listVars == <<lister, wanted, entries, out, stable, ever, listing>>
openVars == <<opener, target, answer>>
walkVars == <<walker, walk, total, present, reported>>
diskVars == <<calls, video, meta, made, writer, condemned>>

Segments == 1..MaxSegments
Writers == {"idle", "renamed", "truncated", "completed", "prune", "unlinked"}
Available == {s \in video : meta[s] = "whole"}
Least(S) == CHOOSE s \in S : \A t \in S : s <= t

AInit == /\ calls \in CallSets
         /\ video = {} /\ meta = [s \in Segments |-> "absent"]
         /\ made = 0 /\ writer = "idle" /\ condemned = {}
         /\ lister = "idle" /\ wanted = {} /\ entries = {} /\ out = {}
         /\ stable = {} /\ ever = {}
         /\ listing = [result |-> {}, wanted |-> {}, stable |-> {}, ever |-> {}]
         /\ opener = "idle" /\ target = 0 /\ answer = "none"
         /\ walker = "idle" /\ walk = {} /\ total = 0 /\ present = {}
         /\ reported = [bytes |-> 0, present |-> {}]

-----------------------------------------------------------------------------
(* The camera's goroutine: CompleteSegment and Prune *)

WriterStep == UNCHANGED <<calls, lister, wanted, entries, out, listing, openVars,
                          walker, walk, total, reported>>

RenameVideo == /\ writer = "idle" /\ made < MaxSegments
               /\ made' = made + 1 /\ video' = video \cup {made'} /\ writer' = "renamed"
               /\ UNCHANGED <<meta, condemned, stable, ever, present>> /\ WriterStep

\* os.WriteFile is an open with O_TRUNC and a write.
CreateMetadata == /\ writer = "renamed" /\ writer' = "truncated"
                  /\ meta' = [meta EXCEPT ![made] = "partial"]
                  /\ UNCHANGED <<video, made, condemned, stable, ever, present>> /\ WriterStep

FillMetadata == /\ writer = "truncated" /\ writer' = "completed"
                /\ meta' = [meta EXCEPT ![made] = "whole"] /\ ever' = ever \cup {made}
                /\ UNCHANGED <<video, made, condemned, stable, present>> /\ WriterStep

\* Prune lists the directory, of which its goroutine is the only writer.
BeginPrune == /\ writer = "completed" /\ writer' = "prune"
              /\ condemned' = IF KeepFiles = 0 THEN {} ELSE
                   {s \in Available : Cardinality({t \in Available : t > s}) >= KeepFiles}
              /\ UNCHANGED <<video, meta, made, stable, ever, present>> /\ WriterStep

\* The oldest goes first, its video before its metadata.
UnlinkVideo == /\ writer = "prune" /\ condemned # {} /\ writer' = "unlinked"
               /\ video' = video \ {Least(condemned)} /\ stable' = stable \ {Least(condemned)}
               /\ present' = present \ {Least(condemned)}
               /\ UNCHANGED <<meta, made, condemned, ever>> /\ WriterStep

UnlinkMetadata == /\ writer = "unlinked" /\ writer' = "prune"
                  /\ meta' = [meta EXCEPT ![Least(condemned)] = "absent"]
                  /\ condemned' = condemned \ {Least(condemned)}
                  /\ UNCHANGED <<video, made, stable, ever, present>> /\ WriterStep

EndPrune == /\ writer = "prune" /\ condemned = {} /\ writer' = "idle"
            /\ UNCHANGED <<video, meta, made, condemned, stable, ever, present>> /\ WriterStep

-----------------------------------------------------------------------------
(* GET /videos: List *)

ListStep == UNCHANGED <<diskVars, openVars, walkVars>>

\* os.ReadDir returns the names in their order, which is that of StartedAt.
BeginList == /\ "List" \in calls /\ lister = "idle" /\ lister' = "scan"
             /\ \E from, to \in Segments : wanted' = from..to
             /\ entries' = video /\ out' = {} /\ stable' = Available /\ ever' = Available
             /\ UNCHANGED listing /\ ListStep

\* Metadata that is missing or does not parse drops the entry.
ReadEntry == /\ lister = "scan" /\ entries # {} /\ entries' = entries \ {Least(entries)}
             /\ out' = IF meta[Least(entries)] = "whole" /\ Least(entries) \in wanted
                       THEN out \cup {Least(entries)} ELSE out
             /\ UNCHANGED <<lister, wanted, stable, ever, listing>> /\ ListStep

\* Mutant: the scan stops at the limit, before the newest are reached.
OldestUpToLimit(S) == {s \in S : Cardinality({t \in S : t < s}) < Limit}

\* Sorted newest first, cut at the limit.
UpToLimit(S) == IF Limit = 0 THEN S ELSE {s \in S : Cardinality({t \in S : t > s}) < Limit}

EndList == /\ lister = "scan" /\ entries = {} /\ lister' = "idle"
           /\ listing' = [result |-> UpToLimit(out), wanted |-> wanted,
                          stable |-> stable, ever |-> ever]
           /\ wanted' = {} /\ out' = {} /\ stable' = {} /\ ever' = {}
           /\ UNCHANGED entries /\ ListStep

-----------------------------------------------------------------------------
(* GET /videos/{cameraID}/{fileName}: Open *)

OpenStep == UNCHANGED <<diskVars, listVars, walkVars>>

BeginOpen == /\ "Open" \in calls /\ opener = "idle" /\ opener' = "read" /\ target' \in listing.result
             /\ answer' = "none" /\ OpenStep

ReadTarget == /\ opener = "read"
              /\ IF meta[target] = "whole" THEN opener' = "open" /\ UNCHANGED answer
                 ELSE opener' = "idle" /\ answer' = "notfound"
              /\ UNCHANGED target /\ OpenStep

\* An open file outlives its name.
OpenVideo == /\ opener = "open" /\ opener' = "idle"
             /\ answer' = IF target \in video THEN "ok" ELSE "notfound"
             /\ UNCHANGED target /\ OpenStep

-----------------------------------------------------------------------------
(* usage.Run and GET /metrics: UsageBytes *)

WalkStep == UNCHANGED <<diskVars, listVars, openVars>>

BeginWalk == /\ "UsageBytes" \in calls /\ walker = "idle" /\ walker' = "walk"
             /\ walk' = video /\ total' = 0 /\ present' = video
             /\ UNCHANGED reported /\ WalkStep

Publish(n) == reported' = [bytes |-> n, present |-> present]

\* Mutant: the total is published although entries are left.
StatAndPublish == /\ walker = "walk" /\ walk # {} /\ Least(walk) \in video
                  /\ walk' = {} /\ total' = total + 1 /\ UNCHANGED <<walker, present, reported>>
                  /\ WalkStep

Stat == /\ walker = "walk" /\ walk # {} /\ Least(walk) \in video
        /\ walk' = walk \ {Least(walk)} /\ total' = total + 1
        /\ UNCHANGED <<walker, present, reported>> /\ WalkStep

\* The file was removed after its directory was read: d.Info fails with ErrNotExist, the
\* walk ends with it, and UsageBytes takes it for a root that is not there.
StatGone == /\ walker = "walk" /\ walk # {} /\ Least(walk) \notin video
            /\ walk' = {} /\ walker' = "idle" /\ Publish(0)
            /\ UNCHANGED <<total, present>> /\ WalkStep

EndWalk == /\ walker = "walk" /\ walk = {} /\ walker' = "idle" /\ Publish(total)
           /\ UNCHANGED <<walk, total, present>> /\ WalkStep

Complete == RenameVideo \/ CreateMetadata \/ FillMetadata
Prune == BeginPrune \/ UnlinkVideo \/ UnlinkMetadata \/ EndPrune
List == BeginList \/ ReadEntry \/ EndList
Open == BeginOpen \/ ReadTarget \/ OpenVideo
UsageBytes == BeginWalk \/ Stat \/ StatGone \/ EndWalk
ANext == Complete \/ Prune \/ List \/ Open \/ UsageBytes
ASpec == AInit /\ [][ANext]_avars
\* The recorder's goroutine runs, and usage.Run measures again and again.
AFairSpec == ASpec /\ WF_avars(Complete \/ Prune) /\ WF_avars(UsageBytes)

-----------------------------------------------------------------------------
(* Properties *)

\* Types; and between two prunings no more than Keep recordings are available.
ATypeOK == /\ calls \in CallSets /\ video \subseteq 1..made /\ made \in 0..MaxSegments
           /\ meta \in [Segments -> {"absent", "partial", "whole"}]
           /\ writer \in Writers /\ condemned \subseteq Segments
           /\ lister \in {"idle", "scan"} /\ opener \in {"idle", "read", "open"}
           /\ walker \in {"idle", "walk"} /\ answer \in {"none", "ok", "notfound"}
           /\ (KeepFiles > 0 /\ writer = "idle") => Cardinality(Available) <= KeepFiles

\* A listing made without a lock is right entry by entry, whatever the recorder did meanwhile:
\* each was available at some moment of the call, not all at the same one; and of what was
\* available throughout nothing is missing but what the limit cuts off, the oldest
\* (local.go 150-196).
ListIsSound ==
    LET r == listing.result
    IN  /\ r \subseteq (listing.ever \cap listing.wanted)
        /\ \A s \in (listing.stable \cap listing.wanted) \ r :
               Limit > 0 /\ Cardinality(r) = Limit /\ \A t \in r : t > s

\* A recording that was listed is there to be downloaded until it is pruned: 404 has no
\* other reason, since metadata is written last and the video removed first
\* (local.go 96-104, 144-145).
NotFoundOnlyIfPruned == answer = "notfound" => target \notin video

\* Although nothing locks the directory, each recording the two readers answer with was there
\* at some moment of the call, and one that stayed is not denied (local.go 150-214).
AnswersAreSound == ATypeOK /\ ListIsSound /\ NotFoundOnlyIfPruned

\* Once recording and pruning pause the published number comes to be that of the
\* directory, whatever the walks before it met (usage.go 38-68).
GaugeSettles == "UsageBytes" \in calls => <>[](reported.bytes = Cardinality(video))

\* "A measurement that fails is logged and skipped [...]: the gauge keeps its previous
\* value, which is a better answer than zero" (usage.go 41-42).  So what is published
\* counts at least the videos that were there all through the walk.
GaugeCountsPresent == reported.bytes >= Cardinality(reported.present)
=============================================================================
