--------------------------- MODULE RecorderProofs ---------------------------
(***************************************************************************)
(* Theorems about module Recorder, for all timestamps, intervals, limits   *)
(* and any set of calls that may fail, with crashes at any step; the last  *)
(* part is on those who read the directory meanwhile (module Archive).     *)
(***************************************************************************)
EXTENDS Recorder, Archive, FiniteSetTheorems, TLAPS

(***************************************************************************)
(* The encoder and its gauge, at every call of the loop.  Zero is not a    *)
(* time, so that a segment that has been begun is one.                     *)
(***************************************************************************)
Finishes == {"closeWriter", "rename", "metadata", "unlink", "link", "list",
             "pruneFile", "pruneMeta", "discard"}

EncoderAt == /\ pc \in {"loop", "stopped"} =>
                  encoder = (seg # Zero) /\ gauge = (IF seg = Zero THEN 0 ELSE 1)
             /\ pc \in {"begin", "down"} => seg = Zero /\ ~encoder /\ gauge = 0
             /\ pc = "write" => seg # Zero /\ encoder /\ gauge = 1
             /\ pc \in {"kill", "closeEncoder"} => seg # Zero /\ encoder /\ gauge = 0
             /\ pc \in Finishes \cup {"start"} => seg # Zero /\ ~encoder /\ gauge = 0

LoopAt == /\ pc \in Steps
          /\ after \in {"loop", "begin", "stopped"}
          /\ encoder \in BOOLEAN
          /\ seg \in Time \cup {Zero}
          /\ ts \in Time \cup {Zero}
          /\ pc = "begin" => ts # Zero
          /\ pc \in {"closeEncoder", "discard"} \cup Finishes /\ after = "begin" => ts # Zero

EInv == LoopAt /\ EncoderAt

\* Finishing the open segment, or none, starts with the gauge and the encoder
\* of the segment.
LEMMA FinishKeeps ==
    ASSUME NEW next \in {"loop", "begin", "stopped"}, EInv,
           seg = Zero => ~encoder /\ gauge = 0,
           seg # Zero => encoder /\ gauge = 1,
           Finish(next), ts' \in Time \cup {Zero}, next = "begin" => ts' # Zero
    PROVE  EInv'
  BY DEF Finish, EInv, LoopAt, EncoderAt, Finishes, Steps

\* No call, failing or not, parts the encoder and the gauge from the segment.
LEMMA EInvStep == EInv /\ [Next]_vars => EInv'
  <1> SUFFICES ASSUME EInv, [Next]_vars PROVE EInv'
    OBVIOUS
  <1>z. Zero \notin Time
    BY RecorderAssumption DEF Zero, Time
  <1>1. ASSUME NEW t \in Time, NEW jpeg \in BOOLEAN, HandleFrame(t, jpeg) PROVE EInv'
    <2>1. pc = "loop" /\ ts' = t
      BY <1>1 DEF HandleFrame
    <2>2. CASE Finish("begin")
      BY <2>1, <2>2, <1>z, FinishKeeps DEF EInv, EncoderAt
    <2>3. CASE pc' \in {"loop", "write"} /\ UNCHANGED <<after, seg, encoder, gauge>>
                 /\ (pc' = "write" => seg # Zero)
      BY <2>1, <2>3, <1>z DEF EInv, LoopAt, EncoderAt, Finishes, Steps
    <2>4. CASE pc' = "begin" /\ seg = Zero /\ UNCHANGED <<after, seg, encoder, gauge>>
      BY <2>1, <2>4, <1>z DEF EInv, LoopAt, EncoderAt, Finishes, Steps
    <2> QED BY <1>1, <2>1, <2>2, <2>3, <2>4 DEF HandleFrame
  <1>2. CASE CloseInactive
    BY <1>2, FinishKeeps DEF CloseInactive, loopVars, EInv, LoopAt, EncoderAt
  <1>3. CASE Stop
    BY <1>3, FinishKeeps DEF Stop, loopVars, EInv, LoopAt, EncoderAt
  <1>4. CASE BeginSegment
    BY <1>4, <1>z DEF BeginSegment, loopVars, EInv, LoopAt, EncoderAt, Finishes, Steps
  <1>5. CASE StartEncoder
    <2>1. /\ pc = "start" /\ UNCHANGED <<after, ts>>
          /\ \/ encoder' = TRUE /\ gauge' = gauge + 1 /\ pc' = "write" /\ seg' = seg
             \/ seg' = Zero /\ pc' = "loop" /\ UNCHANGED <<encoder, gauge>>
      BY <1>5 DEF StartEncoder
    <2>2. gauge = 0 /\ ~encoder /\ seg # Zero
      BY <2>1 DEF EInv, EncoderAt
    <2>3. CASE encoder' = TRUE /\ gauge' = gauge + 1 /\ pc' = "write" /\ seg' = seg
      <3>1. gauge' = 1
        BY <2>2, <2>3
      <3>2. LoopAt'
        BY <2>1, <2>3 DEF EInv, LoopAt, Finishes, Steps
      <3>3. EncoderAt'
        BY <2>2, <2>3, <3>1 DEF EncoderAt, Finishes
      <3> QED BY <3>2, <3>3 DEF EInv
    <2>4. CASE seg' = Zero /\ pc' = "loop" /\ UNCHANGED <<encoder, gauge>>
      <3>1. encoder' = FALSE /\ gauge' = 0
        BY <2>2, <2>4 DEF EInv, LoopAt
      <3>2. LoopAt'
        BY <2>1, <2>4, <3>1 DEF EInv, LoopAt, Finishes, Steps
      <3>3. EncoderAt'
        BY <2>4, <3>1 DEF EncoderAt, Finishes
      <3> QED BY <3>2, <3>3 DEF EInv
    <2> QED BY <2>1, <2>3, <2>4
  <1>6. CASE WriteJPEG
    <2>1. CASE Finish("loop")
      BY <1>6, <2>1, FinishKeeps DEF WriteJPEG, EInv, LoopAt, EncoderAt
    <2>2. CASE pc' = "loop" /\ UNCHANGED <<after, seg, encoder, gauge>>
      BY <1>6, <2>2 DEF WriteJPEG, EInv, LoopAt, EncoderAt, Finishes, Steps
    <2>3. CASE pc' = "kill" /\ gauge' = gauge - 1 /\ UNCHANGED <<after, seg, encoder>>
      BY <1>6, <2>3 DEF WriteJPEG, EInv, LoopAt, EncoderAt, Finishes, Steps
    <2> QED BY <1>6, <2>1, <2>2, <2>3 DEF WriteJPEG
  <1>7. CASE KillEncoder \/ DiscardSegment
    <2>1. CASE KillEncoder
      BY <2>1 DEF KillEncoder, loopVars, EInv, LoopAt, EncoderAt, Finishes, Steps
    <2>2. CASE DiscardSegment
      <3>1. /\ pc = "discard" /\ seg' = Zero /\ pc' = after
            /\ UNCHANGED <<after, ts, encoder, gauge>>
        BY <2>2 DEF DiscardSegment, loopVars
      <3> QED BY <3>1 DEF EInv, LoopAt, EncoderAt, Finishes, Steps
    <2> QED BY <1>7, <2>1, <2>2
  <1>8. CASE CloseEncoder \/ CloseWriter \/ Rename \/ WriteMetadata \/ LinkLatest
    <2>1. /\ pc \in {"closeEncoder", "closeWriter", "rename", "metadata", "unlink", "link"}
          /\ pc' \in {"closeWriter", "rename", "metadata", "unlink", "link", "list", "discard"}
          /\ IF pc = "closeEncoder" THEN encoder' = FALSE ELSE encoder' = encoder
          /\ UNCHANGED <<after, ts, seg, gauge>>
      BY <1>8 DEF CloseEncoder, CloseWriter, Rename, WriteMetadata, LinkLatest, Try, loopVars
    <2>2. seg # Zero /\ gauge = 0 /\ (pc # "closeEncoder" => ~encoder)
      BY <2>1 DEF EInv, EncoderAt, Finishes
    <2> QED BY <2>1, <2>2 DEF EInv, LoopAt, EncoderAt, Finishes, Steps
  <1>9. CASE PruneList \/ PruneFile \/ PruneMeta
    <2>1. /\ pc \in {"list", "pruneFile", "pruneMeta"}
          /\ \/ pc' = after /\ seg' = Zero
             \/ pc' \in {"pruneFile", "pruneMeta"} /\ seg' = seg
          /\ UNCHANGED <<after, ts, encoder, gauge>>
      BY <1>9 DEF PruneList, PruneFile, PruneMeta, loopVars
    <2> QED BY <2>1 DEF EInv, LoopAt, EncoderAt, Finishes, Steps
  <1>10. CASE Cancel
    BY <1>10 DEF Cancel, loopVars, EInv, LoopAt, EncoderAt, Finishes, Steps
  <1>11. CASE Crash \/ Restart
    BY <1>11 DEF Crash, Restart, loopVars, EInv, LoopAt, EncoderAt, Finishes, Steps
  <1>12. CASE UNCHANGED vars
    BY <1>12 DEF vars, EInv, LoopAt, EncoderAt, Finishes, Steps
  <1> QED BY <1>1, <1>2, <1>3, <1>4, <1>5, <1>6, <1>7, <1>8, <1>9, <1>10, <1>11, <1>12
          DEF Next, Loop, Finishing

\* No call that fails, no crash and no cancellation leaves an ffmpeg running
\* without a segment, or the metric off (camera.go:230, 242 and 270).
THEOREM EncoderIsTheSegments == Spec => []EncoderMatchesSegment
  <1>1. Init => EInv
    BY DEF Init, EInv, LoopAt, EncoderAt, Finishes, Steps
  <1>2. EInv => EncoderMatchesSegment
    BY DEF EInv, EncoderAt, EncoderMatchesSegment, AtRest
  <1> QED BY <1>1, <1>2, EInvStep, PTL DEF Spec

-----------------------------------------------------------------------------
(***************************************************************************)
(* The temporary files: at most the open segment has one that neither a    *)
(* crash nor a failed removal left.  What was left belongs to nobody until *)
(* a segment of that start is opened, which takes it over.                 *)
(***************************************************************************)
BeforeRename == {"loop", "begin", "start", "write", "kill", "closeEncoder", "closeWriter",
                 "rename", "stopped"}

FilesAt == /\ pc \in BeforeRename => tmp \ leftover = {seg} \ {Zero}
           /\ pc = "discard" => tmp \ leftover \subseteq {seg}
           /\ pc \notin BeforeRename \cup {"discard"} => tmp \ leftover = {}

Owned == /\ tmp \subseteq Time /\ leftover \subseteq Time
         /\ seg \notin leftover

TInv == EInv /\ FilesAt /\ Owned

\* No call, failing or not, and no crash leaves a temporary file behind that
\* was not one of the open segment.
LEMMA TInvStep == ASSUME TInv, [Next]_vars PROVE TInv'
  <1>z. Zero \notin Time /\ EInv' /\ EInv
    BY EInvStep, RecorderAssumption DEF Zero, Time, TInv
  <1> USE DEF fileVars, ghosts, loopVars
  <1>1. ASSUME NEW t \in Time, NEW jpeg \in BOOLEAN, HandleFrame(t, jpeg) PROVE TInv'
    BY <1>1, <1>z DEF HandleFrame, Finish, TInv, FilesAt, Owned, BeforeRename
  <1>2. CASE CloseInactive \/ Stop
    BY <1>2, <1>z DEF CloseInactive, Stop, Finish, TInv, FilesAt, Owned, BeforeRename
  <1>3. CASE BeginSegment
    <2>1. CASE tmp' = tmp \cup {ts} /\ pc' = "start" /\ seg' = ts /\ leftover' = leftover \ {ts}
      <3>1. tmp \ leftover = {} /\ ts \in Time
        BY <1>3, <1>z DEF BeginSegment, TInv, FilesAt, BeforeRename, EInv, EncoderAt, LoopAt
      <3> QED BY <1>z, <2>1, <3>1 DEF TInv, FilesAt, Owned, BeforeRename
    <2>2. CASE pc' = "loop" /\ UNCHANGED <<tmp, seg, leftover>>
      BY <1>3, <1>z, <2>2 DEF BeginSegment, TInv, FilesAt, Owned, BeforeRename
    <2> QED BY <1>3, <2>1, <2>2 DEF BeginSegment
  <1>4. CASE StartEncoder
    <2>1. seg \in Time
      BY <1>4, <1>z DEF StartEncoder, EInv, EncoderAt, LoopAt
    <2> QED BY <1>4, <1>z, <2>1 DEF StartEncoder, Discard, TInv, FilesAt, Owned, BeforeRename
  <1>5. CASE WriteJPEG
    BY <1>5, <1>z DEF WriteJPEG, Finish, TInv, FilesAt, Owned, BeforeRename
  <1>6. CASE KillEncoder
    BY <1>6, <1>z DEF KillEncoder, TInv, FilesAt, Owned, BeforeRename
  <1>7. CASE DiscardSegment
    BY <1>7, <1>z DEF DiscardSegment, Discard, TInv, FilesAt, Owned, BeforeRename, EInv, LoopAt
  <1>8. CASE CloseEncoder \/ CloseWriter
    BY <1>8, <1>z DEF CloseEncoder, CloseWriter, Try, TInv, FilesAt, Owned, BeforeRename
  <1>9. CASE Rename
    BY <1>9, <1>z DEF Rename, Try, TInv, FilesAt, Owned, BeforeRename
  <1>10. CASE WriteMetadata \/ LinkLatest
    BY <1>10, <1>z DEF WriteMetadata, LinkLatest, Try, TInv, FilesAt, Owned, BeforeRename
  <1>11. CASE PruneList \/ PruneFile \/ PruneMeta
    <2>1. /\ pc \in {"list", "pruneFile", "pruneMeta"}
          /\ \/ pc' = after /\ seg' = Zero
             \/ pc' \in {"pruneFile", "pruneMeta"} /\ seg' = seg
          /\ UNCHANGED <<after, tmp, leftover>>
      BY <1>11 DEF PruneList, PruneFile, PruneMeta
    <2>2. after \in {"loop", "begin", "stopped"} /\ Zero \notin leftover
      BY <1>z DEF EInv, LoopAt, TInv, Owned
    <2> QED BY <1>z, <2>1, <2>2 DEF TInv, FilesAt, Owned, BeforeRename
  <1>12. CASE Cancel
    BY <1>12, <1>z DEF Cancel, TInv, FilesAt, Owned
  <1>13. CASE Crash
    BY <1>13, <1>z DEF Crash, TInv, FilesAt, Owned, BeforeRename
  <1>14. CASE Restart
    <2>1. seg = Zero /\ pc = "down" /\ pc' = "loop" /\ UNCHANGED <<seg, tmp, leftover>>
      BY <1>14, <1>z DEF Restart, EInv, EncoderAt
    <2> QED BY <2>1, <1>z DEF TInv, FilesAt, Owned, BeforeRename
  <1>15. CASE UNCHANGED vars
    BY <1>15, <1>z DEF vars, TInv, FilesAt, Owned
  <1> QED BY <1>1, <1>2, <1>3, <1>4, <1>5, <1>6, <1>7, <1>8, <1>9, <1>10, <1>11, <1>12, <1>13, <1>14,
             <1>15 DEF Next, Loop, Finishing

\* Only a crash, or a removal that fails, strands a temporary file, whatever
\* other call fails and whenever the cancellation comes (camera.go:100-105,
\* 236-237).
THEOREM NothingIsStranded == Spec => []NoStrandedTmp
  <1>1. Init => TInv
    <2> SUFFICES ASSUME Init PROVE TInv
      OBVIOUS
    <2>1. EInv
      BY DEF Init, EInv, LoopAt, EncoderAt, Finishes, Steps
    <2>2. pc = "loop" /\ seg = Zero /\ tmp = {} /\ leftover = {}
      BY DEF Init
    <2> QED BY <2>1, <2>2 DEF TInv, FilesAt, Owned, BeforeRename
  <1>2. TInv => NoStrandedTmp
    BY DEF TInv, FilesAt, NoStrandedTmp, AtRest, BeforeRename
  <1>3. TInv /\ [Next]_vars => TInv'
    BY TInvStep
  <1> QED BY <1>1, <1>2, <1>3, PTL DEF Spec
-----------------------------------------------------------------------------
(***************************************************************************)
(* The archive.  The inductive invariant follows the frame in hand, the    *)
(* open segment and the files: what is on the disk is no later than the    *)
(* open segment, the open segment no later than the frame of the next one, *)
(* and all of it earlier than nextKeepAt.                                  *)
(***************************************************************************)
\* A segment is finished, if there is one, to begin another with the frame in
\* hand.
ForNext == pc = "begin" \/ (pc \in {"closeEncoder"} \cup Finishes /\ after = "begin")

\* The frames that shouldKeep lets through are later than all that was recorded
\* in this run, and no earlier than what a restart finds.
Kept == IF nextKeepAt = Zero
        THEN pc \in {"loop", "stopped", "down"} /\ seg = Zero
        ELSE /\ \A s \in mp4 \cup json : s < nextKeepAt
             /\ \A s \in json : ended[s] < nextKeepAt
             /\ seg < nextKeepAt
             /\ seg # Zero /\ pc # "start" => lastRecorded < nextKeepAt

\* The frame in hand.
InHand == /\ pc \in {"begin", "start", "write"} \/ ForNext => Zero < ts /\ ts < nextKeepAt
          /\ ForNext => /\ \A s \in mp4 \cup json : s <= ts
                        /\ \A s \in json : ended[s] <= ts
                        /\ seg <= ts
                        /\ seg # Zero => lastRecorded <= ts
          /\ pc = "start" => seg = ts
          /\ pc = "write" => seg <= ts /\ ts - seg < duration

\* The open segment.
SegOpen == /\ seg # Zero => /\ \A s \in mp4 \cup json : s <= seg
                            /\ \A s \in json \ {seg} : ended[s] <= seg
           /\ seg # Zero /\ pc # "start" => seg <= lastRecorded /\ lastRecorded - seg < duration

Clock == Kept /\ InHand /\ SegOpen

Completed == {"metadata", "unlink", "link", "list", "pruneFile", "pruneMeta"}

\* The files.  Metadata outlives its segment only where Prune was cut short or
\* failed to remove it, so that a newer segment is there.
Disk == /\ mp4 \subseteq whole
        /\ seg # Zero /\ pc # "discard" => seg \notin failed
        /\ \A s \in json : s <= ended[s] /\ ended[s] - s < duration
        /\ \A s \in json, t \in mp4 \cup json : s < t => ended[s] <= t
        /\ pc \in Completed => seg \in mp4
        /\ \A s \in json \ mp4 : \E t \in mp4 : s < t

\* What Prune removes is older than the new segment and than Keep others, and
\* what it leaves, but for what it cannot remove, is no more than Keep.
Newer(s) == {t \in Listed : t > s}
Pruning == /\ doomed # {} <=> pc \in {"pruneFile", "pruneMeta"}
           /\ pc \in {"pruneFile", "pruneMeta"} =>
                /\ \A s \in doomed : s < seg /\ Cardinality(Newer(s)) >= Keep
                /\ Cardinality((Listed \ stuck) \ doomed) <= Keep
           /\ pc = "pruneFile" => doomed \subseteq Listed
           /\ pc = "pruneMeta" => /\ doomed \ {Min(doomed)} \subseteq Listed
                                  /\ Min(doomed) \in mp4 => Min(doomed) \in stuck

Link == /\ LatestIsThere
        /\ pc = "link" => latest = Zero \/ Zero \in stuck
        /\ pc \in {"list", "pruneFile", "pruneMeta"} => latest \in {Zero, seg} \/ Zero \in stuck

IInv == EInv /\ TypeOK /\ (pc = "down" => run < MaxRuns) /\ Clock /\ Disk /\ Pruning /\ Link

\* The oldest of some segments exists: Min is the least of them.
LEMMA MinIsLeast ==
    ASSUME NEW S \in SUBSET Nat, S # {}
    PROVE  Min(S) \in S /\ \A s \in S : Min(S) <= s
  <1> DEFINE R == OpToRel(<, Nat)
  <1>1. \E x \in S : \A y \in S : ~ (<<y, x>> \in R)
    <2>1. IsWellFoundedOn(R, Nat)
      BY NatLessThanWellFounded
    <2> HIDE DEF R
    <2> QED BY <2>1, WFMin
  <1>2. \A x, y \in Nat : ~ (<<y, x>> \in R) => x <= y
    BY DEF OpToRel
  <1>3. \E x \in S : \A y \in S : x <= y
    BY <1>1, <1>2
  <1> QED BY <1>3 DEF Min

\* Those of a finite set that have fewer than n above them are at most n: all
\* of them but the least are above the least.
LEMMA FewAreNewest ==
    ASSUME NEW S \in SUBSET Nat, IsFiniteSet(S), NEW n \in Nat,
           NEW T \in SUBSET {s \in S : Cardinality({t \in S : t > s}) < n}
    PROVE  IsFiniteSet(T) /\ Cardinality(T) <= n
  <1>1. IsFiniteSet(T) /\ T \in SUBSET Nat
    BY FS_Subset
  <1>2. CASE T = {}
    BY <1>2, FS_EmptySet
  <1>3. CASE T # {}
    <2> DEFINE m == Min(T)
               A == {t \in S : t > m}
    <2>1. m \in T /\ \A t \in T : m <= t
      BY <1>1, <1>3, MinIsLeast
    <2>2. IsFiniteSet(A) /\ Cardinality(A) \in Nat /\ Cardinality(A) < n
      BY <2>1, FS_Subset, FS_CardinalityType
    <2>3. T \subseteq A \cup {m}
      <3> SUFFICES ASSUME NEW t \in T, t # m PROVE t > m
        OBVIOUS
      <3>1. t \in Nat /\ m \in Nat /\ m <= t
        BY <2>1, <1>1
      <3> HIDE DEF A, m
      <3> QED BY <3>1
    <2>4. IsFiniteSet(A \cup {m}) /\ Cardinality(A \cup {m}) <= Cardinality(A) + 1
      <3> HIDE DEF A, m
      <3>1. /\ IsFiniteSet(A \cup {m})
            /\ Cardinality(A \cup {m}) = IF m \in A THEN Cardinality(A) ELSE Cardinality(A) + 1
        BY <2>2, FS_AddElement, Zenon
      <3> QED BY <2>2, <3>1
    <2>5. Cardinality(T) <= Cardinality(A \cup {m})
      <3> HIDE DEF A, m
      <3> QED BY <2>3, <2>4, FS_Subset
    <2>6. Cardinality(T) \in Nat /\ Cardinality(A \cup {m}) \in Nat
      <3> HIDE DEF A, m
      <3> QED BY <1>1, <2>4, FS_CardinalityType
    <2> HIDE DEF A, m
    <2> QED BY <1>1, <2>2, <2>4, <2>5, <2>6
  <1> QED BY <1>2, <1>3

\* Sets of segments are finite.
LEMMA SegmentsAreFinite ==
    ASSUME NEW S \in SUBSET Time
    PROVE  IsFiniteSet(S) /\ Cardinality(S) \in Nat /\ S \in SUBSET Nat
  <1>1. IsFiniteSet(Time)
    <2>1. 1 \in Int /\ MaxTime \in Int
      BY RecorderAssumption
    <2> QED BY <2>1, FS_Interval, Zenon DEF Time
  <1>2. IsFiniteSet(S) /\ Cardinality(S) \in Nat
    BY <1>1, FS_Subset, FS_CardinalityType
  <1> QED BY <1>2 DEF Time

\* shouldKeep comes to an instant after that of the frame, of the steps of
\* Interval that follow the last one.
LEMMA NextIsLater ==
    ASSUME NEW next \in Nat, NEW t \in Nat, next <= t
    PROVE  NextAfter(next, t) \in Nat /\ t < NextAfter(next, t)
  <1> DEFINE d == t - next
  <1>1. d \in Nat /\ Interval \in Nat /\ Interval > 0
    BY RecorderAssumption
  <1>2. d \div Interval \in Nat /\ d % Interval \in 0..(Interval - 1)
        /\ d = Interval * (d \div Interval) + (d % Interval)
    BY <1>1
  <1>3. Interval * (d \div Interval + 1) = Interval * (d \div Interval) + Interval
    BY <1>1, <1>2
  <1>4. Interval * (d \div Interval) \in Nat
    BY <1>1, <1>2
  <1>5. NextAfter(next, t) = next + (Interval * (d \div Interval) + Interval)
    BY <1>3 DEF NextAfter
  <1> HIDE DEF d
  <1>6. t = next + d
    BY DEF d
  <1> DEFINE q == Interval * (d \div Interval)
  <1>7. q \in Nat /\ d < q + Interval
    BY <1>1, <1>2, <1>4
  <1> HIDE DEF q
  <1>8. NextAfter(next, t) = next + (q + Interval)
    BY <1>5 DEF q
  <1> QED BY <1>1, <1>6, <1>7, <1>8

\* Min(doomed), the segment that Prune is at, is one of the doomed.
LEMMA DoomedMin ==
    ASSUME IInv, pc \in {"pruneFile", "pruneMeta"}
    PROVE  /\ Min(doomed) \in doomed /\ Min(doomed) \in Time
           /\ \A s \in doomed : Min(doomed) <= s
  <1>1. doomed # {} /\ doomed \subseteq Time
    BY DEF IInv, Pruning, TypeOK
  <1>2. doomed \in SUBSET Nat
    BY <1>1 DEF Time
  <1>3. Min(doomed) \in doomed /\ \A s \in doomed : Min(doomed) <= s
    BY <1>1, <1>2, MinIsLeast
  <1> QED BY <1>1, <1>3

\* The variables keep their types; a process is down only where it may be
\* started again.
LEMMA TypeStep ==
    ASSUME IInv, [Next]_vars
    PROVE  TypeOK' /\ (pc = "down" => run < MaxRuns)'
  <1>e. EInv /\ EInv' /\ TypeOK /\ (pc = "down" => run < MaxRuns)
    BY EInvStep DEF IInv
  <1>l. /\ pc' \in Steps /\ after' \in {"loop", "begin", "stopped"} /\ encoder' \in BOOLEAN
        /\ seg' \in Time \cup {Zero} /\ ts' \in Time \cup {Zero} /\ gauge' \in 0..1
    BY <1>e DEF EInv, LoopAt, EncoderAt, Steps, Finishes
  <1> DEFINE Rest == /\ {lastRecorded, lastFrameAt, latest} \subseteq Time \cup {Zero}
                     /\ tmp \subseteq Time /\ mp4 \subseteq Time /\ json \subseteq Time
                     /\ ended \in [Time -> Time \cup {Zero}]
                     /\ doomed \subseteq Time
                     /\ whole \subseteq Time /\ failed \subseteq Time /\ leftover \subseteq Time
                     /\ stuck \subseteq Time \cup {Zero}
                     /\ cancelled \in BOOLEAN /\ duration \in Durations
             Counted == nextKeepAt \in Nat /\ run \in 1..MaxRuns /\ (pc = "down" => run < MaxRuns)
  <1> SUFFICES Rest' /\ Counted'
    BY <1>l DEF TypeOK
  <1>r. Rest /\ Counted
    BY <1>e DEF TypeOK
  <1>z. Zero \notin Time /\ Time \subseteq Nat /\ Interval \in Nat /\ Zero \in Nat
    BY RecorderAssumption DEF Zero, Time
  <1> USE DEF fileVars, ghosts, loopVars
  <1>1. ASSUME NEW t \in Time, NEW jpeg \in BOOLEAN, HandleFrame(t, jpeg)
        PROVE  Rest' /\ Counted'
    <2>1. nextKeepAt' \in Nat
      BY <1>1, <1>r, <1>z, NextIsLater DEF HandleFrame
    <2>2. pc' # "down" /\ lastFrameAt' = t
      BY <1>1 DEF HandleFrame, Finish
    <2>3. Rest'
      BY <1>1, <1>r, <2>2 DEF HandleFrame
    <2>4. run' = run
      BY <1>1 DEF HandleFrame
    <2> QED BY <2>1, <2>2, <2>3, <2>4, <1>r
  <1>2. CASE CloseInactive \/ Stop
    BY <1>2, <1>r DEF CloseInactive, Stop, Finish
  <1>3. CASE BeginSegment
    <2>1. ts \in Time
      BY <1>3, <1>z, <1>e DEF BeginSegment, EInv, LoopAt
    <2> QED BY <1>3, <1>r, <2>1 DEF BeginSegment
  <1>4. CASE StartEncoder
    BY <1>4, <1>r, <1>e DEF StartEncoder, Discard, EInv, LoopAt
  <1>5. CASE WriteJPEG
    BY <1>5, <1>r, <1>e DEF WriteJPEG, Finish, EInv, LoopAt
  <1>6. CASE KillEncoder
    BY <1>6, <1>r DEF KillEncoder
  <1>7. CASE DiscardSegment
    <2>1. after # "down"
      BY <1>e DEF EInv, LoopAt
    <2> QED BY <1>7, <1>r, <2>1 DEF DiscardSegment, Discard
  <1>s. pc \in {"closeEncoder"} \cup Finishes => seg \in Time
    BY <1>e, <1>z DEF EInv, EncoderAt, LoopAt, Finishes
  <1>a. after # "down"
    BY <1>e DEF EInv, LoopAt
  <1>8. CASE CloseEncoder \/ CloseWriter
    BY <1>8, <1>r, <1>s DEF CloseEncoder, CloseWriter, Try, Finishes
  <1>9. CASE Rename
    BY <1>9, <1>r, <1>s DEF Rename, Try, Finishes
  <1>10. CASE WriteMetadata
    <2>1. seg \in Time /\ lastRecorded \in Time \cup {Zero}
      BY <1>10, <1>r, <1>s DEF WriteMetadata, Finishes
    <2>2. ended' \in [Time -> Time \cup {Zero}]
      BY <1>10, <2>1, <1>r DEF WriteMetadata
    <2>3. /\ json' \subseteq Time /\ failed' \subseteq Time /\ pc' # "down"
          /\ UNCHANGED <<loopVars, tmp, mp4, latest, doomed, whole, leftover, stuck,
                         cancelled, run, duration>>
      BY <1>10, <2>1, <1>r DEF WriteMetadata, Try
    <2> QED BY <2>2, <2>3, <1>r
  <1>11. CASE LinkLatest
    BY <1>11, <1>r, <1>s DEF LinkLatest, Finishes
  <1>12. CASE PruneList
    <2>1. doomed' \subseteq Time
      BY <1>12, <1>r DEF PruneList, Listed
    <2>2. pc' # "down"
      BY <1>12, <1>a DEF PruneList
    <2>3. UNCHANGED <<loopVars, fileVars, ghosts, cancelled, run, duration>>
      BY <1>12 DEF PruneList
    <2> QED BY <2>1, <2>2, <2>3, <1>r
  <1>13. CASE PruneFile \/ PruneMeta
    <2>1. Min(doomed) \in Time
      BY <1>13, DoomedMin DEF PruneFile, PruneMeta
    <2>2. CASE PruneFile
      BY <2>1, <2>2, <1>r DEF PruneFile
    <2>3. CASE PruneMeta
      BY <2>1, <2>3, <1>r, <1>a DEF PruneMeta
    <2> QED BY <1>13, <2>2, <2>3
  <1>14. CASE Cancel
    BY <1>14, <1>r DEF Cancel
  <1>15. CASE Crash
    BY <1>15, <1>r DEF Crash
  <1>16. CASE Restart
    <2>1. run' \in 1..MaxRuns
      BY <1>16, <1>r, RecorderAssumption DEF Restart
    <2> QED BY <1>16, <2>1, <1>r, <1>z DEF Restart
  <1>17. CASE UNCHANGED vars
    BY <1>17, <1>r DEF vars
  <1> QED BY <1>1, <1>2, <1>3, <1>4, <1>5, <1>6, <1>7, <1>8, <1>9, <1>10, <1>11, <1>12, <1>13, <1>14,
             <1>15, <1>16, <1>17 DEF Next, Loop, Finishing

\* All that the clocks are compared with are naturals.
LEMMA Instants ==
    ASSUME TypeOK
    PROVE  /\ Zero \notin Time /\ Time \subseteq Nat /\ Zero = 0
           /\ mp4 \subseteq Nat /\ json \subseteq Nat /\ json \subseteq Time
           /\ \A s \in json : ended[s] \in Nat
           /\ seg \in Nat /\ ts \in Nat /\ lastRecorded \in Nat /\ nextKeepAt \in Nat
           /\ duration \in Nat /\ duration > 0
  <1>1. Zero \notin Time /\ Time \subseteq Nat /\ Zero = 0
    BY RecorderAssumption DEF Time, Zero
  <1>2. mp4 \subseteq Nat /\ json \subseteq Nat /\ json \subseteq Time
    BY <1>1 DEF TypeOK
  <1> DEFINE Instant == Time \cup {Zero}
  <1>0. Instant \subseteq Nat
    BY <1>1
  <1>3. \A s \in json : ended[s] \in Nat
    <2>1. ended \in [Time -> Instant]
      BY DEF TypeOK
    <2> HIDE DEF Instant
    <2> QED BY <1>0, <1>2, <2>1
  <1>4. seg \in Nat /\ ts \in Nat /\ lastRecorded \in Nat /\ nextKeepAt \in Nat
    <2>1. {seg, ts, lastRecorded} \subseteq Instant /\ nextKeepAt \in Nat
      BY DEF TypeOK
    <2> HIDE DEF Instant
    <2> QED BY <1>0, <2>1
  <1>5. duration \in Nat /\ duration > 0
    BY RecorderAssumption DEF TypeOK
  <1> QED BY <1>1, <1>2, <1>3, <1>4, <1>5

\* Finishing the open segment, to begin the next only where the frame in hand
\* is later than everything.
LEMMA FinishClock ==
    ASSUME IInv, pc \in {"loop", "write"}, NEW next \in {"loop", "begin", "stopped"}, Finish(next),
           UNCHANGED <<mp4, json, ended, duration>>,
           Kept', seg # Zero => seg <= lastRecorded' /\ lastRecorded' - seg < duration,
           next = "begin" => /\ Zero < ts' /\ ts' < nextKeepAt' /\ seg <= ts'
                             /\ \A s \in mp4 \cup json : s <= ts'
                             /\ \A s \in json : ended[s] <= ts'
                             /\ seg # Zero => lastRecorded' <= ts'
    PROVE  Clock'
  <1>1. SegOpen /\ TRUE
    BY Instants DEF IInv, Clock
  <1>2. SegOpen'
    BY <1>1 DEF SegOpen, Finish, Finishes
  <1>3. InHand'
    BY <1>1 DEF InHand, ForNext, Finish, Finishes
  <1> QED BY <1>2, <1>3 DEF Clock

\* Frames of any timestamps, failures, crashes and restarts leave the files, the
\* open segment and the frame in hand in this order.
LEMMA ClockStep == ASSUME IInv, [Next]_vars PROVE Clock'
  <1>c. Kept /\ InHand /\ SegOpen
    BY DEF IInv, Clock
  <1>e. EInv /\ EInv' /\ TypeOK /\ Pruning
    BY EInvStep DEF IInv
  <1>t. TypeOK'
    BY TypeStep
  <1>z. /\ Zero \notin Time /\ Time \subseteq Nat /\ Zero = 0
        /\ mp4 \subseteq Nat /\ json \subseteq Nat /\ json \subseteq Time
        /\ \A s \in json : ended[s] \in Nat
        /\ seg \in Nat /\ ts \in Nat /\ lastRecorded \in Nat /\ nextKeepAt \in Nat
        /\ duration \in Nat /\ duration > 0
    BY <1>e, Instants
  <1> USE DEF fileVars, ghosts, loopVars
  <1>1. ASSUME NEW t \in Time, NEW jpeg \in BOOLEAN, Arrives(t), HandleFrame(t, jpeg)
        PROVE  Clock'
    <2>0. /\ pc = "loop" /\ ts' = t /\ t \in Nat /\ 0 < t
          /\ UNCHANGED <<lastRecorded, mp4, json, ended, duration>>
      BY <1>1, <1>z DEF HandleFrame
    <2>1. CASE UNCHANGED <<pc, after, seg, encoder, gauge, nextKeepAt>>
      BY <2>0, <2>1, <1>c DEF Clock, Kept, InHand, SegOpen, ForNext, Finishes
    <2>2. CASE nextKeepAt' = (IF nextKeepAt = Zero THEN t + Interval ELSE NextAfter(nextKeepAt, t))
               /\ (nextKeepAt = Zero \/ t >= nextKeepAt)
      <3>1. nextKeepAt' \in Nat /\ t < nextKeepAt'
        BY <1>z, <2>0, <2>2, NextIsLater, RecorderAssumption
      <3>2. /\ \A s \in mp4 \cup json : s <= t
            /\ \A s \in json : ended[s] <= t
            /\ seg <= t /\ (seg # Zero => lastRecorded <= t)
        <4>1. CASE nextKeepAt = Zero
          BY <1>1, <4>1, <1>z, <1>c, <2>0 DEF Arrives, Kept
        <4>2. CASE nextKeepAt # Zero
          BY <4>2, <1>z, <1>c, <2>0, <2>2 DEF Kept
        <4> QED BY <4>1, <4>2
      <3>3. nextKeepAt' # Zero /\ seg' = seg
        BY <1>1, <1>z, <3>1, <2>0 DEF HandleFrame, Finish
      <3>4. Kept'
        BY <3>1, <3>2, <3>3, <2>0, <1>z DEF Kept
      <3>5. seg # Zero => seg <= lastRecorded /\ lastRecorded - seg < duration
        BY <1>c, <2>0 DEF SegOpen
      <3>6. CASE pc' = "begin" /\ seg = Zero
        BY <3>1, <3>2, <3>3, <3>4, <3>6, <2>0, <1>z DEF Clock, InHand, SegOpen, ForNext, Finishes
      <3>7. CASE pc' = "write" /\ seg # Zero /\ ~TooOld(seg, t)
        BY <3>1, <3>2, <3>3, <3>4, <3>5, <3>7, <2>0, <1>c, <1>z
           DEF Clock, InHand, SegOpen, ForNext, Finishes, TooOld
      <3>8. CASE Finish("begin")
        BY <3>1, <3>2, <3>3, <3>4, <3>5, <3>8, <2>0, <1>z, FinishClock
      <3> QED BY <1>1, <2>2, <2>1, <3>6, <3>7, <3>8 DEF HandleFrame
    <2> QED BY <1>1, <2>1, <2>2 DEF HandleFrame
  <1>2. CASE CloseInactive \/ Stop
    <2>1. /\ pc = "loop"
          /\ Finish("loop") \/ Finish("stopped")
          /\ UNCHANGED <<ts, lastRecorded, nextKeepAt, mp4, json, ended, duration, seg>>
      BY <1>2 DEF CloseInactive, Stop, Finish
    <2>2. Kept' /\ (seg # Zero => seg <= lastRecorded /\ lastRecorded - seg < duration)
      <3>1. nextKeepAt = Zero => pc' \in {"loop", "stopped"}
        BY <1>2, <2>1, <1>c DEF Kept, CloseInactive, Stop, Finish
      <3>2. pc = "loop"
        BY <1>2 DEF CloseInactive, Stop
      <3> QED BY <2>1, <3>1, <3>2, <1>c DEF Kept, SegOpen
    <2>3. pc = "loop"
      BY <1>2 DEF CloseInactive, Stop
    <2> QED BY <2>1, <2>2, <2>3, FinishClock
  <1>3. CASE BeginSegment
    <2>1. pc = "begin" /\ seg = Zero /\ UNCHANGED <<ts, after, nextKeepAt, mp4, json, ended, duration,
                                                    lastRecorded>>
      BY <1>3, <1>e DEF BeginSegment, EInv, EncoderAt
    <2>2. /\ 0 < ts /\ ts < nextKeepAt
          /\ \A s \in mp4 \cup json : s <= ts
          /\ \A s \in json : ended[s] <= ts
      BY <2>1, <1>c, <1>z DEF InHand, ForNext
    <2>3. CASE pc' = "start" /\ seg' = ts
      BY <2>1, <2>2, <2>3, <1>c, <1>z DEF Clock, Kept, InHand, SegOpen, ForNext, Finishes
    <2>4. CASE pc' = "loop" /\ seg' = seg
      BY <2>1, <2>2, <2>4, <1>c, <1>z DEF Clock, Kept, InHand, SegOpen, ForNext, Finishes
    <2> QED BY <1>3, <2>3, <2>4 DEF BeginSegment
  <1>4. CASE StartEncoder
    <2>1. /\ pc = "start" /\ seg = ts /\ 0 < ts /\ ts < nextKeepAt
          /\ UNCHANGED <<ts, after, nextKeepAt, mp4, json, ended, duration>>
      BY <1>4, <1>c, <1>z DEF StartEncoder, InHand
    <2>2. CASE lastRecorded' = ts /\ pc' = "write" /\ seg' = seg
      BY <2>1, <2>2, <1>c, <1>z DEF Clock, Kept, InHand, SegOpen, ForNext, Finishes
    <2>3. CASE pc' = "loop" /\ seg' = Zero
      BY <2>1, <2>3, <1>c, <1>z DEF Clock, Kept, InHand, SegOpen, ForNext, Finishes
    <2> QED BY <1>4, <2>2, <2>3 DEF StartEncoder
  <1>5. CASE WriteJPEG
    <2>1. /\ pc = "write" /\ 0 < ts /\ ts < nextKeepAt /\ seg <= ts /\ ts - seg < duration
          /\ seg # Zero /\ seg' = seg
          /\ UNCHANGED <<ts, nextKeepAt, mp4, json, ended, duration>>
      BY <1>5, <1>c, <1>z, <1>e DEF WriteJPEG, InHand, EInv, EncoderAt, Finish
    <2>2. CASE lastRecorded' = ts /\ (pc' = "loop" \/ Finish("loop"))
      <3>1. Kept' /\ (seg # Zero => seg <= lastRecorded' /\ lastRecorded' - seg < duration)
        BY <2>1, <2>2, <1>c, <1>z DEF Kept
      <3>2. CASE Finish("loop")
        BY <2>1, <3>1, <3>2, FinishClock
      <3>3. CASE pc' = "loop"
        BY <2>1, <3>1, <3>3, <1>c, <1>z DEF Clock, InHand, SegOpen, ForNext, Finishes
      <3> QED BY <2>2, <3>2, <3>3
    <2>3. CASE pc' = "kill" /\ lastRecorded' = lastRecorded
      BY <2>1, <2>3, <1>c, <1>z DEF Clock, Kept, InHand, SegOpen, ForNext, Finishes
    <2> QED BY <1>5, <2>2, <2>3 DEF WriteJPEG
  <1>6. CASE KillEncoder
    BY <1>6, <1>c, <1>z DEF KillEncoder, Clock, Kept, InHand, SegOpen, ForNext, Finishes
  <1>7. CASE DiscardSegment
    <2>1. /\ pc = "discard" /\ seg' = Zero /\ pc' = after /\ seg # Zero
          /\ UNCHANGED <<after, ts, lastRecorded, nextKeepAt, mp4, json, ended, duration>>
      BY <1>7, <1>e DEF DiscardSegment, EInv, EncoderAt, Finishes
    <2> QED BY <2>1, <1>c, <1>z, <1>e DEF Clock, Kept, InHand, SegOpen, ForNext, Finishes, EInv, LoopAt
  <1>8. CASE CloseEncoder \/ CloseWriter \/ LinkLatest
    <2>1. /\ pc \in {"closeEncoder"} \cup Finishes /\ pc' \in Finishes
          /\ UNCHANGED <<after, ts, seg, lastRecorded, nextKeepAt, mp4, json, ended, duration>>
      BY <1>8 DEF CloseEncoder, CloseWriter, LinkLatest, Try, Finishes
    <2> QED BY <2>1, <1>c, <1>z DEF Clock, Kept, InHand, SegOpen, ForNext, Finishes
  <1>9. CASE Rename
    <2>1. /\ pc = "rename" /\ pc' \in {"metadata", "discard"} /\ seg # Zero
          /\ mp4' \subseteq mp4 \cup {seg}
          /\ UNCHANGED <<after, ts, seg, lastRecorded, nextKeepAt, json, ended, duration>>
      BY <1>9, <1>e DEF Rename, Try, EInv, EncoderAt, Finishes
    <2> QED BY <2>1, <1>c, <1>z DEF Clock, Kept, InHand, SegOpen, ForNext, Finishes
  <1>10. CASE WriteMetadata
    <2>1. /\ pc = "metadata" /\ pc' \in {"unlink", "discard"} /\ seg # Zero /\ seg \in Time
          /\ UNCHANGED <<after, ts, seg, lastRecorded, nextKeepAt, mp4, duration>>
      BY <1>10, <1>e DEF WriteMetadata, Try, EInv, EncoderAt, LoopAt, Finishes
    <2>2. /\ json' \subseteq json \cup {seg}
          /\ \A s \in json' : ended'[s] = IF s = seg /\ pc' = "unlink" THEN lastRecorded ELSE ended[s]
      BY <1>10, <2>1, <1>e DEF WriteMetadata, TypeOK
    <2>3. \A s \in json' : s \in json \/ (s = seg /\ ended'[s] = lastRecorded)
      BY <1>10, <2>1, <2>2 DEF WriteMetadata
    <2>4. seg <= lastRecorded /\ lastRecorded < nextKeepAt /\ nextKeepAt # Zero
      BY <2>1, <1>c, <1>z DEF SegOpen, Kept
    <2>5. /\ \A s \in json' : s <= seg /\ s < nextKeepAt /\ ended'[s] < nextKeepAt
          /\ \A s \in json' \ {seg} : ended'[s] <= seg
      BY <2>1, <2>2, <2>3, <2>4, <1>c, <1>z DEF Kept, SegOpen
    <2>6. ForNext => \A s \in json' : ended'[s] <= ts /\ s <= ts
      BY <2>1, <2>2, <2>3, <2>4, <2>5, <1>c, <1>z DEF InHand
    <2> QED BY <2>1, <2>4, <2>5, <2>6, <1>c, <1>z DEF Clock, Kept, InHand, SegOpen, ForNext, Finishes
  <1>11. CASE PruneList \/ PruneFile \/ PruneMeta
    <2>1. /\ pc \in Finishes /\ pc # "discard" /\ seg # Zero
          /\ \/ pc' = after /\ seg' = Zero
             \/ pc' \in Finishes /\ seg' = seg
          /\ mp4' \subseteq mp4 /\ json' \subseteq json
          /\ UNCHANGED <<after, ts, lastRecorded, nextKeepAt, ended, duration>>
      <3>1. pc \in {"list", "pruneFile", "pruneMeta"}
        BY <1>11 DEF PruneList, PruneFile, PruneMeta
      <3>2. seg # Zero
        BY <3>1, <1>e DEF Finishes, EInv, EncoderAt
      <3>3. /\ \/ pc' = after /\ seg' = Zero
               \/ pc' \in {"pruneFile", "pruneMeta"} /\ seg' = seg
            /\ mp4' \subseteq mp4 /\ json' \subseteq json
            /\ UNCHANGED <<after, ts, lastRecorded, nextKeepAt, ended, duration>>
        <4>1. CASE PruneList
          BY <4>1 DEF PruneList
        <4>2. CASE PruneFile
          BY <4>2 DEF PruneFile
        <4>3. CASE PruneMeta
          BY <4>3 DEF PruneMeta
        <4> QED BY <1>11, <4>1, <4>2, <4>3
      <3> QED BY <3>1, <3>2, <3>3 DEF Finishes
    <2>2. after \in {"loop", "begin", "stopped"}
      BY <1>e DEF EInv, LoopAt
    <2>3. ForNext' => ForNext
      BY <2>1, <2>2 DEF ForNext, Finishes
    <2>4. pc' \notin {"start", "write"} /\ nextKeepAt # Zero
      BY <2>1, <2>2, <1>c DEF Finishes, Kept
    <2>5. Kept'
      BY <2>1, <2>4, <1>c, <1>z DEF Kept, Finishes
    <2>6. InHand'
      <3>1. CASE ~ForNext'
        BY <3>1, <2>4, <2>1 DEF InHand, ForNext
      <3>2. CASE ForNext'
        <4>1. pc # "start" /\ ForNext /\ seg' \in {Zero, seg}
          BY <2>1, <2>3, <3>2 DEF Finishes
        <4>2. /\ Zero < ts /\ ts < nextKeepAt
              /\ \A s \in mp4 \cup json : s <= ts
              /\ \A s \in json : ended[s] <= ts
              /\ seg <= ts /\ (seg # Zero => lastRecorded <= ts)
          BY <4>1, <1>c DEF InHand
        <4>3. ts' = ts /\ nextKeepAt' = nextKeepAt /\ lastRecorded' = lastRecorded /\ ended' = ended
          BY <2>1
        <4>4. /\ \A s \in mp4' \cup json' : s <= ts'
              /\ \A s \in json' : ended'[s] <= ts'
              /\ seg' <= ts' /\ (seg' # Zero => lastRecorded' <= ts')
          BY <2>1, <4>1, <4>2, <4>3, <1>z
        <4> QED BY <2>4, <4>2, <4>3, <4>4 DEF InHand
      <3> QED BY <3>1, <3>2
    <2>7. SegOpen'
      BY <2>1, <1>c, <1>z DEF SegOpen, Finishes
    <2> QED BY <2>5, <2>6, <2>7 DEF Clock
  <1>12. CASE Cancel \/ UNCHANGED vars
    BY <1>12, <1>c DEF Cancel, vars, Clock, Kept, InHand, SegOpen, ForNext, Finishes
  <1>13. CASE Crash
    BY <1>13, <1>c, <1>z DEF Crash, Clock, Kept, InHand, SegOpen, ForNext, Finishes
  <1>14. CASE Restart
    BY <1>14, <1>c, <1>z, <1>e DEF Restart, Clock, Kept, InHand, SegOpen, ForNext, Finishes, EInv, EncoderAt
  <1> QED BY <1>1, <1>2, <1>3, <1>4, <1>5, <1>6, <1>7, <1>8, <1>9, <1>10, <1>11, <1>12, <1>13, <1>14
          DEF Next, Loop, Finishing

\* A call that leaves the files alone leaves them as they were: what can still
\* go wrong is only where the loop goes.
LEMMA DiskUntouched ==
    ASSUME Disk, UNCHANGED <<mp4, json, ended, whole, duration>>,
           seg' # Zero /\ pc' # "discard" => seg' \notin failed',
           pc' \in Completed => pc \in Completed /\ seg' = seg
    PROVE  Disk'
  BY DEF Disk

\* No failure, crash or removal leaves half a file, an overlap, or metadata
\* that is not a newer segment's.
LEMMA DiskStep == ASSUME IInv, [Next]_vars PROVE Disk'
  <1>d. Disk /\ Clock /\ Pruning
    BY DEF IInv
  <1>e. EInv /\ EInv' /\ TypeOK
    BY EInvStep DEF IInv
  <1>z. /\ Zero \notin Time /\ Time \subseteq Nat /\ Zero = 0
        /\ mp4 \subseteq Nat /\ json \subseteq Nat /\ json \subseteq Time
        /\ \A s \in json : ended[s] \in Nat
        /\ seg \in Nat /\ ts \in Nat /\ lastRecorded \in Nat /\ nextKeepAt \in Nat
        /\ duration \in Nat /\ duration > 0
    BY <1>e, Instants
  <1>f. seg # Zero /\ pc # "discard" => seg \notin failed
    BY <1>d DEF Disk
  <1>a. after \in {"loop", "begin", "stopped"}
    BY <1>e DEF EInv, LoopAt
  <1> USE DEF fileVars, ghosts, loopVars
  <1>1. ASSUME NEW t \in Time, NEW jpeg \in BOOLEAN, HandleFrame(t, jpeg) PROVE Disk'
    <2>1. /\ UNCHANGED <<mp4, json, ended, whole, duration, failed, seg>> /\ pc = "loop"
          /\ pc' \notin Completed
      BY <1>1 DEF HandleFrame, Finish, Completed
    <2> QED BY <2>1, <1>d, <1>f, DiskUntouched
  <1>2. CASE CloseInactive \/ Stop
    <2>1. /\ UNCHANGED <<mp4, json, ended, whole, duration, failed, seg>> /\ pc = "loop"
          /\ pc' \notin Completed
      BY <1>2 DEF CloseInactive, Stop, Finish, Completed
    <2> QED BY <2>1, <1>d, <1>f, DiskUntouched
  <1>3. CASE BeginSegment
    <2>1. /\ UNCHANGED <<mp4, json, ended, whole, duration>> /\ pc' \notin Completed
          /\ seg = Zero /\ (seg' # Zero => seg' \notin failed')
      BY <1>3, <1>e DEF BeginSegment, Completed, EInv, EncoderAt
    <2> QED BY <2>1, <1>d, DiskUntouched
  <1>4. CASE StartEncoder
    <2>1. /\ UNCHANGED <<mp4, json, ended, whole, duration, failed>> /\ pc' \notin Completed
          /\ pc = "start" /\ seg' \in {seg, Zero}
      BY <1>4 DEF StartEncoder, Completed
    <2> QED BY <2>1, <1>d, <1>f, DiskUntouched
  <1>5. CASE WriteJPEG
    <2>1. /\ UNCHANGED <<mp4, json, ended, whole, duration, failed, seg>> /\ pc' \notin Completed
          /\ pc = "write"
      BY <1>5 DEF WriteJPEG, Finish, Completed
    <2> QED BY <2>1, <1>d, <1>f, DiskUntouched
  <1>6. CASE KillEncoder \/ DiscardSegment
    <2>1. /\ UNCHANGED <<mp4, json, ended, whole, duration, failed>> /\ pc' \notin Completed
          /\ seg' = Zero \/ pc' = "discard"
      BY <1>6, <1>a DEF KillEncoder, DiscardSegment, Completed
    <2> QED BY <2>1, <1>d, DiskUntouched
  <1>7. CASE CloseEncoder \/ CloseWriter
    <2>1. /\ UNCHANGED <<mp4, json, ended, whole, duration, seg>> /\ pc' \notin Completed
          /\ pc # "discard" /\ (pc' = "discard" \/ failed' = failed)
      BY <1>7 DEF CloseEncoder, CloseWriter, Try, Completed
    <2> QED BY <2>1, <1>d, <1>f, DiskUntouched
  <1>8. CASE Rename
    <2>1. CASE pc' = "discard"
      <3>1. UNCHANGED <<mp4, json, ended, whole, duration>>
        BY <1>8, <2>1 DEF Rename
      <3> QED BY <2>1, <3>1, <1>d, DiskUntouched DEF Completed
    <2>2. CASE pc' = "metadata"
      <3>1. /\ seg # Zero /\ seg \notin failed /\ seg' = seg /\ failed' = failed
            /\ mp4' = mp4 \cup {seg} /\ whole' = whole \cup {seg}
            /\ UNCHANGED <<json, ended, duration>>
        BY <1>8, <1>e, <1>f, <2>2 DEF Rename, Try, EInv, EncoderAt, Finishes
      <3>2. /\ \A s \in mp4 \cup json : s <= seg
            /\ \A s \in json : s < seg => ended[s] <= seg
        BY <3>1, <1>d, <1>z DEF Clock, SegOpen
      <3>3. \A s \in json, t \in mp4' \cup json : s < t => ended[s] <= t
        BY <3>1, <3>2, <1>d DEF Disk
      <3> QED BY <3>1, <3>3, <1>d DEF Disk
    <2> QED BY <1>8, <2>1, <2>2 DEF Rename, Try
  <1>9. CASE WriteMetadata
    <2>0. seg # Zero /\ pc = "metadata" /\ seg' = seg /\ UNCHANGED <<mp4, whole, duration>> /\ seg \in Time
      BY <1>9, <1>e DEF WriteMetadata, EInv, EncoderAt, LoopAt, Finishes
    <2>1. seg \in mp4 /\ seg \notin failed
      BY <2>0, <1>d DEF Disk, Completed
    <2>2. CASE pc' = "discard"
      <3>1. json' \subseteq json /\ ended' = ended
        BY <1>9, <2>2 DEF WriteMetadata
      <3> QED BY <2>0, <2>2, <3>1, <1>d DEF Disk, Completed
    <2>3. CASE pc' = "unlink" /\ failed' = failed
      <3>1. json' = json \cup {seg} /\ ended'[seg] = lastRecorded /\ ended' = [ended EXCEPT ![seg] = lastRecorded]
        BY <1>9, <2>3, <2>0, <1>e DEF WriteMetadata, TypeOK
      <3>2. \A s \in json' : s # seg => s \in json /\ ended'[s] = ended[s]
        BY <3>1, <1>z
      <3>3. seg <= lastRecorded /\ lastRecorded - seg < duration
        BY <2>0, <1>d DEF Clock, SegOpen
      <3>4. \A s \in json' : s <= ended'[s] /\ ended'[s] - s < duration
        BY <3>1, <3>2, <3>3, <1>d DEF Disk
      <3>5. \A t \in mp4 \cup json' : t <= seg /\ t \in Nat
        BY <3>1, <2>0, <1>d, <1>z DEF Clock, SegOpen
      <3>6. \A s \in json', t \in mp4 \cup json' : s < t => ended'[s] <= t
        <4> SUFFICES ASSUME NEW s \in json', NEW t \in mp4 \cup json', s < t PROVE ended'[s] <= t
          OBVIOUS
        <4>1. s # seg /\ s \in json /\ ended'[s] = ended[s]
          BY <3>2, <3>5, <1>z
        <4>2. CASE t = seg
          BY <4>1, <4>2, <2>0, <1>d DEF Clock, SegOpen
        <4>3. CASE t # seg
          BY <4>1, <4>3, <3>2, <1>d DEF Disk
        <4> QED BY <4>2, <4>3
      <3>7. \A s \in json' \ mp4 : \E t \in mp4 : s < t
        BY <2>1, <3>2, <1>d DEF Disk
      <3>8. mp4 \subseteq whole
        BY <1>d DEF Disk
      <3> QED BY <2>0, <2>1, <2>3, <3>4, <3>6, <3>7, <3>8 DEF Disk
    <2> QED BY <1>9, <2>2, <2>3 DEF WriteMetadata, Try
  <1>10. CASE LinkLatest
    <2>1. /\ UNCHANGED <<mp4, json, ended, whole, duration, failed, seg>>
          /\ pc \in {"unlink", "link"}
      BY <1>10 DEF LinkLatest
    <2> QED BY <2>1, <1>d, <1>f, DiskUntouched DEF Completed
  <1>11. CASE PruneList
    <2>1. /\ UNCHANGED <<mp4, json, ended, whole, duration, failed>>
          /\ pc = "list"
          /\ \/ pc' = after /\ seg' = Zero
             \/ pc' = "pruneFile" /\ seg' = seg
      BY <1>11 DEF PruneList
    <2> QED BY <2>1, <1>d, <1>f, <1>a, DiskUntouched DEF Completed
  <1>12. CASE PruneFile
    <2>1. /\ pc = "pruneFile" /\ pc' = "pruneMeta" /\ mp4' \subseteq mp4 /\ mp4 \subseteq mp4' \cup {Min(doomed)}
          /\ UNCHANGED <<json, ended, whole, duration, failed, seg>>
      BY <1>12 DEF PruneFile
    <2>2. Min(doomed) < seg /\ seg \in mp4 /\ Min(doomed) \in Time
      BY <2>1, <1>d, DoomedMin DEF Pruning, Disk, Completed
    <2>3. seg \in mp4'
      BY <2>1, <2>2, <1>z
    <2>4. \A s \in json \ mp4' : \E t \in mp4' : s < t
      <3> SUFFICES ASSUME NEW s \in json, s \notin mp4' PROVE s < seg
        BY <2>3
      <3>1. CASE s = Min(doomed)
        BY <3>1, <2>2
      <3>2. CASE s # Min(doomed)
        <4>1. PICK t \in mp4 : s < t
          BY <3>2, <2>1, <1>d DEF Disk
        <4>2. t <= seg /\ t \in Nat /\ s \in Nat
          <5>1. seg # Zero
            BY <2>1, <1>e DEF EInv, EncoderAt, Finishes
          <5> QED BY <5>1, <1>d, <1>z DEF Clock, SegOpen
        <4> QED BY <4>1, <4>2, <1>z
      <3> QED BY <3>1, <3>2
    <2> QED BY <2>1, <2>3, <2>4, <1>d DEF Disk, Completed
  <1>13. CASE PruneMeta
    <2>1. /\ pc = "pruneMeta" /\ json' \subseteq json
          /\ UNCHANGED <<mp4, ended, whole, duration, failed>>
          /\ \/ pc' = after /\ seg' = Zero
             \/ pc' = "pruneFile" /\ seg' = seg
      BY <1>13 DEF PruneMeta
    <2> QED BY <2>1, <1>d, <1>a DEF Disk, Completed
  <1>14. CASE Cancel \/ UNCHANGED vars
    BY <1>14, <1>d DEF Cancel, vars, Disk
  <1>15. CASE Crash
    BY <1>15, <1>d DEF Crash, Disk, Completed
  <1>16. CASE Restart
    <2>1. seg = Zero
      BY <1>16, <1>e DEF Restart, EInv, EncoderAt
    <2> QED BY <1>16, <2>1, <1>d DEF Restart, Disk, Completed
  <1> QED BY <1>1, <1>2, <1>3, <1>4, <1>5, <1>6, <1>7, <1>8, <1>9, <1>10, <1>11, <1>12, <1>13, <1>14,
             <1>15, <1>16 DEF Next, Loop, Finishing

\* Prune removes the oldest first, so that those newer than a segment that has
\* still to be removed stay as they are.
LEMMA LinkStep == ASSUME IInv, [Next]_vars PROVE Link'
  <1>d. Link /\ Disk /\ Pruning
    BY DEF IInv
  <1>e. EInv /\ TypeOK /\ Zero \notin Time
    BY Instants DEF IInv
  <1>a. after \in {"loop", "begin", "stopped"}
    BY <1>e DEF EInv, LoopAt
  <1> USE DEF fileVars, ghosts, loopVars
  <1>1. ASSUME NEW t \in Time, NEW jpeg \in BOOLEAN, HandleFrame(t, jpeg) PROVE Link'
    BY <1>1, <1>d DEF HandleFrame, Finish, Link, LatestIsThere
  <1>2. CASE CloseInactive \/ Stop
    BY <1>2, <1>d DEF CloseInactive, Stop, Finish, Link, LatestIsThere
  <1>3. CASE BeginSegment \/ StartEncoder
    BY <1>3, <1>d DEF BeginSegment, StartEncoder, Link, LatestIsThere
  <1>4. CASE WriteJPEG
    BY <1>4, <1>d DEF WriteJPEG, Finish, Link, LatestIsThere
  <1>5. CASE KillEncoder \/ DiscardSegment
    BY <1>5, <1>d, <1>a DEF KillEncoder, DiscardSegment, Link, LatestIsThere
  <1>6. CASE CloseEncoder \/ CloseWriter
    BY <1>6, <1>d DEF CloseEncoder, CloseWriter, Try, Link, LatestIsThere
  <1>7. CASE Rename \/ WriteMetadata
    BY <1>7, <1>d DEF Rename, WriteMetadata, Try, Link, LatestIsThere
  <1>8. CASE LinkLatest
    <2>1. seg \in mp4
      BY <1>8, <1>d DEF LinkLatest, Disk, Completed
    <2> QED BY <1>8, <2>1, <1>d DEF LinkLatest, Link, LatestIsThere
  <1>9. CASE PruneList
    BY <1>9, <1>d, <1>a DEF PruneList, Link, LatestIsThere
  <1>10. CASE PruneFile
    <2>1. /\ pc = "pruneFile" /\ pc' = "pruneMeta" /\ UNCHANGED <<latest, seg>>
          /\ mp4 \subseteq mp4' \cup {Min(doomed)} /\ stuck \subseteq stuck'
          /\ Zero \in stuck' => Zero \in stuck \/ Zero = Min(doomed)
      BY <1>10 DEF PruneFile
    <2>2. Min(doomed) # seg /\ Min(doomed) # Zero
      <3>1. Min(doomed) < seg /\ Min(doomed) \in Nat /\ seg \in Nat /\ Min(doomed) \in Time
        BY <2>1, <1>d, <1>e, DoomedMin, Instants DEF Pruning
      <3> QED BY <3>1, <1>e
    <2> QED BY <2>1, <2>2, <1>d DEF Link, LatestIsThere
  <1>11. CASE PruneMeta
    BY <1>11, <1>d, <1>a DEF PruneMeta, Link, LatestIsThere
  <1>12. CASE Cancel \/ UNCHANGED vars
    BY <1>12, <1>d DEF Cancel, vars, Link, LatestIsThere
  <1>13. CASE Crash \/ Restart
    BY <1>13, <1>d DEF Crash, Restart, Link, LatestIsThere
  <1> QED BY <1>1, <1>2, <1>3, <1>4, <1>5, <1>6, <1>7, <1>8, <1>9, <1>10, <1>11, <1>12, <1>13
          DEF Next, Loop, Finishing

\* Prune dooms none but segments older than Keep others and the new one, and
\* all of those.
LEMMA PruneListDooms ==
    ASSUME IInv, PruneList, doomed' # {}
    PROVE  Pruning'
  <1> USE DEF fileVars, ghosts, loopVars
  <1>1. /\ pc = "list" /\ pc' = "pruneFile" /\ seg' = seg
        /\ doomed' = {s \in Listed : Cardinality(Newer(s)) >= Keep}
        /\ UNCHANGED <<mp4, json, stuck>>
    BY DEF PruneList, Newer
  <1>2. Listed' = Listed /\ \A s : Newer(s)' = Newer(s)
    BY <1>1 DEF Listed, Newer
  <1>3. Listed \in SUBSET Time /\ Listed \in SUBSET Nat /\ IsFiniteSet(Listed) /\ Keep \in Nat /\ Keep > 0
    BY SegmentsAreFinite, RecorderAssumption DEF IInv, TypeOK, Listed
  <1>4. seg # Zero /\ seg \in Nat /\ \A s \in Listed : s <= seg
    BY <1>1, Instants DEF IInv, EInv, EncoderAt, Finishes, Clock, SegOpen, Listed
  <1>5. ASSUME NEW s \in doomed' PROVE s < seg
    <2>1. s \in Listed /\ s \in Nat /\ s <= seg /\ Cardinality(Newer(s)) >= Keep
      BY <1>1, <1>3, <1>4, <1>5
    <2>2. ASSUME s = seg PROVE FALSE
      <3>1. \A t \in Listed : ~(t > s)
        BY <2>2, <1>3, <1>4
      <3>2. Newer(s) = {}
        BY <3>1 DEF Newer
      <3> QED BY <3>2, <2>1, <1>3, FS_EmptySet
    <2> QED BY <2>1, <2>2, <1>4
  <1>6. Cardinality((Listed \ stuck) \ doomed') <= Keep
    <2> DEFINE T == (Listed \ stuck) \ doomed'
    <2>1. \A s \in Listed : Cardinality(Newer(s)) \in Nat
      BY <1>3, SegmentsAreFinite DEF Newer
    <2>2. T \in SUBSET {s \in Listed : Cardinality({t \in Listed : t > s}) < Keep}
      <3>1. \A s \in T : s \in Listed /\ ~(Cardinality(Newer(s)) >= Keep)
        BY <1>1
      <3>2. \A s \in T : s \in Listed /\ Cardinality(Newer(s)) < Keep
        BY <1>3, <2>1, <3>1
      <3> HIDE DEF T
      <3> QED BY <3>2 DEF Newer
    <2> HIDE DEF T
    <2>3. Cardinality(T) <= Keep
      BY <2>2, <1>3, FewAreNewest
    <2> QED BY <2>3 DEF T
  <1> QED BY <1>1, <1>2, <1>5, <1>6 DEF Pruning

\* A file that Prune has passed is gone, or could not be removed.
LEMMA PruneFileKeeps == ASSUME IInv, PruneFile PROVE Pruning'
  <1> USE DEF fileVars, ghosts, loopVars
  <1> DEFINE m == Min(doomed)
  <1>1. /\ pc = "pruneFile" /\ pc' = "pruneMeta" /\ UNCHANGED <<seg, json, doomed>>
        /\ mp4' \subseteq mp4 /\ mp4 \subseteq mp4' \cup {m}
        /\ stuck \subseteq stuck' /\ (m \in mp4' => m \in stuck')
    BY DEF PruneFile
  <1>2. /\ doomed # {} /\ doomed \subseteq Listed
        /\ \A s \in doomed : s < seg /\ Cardinality(Newer(s)) >= Keep
        /\ Cardinality((Listed \ stuck) \ doomed) <= Keep
    BY <1>1 DEF IInv, Pruning
  <1>3. m \in doomed /\ \A s \in doomed : m <= s
    BY <1>1, DoomedMin
  <1>4. Listed \subseteq Nat /\ Listed \in SUBSET Time
    BY SegmentsAreFinite DEF IInv, TypeOK, Listed
  <1> HIDE DEF m
  <1>5. \A s \in doomed : Newer(s)' = Newer(s)
    BY <1>1, <1>2, <1>3, <1>4 DEF Newer, Listed
  <1>6. Cardinality((Listed' \ stuck') \ doomed) <= Keep
    <2>1. (Listed' \ stuck') \ doomed \subseteq (Listed \ stuck) \ doomed
      BY <1>1 DEF Listed
    <2>2. IsFiniteSet((Listed \ stuck) \ doomed) /\ Cardinality((Listed \ stuck) \ doomed) \in Nat
      BY <1>4, SegmentsAreFinite
    <2>3. /\ Cardinality((Listed' \ stuck') \ doomed) <= Cardinality((Listed \ stuck) \ doomed)
          /\ Cardinality((Listed' \ stuck') \ doomed) \in Nat
      BY <2>1, <2>2, FS_Subset, FS_CardinalityType
    <2> QED BY <2>2, <2>3, <1>2, RecorderAssumption
  <1>7. doomed \ {m} \subseteq Listed'
    BY <1>1, <1>2 DEF Listed
  <1>8. m' = m
    BY <1>1 DEF m
  <1> QED BY <1>1, <1>2, <1>5, <1>6, <1>7, <1>8 DEF Pruning, m

\* With the metadata of a segment, the segment is gone from the list, or Prune
\* could not remove it.
LEMMA PruneMetaKeeps ==
    ASSUME IInv, PruneMeta
    PROVE  Pruning' /\ Cardinality((Listed' \ stuck') \ doomed') <= Keep
  <1> USE DEF fileVars, ghosts, loopVars
  <1> DEFINE m == Min(doomed)
  <1>1. /\ pc = "pruneMeta" /\ doomed' = doomed \ {m} /\ UNCHANGED <<mp4, stuck>>
        /\ json' \subseteq json /\ json \subseteq json' \cup {m}
        /\ IF doomed' = {} THEN pc' = after ELSE pc' = "pruneFile" /\ seg' = seg
    BY DEF PruneMeta
  <1>2. /\ doomed # {} /\ doomed \ {m} \subseteq Listed /\ (m \in mp4 => m \in stuck)
        /\ \A s \in doomed : s < seg /\ Cardinality(Newer(s)) >= Keep
        /\ Cardinality((Listed \ stuck) \ doomed) <= Keep
    BY <1>1 DEF IInv, Pruning
  <1>3. m \in doomed /\ \A s \in doomed : m <= s
    BY <1>1, DoomedMin
  <1>4. Listed \subseteq Nat /\ Listed \in SUBSET Time /\ doomed \subseteq Nat
    BY SegmentsAreFinite DEF IInv, TypeOK, Listed
  <1>a. after \notin {"pruneFile", "pruneMeta"}
    BY DEF IInv, EInv, LoopAt
  <1> HIDE DEF m
  <1>5. \A s \in doomed' : Newer(s)' = Newer(s)
    BY <1>1, <1>2, <1>3, <1>4 DEF Newer, Listed
  <1>6. Cardinality((Listed' \ stuck') \ doomed') <= Keep
    <2>1. (Listed' \ stuck') \ doomed' \subseteq (Listed \ stuck) \ doomed
      BY <1>1, <1>2 DEF Listed
    <2>2. IsFiniteSet((Listed \ stuck) \ doomed) /\ Cardinality((Listed \ stuck) \ doomed) \in Nat
      BY <1>4, SegmentsAreFinite
    <2>3. /\ Cardinality((Listed' \ stuck') \ doomed') <= Cardinality((Listed \ stuck) \ doomed)
          /\ Cardinality((Listed' \ stuck') \ doomed') \in Nat
      BY <2>1, <2>2, FS_Subset, FS_CardinalityType
    <2> QED BY <2>2, <2>3, <1>2, RecorderAssumption
  <1>7. doomed' \subseteq Listed'
    BY <1>1, <1>2 DEF Listed
  <1>8. CASE doomed' = {}
    BY <1>1, <1>6, <1>8, <1>a DEF Pruning
  <1>9. CASE doomed' # {}
    BY <1>1, <1>2, <1>5, <1>6, <1>7, <1>9 DEF Pruning
  <1> QED BY <1>6, <1>8, <1>9

\* Only Prune removes what it listed.
LEMMA PruneStep == ASSUME IInv, [Next]_vars PROVE Pruning'
  <1>d. Pruning
    BY DEF IInv
  <1>a. after \in {"loop", "begin", "stopped"}
    BY DEF IInv, EInv, LoopAt
  <1> USE DEF fileVars, ghosts, loopVars
  <1> DEFINE Idle == pc \notin {"pruneFile", "pruneMeta"}
  <1>1. CASE PruneFile
    BY <1>1, PruneFileKeeps
  <1>2. CASE PruneMeta
    BY <1>2, PruneMetaKeeps
  <1>3. CASE PruneList /\ doomed' # {}
    BY <1>3, PruneListDooms
  <1>4. CASE Cancel \/ UNCHANGED vars
    BY <1>4, <1>d DEF Cancel, vars, Pruning, Newer, Listed
  <1>5. CASE PruneList /\ doomed' = {}
    BY <1>5, <1>a DEF PruneList, Pruning
  <1>6. CASE Crash
    BY <1>6 DEF Crash, Pruning
  <1>7. ASSUME Loop \/ BeginSegment \/ StartEncoder \/ WriteJPEG \/ KillEncoder \/ DiscardSegment
                 \/ CloseEncoder \/ CloseWriter \/ Rename \/ WriteMetadata \/ LinkLatest \/ Restart
        PROVE  Idle /\ Idle' /\ doomed' = doomed
    <2>1. CASE Loop
      BY <2>1 DEF Loop, HandleFrame, CloseInactive, Stop, Finish
    <2>2. CASE BeginSegment \/ StartEncoder \/ WriteJPEG
      BY <2>2 DEF BeginSegment, StartEncoder, WriteJPEG, Finish
    <2>3. CASE KillEncoder \/ DiscardSegment
      BY <2>3, <1>a DEF KillEncoder, DiscardSegment
    <2>4. CASE CloseEncoder \/ CloseWriter \/ Rename \/ WriteMetadata \/ LinkLatest
      BY <2>4 DEF CloseEncoder, CloseWriter, Rename, WriteMetadata, LinkLatest, Try
    <2>5. CASE Restart
      BY <2>5 DEF Restart
    <2> QED BY <1>7, <2>1, <2>2, <2>3, <2>4, <2>5
  <1>8. Idle /\ Idle' /\ doomed' = doomed => Pruning'
    BY <1>d DEF Pruning
  <1> QED BY <1>1, <1>2, <1>3, <1>4, <1>5, <1>6, <1>7, <1>8 DEF Next, Finishing

\* The inductive invariant.
LEMMA IInvInit == Init => IInv
  <1> SUFFICES ASSUME Init PROVE IInv
    OBVIOUS
  <1>1. EInv
    BY DEF Init, EInv, LoopAt, EncoderAt, Finishes, Steps
  <1>2. ended \in [Time -> Time \cup {Zero}]
    BY DEF Init
  <1>3. TypeOK
    <2>1. run \in 1..MaxRuns /\ nextKeepAt \in Nat /\ gauge \in 0..1
      BY RecorderAssumption DEF Init, Zero
    <2>2. {ts, seg, lastRecorded, lastFrameAt, latest} \subseteq Time \cup {Zero}
      BY DEF Init
    <2> QED BY <1>2, <2>1, <2>2 DEF Init, TypeOK, Steps
  <1>4. Clock
    BY DEF Init, Clock, Kept, InHand, SegOpen, ForNext, Finishes
  <1>5. Disk /\ Pruning /\ Link
    BY DEF Init, Disk, Pruning, Link, LatestIsThere, Completed
  <1>6. pc # "down"
    BY DEF Init
  <1> QED BY <1>1, <1>3, <1>4, <1>5, <1>6 DEF IInv

LEMMA IInvStep == IInv /\ [Next]_vars => IInv'
  BY EInvStep, TypeStep, ClockStep, DiskStep, PruneStep, LinkStep DEF IInv

LEMMA IInvHolds == Spec => []IInv
  BY IInvInit, IInvStep, PTL DEF Spec

\* Whatever calls fail and wherever the process crashes, the archive is of
\* whole recordings, none longer than SegmentRawDuration and no two of which
\* overlap, and latest.mp4 does not dangle (camera.go:150-203, local.go:96-146).
THEOREM ArchiveStaysSound == Spec => []ArchiveIsSound
  <1>1. IInv => ArchiveIsSound
    <2> SUFFICES ASSUME IInv PROVE ArchiveIsSound
      OBVIOUS
    <2>1. TypeOK /\ LatestIsThere
      BY DEF IInv, Link
    <2>2. ListedAreWhole /\ NoOverlap
      BY DEF IInv, Disk, ListedAreWhole, NoOverlap, Listed
    <2> QED BY <2>1, <2>2 DEF ArchiveIsSound
  <1> QED BY <1>1, IInvHolds, PTL

\* When Prune has gone through, no more than Keep segments are left besides
\* those it failed to remove, whatever an earlier run left (local.go:126-146).
THEOREM PruneIsBounded == Spec => PruneBounds
  <1> DEFINE Bounded == pc = "pruneMeta" /\ pc' \in {"loop", "begin", "stopped"}
                          => Cardinality(Listed' \ stuck') <= Keep
  <1>1. IInv /\ [Next]_vars => [Bounded]_vars
    <2> SUFFICES ASSUME IInv, Next, pc = "pruneMeta", pc' \in {"loop", "begin", "stopped"}
                 PROVE  Cardinality(Listed' \ stuck') <= Keep
      OBVIOUS
    <2>1. PruneMeta
      BY DEF Next, Loop, Finishing, HandleFrame, CloseInactive, Stop, BeginSegment, StartEncoder,
             WriteJPEG, KillEncoder, DiscardSegment, CloseEncoder, CloseWriter, Rename,
             WriteMetadata, LinkLatest, PruneList, PruneFile, Cancel, Crash, Restart
    <2>2. doomed' = {}
      BY <2>1 DEF PruneMeta
    <2>3. Cardinality((Listed' \ stuck') \ doomed') <= Keep
      BY <2>1, PruneMetaKeeps
    <2>4. (Listed' \ stuck') \ doomed' = Listed' \ stuck'
      BY <2>2
    <2> QED BY <2>3, <2>4
  <1>2. Spec => [][Next]_vars
    BY DEF Spec
  <1> QED BY <1>1, <1>2, IInvHolds, PTL DEF PruneBounds

-----------------------------------------------------------------------------
(***************************************************************************)
(* The refinement: what viewers see of each step is one of SegmentLife's,  *)
(* or nothing.                                                             *)
(***************************************************************************)
Recording == IF pc \in Published THEN {} ELSE {seg} \ {Zero}

Unseen == Recording' = Recording /\ Listed' = Listed

\* The steps of the loop, of the encoder, of the temporary file and of
\* latest.mp4 are unseen.
LEMMA UnseenSteps ==
    ASSUME IInv,
           \/ \E t \in Time, jpeg \in BOOLEAN : HandleFrame(t, jpeg)
           \/ CloseInactive \/ Stop \/ WriteJPEG \/ KillEncoder \/ CloseEncoder \/ CloseWriter
           \/ LinkLatest \/ PruneList \/ Cancel \/ Restart \/ UNCHANGED vars
    PROVE  Unseen
  <1>a. after \in {"loop", "begin", "stopped"} /\ (pc = "down" => seg = Zero)
    BY DEF IInv, EInv, LoopAt, EncoderAt
  <1> USE DEF fileVars, ghosts, loopVars, Unseen, Recording, Published, Listed
  <1>1. ASSUME NEW t \in Time, NEW jpeg \in BOOLEAN, HandleFrame(t, jpeg) PROVE Unseen
    BY <1>1 DEF HandleFrame, Finish
  <1>2. CASE CloseInactive \/ Stop
    BY <1>2 DEF CloseInactive, Stop, Finish
  <1>3. CASE WriteJPEG
    BY <1>3 DEF WriteJPEG, Finish
  <1>4. CASE KillEncoder \/ CloseEncoder \/ CloseWriter
    BY <1>4 DEF KillEncoder, CloseEncoder, CloseWriter, Try
  <1>5. CASE LinkLatest
    BY <1>5 DEF LinkLatest
  <1>6. CASE PruneList
    BY <1>6, <1>a DEF PruneList
  <1>7. CASE Cancel \/ UNCHANGED vars
    BY <1>7 DEF Cancel, vars
  <1>8. CASE Restart
    BY <1>8, <1>a DEF Restart
  <1> QED BY <1>1, <1>2, <1>3, <1>4, <1>5, <1>6, <1>7, <1>8

\* So is the rename: a segment that was there before and is recorded again had
\* its file all the time, and a new one is listed with its metadata.
LEMMA RenameUnseen == ASSUME IInv, Rename PROVE Unseen
  <1> USE DEF fileVars, ghosts, loopVars
  <1>1. /\ pc = "rename" /\ pc' \in {"metadata", "discard"} /\ seg' = seg /\ json' = json
        /\ mp4' \in {mp4, mp4 \cup {seg}}
    BY DEF Rename, Try
  <1>2. seg # Zero /\ \A t \in mp4 : t <= seg
    BY <1>1 DEF IInv, EInv, EncoderAt, Finishes, Clock, SegOpen
  <1>3. seg \in json => seg \in mp4
    <2> SUFFICES ASSUME seg \in json \ mp4 PROVE FALSE
      OBVIOUS
    <2>1. PICK t \in mp4 : seg < t
      BY DEF IInv, Disk
    <2> QED BY <2>1, <1>2, Instants DEF IInv
  <1> QED BY <1>1, <1>3 DEF Unseen, Recording, Published, Listed

\* A segment begins after all that is listed; one that fails is lost, one
\* whose metadata is written is listed.
LEMMA BeginSeen == ASSUME IInv, BeginSegment PROVE Unseen \/ (Abstract!Begin(ts) /\ ts \in Time)
  <1> USE DEF fileVars, ghosts, loopVars
  <1>1. /\ pc = "begin" /\ seg = Zero /\ ts \in Time /\ ts # Zero /\ Zero \notin Time
        /\ \A t \in Listed : t <= ts
    BY Instants DEF BeginSegment, IInv, EInv, LoopAt, EncoderAt, Clock, InHand, ForNext, Listed, TypeOK
  <1>2. CASE pc' = "start" /\ seg' = ts /\ UNCHANGED <<mp4, json>>
    BY <1>1, <1>2 DEF Abstract!Begin, Listed, Published
  <1>3. CASE pc' = "loop" /\ seg' = seg /\ UNCHANGED <<mp4, json>>
    BY <1>1, <1>3 DEF Unseen, Recording, Listed, Published
  <1> QED BY <1>2, <1>3 DEF BeginSegment

LEMMA LoseSeen ==
    ASSUME IInv, StartEncoder \/ DiscardSegment
    PROVE  Unseen \/ (Abstract!Lose(seg) /\ seg \in Time)
  <1> USE DEF fileVars, ghosts, loopVars
  <1>1. pc \in {"start", "discard"} /\ UNCHANGED <<mp4, json>>
    BY DEF StartEncoder, DiscardSegment
  <1>2. seg \in Time /\ seg # Zero /\ after \in {"loop", "begin", "stopped"}
    BY <1>1, Instants DEF IInv, EInv, LoopAt, EncoderAt, Finishes
  <1>3. CASE pc' = "write" /\ seg' = seg
    <2>1. Recording' = Recording
      BY <1>1, <1>3 DEF Recording, Published
    <2>2. Listed' = Listed
      BY <1>1 DEF Listed
    <2> QED BY <2>1, <2>2 DEF Unseen
  <1>4. CASE pc' \in {"loop", "begin", "stopped"} /\ seg' = Zero
    BY <1>1, <1>2, <1>4 DEF Abstract!Lose, Listed, Published
  <1> QED BY <1>2, <1>3, <1>4 DEF StartEncoder, DiscardSegment

LEMMA MetadataSeen ==
    ASSUME IInv, WriteMetadata
    PROVE  \/ Unseen
           \/ (Abstract!Publish(seg) \/ Abstract!Spoil(seg)) /\ seg \in Time
  <1> USE DEF fileVars, ghosts, loopVars
  <1>1. pc = "metadata" /\ seg' = seg /\ mp4' = mp4
    BY DEF WriteMetadata
  <1>2. seg \in Time /\ seg # Zero /\ seg \in mp4
    BY <1>1, Instants DEF IInv, EInv, LoopAt, EncoderAt, Finishes, Disk, Completed
  <1>3. CASE pc' = "unlink" /\ json' = json \cup {seg}
    BY <1>1, <1>2, <1>3 DEF Abstract!Publish, Listed, Published
  <1>4. CASE pc' = "discard" /\ json' = json
    BY <1>1, <1>4 DEF Unseen, Recording, Listed, Published
  <1>5. CASE pc' = "discard" /\ json' = json \ {seg}
    <2>1. CASE seg \in json
      BY <1>1, <1>2, <1>5, <2>1 DEF Abstract!Spoil, Listed, Published
    <2>2. CASE seg \notin json
      BY <1>1, <1>5, <2>2 DEF Unseen, Recording, Listed, Published
    <2> QED BY <2>1, <2>2
  <1> QED BY <1>3, <1>4, <1>5 DEF WriteMetadata, Try

\* Prune takes no segment from the list that is one of the Keep newest.
LEMMA PruneSeen ==
    ASSUME IInv, PruneFile \/ PruneMeta
    PROVE  \/ Unseen
           \/ Abstract!Expire(Min(doomed)) /\ Min(doomed) \in Time
  <1> USE DEF fileVars, ghosts, loopVars
  <1> DEFINE m == Min(doomed)
  <1>1. /\ pc \in {"pruneFile", "pruneMeta"}
        /\ \/ pc' = after /\ seg' = Zero
           \/ pc' \in {"pruneFile", "pruneMeta"} /\ seg' = seg
    BY DEF PruneFile, PruneMeta
  <1>2. /\ m \in doomed /\ m \in Time /\ Cardinality(Newer(m)) >= Keep
    BY <1>1, DoomedMin DEF IInv, Pruning
  <1>3. Recording = {} /\ Recording' = {}
    BY <1>1 DEF Recording, Published, IInv, EInv, LoopAt
  <1>4. Listed' \in {Listed, Listed \ {m}}
    BY DEF PruneFile, PruneMeta, Listed
  <1> HIDE DEF m
  <1>5. CASE Listed' = Listed
    BY <1>3, <1>5 DEF Unseen
  <1>6. CASE Listed' = Listed \ {m} /\ m \in Listed
    <2>1. Cardinality({t \in Listed : t > m}) >= Keep
      BY <1>2 DEF Newer
    <2>2. Abstract!Expire(m)
      <3>1. (IF pc \in Published THEN {} ELSE {seg} \ {Zero})'
              = (IF pc \in Published THEN {} ELSE {seg} \ {Zero})
        BY <1>3 DEF Recording
      <3>2. Abstract!Cardinality({t \in Listed : t > m}) = Cardinality({t \in Listed : t > m})
        BY Zenon DEF Abstract!Cardinality, Cardinality, Abstract!IsFiniteSet, IsFiniteSet
      <3> QED BY <1>6, <2>1, <3>1, <3>2 DEF Abstract!Expire
    <2> QED BY <1>2, <2>2 DEF m
  <1> QED BY <1>2, <1>4, <1>5, <1>6 DEF m

\* A crash loses what was being recorded, with what was listed of that name if
\* its metadata was being written.
LEMMA CrashSeen ==
    ASSUME IInv, Crash
    PROVE  Unseen \/ (Abstract!Lose(seg) /\ seg \in Time)
  <1> USE DEF fileVars, ghosts, loopVars
  <1>1. /\ pc' = "down" /\ seg' = Zero /\ mp4' = mp4
        /\ json' = json \/ (pc = "metadata" /\ json' = json \ {seg})
    BY DEF Crash
  <1>2. Recording' = {} /\ (pc = "metadata" => seg # Zero)
    BY <1>1 DEF Recording, Published, IInv, EInv, EncoderAt, Finishes
  <1>3. CASE Recording = {}
    <2>1. json' = json
      BY <1>1, <1>2, <1>3 DEF Recording, Published
    <2>2. Listed' = Listed
      BY <1>1, <2>1 DEF Listed
    <2> QED BY <1>2, <1>3, <2>2 DEF Unseen
  <1>4. CASE Recording # {}
    <2>1. seg \in Time /\ seg # Zero /\ pc \notin Published
      BY <1>4 DEF Recording, IInv, EInv, LoopAt
    <2>2. Listed' \in {Listed, Listed \ {seg}}
      BY <1>1 DEF Listed
    <2> QED BY <1>1, <2>1, <2>2 DEF Abstract!Lose, Published
  <1> QED BY <1>3, <1>4

LEMMA StepIsSeen == IInv /\ [Next]_vars => [Abstract!LNext]_(Abstract!lvars)
  <1> SUFFICES ASSUME IInv, [Next]_vars
               PROVE  [Abstract!LNext]_(Abstract!lvars)
    OBVIOUS
  <1>u. Unseen => UNCHANGED Abstract!lvars
    BY DEF Unseen, Recording, Abstract!lvars
  <1>1. CASE Unseen
    BY <1>1, <1>u
  <1>2. CASE BeginSegment
    BY <1>2, <1>1, BeginSeen DEF Abstract!LNext
  <1>3. CASE StartEncoder \/ DiscardSegment
    BY <1>3, <1>1, LoseSeen DEF Abstract!LNext
  <1>4. CASE WriteMetadata
    BY <1>4, <1>1, MetadataSeen DEF Abstract!LNext
  <1>5. CASE PruneFile \/ PruneMeta
    BY <1>5, <1>1, PruneSeen DEF Abstract!LNext
  <1>6. CASE Crash
    BY <1>6, <1>1, CrashSeen DEF Abstract!LNext
  <1>7. CASE Rename
    BY <1>7, <1>1, RenameUnseen
  <1> QED BY <1>1, <1>2, <1>3, <1>4, <1>5, <1>6, <1>7, UnseenSteps DEF Next, Loop, Finishing

\* Through begin, encode, rename, the writing of the metadata, removal, crash and
\* restart, viewers see every segment appear whole and once, after those that
\* were there, and none of the Keep newest disappear.
THEOREM RecorderRefines == Spec => ImplementsSegmentLife
  <1>1. Init => Abstract!LInit
    BY DEF Init, Abstract!LInit, Listed, Published
  <1>2. Spec => [][Next]_vars
    BY DEF Spec
  <1> QED BY <1>1, <1>2, StepIsSeen, IInvHolds, PTL DEF Spec, ImplementsSegmentLife, Abstract!LSpec


-----------------------------------------------------------------------------
(***************************************************************************)
(* The directory of a camera among its recorder and its readers (module    *)
(* Archive), for any number of segments and any limits.                    *)
(***************************************************************************)

\* A segment whose metadata has been whole: from then on it is unless the video is gone.
Known(s) == /\ s \in 1..made /\ (s \in video => meta[s] = "whole")
            /\ (writer \in {"renamed", "truncated"} => s # made)

Directory ==
    /\ meta \in [Segments -> {"absent", "partial", "whole"}]
    /\ made \in 0..MaxSegments /\ video \subseteq 1..made /\ condemned \subseteq 1..made
    /\ \A s \in Segments : s > made => meta[s] = "absent"
    /\ writer \in Writers
    /\ writer \in {"renamed", "truncated"} => made \in Segments /\ meta[made] # "whole"
    /\ writer \notin {"prune", "unlinked"} => condemned = {}
    /\ writer = "unlinked" => condemned # {} /\ Least(condemned) \notin video

\* Between two prunings no more than KeepFiles are available, and Prune will see to it.
Few == KeepFiles > 0 =>
    /\ writer \in {"idle", "renamed", "truncated"} => Cardinality(Available) <= KeepFiles
    /\ writer \in {"prune", "unlinked"} => Cardinality(Available \ condemned) <= KeepFiles

\* What List has still to read, or has in out, is all that is available throughout.
Scanning == lister = "scan" =>
    /\ stable \subseteq Available /\ out \subseteq ever \cap wanted
    /\ stable \cap wanted \subseteq out \cup entries
    /\ entries \subseteq 1..made
    /\ \A e \in entries : meta[e] = "whole" => e \in ever

Seen == /\ \A s \in listing.result : Known(s)
        /\ lister = "scan" => \A s \in ever : Known(s)
        /\ opener # "idle" \/ answer # "none" => Known(target)

Tasks == /\ calls \in CallSets /\ lister \in {"idle", "scan"} /\ opener \in {"idle", "read", "open"}
         /\ walker \in {"idle", "walk"} /\ answer \in {"none", "ok", "notfound"}

DirInv == Tasks /\ Directory /\ Few /\ Scanning /\ Seen /\ ListIsSound /\ NotFoundOnlyIfPruned

\* Sets of segments are finite.
LEMMA NumbersAreFinite ==
    ASSUME Directory, NEW S \in SUBSET (1..made)
    PROVE  IsFiniteSet(S) /\ Cardinality(S) \in Nat /\ S \in SUBSET Nat
  <1>1. 1 \in Int /\ made \in Int /\ made \in Nat
    BY ArchiveAssumption DEF Directory
  <1>2. IsFiniteSet(1..made)
    BY <1>1, FS_Interval, Zenon
  <1>3. IsFiniteSet(S) /\ Cardinality(S) \in Nat
    BY <1>2, FS_Subset, FS_CardinalityType
  <1> QED BY <1>3

\* What Prune is at is the oldest of what it has still to remove.
LEMMA LeastCondemned ==
    ASSUME Directory, condemned # {}
    PROVE  Least(condemned) \in condemned /\ Least(condemned) \in Segments
  <1>1. condemned \in SUBSET Nat /\ condemned \subseteq Segments
    BY ArchiveAssumption DEF Directory, Segments
  <1>2. Min(condemned) \in condemned /\ \A s \in condemned : Min(condemned) <= s
    BY <1>1, MinIsLeast
  <1>3. Least(condemned) \in condemned
    BY <1>2 DEF Least
  <1> QED BY <1>1, <1>3

\* So is the entry that List reads.
LEMMA LeastEntry ==
    ASSUME Directory, Scanning, lister = "scan", entries # {}
    PROVE  Least(entries) \in entries /\ Least(entries) \in 1..made
  <1>1. entries \in SUBSET Nat /\ entries \subseteq 1..made
    BY ArchiveAssumption DEF Scanning, Directory
  <1>2. Min(entries) \in entries /\ \A s \in entries : Min(entries) <= s
    BY <1>1, MinIsLeast
  <1>3. Least(entries) \in entries
    BY <1>2 DEF Least
  <1> QED BY <1>1, <1>3

\* Of the newest up to a limit, the sorting cuts off only older ones, and only when the limit
\* is reached.
LEMMA UpToLimitIsNewest ==
    ASSUME Limit \in Nat, NEW to \in Nat, NEW S \in SUBSET (0..to), IsFiniteSet(S),
           NEW s \in S, s \notin UpToLimit(S)
    PROVE  /\ Limit > 0 /\ Cardinality(UpToLimit(S)) = Limit
           /\ \A t \in UpToLimit(S) : t > s
  <1> DEFINE Above(x) == {t \in S : t > x}
             R == UpToLimit(S)
             D == S \ R
             U == {u \in Nat : \A d \in D : d <= u}
             m == Min(U)
  <1>1. Limit > 0 /\ R = {x \in S : Cardinality(Above(x)) < Limit} /\ S \in SUBSET Nat
    <2>1. Limit # 0
      BY DEF UpToLimit
    <2>2. R = {x \in S : Cardinality(Above(x)) < Limit}
      BY <2>1 DEF UpToLimit
    <2>3. S \in SUBSET Nat
      OBVIOUS
    <2> QED BY <2>1, <2>2, <2>3
  <1>2. \A x \in S : IsFiniteSet(Above(x)) /\ Cardinality(Above(x)) \in Nat
    BY FS_Subset, FS_CardinalityType
  <1>3. IsFiniteSet(R) /\ Cardinality(R) \in Nat /\ R \subseteq S
    BY <1>1, FS_Subset, FS_CardinalityType
  <1>4. Cardinality(R) <= Limit
    BY <1>1, FewAreNewest
  <1>5. \A d \in D : ~(Cardinality(Above(d)) < Limit)
    BY <1>1
  <1>6. ASSUME NEW t \in R, NEW d \in D PROVE t > d
    <2>1. t \in Nat /\ d \in Nat /\ t \in S /\ d \in S
      BY <1>1, <1>3
    <2>2. CASE t <= d
      <3>1. Above(d) \subseteq Above(t)
        <4> SUFFICES ASSUME NEW x \in S, x > d PROVE x > t
          OBVIOUS
        <4>1. x \in Nat
          BY <1>1
        <4> QED BY <2>1, <2>2, <4>1
      <3>2. Cardinality(Above(d)) <= Cardinality(Above(t))
        BY <1>2, <2>1, <3>1, FS_Subset
      <3>3. Cardinality(Above(t)) < Limit /\ ~(Cardinality(Above(d)) < Limit)
        BY <1>1, <1>5
      <3>4. Cardinality(Above(t)) \in Nat /\ Cardinality(Above(d)) \in Nat
        BY <1>2, <2>1
      <3> HIDE DEF Above
      <3> QED BY <3>2, <3>3, <3>4
    <2> QED BY <2>1, <2>2
  <1>7. s \in D /\ D \in SUBSET Nat /\ D \subseteq S
    BY <1>1
  <1>8. U \in SUBSET Nat /\ to \in U
    BY <1>7
  <1>9. m \in U /\ \A u \in U : m <= u
    BY <1>8, MinIsLeast
  <1>10. m \in D
    <2>1. m \in Nat /\ \A d \in D : d <= m /\ d \in Nat
      BY <1>7, <1>9
    <2>2. CASE m \notin D
      <3>1. \A d \in D : d <= m - 1
        BY <2>1, <2>2
      <3>2. m # 0
        BY <1>7, <2>1, <2>2
      <3>3. m - 1 \in U
        BY <2>1, <3>1, <3>2
      <3>4. m <= m - 1
        BY <1>9, <3>3
      <3> QED BY <2>1, <3>4
    <2> QED BY <2>2
  <1>11. Above(m) \subseteq R
    <2> SUFFICES ASSUME NEW x \in S, x > m, x \notin R PROVE FALSE
      OBVIOUS
    <2>1. x \in D /\ x <= m /\ x \in Nat /\ m \in Nat
      BY <1>1, <1>9
    <2> QED BY <2>1
  <1>12. Cardinality(Above(m)) <= Cardinality(R)
    BY <1>3, <1>11, FS_Subset
  <1>13. Cardinality(R) = Limit
    <2>1. ~(Cardinality(Above(m)) < Limit) /\ Cardinality(Above(m)) \in Nat
      BY <1>2, <1>5, <1>7, <1>10
    <2> HIDE DEF Above, R, m
    <2> QED BY <1>3, <1>4, <1>12, <2>1
  <1> QED BY <1>1, <1>6, <1>7, <1>13

LEMMA DirInit == ASSUME AInit PROVE DirInv
  <1>1. made = 0 /\ video = {} /\ 1..made = {} /\ Available = {}
    BY DEF AInit, Available
  <1>2. Cardinality({}) = 0
    BY FS_EmptySet
  <1> QED BY <1>1, <1>2, ArchiveAssumption
          DEF AInit, Segments, Writers, ListIsSound,
              NotFoundOnlyIfPruned, DirInv, Tasks, Directory, Few, Scanning, Seen

\* No call of the recorder, the readers or the walk leaves what it is made for.
LEMMA TasksKept == ASSUME DirInv, [ANext]_avars PROVE Tasks'
  <1> USE DEF DirInv, Tasks, listVars, openVars, walkVars, diskVars, WriterStep,
              ListStep, OpenStep, WalkStep
  <1>1. CASE Complete \/ Prune
    BY <1>1 DEF Complete, Prune, RenameVideo, CreateMetadata, FillMetadata,
                BeginPrune, UnlinkVideo, UnlinkMetadata, EndPrune
  <1>2. CASE List
    BY <1>2 DEF List, BeginList, ReadEntry, EndList
  <1>3. CASE Open
    BY <1>3 DEF Open, BeginOpen, ReadTarget, OpenVideo
  <1>4. CASE UsageBytes
    BY <1>4 DEF UsageBytes, BeginWalk, Stat, StatGone, EndWalk, Publish
  <1>5. CASE UNCHANGED avars
    BY <1>5 DEF avars
  <1> QED BY <1>1, <1>2, <1>3, <1>4, <1>5 DEF ANext

\* The readers and the walk leave the directory alone.
LEMMA ReadersOnlyRead ==
    ASSUME List \/ Open \/ UsageBytes \/ UNCHANGED avars
    PROVE  UNCHANGED <<calls, video, meta, made, writer, condemned>>
  BY DEF List, BeginList, ReadEntry, EndList, ListStep,
         Open, BeginOpen, ReadTarget, OpenVideo, OpenStep,
         UsageBytes, BeginWalk, Stat, StatGone, EndWalk, WalkStep,
         diskVars, avars

\* CompleteSegment writes the metadata of the newest segment, and Prune removes the video of
\* the oldest before its metadata.
LEMMA DirectoryKept == ASSUME DirInv, [ANext]_avars PROVE Directory'
  <1>t. Directory /\ MaxSegments \in Nat /\ made \in Nat /\ made <= MaxSegments
    BY ArchiveAssumption DEF DirInv, Directory
  <1> USE DEF Directory, Segments, Writers
  <1>1. CASE RenameVideo
    <2>1. 1..made \subseteq 1..made' /\ made' \in 1..made' /\ made' \in Segments
          /\ made' \in 0..MaxSegments /\ made' > made
      BY <1>1, <1>t DEF RenameVideo
    <2> QED BY <1>1, <1>t, <2>1 DEF RenameVideo
  <1>2. CASE CreateMetadata
    BY <1>2, <1>t DEF CreateMetadata
  <1>3. CASE FillMetadata
    BY <1>3, <1>t DEF FillMetadata
  <1>4. CASE BeginPrune
    BY <1>4, <1>t DEF BeginPrune, Available
  <1>5. CASE UnlinkVideo
    BY <1>5, <1>t DEF UnlinkVideo
  <1>6. CASE UnlinkMetadata
    <2>1. Least(condemned) \in condemned /\ Least(condemned) \in 1..made
      BY <1>6, <1>t, LeastCondemned DEF UnlinkMetadata
    <2> DEFINE l == Least(condemned)
    <2>2. l \in 1..made /\ meta' = [meta EXCEPT ![l] = "absent"] /\ condemned' = condemned \ {l}
          /\ writer' = "prune" /\ UNCHANGED <<video, made>>
      BY <1>6, <2>1 DEF UnlinkMetadata
    <2> HIDE DEF l
    <2> QED BY <1>t, <2>2
  <1>7. CASE EndPrune
    BY <1>7, <1>t DEF EndPrune
  <1>8. CASE List \/ Open \/ UsageBytes \/ UNCHANGED avars
    BY <1>8, <1>t, ReadersOnlyRead
  <1> QED BY <1>1, <1>2, <1>3, <1>4, <1>5, <1>6, <1>7, <1>8
          DEF ANext, Complete, Prune

\* Prune leaves KeepFiles recordings, and CompleteSegment adds one before the next.
LEMMA FewKept == ASSUME DirInv, [ANext]_avars PROVE Few'
  <1>t. Directory /\ Few /\ KeepFiles \in Nat
    BY ArchiveAssumption DEF DirInv
  <1> USE DEF Segments, Available
  <1>1. CASE RenameVideo
    <2>1. /\ writer = "idle" /\ writer' = "renamed" /\ made' = made + 1 /\ made < MaxSegments
          /\ video' = video \cup {made'} /\ meta' = meta
      BY <1>1 DEF RenameVideo
    <2>2. made \in Nat /\ MaxSegments \in Nat /\ made' \in Segments /\ made' > made
      BY <1>t, <2>1, ArchiveAssumption DEF Directory
    <2>3. meta[made'] # "whole"
      BY <1>t, <2>2 DEF Directory
    <2>4. Available' = Available
      BY <2>1, <2>3
    <2> QED BY <1>t, <2>1, <2>4 DEF Few
  <1>2. CASE CreateMetadata
    <2>1. /\ writer = "renamed" /\ writer' = "truncated" /\ UNCHANGED video
          /\ meta' = [meta EXCEPT ![made] = "partial"]
      BY <1>2 DEF CreateMetadata
    <2>2. \A s \in video : meta'[s] = "whole" <=> meta[s] = "whole"
      BY <1>t, <2>1 DEF Directory
    <2>3. Available' = Available
      BY <2>1, <2>2
    <2> QED BY <1>t, <2>1, <2>3 DEF Few
  <1>3. CASE FillMetadata
    BY <1>3 DEF FillMetadata, Few
  <1>4. CASE BeginPrune
    <2>1. /\ writer' = "prune" /\ UNCHANGED <<video, meta>>
          /\ KeepFiles > 0 => condemned' = {s \in Available :
                                         Cardinality({t \in Available : t > s}) >= KeepFiles}
      BY <1>4, <1>t DEF BeginPrune
    <2> DEFINE A == Available
               N == A \ condemned'
    <2>2. A \in SUBSET (1..made) /\ Available' = A
      BY <1>t, <2>1 DEF Directory
    <2>3. A \in SUBSET Nat /\ IsFiniteSet(A)
      BY <1>t, <2>2, NumbersAreFinite
    <2>4. ASSUME KeepFiles > 0, NEW s \in N PROVE Cardinality({t \in A : t > s}) < KeepFiles
      <3>1. s \in A /\ ~(Cardinality({t \in A : t > s}) >= KeepFiles)
        BY <2>1, <2>4
      <3>2. Cardinality({t \in A : t > s}) \in Nat
        BY <2>3, FS_Subset, FS_CardinalityType
      <3> QED BY <1>t, <3>1, <3>2
    <2>5. KeepFiles > 0 => Cardinality(N) <= KeepFiles
      <3> SUFFICES ASSUME KeepFiles > 0 PROVE Cardinality(N) <= KeepFiles
        OBVIOUS
      <3>1. N \in SUBSET {s \in A : Cardinality({t \in A : t > s}) < KeepFiles}
        BY <2>4
      <3> HIDE DEF N, A
      <3> QED BY <1>t, <2>3, <3>1, FewAreNewest
    <2> QED BY <2>1, <2>2, <2>5 DEF Few
  <1>5. CASE UnlinkVideo
    <2>1. /\ writer = "prune" /\ writer' = "unlinked" /\ UNCHANGED <<meta, condemned>>
          /\ video' = video \ {Least(condemned)} /\ Least(condemned) \in condemned
      BY <1>5, <1>t, LeastCondemned DEF UnlinkVideo
    <2>2. Available' \ condemned' = Available \ condemned
      BY <2>1
    <2> QED BY <1>t, <2>1, <2>2 DEF Few
  <1>6. CASE UnlinkMetadata
    <2> DEFINE l == Least(condemned)
    <2>1. /\ writer = "unlinked" /\ writer' = "prune" /\ UNCHANGED video
          /\ meta' = [meta EXCEPT ![l] = "absent"] /\ condemned' = condemned \ {l}
      BY <1>6 DEF UnlinkMetadata
    <2>2. l \notin video /\ meta \in [Segments -> {"absent", "partial", "whole"}]
      BY <1>t, <2>1 DEF Directory
    <2> HIDE DEF l
    <2>3. \A s \in video : meta'[s] = meta[s]
      BY <2>1, <2>2
    <2>4. Available' \ condemned' = Available \ condemned
      BY <2>1, <2>2, <2>3
    <2> QED BY <1>t, <2>1, <2>4 DEF Few
  <1>7. CASE EndPrune
    <2>1. writer = "prune" /\ condemned = {} /\ writer' = "idle" /\ UNCHANGED <<video, meta>>
      BY <1>7 DEF EndPrune
    <2>2. Available' = Available \ condemned
      BY <2>1
    <2> QED BY <1>t, <2>1, <2>2 DEF Few
  <1>8. CASE List \/ Open \/ UsageBytes \/ UNCHANGED avars
    <2>1. UNCHANGED <<video, meta, writer, condemned>>
      BY <1>8, ReadersOnlyRead
    <2> QED BY <1>t, <2>1 DEF Few
  <1> QED BY <1>1, <1>2, <1>3, <1>4, <1>5, <1>6, <1>7, <1>8
          DEF ANext, Complete, Prune

\* What the recorder does to a segment that has been whole: nothing, or Prune takes the video.
LEMMA KnownStays ==
    ASSUME DirInv, [ANext]_avars, NEW s, Known(s)
    PROVE  Known(s)'
  <1>t. Directory /\ made \in Nat
    BY DEF DirInv, Directory
  <1> USE DEF Known
  <1>1. CASE RenameVideo
    <2>1. /\ writer' = "renamed" /\ made' = made + 1 /\ video' = video \cup {made'} /\ meta' = meta
      BY <1>1 DEF RenameVideo
    <2>2. s \in 1..made' /\ s # made'
      BY <1>t, <2>1
    <2> QED BY <2>1, <2>2
  <1>2. CASE CreateMetadata
    BY <1>2, <1>t DEF CreateMetadata, Directory
  <1>3. CASE FillMetadata
    BY <1>3, <1>t DEF FillMetadata, Directory
  <1>4. CASE BeginPrune \/ UnlinkVideo \/ EndPrune
    BY <1>4 DEF BeginPrune, UnlinkVideo, EndPrune
  <1>5. CASE UnlinkMetadata
    <2> DEFINE l == Least(condemned)
    <2>1. /\ l \notin video /\ UNCHANGED <<video, made>> /\ meta' = [meta EXCEPT ![l] = "absent"]
          /\ writer' = "prune" /\ meta \in [Segments -> {"absent", "partial", "whole"}]
      BY <1>5, <1>t DEF UnlinkMetadata, Directory
    <2> HIDE DEF l
    <2>2. s \in video => meta'[s] = meta[s]
      BY <2>1
    <2> QED BY <2>1, <2>2
  <1>6. CASE List \/ Open \/ UsageBytes \/ UNCHANGED avars
    BY <1>6, ReadersOnlyRead
  <1> QED BY <1>1, <1>2, <1>3, <1>4, <1>5, <1>6 DEF ANext, Complete, Prune

\* What is available is known.
LEMMA AvailableKnown == ASSUME Directory, NEW s \in Available PROVE Known(s)
  BY DEF Directory, Available, Known

\* The recorder does not spoil a listing, nor do the other readers.
LEMMA ScanningKept == ASSUME DirInv, [ANext]_avars PROVE Scanning'
  <1>t. Directory /\ Scanning /\ Seen /\ made \in Nat
    BY DEF DirInv, Directory
  <1>d. Directory'
    BY DirectoryKept
  <1> USE DEF Scanning, WriterStep, Available
  <1>1. CASE RenameVideo
    <2>1. /\ made' = made + 1 /\ video' = video \cup {made'}
          /\ UNCHANGED <<meta, stable, ever, lister, wanted, entries, out>>
      BY <1>1 DEF RenameVideo
    <2>2. 1..made \subseteq 1..made'
      BY <1>t, <2>1
    <2> QED BY <1>t, <2>1, <2>2
  <1>2. CASE CreateMetadata
    <2>1. /\ meta' = [meta EXCEPT ![made] = "partial"] /\ meta[made] # "whole"
          /\ UNCHANGED <<video, made, stable, ever, lister, wanted, entries, out>>
          /\ meta \in [Segments -> {"absent", "partial", "whole"}]
      BY <1>2, <1>t DEF CreateMetadata, Directory
    <2>2. \A s : meta'[s] = "whole" => s = made \/ meta'[s] = meta[s]
      BY <2>1
    <2>3. \A s \in Available : s # made /\ meta'[s] = "whole"
      BY <1>t, <2>1 DEF Directory, Segments
    <2>4. \A e \in entries : lister = "scan" /\ meta'[e] = "whole" => meta[e] = "whole"
      BY <1>t, <1>d, <2>1, ArchiveAssumption DEF Directory, Segments
    <2> QED BY <1>t, <2>1, <2>3, <2>4
  <1>3. CASE FillMetadata
    <2>1. /\ meta' = [meta EXCEPT ![made] = "whole"] /\ ever' = ever \cup {made}
          /\ UNCHANGED <<video, made, stable, lister, wanted, entries, out>>
          /\ meta \in [Segments -> {"absent", "partial", "whole"}] /\ made \in Segments
      BY <1>3, <1>t DEF FillMetadata, Directory
    <2>2. \A s : s # made => meta'[s] = meta[s] \/ s \notin Segments
      BY <2>1
    <2>3. 1..made \subseteq Segments
      BY <1>t, ArchiveAssumption DEF Directory, Segments
    <2>4. \A s \in 1..made : s # made => meta'[s] = meta[s]
      BY <2>2, <2>3
    <2>5. meta'[made] = "whole"
      BY <2>1
    <2>6. video \subseteq 1..made
      BY <1>t DEF Directory
    <2> QED BY <1>t, <2>1, <2>4, <2>5, <2>6
  <1>4. CASE BeginPrune \/ EndPrune
    BY <1>4, <1>t DEF BeginPrune, EndPrune
  <1>5. CASE UnlinkVideo
    BY <1>5, <1>t DEF UnlinkVideo
  <1>6. CASE UnlinkMetadata
    <2> DEFINE l == Least(condemned)
    <2>1. /\ l \notin video /\ UNCHANGED <<video, made, stable, ever, lister, wanted, entries, out>>
          /\ meta' = [meta EXCEPT ![l] = "absent"]
          /\ meta \in [Segments -> {"absent", "partial", "whole"}]
      BY <1>6, <1>t DEF UnlinkMetadata, Directory
    <2> HIDE DEF l
    <2>2. \A s \in video : meta'[s] = meta[s]
      BY <2>1
    <2>3. 1..made \subseteq Segments
      BY <1>t, ArchiveAssumption DEF Directory, Segments
    <2>4. \A e \in 1..made : meta'[e] = "whole" => meta[e] = "whole"
      BY <2>1, <2>3
    <2> QED BY <1>t, <2>1, <2>2, <2>4
  <1>7. CASE BeginList
    <2>1. /\ entries' = video /\ out' = {} /\ stable' = Available /\ ever' = Available
          /\ UNCHANGED <<video, meta, made>>
      BY <1>7 DEF BeginList, ListStep, diskVars
    <2>2. video \subseteq 1..made
      BY <1>t DEF Directory
    <2> QED BY <2>1, <2>2
  <1>8. CASE ReadEntry
    <2> DEFINE e == Least(entries)
    <2>1. /\ lister = "scan" /\ entries # {} /\ entries' = entries \ {e}
          /\ out' = IF meta[e] = "whole" /\ e \in wanted THEN out \cup {e} ELSE out
          /\ UNCHANGED <<video, meta, made, lister, wanted, stable, ever>>
      BY <1>8 DEF ReadEntry, ListStep, diskVars
    <2>2. e \in entries
      BY <1>t, <2>1, LeastEntry
    <2> HIDE DEF e
    <2>3. e \in stable => meta[e] = "whole"
      BY <1>t, <2>1
    <2> QED BY <1>t, <2>1, <2>2, <2>3
  <1>9. CASE EndList
    BY <1>9 DEF EndList
  <1>10. CASE Open \/ UsageBytes \/ UNCHANGED avars
    <2>1. UNCHANGED <<video, meta, made, lister, wanted, entries, out, stable, ever>>
      BY <1>10 DEF Open, BeginOpen, ReadTarget, OpenVideo, OpenStep,
                   UsageBytes, BeginWalk, Stat, StatGone, EndWalk, WalkStep,
                   diskVars, listVars, avars
    <2> QED BY <1>t, <2>1
  <1> QED BY <1>1, <1>2, <1>3, <1>4, <1>5, <1>6, <1>7, <1>8, <1>9, <1>10
          DEF ANext, Complete, Prune, List

\* What is returned is what was found, up to the limit.
LEMMA ListedIsFound ==
    ASSUME DirInv, EndList
    PROVE  ListIsSound' /\ \A s \in listing'.result : s \in ever
  <1>1. /\ lister = "scan" /\ entries = {} /\ Scanning /\ Directory
        /\ listing' = [result |-> UpToLimit(out), wanted |-> wanted, stable |-> stable, ever |-> ever]
    BY DEF DirInv, EndList
  <1>2. /\ out \subseteq ever \cap wanted /\ stable \cap wanted \subseteq out
    BY <1>1 DEF Scanning
  <1>3. UpToLimit(out) \subseteq out
    BY DEF UpToLimit
  <1>4. ListIsSound' <=>
          /\ UpToLimit(out) \subseteq (ever \cap wanted)
          /\ \A s \in (stable \cap wanted) \ UpToLimit(out) :
                 /\ Limit > 0 /\ Cardinality(UpToLimit(out)) = Limit
                 /\ \A t \in UpToLimit(out) : t > s
    BY <1>1 DEF ListIsSound
  <1>5. \A s \in ever : Known(s)
    BY <1>1 DEF DirInv, Seen
  <1>6. out \in SUBSET (1..made) /\ made \in Nat /\ Limit \in Nat
    BY <1>1, <1>2, <1>5, ArchiveAssumption DEF Known, Directory
  <1>7. IsFiniteSet(out) /\ out \in SUBSET (0..made)
    BY <1>1, <1>6, NumbersAreFinite
  <1>8. ASSUME NEW s \in (stable \cap wanted) \ UpToLimit(out)
        PROVE  /\ Limit > 0 /\ Cardinality(UpToLimit(out)) = Limit
               /\ \A t \in UpToLimit(out) : t > s
    <2>1. s \in out /\ s \notin UpToLimit(out)
      BY <1>2
    <2>2. /\ Limit > 0 /\ Cardinality(UpToLimit(out)) = Limit
          /\ \A t \in UpToLimit(out) : t > s
      BY <1>6, <1>7, <2>1, UpToLimitIsNewest
    <2> QED BY <2>2
  <1> QED BY <1>1, <1>2, <1>3, <1>4, <1>8

\* What is listed and what is asked for has been whole, and stays a listing's answer.
LEMMA SeenKept ==
    ASSUME DirInv, [ANext]_avars
    PROVE  Seen' /\ ListIsSound' /\ NotFoundOnlyIfPruned'
  <1>t. Directory /\ Seen /\ ListIsSound /\ NotFoundOnlyIfPruned /\ Tasks
    BY DEF DirInv
  <1>d. Directory' /\ UNCHANGED calls
    BY DirectoryKept
       DEF ANext, Complete, Prune, List, Open, UsageBytes, RenameVideo,
           CreateMetadata, FillMetadata, BeginPrune, UnlinkVideo, UnlinkMetadata,
           EndPrune, BeginList, ReadEntry, EndList, BeginOpen, ReadTarget,
           OpenVideo, BeginWalk, Stat, StatGone, EndWalk, WriterStep,
           ListStep, OpenStep, WalkStep, diskVars, avars
  <1>k. \A s : Known(s) => Known(s)'
    BY KnownStays
  <1>1. ASSUME UNCHANGED <<lister, listing, opener, target, answer>>,
               \A s \in ever' : s \in ever \/ Known(s)', video' \subseteq video \cup {made + 1}
        PROVE  Seen' /\ ListIsSound' /\ NotFoundOnlyIfPruned'
    <2>1. Seen'
      BY <1>t, <1>k, <1>1 DEF Seen
    <2>2. ListIsSound'
      BY <1>t, <1>1 DEF ListIsSound
    <2>3. answer = "notfound" => target # made + 1
      BY <1>t DEF Seen, Known, Directory
    <2>4. NotFoundOnlyIfPruned'
      BY <1>t, <1>1, <2>3 DEF NotFoundOnlyIfPruned
    <2> QED BY <2>1, <2>2, <2>4
  <1>2. CASE FillMetadata
    <2>1. /\ UNCHANGED <<lister, listing, opener, target, answer, video, made>> /\ ever' = ever \cup {made}
          /\ writer = "truncated" /\ writer' = "completed" /\ meta' = [meta EXCEPT ![made] = "whole"]
      BY <1>2 DEF FillMetadata, WriterStep, openVars
    <2>2. made \in Segments /\ meta'[made] = "whole"
      BY <1>t, <2>1 DEF Directory
    <2>3. Known(made)'
      BY <1>t, <2>1, <2>2, ArchiveAssumption DEF Known, Segments
    <2> QED BY <1>1, <2>1, <2>3
  <1>3. CASE RenameVideo \/ CreateMetadata \/ Prune \/ UsageBytes \/ UNCHANGED avars
             \/ ReadEntry
    <2>1. /\ UNCHANGED <<lister, listing, opener, target, answer, ever>>
          /\ video' \subseteq video \cup {made + 1}
      BY <1>3 DEF RenameVideo, CreateMetadata, Prune, BeginPrune, UnlinkVideo,
                  UnlinkMetadata, EndPrune, UsageBytes, BeginWalk, Stat, StatGone,
                  EndWalk, ReadEntry, WriterStep, ListStep, WalkStep, diskVars,
                  openVars, listVars, avars
    <2> QED BY <1>1, <2>1
  <1>4. CASE BeginList
    <2>1. /\ UNCHANGED <<listing, opener, target, answer, video, meta, made, writer>>
          /\ ever' = Available
      BY <1>4 DEF BeginList, ListStep, openVars, diskVars
    <2>2. \A s \in ever' : Known(s)'
      BY <1>t, <1>k, <2>1, AvailableKnown
    <2> QED BY <1>t, <1>k, <2>1, <2>2 DEF Seen, ListIsSound, NotFoundOnlyIfPruned
  <1>5. CASE EndList
    <2>1. /\ UNCHANGED <<opener, target, answer, video, meta, made, writer>> /\ ever' = {}
          /\ lister = "scan"
      BY <1>5 DEF EndList, ListStep, openVars, diskVars
    <2>2. ListIsSound' /\ \A s \in listing'.result : s \in ever
      BY <1>5, ListedIsFound
    <2> QED BY <1>t, <1>k, <2>1, <2>2 DEF Seen, NotFoundOnlyIfPruned
  <1>6. CASE Open
    <2>1. UNCHANGED <<lister, listing, ever, video, meta, made, writer>>
      BY <1>6 DEF Open, BeginOpen, ReadTarget, OpenVideo, OpenStep, listVars,
                  diskVars
    <2>2. ListIsSound'
      BY <1>t, <2>1 DEF ListIsSound
    <2>3. CASE BeginOpen
      <3>1. target' \in listing.result /\ answer' = "none"
        BY <2>3 DEF BeginOpen
      <3> QED BY <1>t, <1>k, <2>1, <2>2, <3>1 DEF Seen, NotFoundOnlyIfPruned
    <2>4. CASE ReadTarget \/ OpenVideo
      <3>1. opener # "idle" /\ target' = target /\ Known(target)
        BY <1>t, <2>4 DEF ReadTarget, OpenVideo, Seen
      <3>2. Seen'
        BY <1>t, <1>k, <2>1, <3>1 DEF Seen
      <3>3. answer' = "notfound" => answer = "notfound" \/ target \notin video
        BY <2>4, <3>1 DEF ReadTarget, OpenVideo, Known
      <3> QED BY <1>t, <2>1, <2>2, <3>1, <3>2, <3>3 DEF NotFoundOnlyIfPruned
    <2> QED BY <1>6, <2>3, <2>4 DEF Open
  <1> QED BY <1>2, <1>3, <1>4, <1>5, <1>6 DEF ANext, Complete, List

\* The types, and the bound of Prune, follow.
LEMMA DirInvIsEnough == ASSUME DirInv PROVE AnswersAreSound
  <1>1. condemned \subseteq Segments
    BY ArchiveAssumption DEF DirInv, Directory, Segments
  <1>2. ATypeOK
    BY <1>1 DEF ATypeOK, DirInv, Tasks, Directory, Few
  <1> QED BY <1>2 DEF DirInv, AnswersAreSound

\* Although nothing locks the directory, each recording that List and Open answer with was there
\* at some moment of the call, and one that stayed is not denied (local.go 150-214).
THEOREM AnswersStaySound == ASpec => []AnswersAreSound
  <1>1. AInit => DirInv
    BY DirInit
  <1>2. DirInv /\ [ANext]_avars => DirInv'
    <2> SUFFICES ASSUME DirInv, [ANext]_avars PROVE DirInv'
      OBVIOUS
    <2> QED BY TasksKept, DirectoryKept, FewKept, ScanningKept, SeenKept DEF DirInv
  <1>3. DirInv => AnswersAreSound
    BY DirInvIsEnough
  <1> QED BY <1>1, <1>2, <1>3, PTL DEF ASpec
=============================================================================
