---------------------------- MODULE SegmentLife ----------------------------
(***************************************************************************)
(* What the viewers of a camera's recordings may count on: the camera      *)
(* records one segment at a time, a segment appears whole or never, the    *)
(* segments that appear follow one another, and the Keep newest never      *)
(* disappear, but for a newest one that is recorded again.  A segment is   *)
(* its start.  The detailed specification is module Recorder.              *)
(***************************************************************************)
EXTENDS Naturals, FiniteSets

CONSTANTS Starts, Keep

VARIABLES recording,   \* the segment being recorded, in a set, or {}
          listed       \* the segments that can be listed and downloaded

lvars == <<recording, listed>>

LInit == recording = {} /\ listed = {}

\* Newer than all that is listed; the newest may be recorded again, as its
\* only frame may be repeated after a restart.
Begin(s) == /\ recording = {}
            /\ \A t \in listed : t <= s
            /\ recording' = {s}
            /\ listed' = listed

Publish(s) == /\ s \in recording
              /\ recording' = {}
              /\ listed' = listed \cup {s}

\* A segment that is recorded again may be lost in the attempt.
Lose(s) == /\ s \in recording
           /\ recording' = {}
           /\ listed' \in {listed, listed \ {s}}

Spoil(s) == /\ s \in recording /\ s \in listed
            /\ recording' = recording
            /\ listed' = listed \ {s}

Expire(s) == /\ s \in listed
             /\ Cardinality({t \in listed : t > s}) >= Keep
             /\ listed' = listed \ {s}
             /\ recording' = recording

LNext == \E s \in Starts : Begin(s) \/ Publish(s) \/ Lose(s) \/ Spoil(s) \/ Expire(s)

LSpec == LInit /\ [][LNext]_lvars
=============================================================================
