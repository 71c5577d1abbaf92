---------------------------- MODULE MCDetections ----------------------------
(***************************************************************************)
(* Values for a TLC run of Detections: pictures that are wide, high and of *)
(* an odd side, reports that hit the object, touch it, or miss the picture.*)
(***************************************************************************)
EXTENDS Detections

\* In a square of 4 they are scaled by 1, 2, 4/3 and 4/5.  The shorter side of the last two is
\* rounded, 4/3 to 1 and 8/5 to 2, and of five pixels in a row one vanishes.  The padding is half
\* a pixel, which is rounded, or one.
MCSizes == {<<4, 3>>, <<1, 2>>, <<3, 1>>, <<2, 5>>}

MCAngles == {44, 45, -90, 200}

MCNMSThreshold == <<1, 4>>

\* Of two classes; the last is below the threshold.
MCClassScores == {<<3, 1>>, <<2, 3>>, <<1, 1>>}

\* The true box; moved by half a pixel and by one; larger; outside the square.
MCDeviations == {<<0, 0, 0, 0>>, <<1, 0, 0, 0>>, <<2, 0, 0, 0>>, <<0, 0, 2, 1>>, <<0, 99, 0, 0>>}
=============================================================================
