----------------------------- MODULE Detections -----------------------------
(***************************************************************************)
(* The way of one picture through the arithmetic of two services:          *)
(* camera-web-api turns it by the angle configured for its camera          *)
(* (rotation.go), and the detector fits it into the square its model is    *)
(* fed (preprocess.go) and maps the boxes the model reports back to the    *)
(* picture, one for each object (postprocess.go).  ServeLifecycle has the  *)
(* frames before and after; here is what is drawn on them.                 *)
(*                                                                         *)
(* A picture is the set of the pixels that show an object.  Coordinates    *)
(* are exact: in the model's square they count half pixels, and in the     *)
(* picture 2 * InputSize-th parts of a pixel.                              *)
(***************************************************************************)
EXTENDS Integers

CONSTANTS
    Sizes,          \* widths and heights of pictures
    InputSize,      \* InputWidth and InputHeight of the model
    Angles,         \* angles in the configuration, any integers
    ConfThreshold,
    NMSThreshold,   \* a fraction: <<numerator, denominator>>
    NumClasses,
    AllowedClasses, \* allowedIDs
    ClassScores,    \* scores of the classes in a report
    Deviations,     \* of a report from the object's true box
    NumBoxes        \* reports of the model

ASSUME DetectionsAssumption ==
    /\ Sizes \subseteq (Nat \ {0}) \X (Nat \ {0}) /\ InputSize \in Nat \ {0}
    /\ Angles \subseteq Int /\ ConfThreshold \in Nat \ {0}
    /\ NMSThreshold \in Nat \X (Nat \ {0})
    /\ NumClasses \in Nat /\ ClassScores \subseteq [1..NumClasses -> Nat]
    /\ NumBoxes \in Nat \ {0} /\ Deviations \subseteq [1..4 -> Int]

VARIABLES
    stage,      \* the function the picture is in, see Stages
    degrees,    \* the angle configured for its camera
    original,   \* the picture as the camera took it
    picture,    \* the picture as the detector gets it
    lb,         \* letterboxResult: the scale InputSize / den, padLeft and padTop; and the
                \* size newW, newH of the picture as it is drawn in img
    transposed, \* OutputLayout.Transposed
    data,       \* the output tensor
    box,        \* the box parseOutput looks at next
    candidates, \* boxes that may be kept
    kept,       \* boxes nms has kept
    dets        \* the detections

vars == <<stage, degrees, original, picture, lb, transposed, data, box, candidates, kept, dets>>

Stages == {"rotate", "letterbox", "infer", "parse", "nms", "done"}

Largest(a, b) == IF a > b THEN a ELSE b
Smallest(a, b) == IF a < b THEN a ELSE b
clamp(v, lo, hi) == Largest(lo, Smallest(v, hi))

-----------------------------------------------------------------------------
(* rotation.go *)

\* Go's remainder takes the sign of the dividend.
Remainder(a, b) == IF a >= 0 THEN a % b ELSE -((-a) % b)

\* Mutant: a negative angle is not wrapped.
NormalizeUnwrapped(deg) ==
    LET n == Remainder(deg, 360) IN
    IF n < 45 \/ n >= 315 THEN 0 ELSE IF n < 135 THEN 90 ELSE IF n < 225 THEN 180 ELSE 270

Normalize(deg) ==
    LET n == Remainder(Remainder(deg, 360) + 360, 360) IN
    IF n < 45 \/ n >= 315 THEN 0 ELSE IF n < 135 THEN 90 ELSE IF n < 225 THEN 180 ELSE 270

\* Where a pixel of a picture of width w and height h goes.
Pixel90(w, h, p)  == <<h - 1 - p[2], p[1]>>
Pixel180(w, h, p) == <<w - 1 - p[1], h - 1 - p[2]>>
Pixel270(w, h, p) == <<p[2], w - 1 - p[1]>>

Rotate(pic, angle) ==
    LET w == pic.w  h == pic.h IN
    IF angle = 90 THEN [w |-> h, h |-> w, pixels |-> {Pixel90(w, h, p) : p \in pic.pixels}]
    ELSE IF angle = 180 THEN [w |-> w, h |-> h, pixels |-> {Pixel180(w, h, p) : p \in pic.pixels}]
    ELSE IF angle = 270 THEN [w |-> h, h |-> w, pixels |-> {Pixel270(w, h, p) : p \in pic.pixels}]
    ELSE pic

-----------------------------------------------------------------------------
(* preprocess.go *)

\* A side times the scale, rounded to the nearest whole number.
Scaled(side, den) == (2 * side * InputSize + den) \div (2 * den)

\* The scale InputSize / den makes the longer side that of the square.  The picture is drawn
\* with its rounded sides, in the middle of the square.
Letterbox(w, h) ==
    LET den == Largest(w, h)  newW == Scaled(w, den)  newH == Scaled(h, den)
    IN [den |-> den, newW |-> newW, newH |-> newH,
        padLeft |-> (InputSize - newW) \div 2, padTop |-> (InputSize - newH) \div 2]

\* Where a corner on a side is drawn that is resized to newSide, less the padding: in whole
\* pixels, the grid of a report.  This scale, newSide / side, is not quite InputSize / den.
Drawn(corner, side, newSide) == (corner * newSide) \div side

\* Mutant: the picture is taken to be in the corner of the square.
ToOriginalUnpadded(x, y, w, h) ==
    <<clamp(x * lb.den, 0, 2 * InputSize * w), clamp(y * lb.den, 0, 2 * InputSize * h)>>

toOriginal(x, y, w, h) ==
    <<clamp((x - 2 * lb.padLeft) * lb.den, 0, 2 * InputSize * w),
      clamp((y - 2 * lb.padTop) * lb.den, 0, 2 * InputSize * h)>>

-----------------------------------------------------------------------------
(* The model: a report is a centre, a width and a height, and class scores *)

Lowest(S)  == CHOOSE x \in S : \A y \in S : x <= y
Highest(S) == CHOOSE x \in S : \A y \in S : x >= y

\* The corners of the object in a picture, in pixels.
Bounds(pic) == LET xs == {p[1] : p \in pic.pixels}  ys == {p[2] : p \in pic.pixels}
               IN <<Lowest(xs), Lowest(ys), Highest(xs) + 1, Highest(ys) + 1>>

\* Where a perfect model sees the object in its square: centre in half pixels, size in pixels.
TrueReport ==
    LET b == Bounds(picture)
        x(corner) == Drawn(corner, picture.w, lb.newW)
        y(corner) == Drawn(corner, picture.h, lb.newH)
    IN <<x(b[1]) + x(b[3]) + 2 * lb.padLeft, y(b[2]) + y(b[4]) + 2 * lb.padTop,
         x(b[3]) - x(b[1]), y(b[4]) - y(b[2])>>

Channels == 4 + NumClasses

Report(deviation, scores) ==
    [k \in 1..Channels |-> IF k <= 4 THEN TrueReport[k] + deviation[k] ELSE scores[k - 4]]

\* One value after the other, by boxes or by channels.
Tensor(reports) ==
    [k \in 0..NumBoxes * Channels - 1 |->
        IF transposed THEN reports[(k \div Channels) + 1][(k % Channels) + 1]
                      ELSE reports[(k % NumBoxes) + 1][(k \div NumBoxes) + 1]]

-----------------------------------------------------------------------------
(* postprocess.go *)

At(ch, b) == IF transposed THEN data[b * Channels + ch] ELSE data[ch * NumBoxes + b]

\* The first class with the best score; class 0 if there is none above zero.
BestScore(b) == Highest({0} \cup {At(4 + c, b) : c \in 0..NumClasses - 1})
BestClass(b) ==
    IF BestScore(b) = 0 THEN 0
    ELSE Lowest({c \in 0..NumClasses - 1 : At(4 + c, b) = BestScore(b)})

\* The box of report b in the picture: from centre and size to corners, and back.
Detection(b) ==
    LET p == toOriginal(At(0, b) - At(2, b), At(1, b) - At(3, b), picture.w, picture.h)
        q == toOriginal(At(0, b) + At(2, b), At(1, b) + At(3, b), picture.w, picture.h)
    IN [class |-> BestClass(b), score |-> BestScore(b), from |-> b,
        x1 |-> p[1], y1 |-> p[2], x2 |-> q[1], y2 |-> q[2]]

Inter(a, b) == Largest(0, Smallest(a.x2, b.x2) - Largest(a.x1, b.x1))
               * Largest(0, Smallest(a.y2, b.y2) - Largest(a.y1, b.y1))
Area(a) == (a.x2 - a.x1) * (a.y2 - a.y1)

\* boxIoU(a, b) > iouThresh; its 1e-6 only keeps equality from counting.
Overlaps(a, b) ==
    Inter(a, b) * NMSThreshold[2] > NMSThreshold[1] * (Area(a) + Area(b) - Inter(a, b))

\* Mutant: boxes of different classes suppress each other.
SuppressedByAny(d) == \E e \in kept : Overlaps(e, d)

\* A box of its class that was kept overlaps d too much.
Suppressed(d) == \E e \in kept : e.class = d.class /\ Overlaps(e, d)

-----------------------------------------------------------------------------
Init == /\ stage = "rotate" /\ degrees \in Angles
        /\ \E s \in Sizes : \E pixel \in (0..s[1] - 1) \X (0..s[2] - 1) :
              original = [w |-> s[1], h |-> s[2], pixels |-> {pixel}]
        /\ picture = original /\ lb = [den |-> 1, newW |-> 0, newH |-> 0, padLeft |-> 0, padTop |-> 0]
        /\ transposed \in BOOLEAN /\ data = <<>> /\ box = 0
        /\ candidates = {} /\ kept = {} /\ dets = {}

\* Apply.  A picture that cannot be decoded goes on as it came, past the detector too.
Apply == /\ stage = "rotate" /\ stage' = "letterbox"
         /\ picture' = Rotate(original, Normalize(degrees))
         /\ UNCHANGED <<degrees, original, lb, transposed, data, box, candidates, kept, dets>>

letterbox == /\ stage = "letterbox" /\ stage' = "infer"
             /\ lb' = Letterbox(picture.w, picture.h)
             /\ UNCHANGED <<degrees, original, picture, transposed, data, box, candidates, kept, dets>>

\* The first report is the object's; the others deviate from it.
Infer == /\ stage = "infer" /\ stage' = "parse"
         /\ \E scores \in [1..NumBoxes -> ClassScores], dev \in [1..NumBoxes -> Deviations] :
               /\ dev[1] = <<0, 0, 0, 0>>
               /\ data' = Tensor([i \in 1..NumBoxes |-> Report(dev[i], scores[i])])
         /\ UNCHANGED <<degrees, original, picture, lb, transposed, box, candidates, kept, dets>>

\* parseOutput: the loop over the boxes.
parseOutput ==
    /\ stage = "parse" /\ box' = box + 1
    /\ stage' = IF box' = NumBoxes THEN "nms" ELSE "parse"
    /\ LET d == Detection(box) IN
       candidates' = IF d.score >= ConfThreshold /\ d.x1 < d.x2 /\ d.y1 < d.y2
                     THEN candidates \cup {d} ELSE candidates
    /\ UNCHANGED <<degrees, original, picture, lb, transposed, data, kept, dets>>

\* nms: in each class the best box that is not suppressed is kept; the order of equal
\* ones, and of the classes, is open.
Keep(d) ==
    /\ stage = "nms" /\ d \in candidates \ kept /\ ~Suppressed(d)
    /\ \A e \in candidates \ kept : e.class = d.class /\ ~Suppressed(e) => e.score <= d.score
    /\ kept' = kept \cup {d}
    /\ UNCHANGED <<stage, degrees, original, picture, lb, transposed, data, box, candidates, dets>>

\* inferenceOnly takes out the classes that are not wanted.
Filter ==
    /\ stage = "nms" /\ \A d \in candidates \ kept : Suppressed(d)
    /\ stage' = "done" /\ dets' = {d \in kept : d.class \in AllowedClasses}
    /\ UNCHANGED <<degrees, original, picture, lb, transposed, data, box, candidates, kept>>

Next == Apply \/ letterbox \/ Infer \/ parseOutput \/ (\E d \in candidates : Keep(d)) \/ Filter

Spec == Init /\ [][Next]_vars

-----------------------------------------------------------------------------
(* Properties *)

\* The pixels as seen from the middle of the picture, in half pixels.
FromCentre(w, h, p) == <<2 * p[1] - (w - 1), 2 * p[2] - (h - 1)>>
Centred(pic) == {FromCentre(pic.w, pic.h, p) : p \in pic.pixels}

\* What k quarter turns clockwise do to a point; y grows downwards.
Turned(k, p) == IF k = 0 THEN p ELSE IF k = 1 THEN <<-p[2], p[1]>>
                ELSE IF k = 2 THEN <<-p[1], -p[2]>> ELSE <<p[2], -p[1]>>

\* "Normalize converts any integer angle to the nearest of the four legal rotations"
\* (rotation.go:43), and the picture is turned about its middle by that angle, clockwise, with
\* its sides exchanged by an odd number of quarter turns.
PictureIsTurned ==
    stage # "rotate" => \E k \in 0..3 :
        /\ (degrees - 90 * k + 45) % 360 \in 0..89
        /\ Centred(picture) = {Turned(k, p) : p \in Centred(original)}
        /\ <<picture.w, picture.h>> = IF k % 2 = 0 THEN <<original.w, original.h>>
                                                   ELSE <<original.h, original.w>>

\* A picture shows something, inside its sides.
Picture == [w : Nat \ {0}, h : Nat \ {0}, pixels : SUBSET (Nat \X Nat)]
Shows(pic) == \E p \in (0..pic.w - 1) \X (0..pic.h - 1) : pic.pixels = {p}

\* The results of letterbox.
Boxed == [den : Nat \ {0}, newW : Nat, newH : Nat, padLeft : Int, padTop : Int]

\* Types; there are candidates after the inference, and boxes are kept after the parsing.
TypeOK ==
    /\ stage \in Stages /\ degrees \in Angles /\ original \in Picture /\ picture \in Picture
    /\ Shows(original) /\ Shows(picture)
    /\ lb \in Boxed /\ transposed \in BOOLEAN
    /\ stage \in {"parse", "nms", "done"} => data \in [0..NumBoxes * Channels - 1 -> Int]
    /\ box \in 0..NumBoxes /\ (box < NumBoxes \/ stage \in {"nms", "done"})
    /\ \A d \in candidates : {d.x1, d.y1, d.x2, d.y2} \subseteq Int
    /\ kept \subseteq candidates /\ dets \subseteq kept
    /\ candidates # {} => stage \in {"parse", "nms", "done"}
    /\ kept # {} => stage \in {"nms", "done"}

\* "without it a detection could carry a negative coordinate or one past the end of the
\* frame" (preprocess.go:32-34): a box is inside its picture, and not empty.
BoxesAreInside ==
    \A d \in candidates : /\ 0 <= d.x1 /\ d.x1 < d.x2 /\ d.x2 <= 2 * InputSize * picture.w
                          /\ 0 <= d.y1 /\ d.y1 < d.y2 /\ d.y2 <= 2 * InputSize * picture.h

\* "the overlap above which two boxes of the same class are treated as the same object"
\* (postprocess.go:23-25): of two such boxes at most one is kept.
KeptApart ==
    \A d, e \in kept : d # e /\ d.class = e.class => ~Overlaps(d, e)

\* "and the lower-scoring one is discarded" (postprocess.go:25): a box that is not kept was
\* given up for one of its class that is no worse and was kept.
SuppressedByBetter ==
    \A d \in candidates : Suppressed(d) =>
        \E e \in kept : e.class = d.class /\ Overlaps(e, d) /\ d.score <= e.score

\* Nothing is lost by nms or by the filter: at the end each candidate of a wanted class is
\* a detection, or overlaps one of its class that is no worse (postprocess.go:109-134).
AllAreShown ==
    stage = "done" => \A d \in candidates : d.class \in AllowedClasses =>
        d \in dets \/ \E e \in dets : e.class = d.class /\ Overlaps(e, d) /\ d.score <= e.score

\* The boxes drawn are inside the picture, one for each object, and the best one
\* (preprocess.go:28-41, postprocess.go:41-144).
BoxesAreSound == TypeOK /\ BoxesAreInside /\ KeptApart /\ SuppressedByBetter /\ AllAreShown

\* How far a corner's coordinate along a side of the picture may be off; a pixel of the square
\* is 2 * lb.den of it.  Nothing is lost if the scale is a whole number.  Else a report in whole
\* pixels loses less than one; and a side that is drawn up to half a pixel too short or too
\* long, while the way back divides by the scale as it was, adds as much either way.
Tolerance(side) ==
    IF InputSize % lb.den = 0 THEN {0}
    ELSE IF (InputSize * side) % lb.den = 0 THEN 0..2 * lb.den - 1
    ELSE -lb.den..3 * lb.den - 1

\* The object of the picture has its box, whatever the sides of the picture and the layout of
\* the output (preprocess.go:37-67, postprocess.go:53-83), if the model can see it: its corners
\* are within the tolerance, although the picture is drawn with one scale and the box brought
\* back with another (preprocess.go:39, 55-60).  The box is drawn, or one of its class that
\* overlaps it and scores no less.
ObjectIsFound ==
    LET b == Bounds(picture)
        d == Detection(0)
        near(x, corner, side) == 2 * InputSize * corner - x \in Tolerance(side)
    IN stage = "done" /\ d.score >= ConfThreshold /\ d.class \in AllowedClasses
          /\ TrueReport[3] > 0 /\ TrueReport[4] > 0 =>
        /\ near(d.x1, b[1], picture.w) /\ near(d.y1, b[2], picture.h)
        /\ near(d.x2, b[3], picture.w) /\ near(d.y2, b[4], picture.h)
        /\ d \in dets \/ \E e \in dets : e.class = d.class /\ Overlaps(e, d) /\ e.score >= d.score

\* "then divide by the scale that was applied" (preprocess.go:33): what is lost is what a report
\* in whole pixels loses, along every side.  False where a side is rounded, since the scale that
\* was applied to it is newW / origW, and scale what it was before the rounding.
ScaleIsUndone ==
    stage = "done" /\ TrueReport[3] > 0 =>
        2 * InputSize * Bounds(picture)[3] - Detection(0).x2 \in 0..2 * lb.den - 1
=============================================================================
