--------------------------- MODULE DetectionsProofs ---------------------------
(***************************************************************************)
(* Theorems on the rotation of pictures and on the boxes of the detector,  *)
(* for pictures, squares, reports and thresholds of every size.            *)
(***************************************************************************)
EXTENDS Detections, TLAPS

-----------------------------------------------------------------------------
(* Rotation *)

\* A pixel is brought back by the opposite turn, and half a turn is two quarters: the three
\* loops of rotation.go agree with each other, whatever the sides of the picture.
THEOREM TurnsCompose ==
    ASSUME NEW w \in Nat, NEW h \in Nat, NEW x \in 0..w - 1, NEW y \in 0..h - 1
    PROVE  /\ Pixel90(w, h, <<x, y>>) \in (0..h - 1) \X (0..w - 1)
           /\ Pixel270(h, w, Pixel90(w, h, <<x, y>>)) = <<x, y>>
           /\ Pixel90(h, w, Pixel90(w, h, <<x, y>>)) = Pixel180(w, h, <<x, y>>)
           /\ Pixel90(h, w, Pixel180(h, w, Pixel90(w, h, <<x, y>>))) = <<x, y>>
  BY DEF Pixel90, Pixel180, Pixel270

\* Normalize picks the nearest of the four angles for every integer, negative ones included.
LEMMA NormalizeIsNearest ==
    ASSUME NEW deg \in Int
    PROVE  \E k \in 0..3 : Normalize(deg) = 90 * k /\ (deg - 90 * k + 45) % 360 \in 0..89
<1> DEFINE n == Remainder(Remainder(deg, 360) + 360, 360)
<1>1. n \in 0..359 /\ \E t \in Int : deg = 360 * t + n
  <2>1. CASE deg >= 0
    BY <2>1 DEF Remainder
  <2>2. CASE deg < 0
    BY <2>2 DEF Remainder
  <2> QED BY <2>1, <2>2
<1>2. PICK t \in Int : deg = 360 * t + n
  BY <1>1
<1> HIDE DEF n
<1>3. Normalize(deg) = IF n < 45 \/ n >= 315 THEN 0 ELSE
                       IF n < 135 THEN 90 ELSE IF n < 225 THEN 180 ELSE 270
  BY DEF Normalize, n
<1>4. CASE n < 45
  BY <1>1, <1>2, <1>3, <1>4
<1>5. CASE n >= 315
  BY <1>1, <1>2, <1>3, <1>5
<1>6. CASE n >= 45 /\ n < 135
  BY <1>1, <1>2, <1>3, <1>6
<1>7. CASE n >= 135 /\ n < 225
  BY <1>1, <1>2, <1>3, <1>7
<1>8. CASE n >= 225 /\ n < 315
  BY <1>1, <1>2, <1>3, <1>8
<1> QED BY <1>1, <1>4, <1>5, <1>6, <1>7, <1>8

\* Seen from the middle, each of the loops turns a pixel by its number of quarters.
LEMMA PixelsTurn ==
    ASSUME NEW w \in Nat, NEW h \in Nat, NEW p \in Nat \X Nat
    PROVE  /\ FromCentre(h, w, Pixel90(w, h, p)) = Turned(1, FromCentre(w, h, p))
           /\ FromCentre(w, h, Pixel180(w, h, p)) = Turned(2, FromCentre(w, h, p))
           /\ FromCentre(h, w, Pixel270(w, h, p)) = Turned(3, FromCentre(w, h, p))
  BY DEF FromCentre, Pixel90, Pixel180, Pixel270, Turned

\* So a whole picture is turned about its middle.
LEMMA RotateTurns ==
    ASSUME NEW pic \in Picture, NEW k \in 0..3
    PROVE  /\ Centred(Rotate(pic, 90 * k)) = {Turned(k, p) : p \in Centred(pic)}
           /\ <<Rotate(pic, 90 * k).w, Rotate(pic, 90 * k).h>>
                 = IF k % 2 = 0 THEN <<pic.w, pic.h>> ELSE <<pic.h, pic.w>>
<1> DEFINE w == pic.w  h == pic.h
<1>1. w \in Nat /\ h \in Nat /\ \A p \in pic.pixels : p \in Nat \X Nat
  BY DEF Picture
<1>2. CASE k = 0
  <2>1. Rotate(pic, 90 * k) = pic
    BY <1>2 DEF Rotate
  <2>2. \A p \in Centred(pic) : Turned(0, p) = p
    BY DEF Turned
  <2> QED BY <1>2, <2>1, <2>2
<1>3. CASE k = 1
  <2>1. Rotate(pic, 90 * k) = [w |-> h, h |-> w, pixels |-> {Pixel90(w, h, p) : p \in pic.pixels}]
    BY <1>3 DEF Rotate
  <2>2. Centred(Rotate(pic, 90 * k)) = {FromCentre(h, w, Pixel90(w, h, p)) : p \in pic.pixels}
    BY <2>1 DEF Centred
  <2>3. {Turned(k, p) : p \in Centred(pic)} = {Turned(k, FromCentre(w, h, p)) : p \in pic.pixels}
    BY DEF Centred
  <2>4. {FromCentre(h, w, Pixel90(w, h, p)) : p \in pic.pixels}
          = {Turned(k, FromCentre(w, h, p)) : p \in pic.pixels}
    BY <1>1, <1>3, PixelsTurn
  <2>5. Centred(Rotate(pic, 90 * k)) = {Turned(k, p) : p \in Centred(pic)}
    BY <2>2, <2>3, <2>4, Zenon
  <2>6. <<Rotate(pic, 90 * k).w, Rotate(pic, 90 * k).h>>
           = IF k % 2 = 0 THEN <<pic.w, pic.h>> ELSE <<pic.h, pic.w>>
    BY <1>3, <2>1
  <2> QED BY <2>5, <2>6
<1>4. CASE k = 2
  <2>1. Rotate(pic, 90 * k) = [w |-> w, h |-> h, pixels |-> {Pixel180(w, h, p) : p \in pic.pixels}]
    BY <1>4 DEF Rotate
  <2>2. Centred(Rotate(pic, 90 * k)) = {FromCentre(w, h, Pixel180(w, h, p)) : p \in pic.pixels}
    BY <2>1 DEF Centred
  <2>3. {Turned(k, p) : p \in Centred(pic)} = {Turned(k, FromCentre(w, h, p)) : p \in pic.pixels}
    BY DEF Centred
  <2>4. {FromCentre(w, h, Pixel180(w, h, p)) : p \in pic.pixels}
          = {Turned(k, FromCentre(w, h, p)) : p \in pic.pixels}
    BY <1>1, <1>4, PixelsTurn
  <2>5. Centred(Rotate(pic, 90 * k)) = {Turned(k, p) : p \in Centred(pic)}
    BY <2>2, <2>3, <2>4, Zenon
  <2>6. <<Rotate(pic, 90 * k).w, Rotate(pic, 90 * k).h>>
           = IF k % 2 = 0 THEN <<pic.w, pic.h>> ELSE <<pic.h, pic.w>>
    BY <1>4, <2>1
  <2> QED BY <2>5, <2>6
<1>5. CASE k = 3
  <2>1. Rotate(pic, 90 * k) = [w |-> h, h |-> w, pixels |-> {Pixel270(w, h, p) : p \in pic.pixels}]
    BY <1>5 DEF Rotate
  <2>2. Centred(Rotate(pic, 90 * k)) = {FromCentre(h, w, Pixel270(w, h, p)) : p \in pic.pixels}
    BY <2>1 DEF Centred
  <2>3. {Turned(k, p) : p \in Centred(pic)} = {Turned(k, FromCentre(w, h, p)) : p \in pic.pixels}
    BY DEF Centred
  <2>4. {FromCentre(h, w, Pixel270(w, h, p)) : p \in pic.pixels}
          = {Turned(k, FromCentre(w, h, p)) : p \in pic.pixels}
    BY <1>1, <1>5, PixelsTurn
  <2>5. Centred(Rotate(pic, 90 * k)) = {Turned(k, p) : p \in Centred(pic)}
    BY <2>2, <2>3, <2>4, Zenon
  <2>6. <<Rotate(pic, 90 * k).w, Rotate(pic, 90 * k).h>>
           = IF k % 2 = 0 THEN <<pic.w, pic.h>> ELSE <<pic.h, pic.w>>
    BY <1>5, <2>1
  <2> QED BY <2>5, <2>6
<1> QED BY <1>2, <1>3, <1>4, <1>5

\* The picture the detector gets is the camera's, turned clockwise by the legal angle that is
\* nearest to the configured one: for every picture and every angle.
THEOREM PicturesAreTurned == Spec => []PictureIsTurned
<1> DEFINE Inv == original \in Picture /\ degrees \in Int /\ PictureIsTurned
<1>1. Init => Inv
  <2> SUFFICES ASSUME Init PROVE Inv
    OBVIOUS
  <2>1. PICK s \in Sizes : \E pixel \in (0..s[1] - 1) \X (0..s[2] - 1) :
            original = [w |-> s[1], h |-> s[2], pixels |-> {pixel}]
    BY DEF Init
  <2>2. s[1] \in Nat \ {0} /\ s[2] \in Nat \ {0}
    BY DetectionsAssumption
  <2>3. original \in Picture
    BY <2>1, <2>2 DEF Picture
  <2> QED BY <2>3, DetectionsAssumption DEF Init, PictureIsTurned
<1>2. Inv /\ [Next]_vars => Inv'
  <2> SUFFICES ASSUME Inv, [Next]_vars PROVE Inv'
    OBVIOUS
  <2>1. CASE Apply
    <3>1. PICK k \in 0..3 : Normalize(degrees) = 90 * k /\ (degrees - 90 * k + 45) % 360 \in 0..89
      BY NormalizeIsNearest
    <3>2. picture' = Rotate(original, 90 * k) /\ UNCHANGED <<original, degrees>>
      BY <2>1, <3>1 DEF Apply
    <3> HIDE DEF Inv
    <3>3. /\ Centred(picture') = {Turned(k, p) : p \in Centred(original)}
          /\ <<picture'.w, picture'.h>> = IF k % 2 = 0 THEN <<original.w, original.h>>
                                                       ELSE <<original.h, original.w>>
      BY <3>2, RotateTurns DEF Inv
    <3>4. Centred(picture)' = Centred(picture') /\ Centred(original)' = Centred(original)
      BY <3>2 DEF Centred
    <3> QED BY <3>1, <3>2, <3>3, <3>4 DEF Inv, PictureIsTurned
  <2>2. CASE ~Apply
    <3>1. UNCHANGED <<original, degrees, picture>> /\ (stage' = "rotate" <=> stage = "rotate")
      BY <2>2 DEF Next, vars, letterbox, Infer, parseOutput, Keep, Filter
    <3>2. Centred(picture)' = Centred(picture) /\ Centred(original)' = Centred(original)
      BY <3>1 DEF Centred
    <3> QED BY <3>1, <3>2 DEF PictureIsTurned
  <2> QED BY <2>1, <2>2
<1> QED BY <1>1, <1>2, PTL DEF Spec

-----------------------------------------------------------------------------
(* Boxes *)

\* The index of a value in the tensor, and the way back from an index.
LEMMA Products ==
    ASSUME NEW m \in Nat, NEW n \in Nat \ {0}, NEW i \in Nat, i < m
    PROVE  i * n + n <= m * n
<1>1. (m - i - 1) * n >= 0
  BY m - i - 1 \in Nat
<1>2. (m - i - 1) * n = m * n - i * n - n
  OBVIOUS
<1> QED BY <1>1, <1>2

\* An index made of a row and a column is in the tensor (At, postprocess.go:46-55).
LEMMA IndexInRange ==
    ASSUME NEW m \in Nat, NEW n \in Nat \ {0}, NEW i \in 0..m - 1, NEW j \in 0..n - 1
    PROVE  i * n + j \in 0..m * n - 1
<1>1. i * n + n <= m * n
  BY Products
<1>2. i * n \in Nat
  OBVIOUS
<1> QED BY <1>1, <1>2

\* An index is made of its quotient and its remainder.
LEMMA DivisionIsExact ==
    ASSUME NEW k \in Nat, NEW n \in Nat \ {0}
    PROVE  k \div n \in Nat /\ k % n \in 0..n - 1 /\ k = n * (k \div n) + (k % n)
  OBVIOUS

\* An index of the tensor splits into a row and a column that exist.
LEMMA IndexIsSplit ==
    ASSUME NEW m \in Nat, NEW n \in Nat \ {0}, NEW k \in 0..m * n - 1
    PROVE  k \div n \in 0..m - 1 /\ k % n \in 0..n - 1
<1>1. k \div n \in Nat /\ k % n \in 0..n - 1 /\ k = n * (k \div n) + (k % n)
  <2>1. m * n \in Nat
    OBVIOUS
  <2>2. k \in Nat
    BY <2>1
  <2> QED BY <2>2, DivisionIsExact
<1>2. ASSUME k \div n >= m PROVE FALSE
  <2> DEFINE q == k \div n
  <2>1. q \in Nat /\ q >= m /\ n * q <= k
    BY <1>1, <1>2
  <2> HIDE DEF q
  <2>2. (q - m) * n >= 0
    BY <2>1
  <2>3. (q - m) * n = n * q - m * n
    BY <2>1
  <2> QED BY <2>1, <2>2, <2>3
<1> QED BY <1>1, <1>2

\* Two boxes overlap each other.
LEMMA OverlapsIsSymmetric ==
    ASSUME NEW a, NEW b, {a.x1, a.y1, a.x2, a.y2} \subseteq Int, {b.x1, b.y1, b.x2, b.y2} \subseteq Int
    PROVE  Overlaps(a, b) <=> Overlaps(b, a)
<1>1. Inter(a, b) = Inter(b, a)
  <2>1. /\ Smallest(a.x2, b.x2) = Smallest(b.x2, a.x2) /\ Largest(a.x1, b.x1) = Largest(b.x1, a.x1)
        /\ Smallest(a.y2, b.y2) = Smallest(b.y2, a.y2) /\ Largest(a.y1, b.y1) = Largest(b.y1, a.y1)
    BY DEF Smallest, Largest
  <2> QED BY <2>1 DEF Inter
<1>2. Area(a) \in Int /\ Area(b) \in Int
  BY DEF Area
<1>3. Inter(a, b) \in Int
  <2> DEFINE dx == Smallest(a.x2, b.x2) - Largest(a.x1, b.x1)
             dy == Smallest(a.y2, b.y2) - Largest(a.y1, b.y1)
  <2>1. dx \in Int /\ dy \in Int
    BY DEF Largest, Smallest
  <2>2. Inter(a, b) = Largest(0, dx) * Largest(0, dy)
    BY DEF Inter
  <2> HIDE DEF dx, dy
  <2>3. Largest(0, dx) \in Int /\ Largest(0, dy) \in Int
    BY <2>1 DEF Largest
  <2> QED BY <2>2, <2>3
<1>4. NMSThreshold[1] \in Int /\ NMSThreshold[2] \in Int
  BY DetectionsAssumption
<1> QED BY <1>1, <1>2, <1>3, <1>4 DEF Overlaps

\* A clamped value is between its bounds.
LEMMA Clamped ==
    ASSUME NEW v \in Int, NEW hi \in Nat
    PROVE  clamp(v, 0, hi) \in 0..hi
  BY DEF clamp, Largest, Smallest

\* A rotated picture is a picture.
LEMMA RotateIsPicture ==
    ASSUME NEW pic \in Picture, Shows(pic), NEW k \in 0..3
    PROVE  Rotate(pic, 90 * k) \in Picture /\ Shows(Rotate(pic, 90 * k))
<1> DEFINE w == pic.w  h == pic.h
<1>1. w \in Nat \ {0} /\ h \in Nat \ {0}
  BY DEF Picture
<1>2. PICK p \in (0..w - 1) \X (0..h - 1) : pic.pixels = {p}
  BY DEF Shows
<1>3. CASE k = 0
  BY <1>3 DEF Rotate
<1>4. CASE k = 1
  <2>1. Pixel90(w, h, p) \in (0..h - 1) \X (0..w - 1)
    BY <1>1, <1>2 DEF Pixel90
  <2>2. Rotate(pic, 90 * k) = [w |-> h, h |-> w, pixels |-> {Pixel90(w, h, p)}]
    BY <1>2, <1>4 DEF Rotate
  <2> QED BY <1>1, <2>1, <2>2 DEF Picture, Shows
<1>5. CASE k = 2
  <2>1. Pixel180(w, h, p) \in (0..w - 1) \X (0..h - 1)
    BY <1>1, <1>2 DEF Pixel180
  <2>2. {Pixel180(w, h, q) : q \in pic.pixels} = {Pixel180(w, h, p)}
    BY <1>2
  <2>3. Rotate(pic, 90 * k) = [w |-> w, h |-> h, pixels |-> {Pixel180(w, h, p)}]
    BY <1>5, <2>2 DEF Rotate
  <2> QED BY <1>1, <2>1, <2>3 DEF Picture, Shows
<1>6. CASE k = 3
  <2>1. Pixel270(w, h, p) \in (0..h - 1) \X (0..w - 1)
    BY <1>1, <1>2 DEF Pixel270
  <2>2. {Pixel270(w, h, q) : q \in pic.pixels} = {Pixel270(w, h, p)}
    BY <1>2
  <2>3. Rotate(pic, 90 * k) = [w |-> h, h |-> w, pixels |-> {Pixel270(w, h, p)}]
    BY <1>6, <2>2 DEF Rotate
  <2> QED BY <1>1, <2>1, <2>3 DEF Picture, Shows
<1> QED BY <1>3, <1>4, <1>5, <1>6

\* A side is drawn with a whole number of pixels.
LEMMA ScaledType ==
    ASSUME NEW side \in Nat, NEW den \in Nat \ {0}
    PROVE  Scaled(side, den) \in Nat
<1>1. 2 * side * InputSize + den \in Nat /\ 2 * den \in Nat \ {0}
  BY DetectionsAssumption
<1> QED BY <1>1, DivisionIsExact DEF Scaled

\* letterbox gives a positive scale, a size to draw and integer padding, for a picture of any
\* sides.
LEMMA LetterboxType ==
    ASSUME NEW w \in Nat \ {0}, NEW h \in Nat \ {0}
    PROVE  Letterbox(w, h) \in Boxed
<1> DEFINE den == Largest(w, h)  newW == Scaled(w, den)  newH == Scaled(h, den)
<1>1. den \in Nat \ {0}
  BY DEF Largest
<1>2. newW \in Nat /\ newH \in Nat
  BY <1>1, ScaledType
<1>3. Letterbox(w, h) = [den |-> den, newW |-> newW, newH |-> newH,
                         padLeft |-> (InputSize - newW) \div 2, padTop |-> (InputSize - newH) \div 2]
  BY DEF Letterbox
<1> HIDE DEF den, newW, newH
<1> QED BY <1>1, <1>2, <1>3, DetectionsAssumption DEF Boxed

\* A picture shows one pixel, whose corners these are.
LEMMA BoundsOfPixel ==
    ASSUME NEW pic \in Picture, NEW p \in Int \X Int, pic.pixels = {p}
    PROVE  Bounds(pic) = <<p[1], p[2], p[1] + 1, p[2] + 1>>
<1>1. \A a \in Int : Lowest({a}) = a /\ Highest({a}) = a
  BY DEF Lowest, Highest
<1>2. {q[1] : q \in pic.pixels} = {p[1]} /\ {q[2] : q \in pic.pixels} = {p[2]}
  OBVIOUS
<1> QED BY <1>1, <1>2 DEF Bounds

\* A corner is drawn in a whole pixel.
LEMMA DrawnType ==
    ASSUME NEW corner \in Nat, NEW side \in Nat \ {0}, NEW newSide \in Nat
    PROVE  Drawn(corner, side, newSide) \in Nat
<1>1. corner * newSide \in Nat
  OBVIOUS
<1> QED BY <1>1, DivisionIsExact DEF Drawn

\* A perfect report gives the corners of that pixel in the square.
LEMMA ReportIsOfPixel ==
    ASSUME picture \in Picture, NEW p \in Int \X Int, picture.pixels = {p}
    PROVE  LET x(corner) == Drawn(corner, picture.w, lb.newW)
               y(corner) == Drawn(corner, picture.h, lb.newH)
           IN TrueReport = <<x(p[1]) + x(p[1] + 1) + 2 * lb.padLeft,
                             y(p[2]) + y(p[2] + 1) + 2 * lb.padTop,
                             x(p[1] + 1) - x(p[1]), y(p[2] + 1) - y(p[2])>>
  BY BoundsOfPixel DEF TrueReport

\* A perfect report is made of integers.
LEMMA TrueReportType ==
    ASSUME picture \in Picture, Shows(picture), lb \in Boxed
    PROVE  \A k \in 1..4 : TrueReport[k] \in Int
<1>1. PICK p \in (0..picture.w - 1) \X (0..picture.h - 1) : picture.pixels = {p}
  BY DEF Shows
<1> DEFINE x(corner) == Drawn(corner, picture.w, lb.newW)
           y(corner) == Drawn(corner, picture.h, lb.newH)
<1>2. /\ p \in Int \X Int /\ p[1] \in Nat /\ p[2] \in Nat
      /\ picture.w \in Nat \ {0} /\ picture.h \in Nat \ {0}
  BY <1>1 DEF Picture
<1>3. lb.newW \in Nat /\ lb.newH \in Nat /\ lb.padLeft \in Int /\ lb.padTop \in Int
  BY DEF Boxed
<1>4. \A c \in Nat : x(c) \in Nat /\ y(c) \in Nat
  BY <1>2, <1>3, DrawnType
<1>5. TrueReport = <<x(p[1]) + x(p[1] + 1) + 2 * lb.padLeft,
                     y(p[2]) + y(p[2] + 1) + 2 * lb.padTop,
                     x(p[1] + 1) - x(p[1]), y(p[2] + 1) - y(p[2])>>
  BY <1>1, <1>2, ReportIsOfPixel
<1> HIDE DEF x, y
<1>6. x(p[1]) \in Int /\ x(p[1] + 1) \in Int /\ y(p[2]) \in Int /\ y(p[2] + 1) \in Int
  BY <1>2, <1>4
<1> QED BY <1>3, <1>5, <1>6

\* What the model is taken to report are integers.
LEMMA ReportType ==
    ASSUME picture \in Picture, Shows(picture),
           lb \in Boxed,
           NEW deviation \in Deviations, NEW scores \in ClassScores
    PROVE  Report(deviation, scores) \in [1..Channels -> Int]
<1>1. \A k \in 1..4 : TrueReport[k] \in Int
  BY TrueReportType
<1>2. \A k \in 1..4 : deviation[k] \in Int
  BY DetectionsAssumption
<1>3. \A k \in 1..Channels : k > 4 => scores[k - 4] \in Int
  BY DetectionsAssumption DEF Channels
<1> QED BY <1>1, <1>2, <1>3 DEF Report

\* The tensor has a value at each index, in either layout.
LEMMA TensorType ==
    ASSUME NEW reports \in [1..NumBoxes -> [1..Channels -> Int]]
    PROVE  Tensor(reports) \in [0..NumBoxes * Channels - 1 -> Int]
<1>1. Channels \in Nat \ {0} /\ NumBoxes \in Nat \ {0}
  BY DetectionsAssumption DEF Channels
<1>2. NumBoxes * Channels = Channels * NumBoxes
  BY <1>1
<1>3. ASSUME NEW k \in 0..NumBoxes * Channels - 1
      PROVE  /\ reports[(k \div Channels) + 1][(k % Channels) + 1] \in Int
             /\ reports[(k % NumBoxes) + 1][(k \div NumBoxes) + 1] \in Int
  <2>1. k \div Channels \in 0..NumBoxes - 1 /\ k % Channels \in 0..Channels - 1
    BY <1>1, IndexIsSplit
  <2>2. k \div NumBoxes \in 0..Channels - 1 /\ k % NumBoxes \in 0..NumBoxes - 1
    BY <1>1, <1>2, IndexIsSplit
  <2>3. (k \div Channels) + 1 \in 1..NumBoxes /\ (k % Channels) + 1 \in 1..Channels
    BY <1>1, <2>1
  <2>4. (k \div NumBoxes) + 1 \in 1..Channels /\ (k % NumBoxes) + 1 \in 1..NumBoxes
    BY <1>1, <2>2
  <2> QED BY <2>3, <2>4
<1> QED BY <1>3 DEF Tensor

\* What parseOutput reads from the tensor is an integer: no index is out of its range.
LEMMA AtType ==
    ASSUME data \in [0..NumBoxes * Channels - 1 -> Int], transposed \in BOOLEAN,
           NEW ch \in 0..Channels - 1, NEW b \in 0..NumBoxes - 1
    PROVE  At(ch, b) \in Int
<1>1. Channels \in Nat \ {0} /\ NumBoxes \in Nat \ {0}
  BY DetectionsAssumption DEF Channels
<1>2. b * Channels + ch \in 0..NumBoxes * Channels - 1
  BY <1>1, IndexInRange
<1>3. ch * NumBoxes + b \in 0..Channels * NumBoxes - 1
  BY <1>1, IndexInRange
<1>4. Channels * NumBoxes = NumBoxes * Channels
  BY <1>1
<1> QED BY <1>2, <1>3, <1>4 DEF At

\* A box is clamped to its picture.
LEMMA DetectionIsInside ==
    ASSUME TypeOK, stage = "parse"
    PROVE  /\ Detection(box).x1 \in 0..2 * InputSize * picture.w
           /\ Detection(box).x2 \in 0..2 * InputSize * picture.w
           /\ Detection(box).y1 \in 0..2 * InputSize * picture.h
           /\ Detection(box).y2 \in 0..2 * InputSize * picture.h
<1> DEFINE cx == At(0, box)  cy == At(1, box)  dx == At(2, box)  dy == At(3, box)
           w == picture.w  h == picture.h
<1>1. cx \in Int /\ cy \in Int /\ dx \in Int /\ dy \in Int
  <2>1. box \in 0..NumBoxes - 1 /\ {0, 1, 2, 3} \subseteq 0..Channels - 1
    BY DetectionsAssumption DEF TypeOK, Channels
  <2>2. data \in [0..NumBoxes * Channels - 1 -> Int] /\ transposed \in BOOLEAN
    BY DEF TypeOK
  <2> QED BY <2>1, <2>2, AtType
<1>2. 2 * InputSize * w \in Nat /\ 2 * InputSize * h \in Nat
  <2>1. w \in Nat /\ h \in Nat
    BY DEF TypeOK, Picture
  <2> HIDE DEF w, h
  <2> QED BY <2>1, DetectionsAssumption
<1>3. lb.den \in Int /\ lb.padLeft \in Int /\ lb.padTop \in Int
  BY DEF TypeOK, Boxed
<1> HIDE DEF cx, cy, dx, dy
<1>4. \A x, y \in Int : /\ toOriginal(x, y, w, h)[1] \in 0..2 * InputSize * w
                        /\ toOriginal(x, y, w, h)[2] \in 0..2 * InputSize * h
  <2> TAKE x, y \in Int
  <2>1. (x - 2 * lb.padLeft) * lb.den \in Int /\ (y - 2 * lb.padTop) * lb.den \in Int
    BY <1>3
  <2> QED BY <1>2, <2>1, Clamped DEF toOriginal
<1>5. cx - dx \in Int /\ cy - dy \in Int /\ cx + dx \in Int /\ cy + dy \in Int
  BY <1>1
<1>6. /\ Detection(box).x1 = toOriginal(cx - dx, cy - dy, w, h)[1]
      /\ Detection(box).y1 = toOriginal(cx - dx, cy - dy, w, h)[2]
      /\ Detection(box).x2 = toOriginal(cx + dx, cy + dy, w, h)[1]
      /\ Detection(box).y2 = toOriginal(cx + dx, cy + dy, w, h)[2]
  BY DEF Detection, cx, cy, dx, dy
<1> QED BY <1>4, <1>5, <1>6

-----------------------------------------------------------------------------
(* The invariant *)

\* A picture from the camera is well typed.
LEMMA TypeInit == Init => TypeOK
<1> SUFFICES ASSUME Init PROVE TypeOK
  OBVIOUS
<1>1. PICK s \in Sizes : \E pixel \in (0..s[1] - 1) \X (0..s[2] - 1) :
          original = [w |-> s[1], h |-> s[2], pixels |-> {pixel}]
  BY DEF Init
<1>2. s[1] \in Nat \ {0} /\ s[2] \in Nat \ {0}
  BY <1>1, DetectionsAssumption
<1>3. original \in Picture /\ Shows(original)
  BY <1>1, <1>2 DEF Picture, Shows
<1>4. Shows(picture) /\ picture \in Picture
  BY <1>3 DEF Init
<1> QED BY <1>3, <1>4, DetectionsAssumption DEF Init, TypeOK, Stages, Boxed

\* Every step from rotation to the filter keeps the types.
LEMMA TypeStep == TypeOK /\ [Next]_vars => TypeOK'
<1> SUFFICES ASSUME TypeOK, [Next]_vars PROVE TypeOK'
  OBVIOUS
<1>1. CASE Apply
  <2>1. degrees \in Int /\ original \in Picture /\ Shows(original)
    BY DetectionsAssumption DEF TypeOK
  <2>2. PICK k \in 0..3 : Normalize(degrees) = 90 * k
    BY <2>1, NormalizeIsNearest
  <2>3. Rotate(original, 90 * k) \in Picture /\ Shows(Rotate(original, 90 * k))
    BY <2>1, RotateIsPicture
  <2>4. picture' \in Picture /\ Shows(picture)' /\ Shows(original)'
    BY <1>1, <2>1, <2>2, <2>3 DEF Apply, Shows
  <2> QED BY <1>1, <2>4 DEF Apply, TypeOK, Stages
<1>2. CASE letterbox
  <2>1. picture.w \in Nat \ {0} /\ picture.h \in Nat \ {0}
    BY DEF TypeOK, Picture
  <2>2. lb' \in Boxed
    BY <1>2, <2>1, LetterboxType DEF letterbox
  <2> QED BY <1>2, <2>2 DEF letterbox, TypeOK, Stages, Shows
<1>3. CASE Infer
  <2>1. PICK scores \in [1..NumBoxes -> ClassScores], dev \in [1..NumBoxes -> Deviations] :
            data' = Tensor([i \in 1..NumBoxes |-> Report(dev[i], scores[i])])
    BY <1>3 DEF Infer
  <2>2. [i \in 1..NumBoxes |-> Report(dev[i], scores[i])] \in [1..NumBoxes -> [1..Channels -> Int]]
    BY ReportType DEF TypeOK
  <2>3. data' \in [0..NumBoxes * Channels - 1 -> Int]
    BY <2>1, <2>2, TensorType
  <2> QED BY <1>3, <2>3 DEF Infer, TypeOK, Stages, Shows, Channels
<1>4. CASE parseOutput
  <2>1. \A d \in candidates' : {d.x1, d.y1, d.x2, d.y2} \subseteq Int
    BY <1>4, DetectionIsInside DEF parseOutput, TypeOK
  <2>2. box' \in 0..NumBoxes /\ (box' < NumBoxes \/ stage' = "nms") /\ stage' \in {"parse", "nms"}
    BY <1>4, DetectionsAssumption DEF parseOutput, TypeOK
  <2> QED BY <1>4, <2>1, <2>2 DEF parseOutput, TypeOK, Stages, Shows, Channels
<1>5. ASSUME NEW d \in candidates, Keep(d) PROVE TypeOK'
  BY <1>5 DEF Keep, TypeOK, Stages, Shows, Channels
<1>6. CASE Filter
  BY <1>6 DEF Filter, TypeOK, Stages, Shows, Channels
<1>7. CASE UNCHANGED vars
  BY <1>7 DEF vars, TypeOK, Shows, Channels
<1> QED BY <1>1, <1>2, <1>3, <1>4, <1>5, <1>6, <1>7 DEF Next

\* What Keep(d) adds: d is apart from what was kept, and as good as all it suppresses.
LEMMA KeepStep ==
    ASSUME TypeOK, KeptApart, SuppressedByBetter, NEW d \in candidates, Keep(d)
    PROVE  KeptApart' /\ SuppressedByBetter'
<1>1. kept' = kept \cup {d} /\ candidates' = candidates /\ kept \subseteq candidates
  BY DEF Keep, TypeOK
<1>2. \A a, b \in candidates : Overlaps(a, b) <=> Overlaps(b, a)
  BY OverlapsIsSymmetric DEF TypeOK
<1>3. \A e \in kept : e.class = d.class => ~Overlaps(e, d) /\ ~Overlaps(d, e)
  BY <1>1, <1>2 DEF Keep, Suppressed
<1>4. KeptApart'
  BY <1>1, <1>3 DEF KeptApart, Overlaps, Inter, Area
<1>5. ASSUME NEW c \in candidates, \E e \in kept \cup {d} : e.class = c.class /\ Overlaps(e, c)
      PROVE  \E e \in kept \cup {d} : e.class = c.class /\ Overlaps(e, c) /\ c.score <= e.score
  <2>1. CASE Suppressed(c)
    BY <2>1 DEF SuppressedByBetter
  <2>2. CASE ~Suppressed(c)
    <3>1. d.class = c.class /\ Overlaps(d, c)
      BY <1>5, <2>2 DEF Suppressed
    <3>2. c \notin kept
      BY <1>3, <3>1
    <3>3. c.score <= d.score
      BY <2>2, <3>1, <3>2 DEF Keep
    <3> QED BY <3>1, <3>3
  <2> QED BY <2>1, <2>2
<1> QED BY <1>1, <1>4, <1>5 DEF SuppressedByBetter, Suppressed, Overlaps, Inter, Area

\* Every box drawn is inside its picture and not empty, no two of a class overlap, and each
\* candidate left out is outdone by one that is shown: for pictures, squares, thresholds and
\* reports of every kind.
THEOREM BoxesSound == Spec => []BoxesAreSound
<1>1. Init => BoxesAreSound
  BY TypeInit DEF Init, BoxesAreSound, BoxesAreInside, KeptApart, SuppressedByBetter, AllAreShown
<1>2. BoxesAreSound /\ [Next]_vars => BoxesAreSound'
  <2> SUFFICES ASSUME BoxesAreSound, [Next]_vars PROVE BoxesAreSound'
    OBVIOUS
  <2>1. TypeOK /\ TypeOK'
    BY TypeStep DEF BoxesAreSound
  <2>2. CASE Apply \/ letterbox \/ Infer
    <3>1. candidates = {} /\ kept = {} /\ candidates' = {} /\ kept' = {} /\ stage' # "done"
      BY <2>1, <2>2 DEF TypeOK, Apply, letterbox, Infer
    <3> QED BY <2>1, <3>1 DEF BoxesAreSound, BoxesAreInside, KeptApart, SuppressedByBetter, AllAreShown
  <2>3. CASE parseOutput
    <3>1. kept = {} /\ kept' = {} /\ stage' # "done" /\ picture' = picture
      BY <2>1, <2>3 DEF parseOutput, TypeOK
    <3>2. KeptApart' /\ SuppressedByBetter' /\ AllAreShown'
      BY <3>1 DEF KeptApart, SuppressedByBetter, Suppressed, AllAreShown
    <3>3. \A d \in candidates' : d \in candidates \/ (d = Detection(box) /\ d.x1 < d.x2 /\ d.y1 < d.y2)
      BY <2>3 DEF parseOutput
    <3> DEFINE right == 2 * InputSize * picture.w
               bottom == 2 * InputSize * picture.h
    <3>4. right \in Nat /\ bottom \in Nat
      <4>1. InputSize \in Nat /\ picture.w \in Nat /\ picture.h \in Nat
        BY <2>1, DetectionsAssumption DEF TypeOK, Picture
      <4> QED BY <4>1
    <3>5. /\ Detection(box).x1 \in 0..right /\ Detection(box).x2 \in 0..right
          /\ Detection(box).y1 \in 0..bottom /\ Detection(box).y2 \in 0..bottom
      BY <2>1, <2>3, DetectionIsInside DEF parseOutput
    <3>6. \A d \in candidates : /\ 0 <= d.x1 /\ d.x1 < d.x2 /\ d.x2 <= right
                                /\ 0 <= d.y1 /\ d.y1 < d.y2 /\ d.y2 <= bottom
      BY DEF BoxesAreSound, BoxesAreInside
    <3> HIDE DEF right, bottom
    <3>7. \A d \in candidates' : /\ 0 <= d.x1 /\ d.x1 < d.x2 /\ d.x2 <= right
                                 /\ 0 <= d.y1 /\ d.y1 < d.y2 /\ d.y2 <= bottom
      BY <3>3, <3>4, <3>5, <3>6
    <3>8. BoxesAreInside'
      BY <3>1, <3>7 DEF BoxesAreInside, right, bottom
    <3> QED BY <2>1, <3>2, <3>8 DEF BoxesAreSound
  <2>4. ASSUME NEW d \in candidates, Keep(d) PROVE BoxesAreSound'
    <3>1. KeptApart' /\ SuppressedByBetter'
      BY <2>1, <2>4, KeepStep DEF BoxesAreSound
    <3>2. BoxesAreInside' /\ AllAreShown'
      BY <2>4 DEF Keep, BoxesAreSound, BoxesAreInside, AllAreShown
    <3> QED BY <2>1, <3>1, <3>2 DEF BoxesAreSound
  <2>5. CASE Filter
    <3>1. UNCHANGED <<candidates, kept, picture>>
      BY <2>5 DEF Filter
    <3>2. BoxesAreInside' /\ KeptApart' /\ SuppressedByBetter'
      BY <3>1 DEF BoxesAreSound, BoxesAreInside, KeptApart, SuppressedByBetter, Suppressed,
                  Overlaps, Inter, Area
    <3>3. ASSUME NEW d \in candidates, d.class \in AllowedClasses
          PROVE  d \in dets' \/ \E e \in dets' : e.class = d.class /\ Overlaps(e, d) /\ d.score <= e.score
      <4>1. CASE d \in kept
        BY <2>5, <3>3, <4>1 DEF Filter
      <4>2. CASE d \notin kept
        <5>1. PICK e \in kept : e.class = d.class /\ Overlaps(e, d) /\ d.score <= e.score
          BY <2>5, <4>2 DEF Filter, BoxesAreSound, SuppressedByBetter
        <5>2. e \in dets'
          BY <2>5, <3>3, <5>1 DEF Filter
        <5> QED BY <5>1, <5>2
      <4> QED BY <4>1, <4>2
    <3>4. AllAreShown'
      BY <3>1, <3>3 DEF AllAreShown, Overlaps, Inter, Area
    <3> QED BY <2>1, <3>2, <3>4 DEF BoxesAreSound
  <2>6. CASE UNCHANGED vars
    BY <2>1, <2>6 DEF vars, BoxesAreSound, BoxesAreInside, KeptApart, SuppressedByBetter, Suppressed,
                      AllAreShown, Overlaps, Inter, Area
  <2> QED BY <2>2, <2>3, <2>4, <2>5, <2>6 DEF Next
<1> QED BY <1>1, <1>2, PTL DEF Spec
-----------------------------------------------------------------------------
(* The object's own box *)

\* A multiple is divided without a rest.
LEMMA Multiples ==
    ASSUME NEW n \in Nat \ {0}, NEW t \in Nat
    PROVE  (n * t) \div n = t /\ (n * t) % n = 0
<1> DEFINE q == (n * t) \div n  r == (n * t) % n
<1>1. n * t \in Nat
  OBVIOUS
<1>2. q \in Nat /\ r \in 0..n - 1 /\ n * t = n * q + r
  BY <1>1, DivisionIsExact
<1> HIDE DEF q, r
<1>3. n * (t - q) = n * t - n * q
  BY <1>2
<1>4. n * t \in Int /\ n * q \in Int
  BY <1>2
<1>5. n * (t - q) = r
  BY <1>2, <1>3, <1>4
<1>6. CASE t - q <= -1
  <2>1. n * (t - q) <= -1
    BY <1>2, <1>6
  <2> QED BY <1>2, <1>5, <2>1
<1>7. CASE t - q >= 1
  <2>1. n * (t - q) >= n
    BY <1>2, <1>7
  <2> QED BY <1>2, <1>5, <2>1
<1>8. CASE t = q
  BY <1>2, <1>5, <1>8
<1> QED BY <1>2, <1>6, <1>7, <1>8 DEF q, r

\* A side is drawn at most half a pixel longer or shorter than the scale makes it, and exactly
\* as long if the scale makes it whole.
LEMMA ScaledIsNear ==
    ASSUME NEW den \in Nat \ {0}, NEW side \in Nat \ {0}
    PROVE  LET e == 2 * den * Scaled(side, den) - 2 * InputSize * side IN
           /\ e \in 1 - den..den
           /\ (InputSize * side) % den = 0 => e = 0
<1> DEFINE t == InputSize * side  n == 2 * t + den  m == 2 * den  q == n \div m  r == n % m
<1>1. t \in Nat /\ n \in Nat /\ m \in Nat \ {0}
  BY DetectionsAssumption
<1>2. Scaled(side, den) = q
  BY DetectionsAssumption DEF Scaled
<1> HIDE DEF t
<1>3. q \in Nat /\ r \in 0..m - 1 /\ n = m * q + r
  <2> HIDE DEF n, m
  <2> QED BY <1>1, DivisionIsExact DEF q, r
<1> HIDE DEF q, r
<1>4. m * q - 2 * t = den - r
  BY <1>1, <1>3
<1>5. m * q - 2 * t \in 1 - den..den
  BY <1>1, <1>3, <1>4
<1>6. ASSUME t % den = 0 PROVE m * q - 2 * t = 0
  <2> DEFINE s == t \div den
  <2>1. s \in Nat /\ t = den * s
    BY <1>1, <1>6, DivisionIsExact
  <2> HIDE DEF s
  <2>2. m * q - 2 * t = 2 * (den * (q - s))
    BY <1>3, <2>1
  <2>3. den * (q - s) \in Int /\ 2 * (den * (q - s)) <= den /\ 2 * (den * (q - s)) >= 1 - den
    BY <1>3, <1>5, <2>1, <2>2
  <2>4. CASE q - s <= -1
    <3>1. den * (q - s) <= -den
      BY <1>3, <2>1, <2>4
    <3> QED BY <2>3, <3>1
  <2>5. CASE q - s >= 1
    <3>1. den * (q - s) >= den
      BY <1>3, <2>1, <2>5
    <3> QED BY <2>3, <3>1
  <2>6. CASE q = s
    BY <1>3, <2>1, <2>2, <2>6
  <2> QED BY <1>3, <2>1, <2>4, <2>5, <2>6
<1>7. 2 * den * q = m * q /\ 2 * InputSize * side = 2 * t
  BY <1>3, DetectionsAssumption DEF t
<1> QED BY <1>2, <1>5, <1>6, <1>7 DEF t

\* A product with a number between 0 and side is between 0 and that with side.
LEMMA PartOfProduct ==
    ASSUME NEW c \in Nat, NEW side \in Nat, c <= side, NEW k \in Nat
    PROVE  c * k \in Nat /\ side * k \in Nat /\ c * k <= side * k
<1>1. (side - c) * k >= 0 /\ c * k \in Nat /\ side * k \in Nat
  OBVIOUS
<1>2. (side - c) * k = side * k - c * k
  OBVIOUS
<1> QED BY <1>1, <1>2

\* A factor is not larger than the other if its product is not.
LEMMA Cancel ==
    ASSUME NEW n \in Nat \ {0}, NEW a \in Int, NEW b \in Int, n * a < n * b + n
    PROVE  a <= b
<1>1. CASE a - b >= 1
  <2>1. n * (a - b) >= n
    BY <1>1
  <2>2. n * (a - b) = n * a - n * b /\ n * a \in Int /\ n * b \in Int
    OBVIOUS
  <2> QED BY <2>1, <2>2
<1> QED BY <1>1

\* Where a corner comes from that is drawn with the rounded side, against where it was: the
\* three cases of Tolerance.
LEMMA CornerIsNear ==
    ASSUME NEW den \in Nat \ {0}, NEW side \in Nat \ {0}, NEW c \in Nat, c <= side
    PROVE  LET x == 2 * InputSize * c - 2 * Drawn(c, side, Scaled(side, den)) * den IN
           /\ x \in -den..3 * den - 1
           /\ (InputSize * side) % den = 0 => x \in 0..2 * den - 1
           /\ InputSize % den = 0 => x = 0
<1> DEFINE n == Scaled(side, den)  e == 2 * den * n - 2 * InputSize * side
           q == Drawn(c, side, n)  r == (c * n) % side
           x == 2 * InputSize * c - 2 * q * den
<1>1. n \in Nat
  BY ScaledType
<1>2. e \in 1 - den..den /\ ((InputSize * side) % den = 0 => e = 0)
  BY ScaledIsNear
<1>3. q \in Nat /\ r \in 0..side - 1 /\ c * n = side * q + r
  <2> HIDE DEF n
  <2>1. c * n \in Nat
    BY <1>1
  <2> QED BY <2>1, DivisionIsExact DEF Drawn
<1> HIDE DEF n, q, r
<1>4. x \in Int /\ e \in Int
  BY <1>1, <1>3, DetectionsAssumption
<1>5. side * x = 2 * (den * r) - c * e
  <2>1. c * e = 2 * (den * (c * n)) - 2 * (InputSize * (c * side))
    BY <1>1, DetectionsAssumption
  <2>2. side * x = 2 * (InputSize * (c * side)) - 2 * (den * (side * q))
    BY <1>3, DetectionsAssumption
  <2>3. den * (c * n) = den * (side * q) + den * r
    BY <1>3
  <2>4. /\ den * (c * n) \in Int /\ InputSize * (c * side) \in Int
        /\ den * (side * q) \in Int /\ den * r \in Int
    BY <1>1, <1>3, DetectionsAssumption
  <2> QED BY <2>1, <2>2, <2>3, <2>4
<1> HIDE DEF e, x
<1>6. den * r \in Nat /\ den * r <= side * den - den /\ side * den \in Nat
  <2>1. r * den <= (side - 1) * den /\ r * den \in Nat
    BY <1>3, PartOfProduct
  <2>2. (side - 1) * den = side * den - den /\ side * den \in Nat /\ r * den = den * r
    BY <1>3
  <2> QED BY <2>1, <2>2
<1>7. c * e <= side * den /\ c * e >= -(side * den) /\ c * e \in Int
  <2>1. c * (den - e) >= 0 /\ c * (e + den) >= 0
    BY <1>2, <1>4
  <2>2. c * (den - e) = c * den - c * e /\ c * (e + den) = c * e + c * den
    BY <1>4
  <2>3. c * den <= side * den /\ c * den \in Nat
    BY PartOfProduct
  <2>4. c * e \in Int
    BY <1>4
  <2> QED BY <1>6, <2>1, <2>2, <2>3, <2>4
<1>8. x \in -den..3 * den - 1
  <2>1. -den <= x
    <3>1. side * (-den) = -(side * den)
      OBVIOUS
    <3>2. side * (-den) < side * x + side
      BY <1>4, <1>5, <1>6, <1>7, <3>1
    <3> QED BY <1>4, <3>2, Cancel
  <2>2. x <= 3 * den - 1
    <3>1. side * (3 * den - 1) = 3 * (side * den) - side
      OBVIOUS
    <3>2. side * x < side * (3 * den - 1) + side
      BY <1>4, <1>5, <1>6, <1>7, <3>1
    <3> QED BY <1>4, <3>2, Cancel
  <2> QED BY <1>4, <2>1, <2>2
<1>9. ASSUME (InputSize * side) % den = 0 PROVE side * x = 2 * (den * r) /\ x \in 0..2 * den - 1
  <2>1. e = 0
    BY <1>2, <1>9
  <2>2. c * e = 0
    BY <2>1
  <2>3. side * x = 2 * (den * r)
    BY <1>5, <1>6, <2>2
  <2>4. 0 <= x
    BY <1>4, <1>6, <2>3, Cancel
  <2>5. x <= 2 * den - 1
    <3>1. side * (2 * den - 1) = 2 * (side * den) - side
      OBVIOUS
    <3>2. side * x < side * (2 * den - 1) + side
      BY <1>4, <1>6, <2>3, <3>1
    <3> QED BY <1>4, <3>2, Cancel
  <2> QED BY <1>4, <2>3, <2>4, <2>5
<1>10. ASSUME InputSize % den = 0 PROVE x = 0
  <2> DEFINE s == InputSize \div den
  <2>1. s \in Nat /\ InputSize = den * s
    <3>1. InputSize \in Nat
      BY DetectionsAssumption
    <3>2. s \in Nat /\ InputSize = den * s + (InputSize % den)
      BY <3>1, DivisionIsExact
    <3> HIDE DEF s
    <3> QED BY <1>10, <3>1, <3>2
  <2> HIDE DEF s
  <2>2. InputSize * side = den * (s * side) /\ s * side \in Nat
    BY <2>1
  <2>3. (InputSize * side) % den = 0
    BY <2>2, Multiples
  <2>4. e = 0
    BY <1>2, <2>3
  <2>5. den * n = den * (s * side)
    BY <1>1, <2>2, <2>4, DetectionsAssumption DEF e
  <2>6. n = s * side
    BY <1>1, <2>2, <2>5, Multiples
  <2>7. c * n = side * (c * s) /\ c * s \in Nat
    BY <2>1, <2>6
  <2>8. r = 0
    BY <2>7, Multiples DEF r
  <2>9. side * x = 0
    BY <1>9, <2>3, <2>8
  <2> QED BY <1>4, <2>9
<1> QED BY <1>8, <1>9, <1>10 DEF x, q, n

\* A corner of a side is drawn at most half a pixel beyond where the scale puts the side's end.
LEMMA CornersAreDrawn ==
    ASSUME NEW den \in Nat \ {0}, NEW side \in Nat \ {0}, NEW c \in Nat, c <= side
    PROVE  LET hi == 2 * InputSize * side
               q == Drawn(c, side, Scaled(side, den))
           IN 2 * q * den <= hi + den
<1> DEFINE n == Scaled(side, den)  q == Drawn(c, side, n)  r == (c * n) % side
<1>1. n \in Nat
  BY ScaledType
<1>2. q \in Nat /\ r \in 0..side - 1 /\ c * n = side * q + r
  <2> HIDE DEF n
  <2>1. c * n \in Nat
    BY <1>1
  <2> QED BY <2>1, DivisionIsExact DEF Drawn
<1>3. 2 * den * n - 2 * InputSize * side <= den
  <2>1. 2 * den * n - 2 * InputSize * side \in 1 - den..den
    BY ScaledIsNear
  <2> QED BY <2>1
<1> HIDE DEF n, q, r
<1>4. q <= n
  <2>1. c * n <= side * n /\ side * n \in Nat /\ side * q \in Nat
    BY <1>1, <1>2, PartOfProduct
  <2> QED BY <1>1, <1>2, <2>1, Cancel
<1>5. q * den <= n * den /\ q * den \in Nat /\ n * den \in Nat
  BY <1>1, <1>2, <1>4, PartOfProduct
<1>6. 2 * q * den = 2 * (q * den) /\ 2 * den * n = 2 * (n * den) /\ 2 * InputSize * side \in Int
  BY <1>1, <1>2, DetectionsAssumption
<1> QED BY <1>3, <1>5, <1>6 DEF q, n

\* Where the way back takes a corner.
Back(c, side, den) ==
    clamp(2 * Drawn(c, side, Scaled(side, den)) * den, 0, 2 * InputSize * side)

\* It is within the tolerance of where the corner was: clamping only brings it nearer.
LEMMA BackIsNear ==
    ASSUME NEW den \in Nat \ {0}, NEW side \in Nat \ {0}, NEW c \in Nat, c <= side
    PROVE  2 * InputSize * c - Back(c, side, den)
              \in IF InputSize % den = 0 THEN {0}
                  ELSE IF (InputSize * side) % den = 0 THEN 0..2 * den - 1 ELSE -den..3 * den - 1
<1> DEFINE v == 2 * Drawn(c, side, Scaled(side, den)) * den
           at == 2 * InputSize * c  hi == 2 * InputSize * side
<1>1. v \in Nat
  <2>1. Drawn(c, side, Scaled(side, den)) \in Nat
    BY ScaledType, DrawnType
  <2> QED BY <2>1
<1>2. /\ at - v \in -den..3 * den - 1
      /\ (InputSize * side) % den = 0 => at - v \in 0..2 * den - 1
      /\ InputSize % den = 0 => at - v = 0
  BY CornerIsNear
<1>3. at \in Nat /\ hi \in Nat /\ at <= hi
  <2>1. c * InputSize \in Nat /\ side * InputSize \in Nat /\ c * InputSize <= side * InputSize
    BY PartOfProduct, DetectionsAssumption
  <2>2. at = 2 * (c * InputSize) /\ hi = 2 * (side * InputSize)
    BY DetectionsAssumption
  <2> QED BY <2>1, <2>2
<1>4. Back(c, side, den) = clamp(v, 0, hi)
  BY DEF Back
<1> HIDE DEF v, at, hi
<1>5. IF v <= hi THEN Back(c, side, den) = v ELSE Back(c, side, den) = hi
  BY <1>1, <1>3, <1>4 DEF clamp, Largest, Smallest
<1> DEFINE whole == InputSize % den = 0  wholeSide == (InputSize * side) % den = 0
<1> HIDE DEF whole, wholeSide
<1>6. /\ at - v \in -den..3 * den - 1
      /\ wholeSide => at - v \in 0..2 * den - 1
      /\ whole => at - v = 0
  BY <1>2 DEF whole, wholeSide
<1>7. CASE v <= hi
  <2>1. at - Back(c, side, den) \in IF whole THEN {0}
                                    ELSE IF wholeSide THEN 0..2 * den - 1 ELSE -den..3 * den - 1
    BY <1>5, <1>6, <1>7
  <2> QED BY <2>1 DEF whole, wholeSide, at
<1>8. CASE v > hi
  <2>1. at - v < 0 /\ at - v <= at - hi /\ at - hi <= 0
    BY <1>1, <1>3, <1>8
  <2>2. ~whole /\ ~wholeSide
    BY <1>6, <2>1
  <2>3. at - hi \in -den..3 * den - 1
    BY <1>1, <1>3, <1>6, <2>1
  <2>4. Back(c, side, den) = hi
    BY <1>1, <1>3, <1>5, <1>8
  <2>5. at - Back(c, side, den) \in IF whole THEN {0}
                                    ELSE IF wholeSide THEN 0..2 * den - 1 ELSE -den..3 * den - 1
    BY <2>2, <2>3, <2>4
  <2> QED BY <2>5 DEF whole, wholeSide, at
<1> QED BY <1>1, <1>3, <1>7, <1>8

\* Corners that are drawn apart come back apart: only the farther one is clamped.
LEMMA BackIsOrdered ==
    ASSUME NEW den \in Nat \ {0}, NEW side \in Nat \ {0}, NEW a \in Nat, NEW c \in Nat,
           a <= side, c <= side,
           Drawn(a, side, Scaled(side, den)) < Drawn(c, side, Scaled(side, den))
    PROVE  Back(a, side, den) < Back(c, side, den)
<1> DEFINE q(corner) == Drawn(corner, side, Scaled(side, den))
           hi == 2 * InputSize * side
<1>1. q(a) \in Nat /\ q(c) \in Nat /\ q(a) < q(c)
  BY ScaledType, DrawnType
<1>2. 2 * q(c) * den <= hi + den
  BY CornersAreDrawn
<1>3. hi \in Nat
  BY DetectionsAssumption
<1> DEFINE va == 2 * q(a) * den  vc == 2 * q(c) * den
<1>4. Back(a, side, den) = clamp(va, 0, hi) /\ Back(c, side, den) = clamp(vc, 0, hi)
  BY DEF Back
<1>5. va \in Nat /\ vc \in Nat /\ vc - va >= 2 * den
  <2> DEFINE qa == q(a)  qc == q(c)
  <2>1. qa \in Nat /\ qc \in Nat /\ qc - qa >= 1
    BY <1>1
  <2> HIDE DEF q, qa, qc
  <2>2. (qc - qa - 1) * den >= 0 /\ (qc - qa - 1) * den = qc * den - qa * den - den
    BY <2>1
  <2>3. 2 * qa * den = 2 * (qa * den) /\ 2 * qc * den = 2 * (qc * den)
        /\ qa * den \in Nat /\ qc * den \in Nat
    BY <2>1
  <2>4. 2 * qa * den \in Nat /\ 2 * qc * den \in Nat /\ 2 * qc * den - 2 * qa * den >= 2 * den
    BY <2>2, <2>3
  <2> QED BY <2>4 DEF qa, qc
<1>6. vc <= hi + den
  BY <1>2
<1> HIDE DEF va, vc, hi, q
<1> QED BY <1>3, <1>4, <1>5, <1>6 DEF clamp, Largest, Smallest

\* The way back from the model's square takes a corner there, whatever the padding.
LEMMA CornersComeBack ==
    ASSUME NEW den \in Nat \ {0}, NEW side \in Nat \ {0}, NEW c \in Nat, NEW pad \in Int,
           NEW x \in Int, x = 2 * Drawn(c, side, Scaled(side, den)) + 2 * pad
    PROVE  clamp((x - 2 * pad) * den, 0, 2 * InputSize * side) = Back(c, side, den)
<1> DEFINE q == Drawn(c, side, Scaled(side, den))
<1>1. q \in Nat
  BY ScaledType, DrawnType
<1>2. x = 2 * q + 2 * pad
  OBVIOUS
<1> HIDE DEF q
<1>3. x - 2 * pad = 2 * q
  BY <1>1, <1>2
<1> QED BY <1>3 DEF Back, q

\* The first four values of the first report are where they are looked for, in either layout.
LEMMA FirstValues ==
    ASSUME NEW reports \in [1..NumBoxes -> [1..Channels -> Int]], NEW k \in 0..3
    PROVE  /\ transposed => Tensor(reports)[0 * Channels + k] = reports[1][k + 1]
           /\ ~transposed => Tensor(reports)[k * NumBoxes + 0] = reports[1][k + 1]
<1>1. NumBoxes \in Nat \ {0} /\ Channels \in Nat \ {0} /\ Channels > 3
  BY DetectionsAssumption DEF Channels
<1>2. k \in 0..Channels - 1 /\ 0 \in 0..NumBoxes - 1
  BY <1>1
<1>3. CASE transposed
  <2>1. 0 * Channels + k \in 0..NumBoxes * Channels - 1
    BY <1>1, <1>2, IndexInRange
  <2>2. 0 * Channels + k = k /\ k \div Channels = 0 /\ k % Channels = k
    <3>1. \A n \in Nat, m \in 0..3 : n > 3 => 0 * n + m = m /\ m \div n = 0 /\ m % n = m
      OBVIOUS
    <3> QED BY <1>1, <3>1, Zenon
  <2>3. Tensor(reports)[k] = reports[(k \div Channels) + 1][(k % Channels) + 1]
    BY <1>3, <2>1, <2>2 DEF Tensor
  <2> QED BY <1>3, <2>2, <2>3
<1>4. CASE ~transposed
  <2> DEFINE i == k * NumBoxes + 0
  <2>1. i \in 0..NumBoxes * Channels - 1
    <3>1. i \in 0..Channels * NumBoxes - 1
      BY <1>1, <1>2, IndexInRange
    <3> QED BY <1>1, <3>1
  <2>2. i \div NumBoxes = k /\ i % NumBoxes = 0
    <3>1. i = NumBoxes * k /\ k \in Nat
      BY <1>1
    <3> QED BY <1>1, <3>1, Multiples
  <2> HIDE DEF i
  <2>3. Tensor(reports)[i] = reports[(i % NumBoxes) + 1][(i \div NumBoxes) + 1]
    BY <1>4, <2>1 DEF Tensor
  <2>4. Tensor(reports)[i] = reports[1][k + 1]
    BY <2>2, <2>3
  <2> QED BY <1>4, <2>4 DEF i
<1> QED BY <1>3, <1>4

\* What the later steps know of the earlier ones: the square's scale is the picture's, the first
\* report is the object's, and the box of that report is a candidate once it has been looked at.
ObjectFollowed ==
    /\ stage \notin {"rotate", "letterbox"} => lb = Letterbox(picture.w, picture.h)
    /\ stage \in {"parse", "nms", "done"} => \A k \in 0..3 : At(k, 0) = TrueReport[k + 1]
    /\ IF stage \in {"rotate", "letterbox", "infer"} THEN box = 0 ELSE stage = "parse" \/ box > 0
    /\ stage \in {"parse", "nms", "done"} /\ box > 0 =>
          LET d == Detection(0) IN
          d.score >= ConfThreshold /\ d.x1 < d.x2 /\ d.y1 < d.y2 => d \in candidates

\* An inference puts the true box first.
LEMMA InferIsTrue ==
    ASSUME TypeOK, Infer
    PROVE  \A k \in 0..3 : At(k, 0)' = TrueReport[k + 1]
<1>1. PICK scores \in [1..NumBoxes -> ClassScores], dev \in [1..NumBoxes -> Deviations] :
          /\ dev[1] = <<0, 0, 0, 0>>
          /\ data' = Tensor([i \in 1..NumBoxes |-> Report(dev[i], scores[i])])
  BY DEF Infer
<1> DEFINE reports == [i \in 1..NumBoxes |-> Report(dev[i], scores[i])]
<1>2. \A i \in 1..NumBoxes : Report(dev[i], scores[i]) \in [1..Channels -> Int]
  BY ReportType DEF TypeOK
<1>3. reports \in [1..NumBoxes -> [1..Channels -> Int]]
  BY <1>2
<1>4. reports[1] = Report(dev[1], scores[1])
  BY DetectionsAssumption
<1> HIDE DEF reports
<1>5. \A k \in 1..4 : TrueReport[k] \in Int
  BY TrueReportType DEF TypeOK
<1>6. \A k \in 0..3 : reports[1][k + 1] = TrueReport[k + 1]
  <2> TAKE k \in 0..3
  <2>1. k + 1 \in 1..Channels /\ k + 1 <= 4 /\ k + 1 \in 1..4
    BY DetectionsAssumption DEF Channels
  <2>2. reports[1][k + 1] = TrueReport[k + 1] + dev[1][k + 1]
    BY <1>4, <2>1 DEF Report
  <2>3. dev[1][k + 1] = 0
    BY <1>1, <2>1
  <2> QED BY <1>5, <2>1, <2>2, <2>3
<1>7. \A k \in 0..3 : At(k, 0)' = reports[1][k + 1]
  <2>1. transposed \in BOOLEAN /\ transposed' = transposed /\ data' = Tensor(reports)
    BY <1>1 DEF TypeOK, Infer, reports
  <2> QED BY <1>3, <2>1, FirstValues DEF At
<1> QED BY <1>6, <1>7

\* Every step keeps it.
LEMMA FollowedStep == TypeOK /\ ObjectFollowed /\ [Next]_vars => ObjectFollowed'
<1> SUFFICES ASSUME TypeOK, ObjectFollowed, [Next]_vars PROVE ObjectFollowed'
  OBVIOUS
<1>1. CASE Apply
  BY <1>1 DEF Apply, ObjectFollowed
<1>2. CASE letterbox
  BY <1>2 DEF letterbox, ObjectFollowed
<1>3. CASE Infer
  <2>1. \A k \in 0..3 : At(k, 0)' = TrueReport[k + 1]
    BY <1>3, InferIsTrue
  <2>2. TrueReport' = TrueReport
    BY <1>3 DEF Infer, TrueReport, Bounds
  <2>3. box = 0 /\ box' = box
    BY <1>3 DEF Infer, ObjectFollowed, TypeOK
  <2> QED BY <1>3, <2>1, <2>2, <2>3 DEF Infer, ObjectFollowed
<1>4. CASE parseOutput
  <2>1. \A b : Detection(b)' = Detection(b)
    BY <1>4 DEF parseOutput, Detection, BestScore, BestClass, At, toOriginal
  <2>2. TrueReport' = TrueReport /\ \A k \in 0..3 : At(k, 0)' = At(k, 0)
    BY <1>4 DEF parseOutput, TrueReport, Bounds, At
  <2>3. box \in Nat /\ box' = box + 1
    BY <1>4, DetectionsAssumption DEF parseOutput, TypeOK
  <2> DEFINE Shown(d) == d.score >= ConfThreshold /\ d.x1 < d.x2 /\ d.y1 < d.y2
  <2>4. Shown(Detection(0)) => Detection(0) \in candidates'
    <3>1. CASE box = 0
      BY <1>4, <3>1 DEF parseOutput
    <3>2. CASE box > 0
      BY <1>4, <3>2 DEF parseOutput, ObjectFollowed
    <3> QED BY <2>3, <3>1, <3>2
  <2> HIDE DEF Shown
  <2>5. /\ stage = "parse" /\ stage' \in {"parse", "nms"} /\ UNCHANGED <<picture, lb>>
    BY <1>4 DEF parseOutput
  <2> QED BY <2>1, <2>2, <2>3, <2>4, <2>5 DEF ObjectFollowed, Shown
<1>5. CASE UNCHANGED <<picture, lb, transposed, data, box, candidates>>
           /\ (stage' = stage \/ (stage = "nms" /\ stage' = "done"))
  <2>1. \A b : Detection(b)' = Detection(b)
    BY <1>5 DEF Detection, BestScore, BestClass, At, toOriginal
  <2>2. TrueReport' = TrueReport /\ \A k \in 0..3 : At(k, 0)' = At(k, 0)
    BY <1>5 DEF TrueReport, Bounds, At
  <2> QED BY <1>5, <2>1, <2>2 DEF ObjectFollowed
<1>6. ASSUME NEW d \in candidates, Keep(d)
      PROVE  /\ UNCHANGED <<picture, lb, transposed, data, box, candidates>>
             /\ stage' = stage \/ (stage = "nms" /\ stage' = "done")
  BY <1>6 DEF Keep
<1>7. CASE Filter
  BY <1>5, <1>7 DEF Filter
<1>8. CASE UNCHANGED vars
  BY <1>5, <1>8 DEF vars
<1> QED BY <1>1, <1>2, <1>3, <1>4, <1>5, <1>6, <1>7, <1>8 DEF Next

\* In the picture the box of the true report is the object's, but for the tolerance.
LEMMA BoxIsTheObject ==
    ASSUME TypeOK, ObjectFollowed, stage = "done"
    PROVE  LET b == Bounds(picture)
               d == Detection(0)
               near(x, corner, side) == 2 * InputSize * corner - x \in Tolerance(side)
           IN /\ near(d.x1, b[1], picture.w) /\ near(d.y1, b[2], picture.h)
              /\ near(d.x2, b[3], picture.w) /\ near(d.y2, b[4], picture.h)
              /\ TrueReport[3] > 0 => d.x1 < d.x2
              /\ TrueReport[4] > 0 => d.y1 < d.y2
<1>1. picture \in Picture /\ Shows(picture) /\ lb \in Boxed
  BY DEF TypeOK
<1>2. PICK p \in (0..picture.w - 1) \X (0..picture.h - 1) : picture.pixels = {p}
  BY <1>1 DEF Shows
<1> DEFINE den == lb.den  w == picture.w  h == picture.h
           x(c) == Drawn(c, w, Scaled(w, den))
           y(c) == Drawn(c, h, Scaled(h, den))
<1>3. /\ den \in Nat \ {0} /\ lb.padLeft \in Int /\ lb.padTop \in Int
      /\ w \in Nat \ {0} /\ h \in Nat \ {0} /\ p \in Int \X Int
      /\ p[1] \in Nat /\ p[1] + 1 \in Nat /\ p[1] + 1 <= w /\ p[1] <= w
      /\ p[2] \in Nat /\ p[2] + 1 \in Nat /\ p[2] + 1 <= h /\ p[2] <= h
  BY <1>1, <1>2 DEF Picture, Boxed
<1>4. Bounds(picture) = <<p[1], p[2], p[1] + 1, p[2] + 1>>
  BY <1>1, <1>2, <1>3, BoundsOfPixel
<1>5. lb.newW = Scaled(w, den) /\ lb.newH = Scaled(h, den)
  BY DEF ObjectFollowed, Letterbox
<1>6. TrueReport = <<x(p[1]) + x(p[1] + 1) + 2 * lb.padLeft, y(p[2]) + y(p[2] + 1) + 2 * lb.padTop,
                     x(p[1] + 1) - x(p[1]), y(p[2] + 1) - y(p[2])>>
  BY <1>1, <1>2, <1>3, <1>5, ReportIsOfPixel
<1>7. /\ At(0, 0) = TrueReport[1] /\ At(1, 0) = TrueReport[2]
      /\ At(2, 0) = TrueReport[3] /\ At(3, 0) = TrueReport[4]
  BY DEF ObjectFollowed
<1> DEFINE left == At(0, 0) - At(2, 0)  right == At(0, 0) + At(2, 0)
           top == At(1, 0) - At(3, 0)   bottom == At(1, 0) + At(3, 0)
<1>8. x(p[1]) \in Nat /\ x(p[1] + 1) \in Nat /\ y(p[2]) \in Nat /\ y(p[2] + 1) \in Nat
  BY <1>3, ScaledType, DrawnType
<1>9. /\ left = 2 * x(p[1]) + 2 * lb.padLeft /\ right = 2 * x(p[1] + 1) + 2 * lb.padLeft
      /\ top = 2 * y(p[2]) + 2 * lb.padTop /\ bottom = 2 * y(p[2] + 1) + 2 * lb.padTop
      /\ left \in Int /\ right \in Int /\ top \in Int /\ bottom \in Int
  <2> HIDE DEF x, y
  <2> QED BY <1>3, <1>6, <1>7, <1>8
<1> DEFINE d == Detection(0)
<1>10. /\ d.x1 = clamp((left - 2 * lb.padLeft) * den, 0, 2 * InputSize * w)
       /\ d.x2 = clamp((right - 2 * lb.padLeft) * den, 0, 2 * InputSize * w)
       /\ d.y1 = clamp((top - 2 * lb.padTop) * den, 0, 2 * InputSize * h)
       /\ d.y2 = clamp((bottom - 2 * lb.padTop) * den, 0, 2 * InputSize * h)
  BY DEF Detection, toOriginal
<1> HIDE DEF left, right, top, bottom, d
<1>11. /\ d.x1 = Back(p[1], w, den) /\ d.x2 = Back(p[1] + 1, w, den)
       /\ d.y1 = Back(p[2], h, den) /\ d.y2 = Back(p[2] + 1, h, den)
  <2>1. d.x1 = Back(p[1], w, den)
    <3>1. \A v \in Int : v = 2 * x(p[1]) + 2 * lb.padLeft =>
             clamp((v - 2 * lb.padLeft) * den, 0, 2 * InputSize * w) = Back(p[1], w, den)
      BY <1>3, CornersComeBack
    <3> HIDE DEF x, den, w, h
    <3>2. clamp((left - 2 * lb.padLeft) * den, 0, 2 * InputSize * w) = Back(p[1], w, den)
      BY <1>9, <3>1, Zenon
    <3> QED BY <1>10, <3>2, Zenon
  <2>2. d.x2 = Back(p[1] + 1, w, den)
    <3>1. \A v \in Int : v = 2 * x(p[1] + 1) + 2 * lb.padLeft =>
             clamp((v - 2 * lb.padLeft) * den, 0, 2 * InputSize * w) = Back(p[1] + 1, w, den)
      BY <1>3, CornersComeBack
    <3> HIDE DEF x, den, w, h
    <3>2. clamp((right - 2 * lb.padLeft) * den, 0, 2 * InputSize * w) = Back(p[1] + 1, w, den)
      BY <1>9, <3>1, Zenon
    <3> QED BY <1>10, <3>2, Zenon
  <2>3. d.y1 = Back(p[2], h, den)
    <3>1. \A v \in Int : v = 2 * y(p[2]) + 2 * lb.padTop =>
             clamp((v - 2 * lb.padTop) * den, 0, 2 * InputSize * h) = Back(p[2], h, den)
      BY <1>3, CornersComeBack
    <3> HIDE DEF y, den, w, h
    <3>2. clamp((top - 2 * lb.padTop) * den, 0, 2 * InputSize * h) = Back(p[2], h, den)
      BY <1>9, <3>1, Zenon
    <3> QED BY <1>10, <3>2, Zenon
  <2>4. d.y2 = Back(p[2] + 1, h, den)
    <3>1. \A v \in Int : v = 2 * y(p[2] + 1) + 2 * lb.padTop =>
             clamp((v - 2 * lb.padTop) * den, 0, 2 * InputSize * h) = Back(p[2] + 1, h, den)
      BY <1>3, CornersComeBack
    <3> HIDE DEF y, den, w, h
    <3>2. clamp((bottom - 2 * lb.padTop) * den, 0, 2 * InputSize * h) = Back(p[2] + 1, h, den)
      BY <1>9, <3>1, Zenon
    <3> QED BY <1>10, <3>2, Zenon
  <2> QED BY <2>1, <2>2, <2>3, <2>4
<1>12. \A side \in Nat \ {0}, c \in Nat :
          c <= side => 2 * InputSize * c - Back(c, side, den) \in Tolerance(side)
  BY <1>3, BackIsNear DEF Tolerance
<1>13. /\ TrueReport[3] > 0 => d.x1 < d.x2
       /\ TrueReport[4] > 0 => d.y1 < d.y2
  <2>1. ASSUME TrueReport[3] > 0 PROVE d.x1 < d.x2
    <3>1. x(p[1]) < x(p[1] + 1)
      <4> HIDE DEF x, y
      <4> QED BY <1>6, <1>8, <2>1
    <3>2. Back(p[1], w, den) < Back(p[1] + 1, w, den)
      BY <1>3, <3>1, BackIsOrdered
    <3> QED BY <1>11, <3>2
  <2>2. ASSUME TrueReport[4] > 0 PROVE d.y1 < d.y2
    <3>1. y(p[2]) < y(p[2] + 1)
      <4> HIDE DEF x, y
      <4> QED BY <1>6, <1>8, <2>2
    <3>2. Back(p[2], h, den) < Back(p[2] + 1, h, den)
      BY <1>3, <3>1, BackIsOrdered
    <3> QED BY <1>11, <3>2
  <2> QED BY <2>1, <2>2
<1>14. /\ 2 * InputSize * p[1] - d.x1 \in Tolerance(w)
       /\ 2 * InputSize * p[2] - d.y1 \in Tolerance(h)
       /\ 2 * InputSize * (p[1] + 1) - d.x2 \in Tolerance(w)
       /\ 2 * InputSize * (p[2] + 1) - d.y2 \in Tolerance(h)
  <2> HIDE DEF den
  <2> QED BY <1>3, <1>11, <1>12
<1> QED BY <1>4, <1>13, <1>14 DEF d

\* The object of a picture is found, whatever the sides of the picture, the size of the square and
\* the layout of the tensor: the corners of its box are within the tolerance.
THEOREM ObjectStaysFound == Spec => []ObjectIsFound
<1>1. Init => ObjectFollowed
  BY DEF Init, ObjectFollowed
<1>2. TypeOK /\ AllAreShown /\ ObjectFollowed => ObjectIsFound
  <2> SUFFICES ASSUME TypeOK, AllAreShown, ObjectFollowed, stage = "done",
                      Detection(0).score >= ConfThreshold, Detection(0).class \in AllowedClasses,
                      TrueReport[3] > 0, TrueReport[4] > 0
               PROVE  ObjectIsFound
    BY DEF ObjectIsFound
  <2> DEFINE d == Detection(0)
  <2>1. d.x1 < d.x2 /\ d.y1 < d.y2
    BY BoxIsTheObject
  <2>2. d \in candidates
    BY <2>1 DEF ObjectFollowed
  <2>3. d \in dets \/ \E e \in dets : e.class = d.class /\ Overlaps(e, d) /\ d.score <= e.score
    BY <2>2 DEF AllAreShown
  <2>4. d \in dets \/ \E e \in dets : e.class = d.class /\ Overlaps(e, d) /\ e.score >= d.score
    BY <2>3
  <2> HIDE DEF d
  <2> QED BY <2>4, BoxIsTheObject DEF ObjectIsFound, d
<1>3. BoxesAreSound => TypeOK /\ AllAreShown
  BY DEF BoxesAreSound
<1>4. ObjectFollowed /\ BoxesAreSound /\ [Next]_vars => ObjectFollowed'
  BY <1>3, FollowedStep
<1> QED BY <1>1, <1>2, <1>3, <1>4, BoxesSound, PTL DEF Spec
================================================================================
