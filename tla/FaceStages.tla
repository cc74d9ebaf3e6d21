------------------------------ MODULE FaceStages ------------------------------
(***************************************************************************)
(* What the workers of the four stages compute: detect finds the faces of  *)
(* a frame, landmarks cuts them out and finds their points, align turns    *)
(* them upright and extract makes a feature of each.  The networks are     *)
(* data: a frame comes with the rows the detector's network answers for    *)
(* it, and a row says whether the landmarks network will find the eyes of  *)
(* that face.  Coordinates are relative to the image, as multiples of      *)
(* 1/Unit; pixels are numbered row by row.                                 *)
(***************************************************************************)
EXTENDS Integers, Sequences, Subsequences

CONSTANTS
    Unit,                      \* resolution of the networks' floats
    ImageWidth, ImageHeight,   \* img.size()
    InputWidth, InputHeight,   \* what the landmarks network takes
    MinConfidence,             \* _min_confidence
    Uninitialized              \* the content of new unsigned char[...]

ASSUME UnitAssumption  == Unit \in Nat \ {0}
ASSUME ImageAssumption == ImageWidth \in Nat \ {0} /\ ImageHeight \in Nat \ {0}

(* A cut away from zero. *)
RoundUp(a) == IF a >= 0 THEN (a + Unit - 1) \div Unit ELSE - ((- a) \div Unit)

(* (int) of a float cuts its fraction off, towards zero. *)
Truncate(a) == IF a >= 0 THEN a \div Unit ELSE - ((- a) \div Unit)

Box(row) ==
    [x      |-> Truncate(row.x_min * ImageWidth),
     y      |-> Truncate(row.y_min * ImageHeight),
     width  |-> Truncate((row.x_max - row.x_min) * ImageWidth),
     height |-> Truncate((row.y_max - row.y_min) * ImageHeight)]

(* What image(box) asserts. *)
Inside(box) ==
    /\ box.x >= 0 /\ box.width >= 0 /\ box.x + box.width <= ImageWidth
    /\ box.y >= 0 /\ box.height >= 0 /\ box.y + box.height <= ImageHeight

(* What cv::resize asserts. *)
HasPixels(box) == box.width # 0 /\ box.height # 0

Confident(rows) ==
    Pick(rows, {i \in DOMAIN rows : rows[i].confidence >= MinConfidence})

(* DetectorWorker::process. *)
detect(frame) ==
    [i \in DOMAIN Confident(frame.rows) |->
        [box |-> Box(Confident(frame.rows)[i]), eyes |-> Confident(frame.rows)[i].eyes]]

Pixels(box) ==
    [k \in 0 .. box.width * box.height - 1 |->
        (box.y + k \div box.width) * ImageWidth + box.x + (k % box.width)]

(* As much memory of the frame as the network takes, from the corner of the   *)
(* box on, whatever row it is in.                                             *)
RawPixels(box) ==
    [k \in 0 .. InputWidth * InputHeight - 1 |-> box.y * ImageWidth + box.x + k]

(* Resized only when both sides differ: `&&' for `||'. *)
SeenUnlessBothDiffer(box) ==
    IF box.width # InputWidth /\ box.height # InputHeight THEN Pixels(box) ELSE RawPixels(box)

(* What memcpy gives the landmarks network: a resized copy of the face, or, if *)
(* that is of the right size already, the frame's own memory.                  *)
Seen(box) ==
    IF box.width # InputWidth \/ box.height # InputHeight THEN Pixels(box) ELSE RawPixels(box)

(* LandmarksWorker::process: the faces are cut out by their boxes. *)
landmarks(detected) ==
    [faces |-> [i \in DOMAIN detected |-> detected[i].box],
     face_landmarks |-> [i \in DOMAIN detected |->
         [eyes |-> detected[i].eyes, seen |-> Seen(detected[i].box)]]]

(* An aligner that leaves out the faces whose eyes it does not see. *)
alignVisible(found) ==
    LET visible(i) == found.face_landmarks[i].eyes
        kept == SelectSeq([i \in DOMAIN found.faces |-> i], visible)
    IN  [k \in DOMAIN kept |-> [empty |-> FALSE, of |-> found.faces[kept[k]]]]

(* AlignerWorker::process: an empty Mat takes the place of a face whose eye    *)
(* points are not to the right of its edge.                                    *)
align(found) ==
    IF Len(found.face_landmarks) # Len(found.faces) THEN << >>
    ELSE [i \in DOMAIN found.faces |->
             [empty |-> ~ found.face_landmarks[i].eyes, of |-> found.faces[i]]]

(* FeatureWorker::process.  What the network gets is not the resized face but *)
(* a buffer nobody has written to.                                            *)
extract(aligned) == [i \in DOMAIN aligned |-> [madeFrom |-> Uninitialized]]

(* What the workers of stage s answer to v ... *)
process(s, v) ==
    CASE s = 1 -> detect(v)
      [] s = 2 -> landmarks(v)
      [] s = 3 -> align(v)
      [] s = 4 -> extract(v)

(* ... unless process throws: resize for a frame that Decode could not make an *)
(* image of, image(box) and resize for a face, resize for an empty Mat.        *)
throws(s, v) ==
    \/ s = 1 /\ ~ v.decoded
    \/ s = 2 /\ \E i \in DOMAIN v : ~ Inside(v[i].box) \/ ~ HasPixels(v[i].box)
    \/ s = 4 /\ \E i \in DOMAIN v : v[i].empty

-------------------------------------------------------------------------------
(* A face that lies in the image. *)
Within(row) ==
    /\ {row.x_min, row.x_max, row.y_min, row.y_max} \subseteq 0 .. Unit
    /\ row.x_min <= row.x_max /\ row.y_min <= row.y_max

(* A pixel wide and high at least. *)
Visible(row) ==
    /\ (row.x_max - row.x_min) * ImageWidth >= Unit
    /\ (row.y_max - row.y_min) * ImageHeight >= Unit

(* A decoded frame, the faces of which lie in the image and look out of it. *)
Clean(frame) ==
    /\ frame.decoded
    /\ \A i \in DOMAIN Confident(frame.rows) :
          LET row == Confident(frame.rows)[i] IN Within(row) /\ Visible(row) /\ row.eyes
===============================================================================
