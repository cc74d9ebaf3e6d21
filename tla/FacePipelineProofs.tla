-------------------------- MODULE FacePipelineProofs --------------------------
(***************************************************************************)
(* Terminate of the pipeline leaves no processor running, for any number   *)
(* of clients, any config and any processors.  The property is not         *)
(* inductive: it needs that a processor that runs has its flag set, that   *)
(* Terminate leaves nothing running behind the stage it is at, and that    *)
(* nothing runs ahead of Init.  And no frame that is clean costs a worker: *)
(* what a client holds is what the stages make of its frame, and that a    *)
(* clean frame passes them is CleanFramesPass.  What the landmarks worker  *)
(* copies of a face lies in the frame.  And what a stage gives for a face  *)
(* stays in the place of the face.                                         *)
(***************************************************************************)
EXTENDS FacePipeline, SequenceLemmas, TLAPS

(* The stages: a clean frame passes them, whatever the size of the image and  *)
(* the resolution of the networks' coordinates.  Cutting the fractions off    *)
(* the corner and the size of a face apart from each other never makes a box  *)
(* that reaches out of the image.                                             *)

(* What is left of a number whose fraction is cut off. *)
LEMMA TruncateNat ==
    ASSUME NEW a \in Nat
    PROVE  /\ Truncate(a) \in Nat
           /\ Truncate(a) * Unit <= a
           /\ a >= Unit => Truncate(a) > 0
<1>1. Truncate(a) = a \div Unit
  BY DEF Truncate
<1>2. a \div Unit \in Nat /\ (a \div Unit) * Unit <= a /\ a < (a \div Unit) * Unit + Unit
  BY UnitAssumption, SMTT(60)
<1>3. ASSUME a >= Unit PROVE Truncate(a) > 0
  BY <1>1, <1>2, <1>3, UnitAssumption
<1>4. QED BY <1>1, <1>2, <1>3

(* One axis: corner and length are cut off each, and still fit.               *)
LEMMA AxisFits ==
    ASSUME NEW low \in 0 .. Unit, NEW high \in 0 .. Unit, low <= high, NEW size \in Nat
    PROVE  /\ Truncate(low * size) \in Nat
           /\ Truncate((high - low) * size) \in Nat
           /\ Truncate(low * size) + Truncate((high - low) * size) <= size
<1> DEFINE p == low * size
           q == (high - low) * size
           i == Truncate(p)
           j == Truncate(q)
<1>1. p \in Nat /\ q \in Nat
  BY UnitAssumption
<1>2. p + q = high * size
  BY UnitAssumption
<1>3. high * size <= Unit * size
  BY UnitAssumption
<1>4. i \in Nat /\ j \in Nat /\ i * Unit <= p /\ j * Unit <= q
  BY <1>1, TruncateNat
<1> HIDE DEF p, q, i, j
<1>5. (i + j) * Unit = i * Unit + j * Unit
  BY <1>4, UnitAssumption
<1>6. (i + j) * Unit <= size * Unit
  BY <1>1, <1>2, <1>3, <1>4, <1>5, UnitAssumption
<1>7. ASSUME i + j > size PROVE FALSE
  <2>1. i + j >= size + 1
    BY <1>4, <1>7
  <2>2. (i + j) * Unit >= (size + 1) * Unit
    BY <1>4, <2>1, UnitAssumption
  <2>3. (size + 1) * Unit = size * Unit + Unit
    BY UnitAssumption
  <2>4. size * Unit \in Nat /\ (i + j) * Unit \in Nat
    BY <1>4, UnitAssumption
  <2>5. QED BY <1>6, <2>2, <2>3, <2>4, UnitAssumption
<1>8. QED BY <1>4, <1>7 DEF i, j, p, q

(* The box of a face that lies in the image does too. *)
LEMMA BoxFits == ASSUME NEW row, Within(row) PROVE Inside(Box(row))
<1>1. /\ row.x_min \in 0 .. Unit /\ row.x_max \in 0 .. Unit /\ row.x_min <= row.x_max
      /\ row.y_min \in 0 .. Unit /\ row.y_max \in 0 .. Unit /\ row.y_min <= row.y_max
  BY DEF Within
<1>2. /\ Box(row).x \in Nat /\ Box(row).width \in Nat
      /\ Box(row).x + Box(row).width <= ImageWidth
  BY <1>1, AxisFits, ImageAssumption DEF Box
<1>3. /\ Box(row).y \in Nat /\ Box(row).height \in Nat
      /\ Box(row).y + Box(row).height <= ImageHeight
  BY <1>1, AxisFits, ImageAssumption DEF Box
<1>4. QED BY <1>2, <1>3 DEF Inside

(* A face a pixel wide and high has a box with pixels. *)
LEMMA BoxHasPixels == ASSUME NEW row, Within(row), Visible(row) PROVE HasPixels(Box(row))
<1>1. /\ row.x_min \in 0 .. Unit /\ row.x_max \in 0 .. Unit /\ row.x_min <= row.x_max
      /\ row.y_min \in 0 .. Unit /\ row.y_max \in 0 .. Unit /\ row.y_min <= row.y_max
  BY DEF Within
<1>2. /\ (row.x_max - row.x_min) * ImageWidth \in Nat
      /\ (row.y_max - row.y_min) * ImageHeight \in Nat
  BY <1>1, UnitAssumption, ImageAssumption
<1>3. Truncate((row.x_max - row.x_min) * ImageWidth) > 0
  BY <1>2, TruncateNat DEF Visible
<1>4. Truncate((row.y_max - row.y_min) * ImageHeight) > 0
  BY <1>2, TruncateNat DEF Visible
<1>5. QED BY <1>3, <1>4 DEF HasPixels, Box

(* What the client of a frame holds after s stages. *)
Result(given, s) ==
    CASE s = 0 -> given
      [] s = 1 -> detect(given)
      [] s = 2 -> landmarks(detect(given))
      [] s = 3 -> align(landmarks(detect(given)))
      [] s = 4 -> extract(align(landmarks(detect(given))))

(* No stage throws for what the stages before have made of a clean frame. *)
THEOREM CleanFramesPass ==
    ASSUME NEW given, Clean(given), NEW s \in 1 .. 4
    PROVE  ~ throws(s, Result(given, s - 1))
<1> DEFINE sure == Confident(given.rows)
<1>1. /\ given.decoded
      /\ \A i \in DOMAIN sure : Within(sure[i]) /\ Visible(sure[i]) /\ sure[i].eyes
  BY DEF Clean
<1> HIDE DEF sure
<1>2. detect(given) = [i \in DOMAIN sure |-> [box |-> Box(sure[i]), eyes |-> sure[i].eyes]]
  BY DEF detect, sure
<1>3. CASE s = 1
  BY <1>1, <1>3 DEF throws, Result
<1>4. CASE s = 2
  <2>1. \A i \in DOMAIN sure : Inside(Box(sure[i])) /\ HasPixels(Box(sure[i]))
    BY <1>1, BoxFits, BoxHasPixels
  <2>2. \A i \in DOMAIN detect(given) :
            Inside(detect(given)[i].box) /\ HasPixels(detect(given)[i].box)
    BY <1>2, <2>1
  <2>3. QED BY <1>4, <2>2 DEF throws, Result
<1>5. CASE s = 3
  BY <1>5 DEF throws
<1>6. CASE s = 4
  <2> DEFINE found == landmarks(detect(given))
  <2>1. /\ DOMAIN found.faces = DOMAIN sure
        /\ \A i \in DOMAIN sure : found.face_landmarks[i].eyes
    BY <1>1, <1>2 DEF landmarks
  <2> HIDE DEF found
  <2>2. ASSUME NEW i \in DOMAIN align(found) PROVE ~ align(found)[i].empty
    <3>1. CASE Len(found.face_landmarks) # Len(found.faces)
      BY <3>1 DEF align
    <3>2. CASE Len(found.face_landmarks) = Len(found.faces)
      <4>1. align(found) = [k \in DOMAIN found.faces |->
                [empty |-> ~ found.face_landmarks[k].eyes, of |-> found.faces[k]]]
        BY <3>2 DEF align
      <4>2. i \in DOMAIN found.faces
        BY <4>1
      <4>3. align(found)[i] = [empty |-> ~ found.face_landmarks[i].eyes, of |-> found.faces[i]]
        BY <4>1, <4>2
      <4>4. align(found)[i].empty = ~ found.face_landmarks[i].eyes
        BY <4>3
      <4>5. QED BY <2>1, <4>2, <4>4
    <3>3. QED BY <3>1, <3>2
  <2>3. QED BY <1>6, <2>2 DEF throws, Result, found
<1>7. QED BY <1>3, <1>4, <1>5, <1>6

-------------------------------------------------------------------------------
(* Pixels. *)

Boxes == [x : Int, y : Int, width : Int, height : Int]

LEMMA TruncateInt ==
    ASSUME NEW a \in Int
    PROVE  Truncate(a) \in Int
<1>1. CASE a >= 0
  BY <1>1, TruncateNat
<1>2. CASE a < 0
  <2>1. - a \in Nat /\ ~ a >= 0
    BY <1>2
  <2>2. (- a) \div Unit \in Nat
    BY <2>1, UnitAssumption
  <2>3. QED BY <2>1, <2>2 DEF Truncate
<1>3. QED BY <1>1, <1>2

LEMMA BoxType ==
    ASSUME NEW row, {row.x_min, row.y_min, row.x_max, row.y_max} \subseteq Int
    PROVE  Box(row) \in Boxes
<1>1. /\ row.x_min * ImageWidth \in Int /\ (row.x_max - row.x_min) * ImageWidth \in Int
      /\ row.y_min * ImageHeight \in Int /\ (row.y_max - row.y_min) * ImageHeight \in Int
  BY ImageAssumption
<1>2. QED BY <1>1, TruncateInt DEF Box, Boxes

(* Counting through a rectangle of w columns, row by row. *)
LEMMA Columns ==
    ASSUME NEW k \in Nat, NEW w \in Nat \ {0}
    PROVE  /\ k \div w \in Nat /\ k % w \in Nat
           /\ k = (k \div w) * w + (k % w)
           /\ k < w => k \div w = 0 /\ k % w = k
<1>1. k \div w \in Nat
  BY SMT
<1>2. k % w \in Nat
  BY SMT
<1>3. k = (k \div w) * w + (k % w)
  BY SMT
<1>4. k < w => k \div w = 0 /\ k % w = k
  BY SMT
<1>5. QED BY <1>1, <1>2, <1>3, <1>4

LEMMA Distribute ==
    ASSUME NEW y \in Int, NEW q \in Int, NEW w \in Int
    PROVE  (y + q) * w = y * w + q * w
  BY SMT

LEMMA Monotone ==
    ASSUME NEW a \in Int, NEW b \in Int, a <= b, NEW w \in Nat
    PROVE  a * w <= b * w
  BY SMT

(* The k-th of a rectangle of w columns and h rows is in one of the rows. *)
LEMMA RowOf ==
    ASSUME NEW w \in Nat \ {0}, NEW h \in Nat \ {0}, NEW k \in 0 .. w * h - 1
    PROVE  /\ k \div w \in Nat /\ k % w \in Nat
           /\ k \div w < h /\ k % w < w
<1>1. w * h \in Nat /\ k \in Nat /\ k < w * h
  <2>1. w * h \in Nat BY SMT
  <2>2. QED BY <2>1
<1>2. PICK q \in Nat, r \in Nat : q = k \div w /\ r = k % w /\ k = q * w + r
  BY <1>1, Columns
<1>3. r < w
  BY <1>1, <1>2, SMT
<1>4. q < h
  <2>1. SUFFICES ASSUME q >= h PROVE FALSE
    BY <1>2
  <2>2. h * w <= q * w
    BY <2>1, Monotone
  <2>3. h * w = w * h
    BY SMT
  <2>4. QED
    <3>1. q * w \in Nat BY <1>2, SMT
    <3>2. QED BY <1>1, <1>2, <2>2, <2>3, <3>1
<1>5. QED BY <1>2, <1>3, <1>4

(* A pixel of a row and a column of the image is one of its pixels. *)
LEMMA PixelOfImage ==
    ASSUME NEW y \in Nat, y < ImageHeight, NEW x \in Nat, x < ImageWidth
    PROVE  y * ImageWidth + x \in 0 .. ImageWidth * ImageHeight - 1
<1>1. PICK w \in Nat \ {0}, h \in Nat \ {0} : w = ImageWidth /\ h = ImageHeight
  BY ImageAssumption
<1>2. (y + 1) * w <= h * w
  BY <1>1, Monotone
<1>3. (y + 1) * w = y * w + w
  BY Distribute
<1>4. h * w = w * h /\ y * w \in Nat /\ w * h \in Nat
  BY SMT
<1>5. QED BY <1>1, <1>2, <1>3, <1>4

(* What is copied of a face that lies in the image does, resized or not: the  *)
(* memory from its corner on ends where its last row does, or before.         *)
LEMMA SeenIsInFrame ==
    ASSUME NEW box \in Boxes, Inside(box), HasPixels(box), NEW k \in DOMAIN Seen(box)
    PROVE  Seen(box)[k] \in 0 .. ImageWidth * ImageHeight - 1
<1>1. PICK w \in Nat \ {0}, h \in Nat \ {0} : w = box.width /\ h = box.height
  BY DEF Inside, HasPixels, Boxes
<1>2. PICK x \in Nat, y \in Nat : x = box.x /\ y = box.y
  BY DEF Inside, Boxes
<1>3. x + w <= ImageWidth /\ y + h <= ImageHeight /\ ImageWidth \in Nat /\ ImageHeight \in Nat
  BY <1>1, <1>2, ImageAssumption DEF Inside
<1>4. CASE w # InputWidth \/ h # InputHeight
  <2>1. Seen(box) = Pixels(box)
    BY <1>1, <1>4 DEF Seen
  <2>2. k \in 0 .. w * h - 1 /\ Seen(box)[k] = (y + k \div w) * ImageWidth + x + (k % w)
    BY <1>1, <1>2, <2>1 DEF Pixels
  <2>3. PICK q \in Nat, r \in Nat : q = k \div w /\ r = k % w /\ q < h /\ r < w
    BY <2>2, RowOf
  <2>4. (y + q) * ImageWidth + (x + r) \in 0 .. ImageWidth * ImageHeight - 1
    BY <1>3, <2>3, PixelOfImage
  <2>5. (y + q) * ImageWidth \in Int
    BY <1>3, SMT
  <2>6. QED BY <2>2, <2>3, <2>4, <2>5
<1>5. CASE w = InputWidth /\ h = InputHeight
  <2>1. Seen(box) = RawPixels(box)
    BY <1>1, <1>5 DEF Seen
  <2>2. k \in 0 .. w * h - 1 /\ Seen(box)[k] = y * ImageWidth + x + k
    BY <1>2, <1>5, <2>1 DEF RawPixels
  <2>3. PICK m \in Nat : h = m + 1
    BY h - 1 \in Nat
  <2>4. w * h = m * w + w
    BY <2>3, Distribute, SMT
  <2>5. m * w <= m * ImageWidth
    BY <1>3, <2>3, SMT
  <2>6. (y + m) * ImageWidth = y * ImageWidth + m * ImageWidth
    BY <1>3, <2>3, Distribute
  <2>7. (y + m) * ImageWidth + (x + w - 1) \in 0 .. ImageWidth * ImageHeight - 1
    <3>1. y + m \in Nat /\ y + m < ImageHeight /\ x + w - 1 \in Nat /\ x + w - 1 < ImageWidth
      BY <1>3, <2>3
    <3>2. QED BY <3>1, PixelOfImage
  <2>8. /\ y * ImageWidth \in Nat /\ m * ImageWidth \in Nat /\ m * w \in Nat
        /\ w * h \in Nat /\ ImageWidth * ImageHeight \in Nat
    BY <1>3, <2>3, SMT
  <2>9. QED BY <2>2, <2>4, <2>5, <2>6, <2>7, <2>8
<1>6. QED BY <1>1, <1>4, <1>5

-------------------------------------------------------------------------------
(* The pipeline over them.                                                    *)

Runs(s) == processor[s] \in {"serving", "woken"}

(* What runs, Terminate can find; what is woken it is waiting for. *)
RunningIsFound ==
    \A s \in Stages :
        /\ Runs(s) => wired[s] # none /\ inited[s]
        /\ processor[s] = "woken" => owner \in {"terminating", "crashed"} /\ s = at

(* Behind the stage Terminate is at, and ahead of the stage Init is at,       *)
(* nothing runs.                                                              *)
DoneIsQuiet ==
    /\ owner = "terminating" => \A s \in Stages : s < at => ~ Runs(s)
    /\ owner = "initing" => \A s \in Stages : s >= at => ~ Runs(s)

(* A client in a call has not got everything yet. *)
CallsAreOfStages == \A c \in Clients : phase[c] # "idle" => got[c] < 4

Inv == TypeOK /\ CallsAreOfStages /\ RunningIsFound /\ DoneIsQuiet /\ TerminatedIsQuiet

USE DEF Stages, End, none

(* The steps of the clients and the workers' answers leave the processors     *)
(* and the owner alone, but for a call that ends the process.                 *)
LEMMA ClientStepInv ==
    ASSUME Inv, NEW c \in Clients, ClientStep(c) \/ ServeStep(c)
    PROVE  Inv'
<1> USE DEF Inv, TypeOK, MayCall, IsServed, ownerVars, clientVars
<1>1. got[c] \in 0 .. 4
  OBVIOUS
<1>2. ASSUME owner' = owner \/ owner' = "crashed",
             UNCHANGED <<config, at, wired, processor, inited>>
      PROVE  /\ RunningIsFound' /\ DoneIsQuiet' /\ TerminatedIsQuiet'
             /\ config' \in Configs /\ owner' \in OwnerStates
  BY <1>2 DEF RunningIsFound, Runs, DoneIsQuiet, TerminatedIsQuiet, OwnerStates
<1>3. CASE Call(c) \/ CallCrashes(c)
  BY <1>2, <1>3 DEF Call, CallCrashes, CallsAreOfStages
<1>4. CASE Return(c)
  <2>1. got[c] + 1 \in 0 .. 4
    BY <1>1, <1>4 DEF Return, CallsAreOfStages
  <2>2. QED BY <1>2, <1>4, <2>1 DEF Return, CallsAreOfStages
<1>5. ASSUME NEW f \in Frames, Decode(c, f) PROVE Inv'
  BY <1>2, <1>5 DEF Decode, CallsAreOfStages
<1>6. CASE Answer(c) \/ Drop(c) \/ Abort(c)
  BY <1>2, <1>6 DEF Answer, Drop, Abort, CallsAreOfStages
<1>7. CASE Throw(c)
  <2>1. got[c] + 1 \in Stages /\ alive[got[c] + 1] - 1 \in Nat
    BY <1>1, <1>7 DEF Throw, CallsAreOfStages
  <2>2. alive' \in [Stages -> Nat]
    BY <1>7, <2>1 DEF Throw
  <2>3. QED BY <1>2, <1>7, <2>2 DEF Throw, CallsAreOfStages
<1>8. QED BY <1>3, <1>4, <1>5, <1>6, <1>7 DEF ClientStep, ServeStep

(* Init: a stage that is inited is the one at which nothing ran so far, and   *)
(* the next Init finds everything quiet, so it forgets nothing that runs.     *)
LEMMA InitStepInv ==
    ASSUME Inv,
           \/ \E wiring \in Wirings, flags \in Flags : InitBegins(wiring, flags)
           \/ InitStage \/ InitStageFails \/ InitSkipsStage \/ InitCrashes \/ InitReturns
    PROVE  Inv'
<1> USE DEF Inv, TypeOK, OwnerStates, clientVars
<1>1. ASSUME NEW wiring \in Wirings, NEW flags \in Flags,
             InitBegins(wiring, flags)
      PROVE  Inv'
  <2>1. TypeOK' /\ CallsAreOfStages'
    BY <1>1, WiringsAssumption, FlagsAssumption DEF InitBegins, CallsAreOfStages
  <2>2. \A s \in Stages : ~ Runs(s)'
    BY <1>1 DEF InitBegins, Runs
  <2>3. QED
    BY <1>1, <2>1, <2>2 DEF InitBegins, RunningIsFound, DoneIsQuiet, TerminatedIsQuiet, Runs
<1>2. CASE InitStage
  <2>1. at \in Stages
    BY <1>2, ConfigsAssumption DEF InitStage
  <2>2. TypeOK' /\ CallsAreOfStages'
    BY <1>2, <2>1, ConcurrentAssumption DEF InitStage, CallsAreOfStages
  <2>3. RunningIsFound'
    BY <1>2, <2>1 DEF InitStage, RunningIsFound, Runs
  <2>4. DoneIsQuiet' /\ TerminatedIsQuiet'
    BY <1>2, <2>1 DEF InitStage, DoneIsQuiet, TerminatedIsQuiet, Runs
  <2>5. QED BY <2>2, <2>3, <2>4
<1>3. CASE InitStageFails \/ InitCrashes \/ InitReturns
  BY <1>3 DEF InitStageFails, InitCrashes, InitReturns, CallsAreOfStages, RunningIsFound,
              DoneIsQuiet, TerminatedIsQuiet, Runs
<1>4. CASE InitSkipsStage
  BY <1>4 DEF InitSkipsStage, CallsAreOfStages, RunningIsFound, DoneIsQuiet,
              TerminatedIsQuiet, Runs
<1>5. QED BY <1>1, <1>2, <1>3, <1>4

(* Terminate: a stage is passed once it is stopped, or has nothing that runs  *)
(* because there is no processor or its flag is not set.                      *)
LEMMA TerminateStepInv ==
    ASSUME Inv,
           \/ TerminateBegins \/ TerminateStageWakes \/ TerminateStage
           \/ TerminateSkipsStage \/ TerminateReturns
    PROVE  Inv'
<1> USE DEF Inv, TypeOK, OwnerStates, clientVars
<1>1. CASE TerminateBegins
  BY <1>1 DEF TerminateBegins, CallsAreOfStages, RunningIsFound, DoneIsQuiet,
              TerminatedIsQuiet, Runs
<1>2. CASE TerminateStageWakes
  BY <1>2 DEF TerminateStageWakes, CallsAreOfStages, RunningIsFound, DoneIsQuiet,
              TerminatedIsQuiet, Runs
<1>3. CASE TerminateStage
  <2>1. processor'[at] \notin {"serving", "woken"}
    BY <1>3 DEF TerminateStage
  <2>2. \A s \in Stages : s # at => processor'[s] = processor[s]
    BY <1>3 DEF TerminateStage
  <2>3. TypeOK' /\ CallsAreOfStages'
    BY <1>3 DEF TerminateStage, CallsAreOfStages
  <2>4. RunningIsFound'
    BY <1>3, <2>1, <2>2 DEF TerminateStage, RunningIsFound, Runs
  <2>5. DoneIsQuiet' /\ TerminatedIsQuiet'
    <3>1. at' = at + 1 /\ owner' = "terminating" /\ owner = "terminating" /\ at \in Stages
      BY <1>3 DEF TerminateStage
    <3>2. ASSUME NEW s \in Stages, s < at + 1 PROVE ~ Runs(s)'
      <4>1. CASE s = at BY <4>1, <1>3 DEF TerminateStage, Runs
      <4>2. CASE s < at BY <4>2, <2>2, <3>1 DEF DoneIsQuiet, Runs
      <4>3. QED BY <4>1, <4>2, <3>1, <3>2
    <3>3. QED BY <3>1, <3>2 DEF DoneIsQuiet, TerminatedIsQuiet
  <2>6. QED BY <2>3, <2>4, <2>5
<1>4. CASE TerminateSkipsStage
  <2>1. ~ Runs(at)
    BY <1>4 DEF TerminateSkipsStage, RunningIsFound
  <2>2. TypeOK' /\ CallsAreOfStages'
    BY <1>4 DEF TerminateSkipsStage, CallsAreOfStages
  <2>3. RunningIsFound'
    BY <1>4, <2>1 DEF TerminateSkipsStage, RunningIsFound, Runs
  <2>4. DoneIsQuiet' /\ TerminatedIsQuiet'
    BY <1>4, <2>1 DEF TerminateSkipsStage, DoneIsQuiet, TerminatedIsQuiet, Runs
  <2>5. QED BY <2>2, <2>3, <2>4
<1>5. CASE TerminateReturns
  BY <1>5 DEF TerminateReturns, CallsAreOfStages, RunningIsFound, DoneIsQuiet,
              TerminatedIsQuiet, Runs
<1>6. QED BY <1>1, <1>2, <1>3, <1>4, <1>5

(* The inductive invariant of the pipeline. *)
THEOREM Invariance == Spec => []Inv
<1>1. Init => Inv
  BY DEF Init, Inv, TypeOK, OwnerStates, CallsAreOfStages, RunningIsFound, DoneIsQuiet,
         TerminatedIsQuiet, Runs
<1>2. Inv /\ [Next]_vars => Inv'
  <2> SUFFICES ASSUME Inv, [Next]_vars PROVE Inv'
    OBVIOUS
  <2>1. CASE OwnerStep
    BY <2>1, InitStepInv, TerminateStepInv DEF OwnerStep
  <2>2. ASSUME NEW c \in Clients, ClientStep(c) \/ ServeStep(c) PROVE Inv'
    BY <2>2, ClientStepInv
  <2>3. CASE UNCHANGED vars
    BY <2>3 DEF vars, Inv, TypeOK, OwnerStates, CallsAreOfStages, RunningIsFound, DoneIsQuiet,
                TerminatedIsQuiet, Runs
  <2>4. QED BY <2>1, <2>2, <2>3 DEF Next
<1>3. QED BY <1>1, <1>2, PTL DEF Spec

(* Type correctness of the pipeline, for any clients, configs and processors. *)
THEOREM Typing == Spec => []TypeOK
<1>1. Inv => TypeOK BY DEF Inv
<1>2. QED BY <1>1, Invariance, PTL

(* When Terminate has returned no processor has a worker that runs, whatever  *)
(* Init and the config left behind.                                           *)
THEOREM TerminateIsComplete == Spec => []TerminatedIsQuiet
<1>1. Inv => TerminatedIsQuiet BY DEF Inv
<1>2. QED BY <1>1, Invariance, PTL

-------------------------------------------------------------------------------
(* What the clients hold. *)

HeldIsOfFrame ==
    \A c \in Clients :
        /\ held[c] = Result(frame[c], got[c])
        /\ phase[c] = "thrown" => throws(got[c] + 1, held[c])
        /\ phase[c] = "answered" => ~ throws(got[c] + 1, held[c])
        /\ got[c] = 2 => ~ throws(2, detect(frame[c]))

(* A client goes from one result to the next, or on to another frame; the     *)
(* owner only forgets calls.                                                  *)
LEMMA HeldStep == TypeOK /\ CallsAreOfStages /\ HeldIsOfFrame /\ [Next]_vars => HeldIsOfFrame'
<1> SUFFICES ASSUME TypeOK, CallsAreOfStages, HeldIsOfFrame, [Next]_vars PROVE HeldIsOfFrame'
  OBVIOUS
<1> USE DEF HeldIsOfFrame
<1>1. ASSUME UNCHANGED <<got, held, frame>>,
             \A c \in Clients : phase'[c] = "thrown" =>
                 phase[c] = "thrown" \/ throws(got[c] + 1, held[c]),
             \A c \in Clients : phase'[c] = "answered" =>
                 phase[c] = "answered" \/ ~ throws(got[c] + 1, held[c])
      PROVE  HeldIsOfFrame'
  BY <1>1
<1>2. CASE UNCHANGED vars
  BY <1>1, <1>2 DEF vars
<1>3. CASE OwnerStep
  <2>1. ASSUME NEW wiring \in Wirings, NEW flags \in Flags, InitBegins(wiring, flags)
        PROVE  HeldIsOfFrame'
    BY <1>1, <2>1 DEF InitBegins
  <2>2. ASSUME ~ \E wiring \in Wirings, flags \in Flags : InitBegins(wiring, flags)
        PROVE  UNCHANGED <<phase, got, held, frame>>
    BY <1>3, <2>2 DEF OwnerStep, InitStage, InitStageFails, InitSkipsStage, InitCrashes,
       InitReturns, TerminateBegins, TerminateStageWakes, TerminateStage, TerminateSkipsStage,
       TerminateReturns, clientVars
  <2>3. QED BY <1>1, <2>1, <2>2
<1>4. ASSUME NEW c \in Clients,
             Call(c) \/ CallCrashes(c) \/ Answer(c) \/ Drop(c) \/ Throw(c) \/ Abort(c)
      PROVE  HeldIsOfFrame'
  <2>1. UNCHANGED <<got, held, frame>>
    BY <1>4 DEF Call, CallCrashes, Answer, Drop, Throw, Abort, clientVars
  <2>2. \A d \in Clients : phase'[d] = "thrown" =>
            phase[d] = "thrown" \/ throws(got[d] + 1, held[d])
    BY <1>4 DEF Call, CallCrashes, Answer, Drop, Throw, Abort, Succeeds, clientVars, TypeOK
  <2>3. \A d \in Clients : phase'[d] = "answered" =>
            phase[d] = "answered" \/ ~ throws(got[d] + 1, held[d])
    BY <1>4 DEF Call, CallCrashes, Answer, Drop, Throw, Abort, Succeeds, clientVars, TypeOK
  <2>4. QED BY <1>1, <2>1, <2>2, <2>3
<1>5. ASSUME NEW c \in Clients, Return(c) PROVE HeldIsOfFrame'
  <2>1. got[c] \in 0 .. 3
    BY <1>5 DEF Return, TypeOK, CallsAreOfStages
  <2>2. process(got[c] + 1, Result(frame[c], got[c])) = Result(frame[c], got[c] + 1)
    BY <2>1 DEF process, Result
  <2>3. /\ held' = [held EXCEPT ![c] = process(got[c] + 1, held[c])]
        /\ got' = [got EXCEPT ![c] = got[c] + 1]
        /\ phase' = [phase EXCEPT ![c] = "idle"]
        /\ frame' = frame
    BY <1>5 DEF Return
  <2>4. ASSUME NEW d \in Clients
        PROVE  /\ held'[d] = Result(frame'[d], got'[d])
               /\ phase'[d] = "thrown" => throws(got'[d] + 1, held'[d])
               /\ phase'[d] = "answered" => ~ throws(got'[d] + 1, held'[d])
               /\ got'[d] = 2 => ~ throws(2, detect(frame'[d]))
    <3>1. CASE d = c
      <4>1. held'[c] = process(got[c] + 1, held[c]) \/ held'[c] = held[c]
        BY <2>3
      <4>2. c \in DOMAIN held => held'[c] = Result(frame[c], got[c] + 1)
        BY <2>2, <2>3
      <4>3. got[c] + 1 = 2 => ~ throws(2, detect(frame[c]))
        <5>1. CASE got[c] = 1
          <6>1. held[c] = detect(frame[c])
            BY <5>1 DEF Result
          <6>2. QED BY <1>5, <5>1, <6>1 DEF Return
        <5>2. QED BY <2>1, <5>1
      <4>4. QED BY <2>3, <3>1, <4>2, <4>3 DEF TypeOK
    <3>2. CASE d # c
      BY <2>3, <3>2 DEF TypeOK
    <3>3. QED BY <3>1, <3>2
  <2>5. QED BY <2>4
<1>6. ASSUME NEW c \in Clients, NEW f \in Frames, Decode(c, f) PROVE HeldIsOfFrame'
  BY <1>6 DEF Decode, TypeOK, Result
<1>7. QED BY <1>2, <1>3, <1>4, <1>5, <1>6 DEF Next, ClientStep, ServeStep

(* The invariant, and that every client holds what the stages it has been     *)
(* through make of its frame.                                                 *)
LEMMA HeldInvariance == Spec => [](Inv /\ HeldIsOfFrame)
<1>1. Init => HeldIsOfFrame
  BY DEF Init, HeldIsOfFrame, Result
<1>2. Inv => TypeOK /\ CallsAreOfStages
  BY DEF Inv
<1>3. HeldIsOfFrame /\ Inv /\ [Next]_vars => HeldIsOfFrame'
  BY <1>2, HeldStep
<1>4. QED BY <1>1, <1>3, Invariance, PTL DEF Spec

(* Whatever the frames, the sizes and the resolution of the coordinates: a    *)
(* worker that has died had a frame that was not decoded, or a face that does *)
(* not lie in the image, has no pixels or does not look out of it.            *)
THEOREM CleanFramesLoseNoWorker == Spec => []OnlyBadFramesThrow
<1>1. Inv /\ HeldIsOfFrame => OnlyBadFramesThrow
  <2> SUFFICES ASSUME Inv, HeldIsOfFrame, NEW c \in Clients, phase[c] = "thrown"
               PROVE  ~ Clean(frame[c])
    BY DEF OnlyBadFramesThrow
  <2>1. got[c] + 1 \in 1 .. 4
    BY DEF Inv, TypeOK, CallsAreOfStages
  <2>2. PICK s \in 1 .. 4 : s = got[c] + 1
    BY <2>1
  <2>3. s - 1 = got[c]
    BY <2>2 DEF Inv, TypeOK
  <2>4. throws(s, Result(frame[c], s - 1))
    BY <2>2, <2>3 DEF HeldIsOfFrame
  <2>5. QED BY <2>4, CleanFramesPass
<1>2. QED BY <1>1, HeldInvariance, PTL

(* The landmarks worker reads the frame and no memory beyond it, for every    *)
(* image, network and face, whether the face is resized or not.               *)
THEOREM ReadsStayInFrame == Spec => []LandmarksReadTheFrame
<1>1. Inv /\ HeldIsOfFrame => LandmarksReadTheFrame
  <2> SUFFICES ASSUME Inv, HeldIsOfFrame, NEW c \in Clients, got[c] = 2,
                      NEW i \in DOMAIN held[c].face_landmarks,
                      NEW k \in DOMAIN held[c].face_landmarks[i].seen
               PROVE  held[c].face_landmarks[i].seen[k] \in 0 .. ImageWidth * ImageHeight - 1
    BY DEF LandmarksReadTheFrame
  <2> DEFINE detected == detect(frame[c])
             box == detected[i].box
  <2>1. held[c] = landmarks(detected) /\ ~ throws(2, detected)
    BY DEF HeldIsOfFrame, Result
  <2>2. i \in DOMAIN detected /\ held[c].face_landmarks[i].seen = Seen(box)
    <3> HIDE DEF detected
    <3>1. QED BY <2>1 DEF landmarks
  <2>3. Inside(box) /\ HasPixels(box)
    <3> HIDE DEF detected
    <3>1. QED BY <2>1, <2>2 DEF throws
  <2>4. box \in Boxes
    <3>1. box = Box(Confident(frame[c].rows)[i]) /\ i \in DOMAIN Confident(frame[c].rows)
      BY <2>2 DEF detect
    <3>2. frame[c] \in Frames
      BY DEF Inv, TypeOK
    <3>3. QED BY <3>1, <3>2, CoordinatesAssumption, BoxType
  <2> HIDE DEF box
  <2>5. QED BY <2>2, <2>3, <2>4, SeenIsInFrame
<1>2. QED BY <1>1, HeldInvariance, PTL

(* The detections kept are a sequence, and each stage makes one of the same   *)
(* length of the one it is given.                                             *)
LEMMA KeptIsSequence ==
    ASSUME NEW given \in Frames
    PROVE  \E n \in Nat : /\ DOMAIN Confident(given.rows) = 1 .. n
                           /\ Len(Confident(given.rows)) = n
<1> DEFINE I == {i \in DOMAIN given.rows : given.rows[i].confidence >= MinConfidence}
<1>1. Len(given.rows) \in Nat /\ I \in SUBSET (1 .. Len(given.rows))
  BY FramesAssumption
<1> HIDE DEF I
<1>2. /\ DOMAIN Pick(given.rows, I) = 1 .. Cardinality(I)
      /\ Len(Pick(given.rows, I)) = Cardinality(I)
      /\ Cardinality(I) \in Nat
  BY <1>1, PickLength, PlacesAreFinite
<1>3. Confident(given.rows) = Pick(given.rows, I)
  BY DEF Confident, I
<1>4. QED BY <1>2, <1>3

(* What a client has been given is by position, for every frame, image and    *)
(* network: the i-th face, its points, its aligned picture and its feature    *)
(* are of the i-th detection.                                                 *)
THEOREM ResultsAreByPosition == Spec => []ResultsStayInPlace
<1>1. Inv /\ HeldIsOfFrame => ResultsStayInPlace
  <2> SUFFICES ASSUME Inv, HeldIsOfFrame, NEW c \in Clients
               PROVE  LET n == Len(Confident(frame[c].rows))
                          box(i) == Box(Confident(frame[c].rows)[i])
                      IN  /\ got[c] = 2 => /\ Len(held[c].face_landmarks) = n
                                           /\ Len(held[c].faces) = n
                                           /\ \A i \in 1 .. n : held[c].faces[i] = box(i)
                          /\ got[c] = 3 => /\ Len(held[c]) = n
                                           /\ \A i \in 1 .. n : held[c][i].of = box(i)
                          /\ got[c] = 4 => Len(held[c]) = n
    BY DEF ResultsStayInPlace
  <2> DEFINE kept == Confident(frame[c].rows)
             detected == detect(frame[c])
             found == landmarks(detected)
             aligned == align(found)
  <2>1. frame[c] \in Frames /\ held[c] = Result(frame[c], got[c])
    BY DEF Inv, TypeOK, HeldIsOfFrame
  <2>2. PICK n \in Nat : DOMAIN kept = 1 .. n /\ Len(kept) = n
    BY <2>1, KeptIsSequence
  <2>3. /\ DOMAIN detected = 1 .. n
        /\ \A i \in 1 .. n : detected[i].box = Box(kept[i])
    BY <2>2 DEF detect
  <2> HIDE DEF detected
  <2>4. /\ DOMAIN found.faces = 1 .. n /\ DOMAIN found.face_landmarks = 1 .. n
        /\ \A i \in 1 .. n : found.faces[i] = Box(kept[i])
    BY <2>3 DEF landmarks
  <2> HIDE DEF found
  <2>5. Len(found.faces) = n /\ Len(found.face_landmarks) = n
    BY <2>4
  <2>6. /\ DOMAIN aligned = 1 .. n
        /\ \A i \in 1 .. n : aligned[i].of = Box(kept[i])
    BY <2>4, <2>5 DEF align
  <2> HIDE DEF aligned
  <2>7. DOMAIN extract(aligned) = 1 .. n
    BY <2>6 DEF extract
  <2>8. Len(aligned) = n /\ Len(extract(aligned)) = n
    BY <2>6, <2>7
  <2>9. /\ got[c] = 2 => held[c] = found
        /\ got[c] = 3 => held[c] = aligned
        /\ got[c] = 4 => held[c] = extract(aligned)
    BY <2>1 DEF Result, found, aligned, detected
  <2>10. QED BY <2>2, <2>4, <2>5, <2>6, <2>8, <2>9
<1>2. QED BY <1>1, HeldInvariance, PTL
===============================================================================
