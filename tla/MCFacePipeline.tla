---------------------------- MODULE MCFacePipeline ----------------------------
(* A config without the aligner and a complete one; the right processors, and *)
(* ones of which one has another stage's workers and one is missing.  Two     *)
(* detectors and aligners, one worker for landmarks and features.             *)
EXTENDS FacePipeline

MCConfigs == {{1, 2, 4}, Stages}

MCWirings == {<<1, 2, 3, 4>>, <<1, 3, none, 4>>}

MCFlags == {[s \in Stages |-> FALSE], [s \in Stages |-> s \in {2, 3}]}

MCConcurrent == <<2, 1, 2, 1>>

Row(conf, x_min, y_min, x_max, y_max, eyes) ==
    [confidence |-> conf, x_min |-> x_min, y_min |-> y_min, x_max |-> x_max,
     y_max |-> y_max, eyes |-> eyes]

(* Coordinates are quarters of an image of 6 x 3 pixels. *)
Good       == Row(1, 1, 0, 4, 4, TRUE)
AboveEdge  == Row(1, 1, -1, 3, 3, TRUE)
OfNetSize  == Row(1, 0, 1, 2, 4, TRUE)
Unsure     == Row(0, 2, 0, 9, 4, TRUE)
NoEyes     == Row(1, 0, 0, 2, 4, FALSE)
BeyondEdge == Row(1, 2, 0, 5, 4, TRUE)
BelowEdge  == Row(1, 2, 3, 4, 5, TRUE)

Image(rows) == [decoded |-> TRUE, rows |-> rows]

MCFrames ==
    {[decoded |-> FALSE, rows |-> << >>],
     Image(<<Good, Unsure, OfNetSize>>),
     Image(<<NoEyes, AboveEdge, BelowEdge>>),
     Image(<<BeyondEdge>>)}
===============================================================================
