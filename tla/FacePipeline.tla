----------------------------- MODULE FacePipeline -----------------------------
(***************************************************************************)
(* FacePipelineImpl: four processors, made by the user and owned by the    *)
(* pipeline, that turn a frame into features.  A client calls Detect,      *)
(* Landmarks, Align and Extract one after the other, each with what the    *)
(* one before has returned.  A processor is what WorkerPool promises, the  *)
(* contract ConcurrentProcessor implements: it answers every call of the   *)
(* right valueType while it serves, drops the others, and its Terminate    *)
(* returns, if it does, without workers left.  A call for which process    *)
(* throws takes a worker with it.                                          *)
(*                                                                         *)
(* Init is called again after Terminate only: it destroys the processors   *)
(* it replaces.  Terminate may be called at any time.  Clients do not call while Init runs; the pointers they    *)
(* read are not protected.                                                 *)
(***************************************************************************)
EXTENDS FaceStages

CONSTANTS
    Clients,
    Configs,    \* sets of stages that _config may contain
    Wirings,    \* the stage whose workers each processor has, or none: nullptr
    Flags,      \* what the flags of processors just made may happen to be
    Frames,     \* what Decode makes of the images
    Concurrent, \* _config[stage]["concurrent"]
    MayAbort    \* was it built with asserts?

Stages == 1 .. 4    \* detector, landmarks, aligner, feature
none == 0
End == 5

ASSUME ConfigsAssumption == Configs \subseteq SUBSET Stages
ASSUME WiringsAssumption == Wirings \subseteq [Stages -> Stages \cup {none}]
ASSUME FlagsAssumption   == Flags \subseteq [Stages -> BOOLEAN]
ASSUME ConcurrentAssumption == Concurrent \in [Stages -> Nat \ {0}]
ASSUME FramesAssumption ==
    \A f \in Frames : Len(f.rows) \in Nat /\ DOMAIN f.rows = 1 .. Len(f.rows)
ASSUME CoordinatesAssumption ==
    \A f \in Frames : \A i \in DOMAIN Confident(f.rows) :
        LET row == Confident(f.rows)[i]
        IN  {row.x_min, row.y_min, row.x_max, row.y_max} \subseteq Int

VARIABLES
    config,
    owner,      \* the thread that calls Init and Terminate
    at,         \* the stage it is at
    wired,      \* the workers of the processor of each stage
    processor,  \* whether they run
    inited,     \* _is_inited of the processor; nobody sets it before Init has
    alive,      \* the workers of each stage that have not died
    phase,      \* of each client's call
    got,        \* the stage whose result the client holds, 0 if it holds a frame
    held,       \* that result
    frame       \* the frame it has begun with

vars == <<config, owner, at, wired, processor, inited, alive, phase, got, held, frame>>
ownerVars == <<config, owner, at, wired, processor, inited>>
clientVars == <<alive, phase, got, held, frame>>

OwnerStates == {"new", "initing", "ready", "failed", "terminating", "terminated", "crashed"}

TypeOK ==
    /\ config \in Configs
    /\ owner \in OwnerStates
    /\ at \in Stages \cup {End}
    /\ wired \in [Stages -> Stages \cup {none}]
    /\ processor \in [Stages -> {"idle", "serving", "woken", "stopped"}]
    /\ inited \in [Stages -> BOOLEAN]
    /\ phase \in [Clients -> {"idle", "pending", "answered", "lost", "thrown"}]
    /\ got \in [Clients -> 0 .. 4]
    /\ alive \in [Stages -> Nat]
    /\ frame \in [Clients -> Frames]
    /\ DOMAIN held = Clients

Init ==
    /\ config \in Configs
    /\ owner = "new"
    /\ at = End
    /\ wired = [s \in Stages |-> none]
    /\ processor = [s \in Stages |-> "idle"]
    /\ inited = [s \in Stages |-> FALSE]
    /\ phase = [c \in Clients |-> "idle"]
    /\ got = [c \in Clients |-> 0]
    /\ alive = [s \in Stages |-> 0]
    /\ frame \in [Clients -> Frames]
    /\ held = frame

-------------------------------------------------------------------------------
(* Init and Terminate. *)

(* reset() of the four pointers; what waits in the channels of the old ones   *)
(* waits for ever.                                                            *)
InitBegins(wiring, flags) ==
    /\ owner \in {"new", "terminated"}
    /\ owner' = "initing"
    /\ at' = 1
    /\ wired' = wiring
    /\ processor' = [s \in Stages |-> "idle"]
    /\ inited' = [s \in Stages |-> wiring[s] # none /\ flags[s]]
    /\ alive' = [s \in Stages |-> 0]
    /\ phase' = [c \in Clients |-> IF phase[c] \in {"pending", "thrown"} THEN "lost" ELSE phase[c]]
    /\ UNCHANGED <<config, got, held, frame>>

InitStageFails ==
    /\ owner = "initing" /\ at \in config /\ wired[at] # none
    /\ owner' = "failed"
    /\ UNCHANGED <<config, at, wired, processor, inited, clientVars>>

InitStage ==
    /\ owner = "initing" /\ at \in config /\ wired[at] # none
    /\ processor' = [processor EXCEPT ![at] = "serving"]
    /\ inited' = [inited EXCEPT ![at] = TRUE]
    /\ alive' = [alive EXCEPT ![at] = Concurrent[at]]
    /\ at' = at + 1
    /\ UNCHANGED <<config, owner, wired, phase, got, held, frame>>

InitSkipsStage ==
    /\ owner = "initing" /\ at \in Stages \ config
    /\ at' = at + 1
    /\ UNCHANGED <<config, owner, wired, processor, inited, clientVars>>

(* The config names a stage that has no processor. *)
InitCrashes ==
    /\ owner = "initing" /\ at \in config /\ wired[at] = none
    /\ owner' = "crashed"
    /\ UNCHANGED <<config, at, wired, processor, inited, clientVars>>

InitReturns ==
    /\ owner = "initing" /\ at = End
    /\ owner' = "ready"
    /\ UNCHANGED <<config, at, wired, processor, inited, clientVars>>

TerminateBegins ==
    /\ owner \in {"new", "ready", "failed", "terminated"}
    /\ owner' = "terminating"
    /\ at' = 1
    /\ UNCHANGED <<config, wired, processor, inited, clientVars>>

(* Terminate of the processor: wakeUpAll, and joinAll if it returns.  Without *)
(* workers there is nothing to wait for.                                      *)
TerminateStageWakes ==
    /\ owner = "terminating" /\ at \in Stages
    /\ wired[at] # none /\ inited[at] /\ processor[at] = "serving"
    /\ processor' = [processor EXCEPT ![at] = "woken"]
    /\ UNCHANGED <<config, owner, at, wired, inited, clientVars>>

TerminateStage ==
    /\ owner = "terminating" /\ at \in Stages
    /\ wired[at] # none /\ inited[at] /\ processor[at] # "serving"
    /\ processor' = [processor EXCEPT ![at] = IF @ = "woken" THEN "stopped" ELSE @]
    /\ at' = at + 1
    /\ UNCHANGED <<config, owner, wired, inited, clientVars>>

(* Nothing to do, so that is all. *)
TerminateLeavesOff ==
    /\ owner = "terminating" /\ at \in Stages
    /\ wired[at] = none \/ ~ inited[at]
    /\ at' = End
    /\ UNCHANGED <<config, owner, wired, processor, inited, clientVars>>

TerminateSkipsStage ==
    /\ owner = "terminating" /\ at \in Stages
    /\ wired[at] = none \/ ~ inited[at]
    /\ at' = at + 1
    /\ UNCHANGED <<config, owner, wired, processor, inited, clientVars>>

TerminateReturns ==
    /\ owner = "terminating" /\ at = End
    /\ owner' = "terminated"
    /\ UNCHANGED <<config, at, wired, processor, inited, clientVars>>

-------------------------------------------------------------------------------
(* The clients. *)

MayCall(c) ==
    /\ owner \in {"new", "ready", "failed", "terminating", "terminated"}
    /\ phase[c] = "idle"
    /\ got[c] < 4

(* Detect, Landmarks, Align, Extract: by what the client has got. *)
Call(c) ==
    /\ MayCall(c)
    /\ wired[got[c] + 1] # none
    /\ phase' = [phase EXCEPT ![c] = "pending"]
    /\ UNCHANGED <<ownerVars, alive, got, held, frame>>

CallCrashes(c) ==
    /\ MayCall(c)
    /\ wired[got[c] + 1] = none
    /\ owner' = "crashed"
    /\ UNCHANGED <<config, at, wired, processor, inited, clientVars>>

(* A stage that is stalled by the death of one worker. *)
IsServedByAll(c) ==
    /\ owner # "crashed"
    /\ phase[c] = "pending"
    /\ processor[got[c] + 1] \in {"serving", "woken"}
    /\ alive[got[c] + 1] = Concurrent[got[c] + 1]

(* The workers of the stage take calls while one of them lives and they serve, *)
(* and the busy ones go on when they are to stop.                              *)
IsServed(c) ==
    /\ owner # "crashed"
    /\ phase[c] = "pending"
    /\ processor[got[c] + 1] \in {"serving", "woken"}
    /\ alive[got[c] + 1] > 0

Succeeds(c) == ~ throws(got[c] + 1, held[c])
RightWorkers(c) == wired[got[c] + 1] = got[c] + 1

Answer(c) ==
    /\ IsServed(c) /\ RightWorkers(c)
    /\ Succeeds(c)
    /\ phase' = [phase EXCEPT ![c] = "answered"]
    /\ UNCHANGED <<ownerVars, alive, got, held, frame>>

Drop(c) ==
    /\ IsServed(c) /\ ~ RightWorkers(c)
    /\ phase' = [phase EXCEPT ![c] = "lost"]
    /\ UNCHANGED <<ownerVars, alive, got, held, frame>>

(* process throws: the worker is gone, and with it the answer. *)
Throw(c) ==
    /\ IsServed(c) /\ RightWorkers(c)
    /\ ~ Succeeds(c)
    /\ phase' = [phase EXCEPT ![c] = "thrown"]
    /\ alive' = [alive EXCEPT ![got[c] + 1] = @ - 1]
    /\ UNCHANGED <<ownerVars, got, held, frame>>

(* An empty Mat has one channel, which fails assert(image_size == data_length) *)
(* before resize can throw; an empty part of an image has three.               *)
Abort(c) ==
    /\ MayAbort
    /\ IsServed(c) /\ RightWorkers(c)
    /\ ~ Succeeds(c) /\ got[c] + 1 \in {1, 4}
    /\ owner' = "crashed"
    /\ UNCHANGED <<config, at, wired, processor, inited, clientVars>>

(* An answer is of the valueType of its stage, so none is turned to nullptr. *)
Return(c) ==
    /\ owner # "crashed"
    /\ phase[c] = "answered"
    /\ phase' = [phase EXCEPT ![c] = "idle"]
    /\ got' = [got EXCEPT ![c] = @ + 1]
    /\ held' = [held EXCEPT ![c] = process(got[c] + 1, @)]
    /\ UNCHANGED <<ownerVars, alive, frame>>

(* The features are there; the client goes on with the next frame. *)
Decode(c, f) ==
    /\ owner # "crashed"
    /\ phase[c] = "idle"
    /\ got[c] = 4
    /\ got' = [got EXCEPT ![c] = 0]
    /\ held' = [held EXCEPT ![c] = f]
    /\ frame' = [frame EXCEPT ![c] = f]
    /\ UNCHANGED <<ownerVars, alive, phase>>

OwnerStep ==
    \/ \E wiring \in Wirings, flags \in Flags : InitBegins(wiring, flags)
    \/ InitStage \/ InitStageFails \/ InitSkipsStage \/ InitCrashes \/ InitReturns
    \/ TerminateBegins \/ TerminateStageWakes \/ TerminateStage \/ TerminateSkipsStage
    \/ TerminateReturns

ServeStep(c) == Answer(c) \/ Drop(c) \/ Throw(c) \/ Abort(c)

ClientStep(c) ==
    Call(c) \/ CallCrashes(c) \/ Return(c) \/ \E f \in Frames : Decode(c, f)

Next ==
    \/ OwnerStep
    \/ \E c \in Clients : ClientStep(c) \/ ServeStep(c)

Spec == Init /\ [][Next]_vars

(* The workers take what is queued, and a client that has begun a frame goes  *)
(* through with it; nothing makes the owner act.                              *)
FairSpec ==
    /\ Spec
    /\ \A c \in Clients : WF_vars(ServeStep(c)) /\ WF_vars(Call(c)) /\ WF_vars(Return(c))

-------------------------------------------------------------------------------
(* Properties. *)

(* When Terminate of the pipeline has returned no processor has a worker left *)
(* that runs, whichever of them Init reached, was told to skip, found missing *)
(* or failed at, and whatever the flag of the others happened to be.  So the  *)
(* next Init, and the destructor, destroy no worker under its thread.         *)
TerminatedIsQuiet ==
    owner \in {"new", "terminated"} =>
        \A s \in Stages : processor[s] \notin {"serving", "woken"}

(* The processors are those the stages are named for and all are configured. *)
Complete == config = Stages /\ \A s \in Stages : wired[s] = s

(* Once Init has returned RET_OK for a complete pipeline, a client that has    *)
(* called the first stage with a clean frame gets its features, through all    *)
(* four processors and whatever the other clients do and lose, unless somebody *)
(* calls Terminate, or a stage has lost all of its workers to frames that are  *)
(* not clean.                                                                  *)
ChainCompletes ==
    \A c \in Clients :
        (owner = "ready" /\ Complete /\ phase[c] = "pending" /\ Clean(frame[c]))
            ~> (got[c] = 4 \/ owner # "ready" \/ \E s \in Stages : alive[s] = 0)

(* No worker is lost to a clean frame: whatever fractions are cut off from the *)
(* corner and the size of a face that lies in the image, the box does too.     *)
OnlyBadFramesThrow == \A c \in Clients : phase[c] = "thrown" => ~ Clean(frame[c])

(* What a client has got is by position: the i-th face, its landmarks, the     *)
(* aligned face and the feature all belong to the i-th detection, although a   *)
(* face without eyes has no aligned picture.                                   *)
ResultsStayInPlace ==
    \A c \in Clients :
        LET n == Len(Confident(frame[c].rows))
            box(i) == Box(Confident(frame[c].rows)[i])
        IN  /\ got[c] = 2 => /\ Len(held[c].face_landmarks) = n /\ Len(held[c].faces) = n
                             /\ \A i \in 1 .. n : held[c].faces[i] = box(i)
            /\ got[c] = 3 => /\ Len(held[c]) = n
                             /\ \A i \in 1 .. n : held[c][i].of = box(i)
            /\ got[c] = 4 => Len(held[c]) = n

(* What memcpy gives the landmarks network is memory of the frame: a face that *)
(* is not resized is taken from its corner on, as much as the network wants,   *)
(* and that must not reach beyond the last pixel, wherever the corner has come *)
(* to lie by the cut-off fractions.                                            *)
LandmarksReadTheFrame ==
    \A c \in Clients :
        got[c] = 2 =>
            \A i \in DOMAIN held[c].face_landmarks :
                LET seen == held[c].face_landmarks[i].seen
                IN  \A k \in DOMAIN seen : seen[k] \in 0 .. ImageWidth * ImageHeight - 1
===============================================================================
