----------------------------- MODULE VideoPipeline -----------------------------
(***************************************************************************)
(* FFmpegVideoProcessorImpl of video_process: one thread reads packets     *)
(* from a file, one decodes them to frames, one hands the frames to the    *)
(* registered callbacks; two msd::channels of one element connect them.    *)
(* Clients start the threads and pause, resume and stop them.              *)
(*                                                                         *)
(* A packet, and the frame decoded from it, is its position in the file.   *)
(* The file and the codec are FFmpeg's: a packet may be of another stream, *)
(* a read may find the end anywhere, the codec may hold some packets back, *)
(* fail to take one and fail at one it has taken.  Plain bools read and    *)
(* written by several threads (quit_, pause_) are read and written in one  *)
(* step.                                                                   *)
(***************************************************************************)
EXTENDS Naturals, Sequences, FiniteSets

CONSTANTS
    Clients,      \* the threads that call Process, Pause, Resume, Stop
    FileLength,   \* packets in the file
    VideoPackets, \* those of the video stream
    Damaged,      \* those the codec may fail at
    Delay,        \* packets the codec holds back at most
    WarmUp,       \* opts.warm_up_frames
    Skip,         \* opts.skip_frames
    Callbacks,    \* how many frame processors are registered
    NoValue       \* no packet, no frame

ASSUME FileAssumption    == FileLength \in Nat /\ Delay \in Nat
ASSUME OptionsAssumption == WarmUp \in Nat /\ Skip \in Nat \ {0} /\ Callbacks \in Nat

ASSUME ValueAssumption   == NoValue \notin 1..FileLength

Demux   == "demux"
Decode  == "decode"
Process == "process"
Positions == 1..FileLength

VARIABLES
    packetQueue, packetClosed, packetAsleep, packetOp, packetItem,  \* packet_ch_
    frameQueue, frameClosed, frameAsleep, frameOp, frameItem,       \* frame_ch_
    at,         \* of each client: see ClientStates
    started,    \* Process has started the threads
    quit,       \* quit_
    paused,     \* pause_
    demux,      \* where the demux thread is: see DemuxStates
    position,   \* packets it has read
    decode,     \* where the decode thread is: see DecodeStates
    codec,      \* the packets codec_context_ holds
    draining,   \* it has been flushed
    process,    \* where the process thread is: see ProcessStates
    frameId,    \* frame_id, see IdAfter
    delivered,  \* the frames the callbacks have got
    overrun,    \* packets read since the last Pause has returned
    crashed     \* an uninitialised pointer has been used

PacketCh == INSTANCE MsdChannel WITH
    Writers <- {Demux}, Readers <- {Decode}, Values <- Positions, Capacity <- 1,
    queue <- packetQueue, closed <- packetClosed, asleep <- packetAsleep,
    op <- packetOp, item <- packetItem

FrameCh == INSTANCE MsdChannel WITH
    Writers <- {Decode}, Readers <- {Process}, Values <- Positions, Capacity <- 1,
    queue <- frameQueue, closed <- frameClosed, asleep <- frameAsleep,
    op <- frameOp, item <- frameItem

packetVars  == <<packetQueue, packetClosed, packetAsleep, packetOp, packetItem>>
frameVars   == <<frameQueue, frameClosed, frameAsleep, frameOp, frameItem>>
clientVars  == <<at, started, quit, paused>>
demuxVars   == <<demux, position, overrun>>
decodeVars  == <<decode, codec, draining>>
processVars == <<process, frameId, delivered>>
vars == <<packetVars, frameVars, clientVars, demuxVars, decodeVars, processVars, crashed>>

ClientStates ==
    {"idle",
     "resumeNotify",                         \* in Resume, demux_mu_ given back
     "stopPause", "stopNotify", "stopJoin",  \* in Stop
     "stopped"}

DemuxStates ==
    {"none",
     "checkPause",    \* head of the loop, and woken from the wait
     "pauseWaits",    \* has found pause_ set, about to sleep: holds demux_mu_
     "pauseAsleep",   \* in demux_cv_.wait
     "checkQuit", "readFile", "writing", "close", "closing", "done"}

DecodeStates  == {"none", "read", "reading", "receive", "writing", "close", "closing", "done"}
ProcessStates == {"none", "checkQuit", "reading", "done"}

Init ==
    /\ PacketCh!ChannelInit
    /\ FrameCh!ChannelInit
    /\ at = [c \in Clients |-> "idle"]
    /\ started = FALSE /\ quit = FALSE /\ paused = FALSE
    /\ demux = "none" /\ position = 0 /\ overrun = 0
    /\ decode = "none" /\ codec = << >> /\ draining = FALSE
    /\ process = "none" /\ frameId = 0 /\ delivered = << >>
    /\ crashed = FALSE

-------------------------------------------------------------------------------
(* The clients.                                                              *)

Goes(c, place) == at' = [at EXCEPT ![c] = place]

Start(c) ==
    /\ at[c] = "idle"
    /\ ~ started
    /\ started' = TRUE
    /\ demux' = "checkPause" /\ decode' = "read" /\ process' = "checkQuit"
    /\ UNCHANGED <<packetVars, frameVars, at, quit, paused, position, overrun, codec, draining,
                   frameId, delivered, crashed>>

DemuxMutexFree == demux # "pauseWaits"

Pause(c) ==
    /\ at[c] = "idle"
    /\ DemuxMutexFree
    /\ ~ paused
    /\ paused' = TRUE
    /\ overrun' = 0
    /\ UNCHANGED <<packetVars, frameVars, at, started, quit, demux, position, decodeVars,
                   processVars, crashed>>

Resume(c) ==
    /\ at[c] = "idle"
    /\ DemuxMutexFree
    /\ paused' = FALSE
    /\ Goes(c, "resumeNotify")
    /\ UNCHANGED <<packetVars, frameVars, started, quit, demuxVars, decodeVars, processVars,
                   crashed>>

(* demux_cv_.notify_all. *)
NotifyDemux == demux' = IF demux = "pauseAsleep" THEN "checkPause" ELSE demux

(* A Resume that only clears the flag. *)
ResumeForgets(c) ==
    /\ at[c] = "resumeNotify"
    /\ Goes(c, "idle")
    /\ UNCHANGED <<packetVars, frameVars, started, quit, paused, demuxVars, decodeVars,
                   processVars, crashed>>

ResumeNotifies(c) ==
    /\ at[c] = "resumeNotify"
    /\ NotifyDemux
    /\ Goes(c, "idle")
    /\ UNCHANGED <<packetVars, frameVars, started, quit, paused, position, overrun, decodeVars,
                   processVars, crashed>>

(* Stop sets and clears the flags without demux_mu_, and joins the demux     *)
(* thread only.                                                              *)
StopQuits(c) ==
    /\ at[c] = "idle"
    /\ started /\ ~ quit
    /\ quit' = TRUE
    /\ Goes(c, "stopPause")
    /\ UNCHANGED <<packetVars, frameVars, started, paused, demuxVars, decodeVars, processVars,
                   crashed>>

StopUnpauses(c) ==
    /\ at[c] = "stopPause"
    /\ paused' = FALSE
    /\ Goes(c, IF paused THEN "stopNotify" ELSE "stopJoin")
    /\ UNCHANGED <<packetVars, frameVars, started, quit, demuxVars, decodeVars, processVars,
                   crashed>>

StopNotifies(c) ==
    /\ at[c] = "stopNotify"
    /\ NotifyDemux
    /\ Goes(c, "stopJoin")
    /\ UNCHANGED <<packetVars, frameVars, started, quit, paused, position, overrun, decodeVars,
                   processVars, crashed>>

StopJoins(c) ==
    /\ at[c] = "stopJoin"
    /\ demux = "done"
    /\ Goes(c, "stopped")
    /\ UNCHANGED <<packetVars, frameVars, started, quit, paused, demuxVars, decodeVars,
                   processVars, crashed>>

-------------------------------------------------------------------------------
(* demux_video_packet_.  The sleep between packets is left out.              *)

DemuxGoes(place) ==
    /\ demux' = place
    /\ UNCHANGED <<frameVars, clientVars, decodeVars, processVars, crashed>>

(* A loop that looks at pause_ only before the first packet. *)
DemuxChecksPauseOnce ==
    /\ demux = "checkPause"
    /\ DemuxGoes(IF paused /\ position = 0 THEN "pauseWaits" ELSE "checkQuit")
    /\ UNCHANGED <<packetVars, position, overrun>>

DemuxChecksPause ==
    /\ demux = "checkPause"
    /\ DemuxGoes(IF paused THEN "pauseWaits" ELSE "checkQuit")
    /\ UNCHANGED <<packetVars, position, overrun>>

DemuxFallsAsleep ==
    /\ demux = "pauseWaits"
    /\ DemuxGoes("pauseAsleep")
    /\ UNCHANGED <<packetVars, position, overrun>>

DemuxChecksQuit ==
    /\ demux = "checkQuit"
    /\ DemuxGoes(IF quit THEN "close" ELSE "readFile")
    /\ UNCHANGED <<packetVars, position, overrun>>

NextPosition ==
    /\ demux = "readFile"
    /\ position < FileLength
    /\ position' = position + 1
    /\ overrun' = IF paused THEN overrun + 1 ELSE overrun

(* A packet of the video stream ... *)
DemuxReadsVideo ==
    /\ NextPosition
    /\ position + 1 \in VideoPackets
    /\ PacketCh!BeginWrite(Demux, position + 1)
    /\ DemuxGoes("writing")

(* ... of another one ... *)
DemuxReadsOther ==
    /\ NextPosition
    /\ position + 1 \notin VideoPackets
    /\ DemuxGoes("checkPause")
    /\ UNCHANGED packetVars

(* ... the end of the file, or an error. *)
DemuxReadsNothing ==
    /\ demux = "readFile"
    /\ DemuxGoes("close")
    /\ UNCHANGED <<packetVars, position, overrun>>

DemuxHasWritten ==
    /\ demux = "writing"
    /\ PacketCh!End(Demux)
    /\ DemuxGoes("checkPause")
    /\ UNCHANGED <<position, overrun>>

DemuxCloses ==
    /\ demux = "close"
    /\ PacketCh!BeginClose(Demux)
    /\ DemuxGoes("closing")
    /\ UNCHANGED <<position, overrun>>

DemuxEnds ==
    /\ demux = "closing"
    /\ PacketCh!End(Demux)
    /\ DemuxGoes("done")
    /\ UNCHANGED <<position, overrun>>

-------------------------------------------------------------------------------
(* decode_video_frame_.                                                      *)

DecodeGoes(place) ==
    /\ decode' = place
    /\ UNCHANGED <<clientVars, demuxVars, processVars>>

DecodeReads ==
    /\ decode = "read"
    /\ PacketCh!BeginRead(Decode)
    /\ DecodeGoes("reading")
    /\ UNCHANGED <<frameVars, codec, draining, crashed>>

(* avcodec_send_packet takes the packet, or fails and ends the thread's loop. *)
DecodeSendsPacket ==
    /\ decode = "reading"
    /\ packetItem[Decode] # NoValue
    /\ PacketCh!End(Decode)
    /\ \/ /\ ~ draining
          /\ codec' = Append(codec, packetItem[Decode])
          /\ DecodeGoes("receive")
       \/ /\ DecodeGoes("close")
          /\ UNCHANGED codec
    /\ UNCHANGED <<frameVars, draining, crashed>>

(* The channel was closed and empty, and `packet' is what was on the stack:  *)
(* anything, or the packet of the last turn, since then unreferenced, which  *)
(* the codec takes for a flush the first time and refuses the second.        *)
DecodeSendsGarbage ==
    /\ decode = "reading"
    /\ packetItem[Decode] = NoValue
    /\ PacketCh!End(Decode)
    /\ \/ /\ crashed' = TRUE
          /\ DecodeGoes("reading")
          /\ UNCHANGED draining
       \/ /\ draining' = TRUE
          /\ DecodeGoes(IF draining THEN "close" ELSE "receive")
          /\ UNCHANGED crashed
    /\ UNCHANGED <<frameVars, codec>>

(* avcodec_receive_frame gives a frame ... *)
DecodeReceives ==
    /\ decode = "receive"
    /\ codec # << >>
    /\ codec' = Tail(codec)
    /\ FrameCh!BeginWrite(Decode, Head(codec))
    /\ DecodeGoes("writing")
    /\ UNCHANGED <<packetVars, draining, crashed>>

(* ... or fails and drops one ... *)
DecodeReceivesError ==
    /\ decode = "receive"
    /\ codec # << >>
    /\ Head(codec) \in Damaged
    /\ codec' = Tail(codec)
    /\ DecodeGoes("read")
    /\ UNCHANGED <<packetVars, frameVars, draining, crashed>>

(* ... or wants more packets, or has no more frames. *)
DecodeReceivesNothing ==
    /\ decode = "receive"
    /\ IF draining THEN codec = << >> ELSE Len(codec) <= Delay
    /\ DecodeGoes("read")
    /\ UNCHANGED <<packetVars, frameVars, codec, draining, crashed>>

DecodeHasWritten ==
    /\ decode = "writing"
    /\ FrameCh!End(Decode)
    /\ DecodeGoes("receive")
    /\ UNCHANGED <<packetVars, codec, draining, crashed>>

DecodeCloses ==
    /\ decode = "close"
    /\ FrameCh!BeginClose(Decode)
    /\ DecodeGoes("closing")
    /\ UNCHANGED <<packetVars, codec, draining, crashed>>

DecodeEnds ==
    /\ decode = "closing"
    /\ FrameCh!End(Decode)
    /\ DecodeGoes("done")
    /\ UNCHANGED <<packetVars, codec, draining, crashed>>

-------------------------------------------------------------------------------
(* process_video_frame_.                                                     *)

ProcessChecksQuit ==
    /\ process = "checkQuit"
    /\ \/ /\ quit
          /\ process' = "done"
          /\ UNCHANGED frameVars
       \/ /\ ~ quit
          /\ FrameCh!BeginRead(Process)
          /\ process' = "reading"
    /\ UNCHANGED <<packetVars, clientVars, demuxVars, decodeVars, frameId, delivered, crashed>>

(* frame_id matters by its comparison with warm_up_frames_ and its remainder *)
(* by skip_frames_ only; beyond the first it is kept within one Skip.        *)
IdAfter(n) ==
    LET id == frameId + n
    IN  IF id <= WarmUp THEN id ELSE WarmUp + 1 + ((id - WarmUp - 1) % Skip)

Selected == frameId > WarmUp /\ frameId % Skip = 0

(* The callbacks get the frame, and each of them counts as a frame. *)
ProcessTakesFrame ==
    /\ process = "reading"
    /\ frameItem[Process] # NoValue
    /\ FrameCh!End(Process)
    /\ process' = "checkQuit"
    /\ IF Selected
       THEN /\ delivered' = Append(delivered, frameItem[Process])
            /\ frameId' = IdAfter(Callbacks)
       ELSE /\ frameId' = IdAfter(1)
            /\ UNCHANGED delivered
    /\ UNCHANGED <<packetVars, clientVars, demuxVars, decodeVars, crashed>>

(* The channel was closed and empty, and `f' is what was on the stack:       *)
(* anything, or the null pointer av_frame_free has left there.               *)
ProcessTakesGarbage ==
    /\ process = "reading"
    /\ frameItem[Process] = NoValue
    /\ FrameCh!End(Process)
    /\ process' = "checkQuit"
    /\ frameId' = IF Selected THEN IdAfter(Callbacks) ELSE IdAfter(1)
    /\ crashed' \in BOOLEAN
    /\ UNCHANGED <<packetVars, clientVars, demuxVars, decodeVars, delivered>>

-------------------------------------------------------------------------------
(* The threads' steps inside the channels.                                   *)

UsesPacketCh(t) ==
    /\ PacketCh!Step(t)
    /\ UNCHANGED <<frameVars, clientVars, demuxVars, decodeVars, processVars, crashed>>

UsesFrameCh(t) ==
    /\ FrameCh!Step(t)
    /\ UNCHANGED <<packetVars, clientVars, demuxVars, decodeVars, processVars, crashed>>

DemuxStep ==
    \/ DemuxChecksPause \/ DemuxFallsAsleep \/ DemuxChecksQuit
    \/ DemuxReadsVideo \/ DemuxReadsOther \/ DemuxReadsNothing
    \/ DemuxHasWritten \/ DemuxCloses \/ DemuxEnds
    \/ UsesPacketCh(Demux)

DecodeStep ==
    \/ DecodeReads \/ DecodeSendsPacket \/ DecodeSendsGarbage
    \/ DecodeReceives \/ DecodeReceivesError \/ DecodeReceivesNothing
    \/ DecodeHasWritten \/ DecodeCloses \/ DecodeEnds
    \/ UsesPacketCh(Decode) \/ UsesFrameCh(Decode)

ProcessStep ==
    \/ ProcessChecksQuit \/ ProcessTakesFrame \/ ProcessTakesGarbage
    \/ UsesFrameCh(Process)

(* What a client that is inside Resume or Stop does next. *)
ClientGoesOn(c) == ResumeNotifies(c) \/ StopUnpauses(c) \/ StopNotifies(c) \/ StopJoins(c)

ThreadStep == DemuxStep \/ DecodeStep \/ ProcessStep

Next ==
    /\ ~ crashed
    /\ \/ \E c \in Clients : Start(c) \/ Pause(c) \/ Resume(c) \/ StopQuits(c) \/ ClientGoesOn(c)
       \/ ThreadStep

(* The operating system runs every thread that can run; no client is obliged *)
(* to call anything.                                                         *)
Fairness ==
    /\ WF_vars(~ crashed /\ DemuxStep)
    /\ WF_vars(~ crashed /\ DecodeStep)
    /\ WF_vars(~ crashed /\ ProcessStep)
    /\ \A c \in Clients : WF_vars(~ crashed /\ ClientGoesOn(c))

Spec == Init /\ [][Next]_vars
FairSpec == Spec /\ Fairness

-------------------------------------------------------------------------------
(* Type invariant. *)
TypeOK ==
    /\ PacketCh!TypeOK /\ FrameCh!TypeOK
    /\ at \in [Clients -> ClientStates]
    /\ {started, quit, paused, draining, crashed} \subseteq BOOLEAN
    /\ demux \in DemuxStates /\ decode \in DecodeStates /\ process \in ProcessStates
    /\ position \in 0..FileLength
    /\ codec \in Seq(Positions) /\ Len(codec) <= Delay + 1
    /\ frameId \in 0..(WarmUp + Skip)
    /\ delivered \in Seq(Positions)
    /\ overrun \in 0..FileLength

(* What is on its way, from the callbacks back to the file. *)
InHand(holds, value) == IF holds THEN <<value>> ELSE << >>

Line ==
    delivered
    \o InHand(process = "reading" /\ frameItem[Process] # NoValue, frameItem[Process])
    \o frameQueue
    \o InHand(frameOp[Decode] \in {"write", "writeWaits"}, frameItem[Decode])
    \o codec
    \o InHand(decode = "reading" /\ packetItem[Decode] # NoValue, packetItem[Decode])
    \o packetQueue
    \o InHand(packetOp[Demux] \in {"write", "writeWaits"}, packetItem[Demux])

(* The callbacks see the frames in the order of the file and none twice,     *)
(* through two channels and the codec, with pauses, errors and a stop: all   *)
(* that is delivered or on its way is in that order.                         *)
FramesInOrder ==
    \A i, j \in 1..Len(Line) : i < j => Line[i] < Line[j]

(* A thread of the pipeline that sleeps in a channel and could go on is woken, *)
(* although readers and writers share one condition variable and notify_one    *)
(* wakes either.                                                               *)
NoWakeIsMissed == PacketCh!NoMissedWake /\ FrameCh!NoMissedWake

(* Once Pause has returned, the demux thread reads the packet it was about   *)
(* to read and no other until somebody resumes or stops.                     *)
PauseHolds == overrun <= 1

(* A read that leaves its variable untouched, so that whatever is on the stack *)
(* is decoded or handed to the callbacks, means that the thread on the other   *)
(* side has ended and all it has sent was taken; no pointer is used before it  *)
(* is set as long as both sides go on.                                         *)
GarbageOnlyAtTheEnd ==
    /\ packetOp[Decode] = "returned" /\ packetItem[Decode] = NoValue =>
           demux \in {"closing", "done"} /\ packetQueue = << >>
    /\ frameOp[Process] = "returned" /\ frameItem[Process] = NoValue =>
           decode \in {"closing", "done"} /\ frameQueue = << >>
    /\ crashed => demux \in {"closing", "done"} \/ decode \in {"closing", "done"}

(* A demux thread that sleeps in the pause wait is not forgotten when Resume *)
(* has cleared the flag.                                                     *)
ResumeWakes ==
    (demux = "pauseAsleep" /\ ~ paused /\ ~ quit) ~>
        (demux # "pauseAsleep" \/ paused \/ quit \/ crashed)

(* A packet in the channel, which takes one, is taken by the decode thread,  *)
(* unless the client stops, the decoder has given up, or an uninitialised    *)
(* pointer was used.                                                         *)
PacketsMove ==
    (packetQueue # << >>) ~> (packetQueue = << >> \/ quit \/ crashed \/ decode = "done")

(* What the demux thread can be caught in for ever once quit_ is set: the     *)
(* pause wait, in which nobody notifies it any more, ...                      *)
PauseStuck == demux = "pauseAsleep"

(* ... or a write to a packet channel nobody reads any more: the decode thread *)
(* has ended, or waits itself to write to a frame channel that the process     *)
(* thread has left.                                                            *)
FramesUnread == process = "done" /\ Decode \in frameAsleep /\ frameQueue # << >>

WriteStuck ==
    /\ Demux \in packetAsleep /\ packetQueue # << >>
    /\ decode = "done" \/ FramesUnread

(* Stop returns, unless the demux thread is caught for good at one of these   *)
(* two places: a packet channel that is full for a moment, or a sleep that    *)
(* somebody ends, delays it and no more.                                      *)
StopReturnsUnlessStuck ==
    \A c \in Clients :
        (at[c] = "stopJoin") ~>
            (at[c] = "stopped" \/ crashed \/ [](PauseStuck \/ WriteStuck))
===============================================================================
