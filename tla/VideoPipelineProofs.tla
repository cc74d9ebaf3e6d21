-------------------------- MODULE VideoPipelineProofs --------------------------
(***************************************************************************)
(* For a file of any length, any codec delay and any number of clients: an *)
(* empty-handed read happens only at the end of a stream, Pause lets one   *)
(* packet pass, no thread of a channel sleeps through its wake-up, and the *)
(* frames reach the callbacks in the order of the file, none twice.        *)
(*                                                                         *)
(* The first needs to know that a channel is closed by the thread that     *)
(* writes to it, on its way out, so that a reader that has found it closed *)
(* and empty finds nothing later; the second, that the demux thread cannot *)
(* get past its check with a packet read under pause; the third, that the  *)
(* mutex leaves the queue as a thread has found it until the thread sleeps;*)
(* the last, that no queue holds more than its one element, and that a step*)
(* loses what is somewhere on the way, moves the first of a place on to the*)
(* next, or brings in what has just been read.                             *)
(***************************************************************************)
EXTENDS VideoPipeline, TLAPS

(* What the channels and the codec hold. *)
Types ==
    /\ packetQueue \in Seq(Positions)
    /\ packetOp \in [{Demux, Decode} -> PacketCh!OpStates]
    /\ packetItem \in [{Demux, Decode} -> Positions \cup {NoValue}]
    /\ frameQueue \in Seq(Positions)
    /\ frameOp \in [{Decode, Process} -> FrameCh!OpStates]
    /\ frameItem \in [{Decode, Process} -> Positions \cup {NoValue}]
    /\ codec \in Seq(Positions)
    /\ position \in 0..FileLength

(* Before Process has been called there are no threads. *)
NotStarted == ~ started => demux = "none" /\ decode = "none"

Reading == {"none", "read", "readWaits", "notify", "returned"}

PacketInv ==
    /\ packetOp[Decode] \in Reading
    /\ packetOp[Demux] \in {"write", "writeWaits"} =>
           demux = "writing" /\ packetItem[Demux] \in Positions
    /\ packetClosed => demux \in {"closing", "done"}
    /\ packetOp[Decode] \in {"notify", "returned"} /\ packetItem[Decode] = NoValue =>
           packetClosed /\ packetQueue = << >>

FrameInv ==
    /\ frameOp[Process] \in Reading
    /\ frameOp[Decode] \in {"write", "writeWaits"} =>
           decode = "writing" /\ frameItem[Decode] \in Positions
    /\ frameClosed => decode \in {"closing", "done"}
    /\ frameOp[Process] \in {"notify", "returned"} /\ frameItem[Process] = NoValue =>
           frameClosed /\ frameQueue = << >>

CrashInv == crashed => demux \in {"closing", "done"} \/ decode \in {"closing", "done"}

Inv == Types /\ NotStarted /\ PacketInv /\ FrameInv /\ CrashInv

USE ValueAssumption, FileAssumption DEF Demux, Decode, Process, Positions

(* A client changes nothing but flags, starts the threads, or wakes the demux *)
(* thread from a pause.                                                       *)
LEMMA ClientStepInv ==
    ASSUME Inv, ~ crashed, NEW c \in Clients,
           Start(c) \/ Pause(c) \/ Resume(c) \/ StopQuits(c) \/ ClientGoesOn(c)
    PROVE  Inv'
<1>1. /\ UNCHANGED <<packetVars, frameVars, position, codec, crashed>>
      /\ \/ UNCHANGED <<demux, decode>>
         \/ demux = "pauseAsleep" /\ demux' = "checkPause" /\ UNCHANGED decode
         \/ ~ started /\ started'
      /\ started => started'
  BY DEF Start, Pause, Resume, StopQuits, ClientGoesOn, ResumeNotifies, StopUnpauses,
         StopNotifies, StopJoins, NotifyDemux, demuxVars, decodeVars
<1>2. QED
  BY <1>1 DEF Inv, Types, NotStarted, PacketInv, FrameInv, CrashInv, packetVars, frameVars

(* Inside the packet channel: a write is not possible once it is closed, and  *)
(* a read is left without a value only if it is.                              *)
LEMMA PacketStepInv ==
    ASSUME Inv, NEW t \in {Demux, Decode}, UsesPacketCh(t)
    PROVE  Inv'
<1> USE DEF Inv, Types, PacketInv, Reading, PacketCh!Goes, PacketCh!OpStates
<1>1. /\ UNCHANGED <<frameVars, clientVars, demuxVars, decodeVars, crashed>>
      /\ PacketCh!Step(t)
  BY DEF UsesPacketCh
<1>2. Types' /\ PacketInv'
  <2>1. UNCHANGED <<demux, decode, codec, position, started>>
    BY <1>1 DEF clientVars, demuxVars, decodeVars
  <2>2. packetClosed => packetOp[Demux] \notin {"write", "writeWaits"}
    OBVIOUS
  <2>3. CASE PacketCh!Write(t)
    <3>1. t = Demux /\ Append(packetQueue, packetItem[t]) \in Seq(Positions)
      BY <2>3 DEF PacketCh!Write
    <3>2. QED BY <1>1, <2>1, <2>2, <2>3, <3>1 DEF PacketCh!Write, packetVars, frameVars
  <2>4. CASE PacketCh!Read(t)
    <3>1. Head(packetQueue) \in Positions /\ Tail(packetQueue) \in Seq(Positions)
      BY <2>4 DEF PacketCh!Read
    <3>2. QED BY <1>1, <2>1, <2>4, <3>1 DEF PacketCh!Read, packetVars, frameVars
  <2>5. CASE PacketCh!ReadFindsClosed(t)
    <3>1. /\ UNCHANGED <<packetQueue, packetClosed, packetItem>>
          /\ packetOp' = [packetOp EXCEPT ![t] = "notify"]
          /\ packetQueue = << >> /\ packetClosed
      BY <2>5 DEF PacketCh!ReadFindsClosed
    <3>2. QED BY <1>1, <2>1, <3>1 DEF packetVars, frameVars
  <2>6. CASE PacketCh!WriteWaits(t) \/ PacketCh!ReadWaits(t) \/ PacketCh!FallAsleep(t)
    <3>1. UNCHANGED <<packetQueue, packetClosed, packetItem>>
      BY <2>6 DEF PacketCh!WriteWaits, PacketCh!ReadWaits, PacketCh!FallAsleep
    <3>2. \/ packetOp[t] = "write" /\ packetOp' = [packetOp EXCEPT ![t] = "writeWaits"]
          \/ packetOp[t] = "read" /\ packetOp' = [packetOp EXCEPT ![t] = "readWaits"]
          \/ packetOp[t] = "readWaits" /\ packetOp' = [packetOp EXCEPT ![t] = "read"]
          \/ packetOp[t] = "writeWaits" /\ packetOp' = [packetOp EXCEPT ![t] = "write"]
      BY <2>6 DEF PacketCh!WriteWaits, PacketCh!ReadWaits, PacketCh!FallAsleep
    <3>3. QED BY <1>1, <2>1, <3>1, <3>2 DEF packetVars, frameVars
  <2>7. CASE PacketCh!Notify(t) \/ PacketCh!NotifyAll(t)
    <3>1. UNCHANGED <<packetQueue, packetClosed, packetItem>>
      BY <2>7 DEF PacketCh!Notify, PacketCh!NotifyAll
    <3>2. /\ packetOp' = [packetOp EXCEPT ![t] = "returned"]
          /\ packetOp[t] \in {"notify", "notifyAll"}
      BY <2>7 DEF PacketCh!Notify, PacketCh!NotifyAll
    <3>3. QED BY <1>1, <2>1, <3>1, <3>2 DEF packetVars, frameVars
  <2>8. QED BY <1>1, <2>3, <2>4, <2>5, <2>6, <2>7 DEF PacketCh!Step
<1>3. NotStarted' /\ FrameInv' /\ CrashInv'
  BY <1>1 DEF NotStarted, FrameInv, PacketInv, CrashInv, frameVars, packetVars, clientVars,
              demuxVars, decodeVars
<1>4. QED BY <1>2, <1>3


(* Inside the frame channel: a write is not possible once it is closed, and   *)
(* a read is left without a value only if it is.                              *)
LEMMA FrameStepInv ==
    ASSUME Inv, NEW t \in {Decode, Process}, UsesFrameCh(t)
    PROVE  Inv'
<1> USE DEF Inv, Types, FrameInv, Reading, FrameCh!Goes, FrameCh!OpStates
<1>1. /\ UNCHANGED <<packetVars, clientVars, demuxVars, decodeVars, crashed>>
      /\ FrameCh!Step(t)
  BY DEF UsesFrameCh
<1>2. Types' /\ FrameInv'
  <2>1. UNCHANGED <<demux, decode, codec, position, started>>
    BY <1>1 DEF clientVars, demuxVars, decodeVars
  <2>2. frameClosed => frameOp[Decode] \notin {"write", "writeWaits"}
    OBVIOUS
  <2>3. CASE FrameCh!Write(t)
    <3>1. t = Decode /\ Append(frameQueue, frameItem[t]) \in Seq(Positions)
      BY <2>3 DEF FrameCh!Write
    <3>2. QED BY <1>1, <2>1, <2>2, <2>3, <3>1 DEF FrameCh!Write, packetVars, frameVars
  <2>4. CASE FrameCh!Read(t)
    <3>1. Head(frameQueue) \in Positions /\ Tail(frameQueue) \in Seq(Positions)
      BY <2>4 DEF FrameCh!Read
    <3>2. QED BY <1>1, <2>1, <2>4, <3>1 DEF FrameCh!Read, packetVars, frameVars
  <2>5. CASE FrameCh!ReadFindsClosed(t)
    <3>1. /\ UNCHANGED <<frameQueue, frameClosed, frameItem>>
          /\ frameOp' = [frameOp EXCEPT ![t] = "notify"]
          /\ frameQueue = << >> /\ frameClosed
      BY <2>5 DEF FrameCh!ReadFindsClosed
    <3>2. QED BY <1>1, <2>1, <3>1 DEF packetVars, frameVars
  <2>6. CASE FrameCh!WriteWaits(t) \/ FrameCh!ReadWaits(t) \/ FrameCh!FallAsleep(t)
    <3>1. UNCHANGED <<frameQueue, frameClosed, frameItem>>
      BY <2>6 DEF FrameCh!WriteWaits, FrameCh!ReadWaits, FrameCh!FallAsleep
    <3>2. \/ frameOp[t] = "write" /\ frameOp' = [frameOp EXCEPT ![t] = "writeWaits"]
          \/ frameOp[t] = "read" /\ frameOp' = [frameOp EXCEPT ![t] = "readWaits"]
          \/ frameOp[t] = "readWaits" /\ frameOp' = [frameOp EXCEPT ![t] = "read"]
          \/ frameOp[t] = "writeWaits" /\ frameOp' = [frameOp EXCEPT ![t] = "write"]
      BY <2>6 DEF FrameCh!WriteWaits, FrameCh!ReadWaits, FrameCh!FallAsleep
    <3>3. QED BY <1>1, <2>1, <3>1, <3>2 DEF packetVars, frameVars
  <2>7. CASE FrameCh!Notify(t) \/ FrameCh!NotifyAll(t)
    <3>1. UNCHANGED <<frameQueue, frameClosed, frameItem>>
      BY <2>7 DEF FrameCh!Notify, FrameCh!NotifyAll
    <3>2. /\ frameOp' = [frameOp EXCEPT ![t] = "returned"]
          /\ frameOp[t] \in {"notify", "notifyAll"}
      BY <2>7 DEF FrameCh!Notify, FrameCh!NotifyAll
    <3>3. QED BY <1>1, <2>1, <3>1, <3>2 DEF packetVars, frameVars
  <2>8. QED BY <1>1, <2>3, <2>4, <2>5, <2>6, <2>7 DEF FrameCh!Step
<1>3. NotStarted' /\ PacketInv' /\ CrashInv'
  BY <1>1 DEF NotStarted, FrameInv, PacketInv, CrashInv, frameVars, packetVars, clientVars,
              demuxVars, decodeVars
<1>4. QED BY <1>2, <1>3

(* The demux thread closes its channel when it writes no more.                *)
LEMMA DemuxStepInv ==
    ASSUME Inv, ~ crashed, DemuxStep
    PROVE  Inv'
<1> USE DEF Inv, Types, NotStarted, PacketInv, FrameInv, CrashInv, Reading, DemuxGoes,
            frameVars, clientVars, decodeVars, PacketCh!Goes, PacketCh!OpStates
<1>1. CASE DemuxChecksPause \/ DemuxFallsAsleep \/ DemuxChecksQuit \/ DemuxReadsNothing
  BY <1>1 DEF DemuxChecksPause, DemuxFallsAsleep, DemuxChecksQuit, DemuxReadsNothing, packetVars
<1>2. CASE DemuxReadsVideo
  <2>1. position + 1 \in Positions /\ position' = position + 1
    BY <1>2 DEF DemuxReadsVideo, NextPosition
  <2>2. ~ packetClosed
    BY <1>2 DEF DemuxReadsVideo, NextPosition
  <2>3. QED BY <1>2, <2>1, <2>2 DEF DemuxReadsVideo, NextPosition, PacketCh!BeginWrite
<1>3. CASE DemuxReadsOther
  <2>1. position + 1 \in Positions /\ position' = position + 1
    BY <1>3 DEF DemuxReadsOther, NextPosition
  <2>2. QED BY <1>3, <2>1 DEF DemuxReadsOther, NextPosition, packetVars
<1>4. CASE DemuxHasWritten
  BY <1>4 DEF DemuxHasWritten, PacketCh!End
<1>5. CASE DemuxCloses
  BY <1>5 DEF DemuxCloses, PacketCh!BeginClose
<1>6. CASE DemuxEnds
  BY <1>6 DEF DemuxEnds, PacketCh!End
<1>7. CASE UsesPacketCh(Demux)
  BY <1>7, PacketStepInv
<1>8. QED BY <1>1, <1>2, <1>3, <1>4, <1>5, <1>6, <1>7 DEF DemuxStep

(* The decode thread reads from one channel and closes the other.             *)
LEMMA DecodeStepInv ==
    ASSUME Inv, ~ crashed, DecodeStep
    PROVE  Inv'
<1> USE DEF Inv, Types, NotStarted, PacketInv, FrameInv, CrashInv, Reading, DecodeGoes,
            clientVars, demuxVars, PacketCh!Goes, PacketCh!OpStates, FrameCh!Goes,
            FrameCh!OpStates
<1>1. CASE DecodeReads
  BY <1>1 DEF DecodeReads, PacketCh!BeginRead, frameVars
<1>2. CASE DecodeSendsPacket
  <2>1. packetItem[Decode] \in Positions
    BY <1>2 DEF DecodeSendsPacket
  <2>2. codec' \in Seq(Positions)
    <3>1. Append(codec, packetItem[Decode]) \in Seq(Positions)
      BY <2>1
    <3>2. codec' = Append(codec, packetItem[Decode]) \/ codec' = codec
      BY <1>2 DEF DecodeSendsPacket
    <3>3. QED BY <3>1, <3>2
  <2>3. /\ UNCHANGED <<packetQueue, packetClosed, packetItem>>
        /\ packetOp' = [packetOp EXCEPT ![Decode] = "none"]
        /\ decode = "reading" /\ decode' \in {"receive", "close"}
        /\ UNCHANGED <<frameVars, clientVars, demuxVars, crashed>>
    BY <1>2 DEF DecodeSendsPacket, PacketCh!End
  <2>4. QED BY <2>2, <2>3 DEF frameVars
<1>3. CASE DecodeSendsGarbage
  <2>1. packetClosed /\ demux \in {"closing", "done"}
    BY <1>3 DEF DecodeSendsGarbage, PacketCh!End
  <2>2. QED BY <1>3, <2>1 DEF DecodeSendsGarbage, PacketCh!End, frameVars
<1>4. CASE DecodeReceives
  <2>1. Head(codec) \in Positions /\ Tail(codec) \in Seq(Positions)
    BY <1>4 DEF DecodeReceives
  <2>2. QED BY <1>4, <2>1 DEF DecodeReceives, FrameCh!BeginWrite, packetVars
<1>5. CASE DecodeReceivesError
  <2>1. Tail(codec) \in Seq(Positions)
    BY <1>5 DEF DecodeReceivesError
  <2>2. QED BY <1>5, <2>1 DEF DecodeReceivesError, packetVars, frameVars
<1>6. CASE DecodeReceivesNothing
  BY <1>6 DEF DecodeReceivesNothing, packetVars, frameVars
<1>7. CASE DecodeHasWritten
  BY <1>7 DEF DecodeHasWritten, FrameCh!End, packetVars
<1>8. CASE DecodeCloses
  BY <1>8 DEF DecodeCloses, FrameCh!BeginClose, packetVars
<1>9. CASE DecodeEnds
  BY <1>9 DEF DecodeEnds, FrameCh!End, packetVars
<1>10. CASE UsesPacketCh(Decode) \/ UsesFrameCh(Decode)
  BY <1>10, PacketStepInv, FrameStepInv
<1>11. QED
  BY <1>1, <1>2, <1>3, <1>4, <1>5, <1>6, <1>7, <1>8, <1>9, <1>10 DEF DecodeStep

LEMMA ProcessStepInv ==
    ASSUME Inv, ~ crashed, ProcessStep
    PROVE  Inv'
<1> USE DEF Inv, Types, NotStarted, PacketInv, FrameInv, CrashInv, Reading, clientVars,
            demuxVars, decodeVars, packetVars, FrameCh!Goes, FrameCh!OpStates
<1>1. CASE ProcessChecksQuit
  BY <1>1 DEF ProcessChecksQuit, FrameCh!BeginRead, frameVars
<1>2. CASE ProcessTakesFrame
  BY <1>2 DEF ProcessTakesFrame, FrameCh!End
<1>3. CASE ProcessTakesGarbage
  <2>1. frameClosed /\ decode \in {"closing", "done"}
    BY <1>3 DEF ProcessTakesGarbage, FrameCh!End
  <2>2. QED BY <1>3, <2>1 DEF ProcessTakesGarbage, FrameCh!End
<1>4. CASE UsesFrameCh(Process)
  BY <1>4, FrameStepInv
<1>5. QED BY <1>1, <1>2, <1>3, <1>4 DEF ProcessStep

(* The inductive invariant of the pipeline.                                   *)
THEOREM Invariance == Spec => []Inv
<1>1. Init => Inv
  BY DEF Init, Inv, Types, NotStarted, PacketInv, FrameInv, CrashInv, Reading,
         PacketCh!ChannelInit, FrameCh!ChannelInit, PacketCh!OpStates, FrameCh!OpStates,
         PacketCh!Threads, FrameCh!Threads
<1>2. Inv /\ [Next]_vars => Inv'
  <2> SUFFICES ASSUME Inv, [Next]_vars PROVE Inv'
    OBVIOUS
  <2>1. CASE UNCHANGED vars
    BY <2>1 DEF vars, packetVars, frameVars, clientVars, demuxVars, decodeVars, Inv, Types,
                NotStarted, PacketInv, FrameInv, CrashInv
  <2>2. CASE Next
    BY <2>2, ClientStepInv, DemuxStepInv, DecodeStepInv, ProcessStepInv DEF Next, ThreadStep
  <2>3. QED BY <2>1, <2>2
<1>3. QED BY <1>1, <1>2, PTL DEF Spec

(* What is decoded or handed to the callbacks has been sent, but at the end   *)
(* of the stream, for any file, delay and clients.                            *)
THEOREM GarbageAtTheEnd == Spec => []GarbageOnlyAtTheEnd
<1>1. Inv => GarbageOnlyAtTheEnd
  BY DEF Inv, PacketInv, FrameInv, CrashInv, GarbageOnlyAtTheEnd
<1>2. QED BY <1>1, Invariance, PTL

-------------------------------------------------------------------------------
(* Pause. *)

(* While the pipeline is paused and has read a packet since, the demux thread *)
(* is behind its next check.                                                  *)
PauseInv ==
    /\ overrun \in 0..1
    /\ paused /\ overrun = 1 => demux \notin {"checkQuit", "readFile"}

LEMMA PauseStep == PauseInv /\ [Next]_vars => PauseInv'
<1> SUFFICES ASSUME PauseInv, [Next]_vars PROVE PauseInv'
  OBVIOUS
<1> USE DEF PauseInv
<1>1. CASE UNCHANGED <<paused, overrun, demux>>
  BY <1>1
<1>2. ASSUME NEW c \in Clients,
             Start(c) \/ Pause(c) \/ Resume(c) \/ StopQuits(c) \/ ClientGoesOn(c)
      PROVE  PauseInv'
  BY <1>2 DEF Start, Pause, Resume, StopQuits, ClientGoesOn, ResumeNotifies, StopUnpauses,
              StopNotifies, StopJoins, NotifyDemux, demuxVars
<1>3. CASE DemuxStep
  <2> USE DEF DemuxGoes, clientVars, demuxVars
  <2>1. CASE DemuxChecksPause \/ DemuxFallsAsleep \/ DemuxChecksQuit \/ DemuxReadsNothing
    BY <2>1 DEF DemuxChecksPause, DemuxFallsAsleep, DemuxChecksQuit, DemuxReadsNothing
  <2>2. CASE DemuxReadsVideo \/ DemuxReadsOther
    BY <2>2 DEF DemuxReadsVideo, DemuxReadsOther, NextPosition
  <2>3. CASE DemuxHasWritten \/ DemuxCloses \/ DemuxEnds
    BY <2>3 DEF DemuxHasWritten, DemuxCloses, DemuxEnds
  <2>4. CASE UsesPacketCh(Demux)
    BY <2>4, <1>1 DEF UsesPacketCh
  <2>5. QED BY <1>3, <2>1, <2>2, <2>3, <2>4 DEF DemuxStep
<1>4. CASE DecodeStep \/ ProcessStep
  <2>1. UNCHANGED <<paused, overrun, demux>>
    BY <1>4 DEF DecodeStep, DecodeGoes, DecodeReads, DecodeSendsPacket, DecodeSendsGarbage,
       DecodeReceives, DecodeReceivesError, DecodeReceivesNothing, DecodeHasWritten,
       DecodeCloses, DecodeEnds, ProcessStep, ProcessChecksQuit, ProcessTakesFrame,
       ProcessTakesGarbage, UsesPacketCh, UsesFrameCh, clientVars, demuxVars
  <2>2. QED BY <1>1, <2>1
<1>5. QED
  <2>1. UNCHANGED vars => UNCHANGED <<paused, overrun, demux>>
    BY DEF vars, clientVars, demuxVars
  <2>2. QED BY <1>1, <1>2, <1>3, <1>4, <2>1 DEF Next, ThreadStep

(* Pause lets one packet pass at most, whatever the clients do meanwhile.     *)
THEOREM PauseLetsOnePass == Spec => []PauseHolds
<1>1. Init => PauseInv
  BY DEF Init, PauseInv
<1>2. PauseInv => PauseHolds
  BY DEF PauseInv, PauseHolds
<1>3. QED BY <1>1, <1>2, PauseStep, PTL DEF Spec

-------------------------------------------------------------------------------
(* Wake-ups. *)

LEMMA NoneIfNotOne ==
    ASSUME NEW S, NEW q \in Seq(S), Len(q) <= 1, Len(q) # 1
    PROVE  q = << >>
<1>1. Len(q) \in Nat
  OBVIOUS
<1>2. \A n \in Nat : n <= 1 /\ n # 1 => n = 0
  OBVIOUS
<1>3. Len(q) = 0
  BY <1>1, <1>2, Zenon
<1>4. QED BY <1>3

(* A sleeper of the packet channel that could go on is about to be notified by*)
(* the other side; the mutex keeps the queue as a thread has found it until   *)
(* it sleeps.                                                                 *)
PacketWake ==
    /\ packetAsleep \subseteq {Demux, Decode} /\ Len(packetQueue) <= 1
    /\ packetOp[Demux] \notin {"read", "readWaits"}
    /\ Demux \in packetAsleep => packetOp[Demux] = "write"
    /\ Decode \in packetAsleep => packetOp[Decode] = "read"
    /\ packetOp[Demux] = "writeWaits" => packetQueue # << >>
    /\ packetOp[Decode] = "readWaits" => packetQueue = << >>
    /\ Demux \in packetAsleep /\ packetQueue = << >> => packetOp[Decode] = "notify"
    /\ Decode \in packetAsleep /\ packetQueue # << >> => packetOp[Demux] = "notify"

LEMMA PacketStepWake ==
    ASSUME Inv, PacketWake, NEW t \in {Demux, Decode}, PacketCh!Step(t)
    PROVE  PacketWake'
<1> USE DEF PacketWake, PacketCh!Goes, PacketCh!Awake
<1>1. /\ packetOp \in [{Demux, Decode} -> PacketCh!OpStates] /\ packetOp[Decode] \in Reading
      /\ packetQueue \in Seq(Positions)
  BY DEF Inv, Types, PacketInv
<1>2. CASE PacketCh!Write(t)
  <2>1. t = Demux /\ packetOp[Decode] # "readWaits"
    BY <1>1, <1>2 DEF PacketCh!Write, PacketCh!MutexFree, PacketCh!Threads, Reading
  <2>0. packetQueue = << >>
    <3>1. Len(packetQueue) # 1
      BY <1>2 DEF PacketCh!Write, PacketCh!Full
    <3>2. QED BY <1>1, <3>1, NoneIfNotOne
  <2>2. packetQueue' # << >> /\ Len(packetQueue') = 1
    BY <1>1, <1>2, <2>0 DEF PacketCh!Write
  <2>3. QED BY <1>1, <1>2, <2>1, <2>2 DEF PacketCh!Write
<1>3. CASE PacketCh!Read(t)
  <2>1. t = Decode /\ packetOp[Demux] # "writeWaits"
    BY <1>1, <1>3 DEF PacketCh!Read, PacketCh!MutexFree, PacketCh!Threads
  <2>2. packetQueue' = << >>
    BY <1>1, <1>3 DEF PacketCh!Read
  <2>3. QED BY <1>1, <1>3, <2>1, <2>2 DEF PacketCh!Read
<1>4. CASE PacketCh!WriteWaits(t)
  <2>1. t = Demux /\ packetQueue # << >>
    BY <1>1, <1>4 DEF PacketCh!WriteWaits, PacketCh!Full, Reading
  <2>2. QED BY <1>1, <1>4, <2>1 DEF PacketCh!WriteWaits
<1>5. CASE PacketCh!ReadWaits(t) \/ PacketCh!ReadFindsClosed(t)
  <2>1. t = Decode /\ packetQueue = << >> /\ Demux \notin packetAsleep
    BY <1>1, <1>5 DEF PacketCh!ReadWaits, PacketCh!ReadFindsClosed
  <2>2. QED BY <1>1, <1>5, <2>1 DEF PacketCh!ReadWaits, PacketCh!ReadFindsClosed
<1>6. CASE PacketCh!FallAsleep(t)
  BY <1>1, <1>6 DEF PacketCh!FallAsleep, Reading
<1>7. CASE PacketCh!Notify(t)
  BY <1>1, <1>7 DEF PacketCh!Notify
<1>8. CASE PacketCh!NotifyAll(t)
  BY <1>1, <1>8 DEF PacketCh!NotifyAll, Reading
<1>9. QED BY <1>2, <1>3, <1>4, <1>5, <1>6, <1>7, <1>8 DEF PacketCh!Step

LEMMA PacketEdgeWake ==
    ASSUME Inv, PacketWake,
           \/ \E v : PacketCh!BeginWrite(Demux, v)
           \/ PacketCh!BeginRead(Decode) \/ PacketCh!BeginClose(Demux)
           \/ \E t \in {Demux, Decode} : PacketCh!End(t)
           \/ UNCHANGED packetVars
    PROVE  PacketWake'
<1>1. packetOp \in [{Demux, Decode} -> PacketCh!OpStates]
  BY DEF Inv, Types
<1>2. UNCHANGED <<packetQueue, packetAsleep>>
  BY DEF PacketCh!BeginWrite, PacketCh!BeginRead, PacketCh!BeginClose, PacketCh!End, packetVars
<1>3. \/ UNCHANGED packetOp
      \/ /\ packetOp[Demux] \in {"none", "returned"}
         /\ \E place \in {"write", "threw", "notifyAll", "none"} :
                packetOp' = [packetOp EXCEPT ![Demux] = place]
      \/ /\ packetOp[Decode] \in {"none", "returned"}
         /\ \E place \in {"read", "returned", "none"} :
                packetOp' = [packetOp EXCEPT ![Decode] = place]
  BY DEF PacketCh!BeginWrite, PacketCh!BeginRead, PacketCh!BeginClose, PacketCh!End,
         PacketCh!Goes, packetVars
<1>4. QED BY <1>1, <1>2, <1>3 DEF PacketWake

(* A sleeper of the frame channel that could go on is about to be notified by *)
(* the other side; the mutex keeps the queue as a thread has found it until   *)
(* it sleeps.                                                                 *)
FrameWake ==
    /\ frameAsleep \subseteq {Decode, Process} /\ Len(frameQueue) <= 1
    /\ frameOp[Decode] \notin {"read", "readWaits"}
    /\ Decode \in frameAsleep => frameOp[Decode] = "write"
    /\ Process \in frameAsleep => frameOp[Process] = "read"
    /\ frameOp[Decode] = "writeWaits" => frameQueue # << >>
    /\ frameOp[Process] = "readWaits" => frameQueue = << >>
    /\ Decode \in frameAsleep /\ frameQueue = << >> => frameOp[Process] = "notify"
    /\ Process \in frameAsleep /\ frameQueue # << >> => frameOp[Decode] = "notify"

LEMMA FrameStepWake ==
    ASSUME Inv, FrameWake, NEW t \in {Decode, Process}, FrameCh!Step(t)
    PROVE  FrameWake'
<1> USE DEF FrameWake, FrameCh!Goes, FrameCh!Awake
<1>1. /\ frameOp \in [{Decode, Process} -> FrameCh!OpStates] /\ frameOp[Process] \in Reading
      /\ frameQueue \in Seq(Positions)
  BY DEF Inv, Types, FrameInv
<1>2. CASE FrameCh!Write(t)
  <2>1. t = Decode /\ frameOp[Process] # "readWaits"
    BY <1>1, <1>2 DEF FrameCh!Write, FrameCh!MutexFree, FrameCh!Threads, Reading
  <2>0. frameQueue = << >>
    <3>1. Len(frameQueue) # 1
      BY <1>2 DEF FrameCh!Write, FrameCh!Full
    <3>2. QED BY <1>1, <3>1, NoneIfNotOne
  <2>2. frameQueue' # << >> /\ Len(frameQueue') = 1
    BY <1>1, <1>2, <2>0 DEF FrameCh!Write
  <2>3. QED BY <1>1, <1>2, <2>1, <2>2 DEF FrameCh!Write
<1>3. CASE FrameCh!Read(t)
  <2>1. t = Process /\ frameOp[Decode] # "writeWaits"
    BY <1>1, <1>3 DEF FrameCh!Read, FrameCh!MutexFree, FrameCh!Threads
  <2>2. frameQueue' = << >>
    BY <1>1, <1>3 DEF FrameCh!Read
  <2>3. QED BY <1>1, <1>3, <2>1, <2>2 DEF FrameCh!Read
<1>4. CASE FrameCh!WriteWaits(t)
  <2>1. t = Decode /\ frameQueue # << >>
    BY <1>1, <1>4 DEF FrameCh!WriteWaits, FrameCh!Full, Reading
  <2>2. QED BY <1>1, <1>4, <2>1 DEF FrameCh!WriteWaits
<1>5. CASE FrameCh!ReadWaits(t) \/ FrameCh!ReadFindsClosed(t)
  <2>1. t = Process /\ frameQueue = << >> /\ Decode \notin frameAsleep
    BY <1>1, <1>5 DEF FrameCh!ReadWaits, FrameCh!ReadFindsClosed
  <2>2. QED BY <1>1, <1>5, <2>1 DEF FrameCh!ReadWaits, FrameCh!ReadFindsClosed
<1>6. CASE FrameCh!FallAsleep(t)
  BY <1>1, <1>6 DEF FrameCh!FallAsleep, Reading
<1>7. CASE FrameCh!Notify(t)
  BY <1>1, <1>7 DEF FrameCh!Notify
<1>8. CASE FrameCh!NotifyAll(t)
  BY <1>1, <1>8 DEF FrameCh!NotifyAll, Reading
<1>9. QED BY <1>2, <1>3, <1>4, <1>5, <1>6, <1>7, <1>8 DEF FrameCh!Step

LEMMA FrameEdgeWake ==
    ASSUME Inv, FrameWake,
           \/ \E v : FrameCh!BeginWrite(Decode, v)
           \/ FrameCh!BeginRead(Process) \/ FrameCh!BeginClose(Decode)
           \/ \E t \in {Decode, Process} : FrameCh!End(t)
           \/ UNCHANGED frameVars
    PROVE  FrameWake'
<1>1. frameOp \in [{Decode, Process} -> FrameCh!OpStates]
  BY DEF Inv, Types
<1>2. UNCHANGED <<frameQueue, frameAsleep>>
  BY DEF FrameCh!BeginWrite, FrameCh!BeginRead, FrameCh!BeginClose, FrameCh!End, frameVars
<1>3. \/ UNCHANGED frameOp
      \/ /\ frameOp[Decode] \in {"none", "returned"}
         /\ \E place \in {"write", "threw", "notifyAll", "none"} :
                frameOp' = [frameOp EXCEPT ![Decode] = place]
      \/ /\ frameOp[Process] \in {"none", "returned"}
         /\ \E place \in {"read", "returned", "none"} :
                frameOp' = [frameOp EXCEPT ![Process] = place]
  BY DEF FrameCh!BeginWrite, FrameCh!BeginRead, FrameCh!BeginClose, FrameCh!End,
         FrameCh!Goes, frameVars
<1>4. QED BY <1>1, <1>2, <1>3 DEF FrameWake

LEMMA WakeStep ==
    ASSUME Inv, PacketWake, FrameWake, [Next]_vars
    PROVE  PacketWake' /\ FrameWake'
<1>1. CASE UNCHANGED <<packetVars, frameVars>>
  BY <1>1, PacketEdgeWake, FrameEdgeWake
<1>2. ASSUME NEW c \in Clients,
             Start(c) \/ Pause(c) \/ Resume(c) \/ StopQuits(c) \/ ClientGoesOn(c)
      PROVE  UNCHANGED <<packetVars, frameVars>>
  BY <1>2 DEF Start, Pause, Resume, StopQuits, ClientGoesOn, ResumeNotifies, StopUnpauses,
              StopNotifies, StopJoins
<1>3. CASE DemuxStep
  <2>1. UNCHANGED frameVars
    BY <1>3 DEF DemuxStep, DemuxGoes, DemuxChecksPause, DemuxFallsAsleep, DemuxChecksQuit,
           DemuxReadsVideo, DemuxReadsOther, DemuxReadsNothing, DemuxHasWritten, DemuxCloses,
           DemuxEnds, UsesPacketCh
  <2>2. \/ UNCHANGED packetVars \/ PacketCh!Step(Demux)
        \/ (\E v : PacketCh!BeginWrite(Demux, v))
        \/ PacketCh!BeginClose(Demux) \/ PacketCh!End(Demux)
    BY <1>3 DEF DemuxStep, DemuxChecksPause, DemuxFallsAsleep, DemuxChecksQuit,
           DemuxReadsVideo, DemuxReadsOther, DemuxReadsNothing, DemuxHasWritten, DemuxCloses,
           DemuxEnds, UsesPacketCh
  <2>3. QED BY <2>1, <2>2, PacketStepWake, PacketEdgeWake, FrameEdgeWake
<1>4. CASE DecodeStep
  <2>1. CASE DecodeReads \/ DecodeSendsPacket \/ DecodeSendsGarbage
    <3>1. UNCHANGED frameVars /\ (PacketCh!BeginRead(Decode) \/ PacketCh!End(Decode))
      BY <2>1 DEF DecodeReads, DecodeSendsPacket, DecodeSendsGarbage
    <3>2. QED BY <3>1, PacketEdgeWake, FrameEdgeWake
  <2>2. CASE DecodeReceives \/ DecodeHasWritten \/ DecodeCloses \/ DecodeEnds
    <3>1. /\ UNCHANGED packetVars
          /\ \/ \E v : FrameCh!BeginWrite(Decode, v)
             \/ FrameCh!BeginClose(Decode) \/ FrameCh!End(Decode)
      BY <2>2 DEF DecodeReceives, DecodeHasWritten, DecodeCloses, DecodeEnds
    <3>2. QED BY <3>1, PacketEdgeWake, FrameEdgeWake
  <2>3. CASE DecodeReceivesError \/ DecodeReceivesNothing
    BY <1>1, <2>3 DEF DecodeReceivesError, DecodeReceivesNothing
  <2>4. CASE UsesPacketCh(Decode) \/ UsesFrameCh(Decode)
    <3>1. \/ PacketCh!Step(Decode) /\ UNCHANGED frameVars
          \/ FrameCh!Step(Decode) /\ UNCHANGED packetVars
      BY <2>4 DEF UsesPacketCh, UsesFrameCh
    <3>2. QED BY <3>1, PacketStepWake, FrameStepWake, PacketEdgeWake, FrameEdgeWake
  <2>5. QED BY <1>4, <2>1, <2>2, <2>3, <2>4 DEF DecodeStep
<1>5. CASE ProcessStep
  <2>1. /\ UNCHANGED packetVars
        /\ \/ UNCHANGED frameVars \/ FrameCh!Step(Process)
           \/ FrameCh!BeginRead(Process) \/ FrameCh!End(Process)
    BY <1>5 DEF ProcessStep, ProcessChecksQuit, ProcessTakesFrame, ProcessTakesGarbage, UsesFrameCh
  <2>2. QED BY <2>1, FrameStepWake, FrameEdgeWake, PacketEdgeWake
<1>6. CASE UNCHANGED vars
  BY <1>1, <1>6 DEF vars
<1>7. QED BY <1>1, <1>2, <1>3, <1>4, <1>5, <1>6 DEF Next, ThreadStep

(* No thread sleeps through the wake-up it needs, for a file of any length    *)
(* and any clients, although both sides of a channel share a condition        *)
(* variable and notify_one wakes either.                                      *)
THEOREM NobodyOversleeps == Spec => []NoWakeIsMissed
<1>1. Init => PacketWake /\ FrameWake
  BY DEF Init, PacketWake, FrameWake, PacketCh!ChannelInit, FrameCh!ChannelInit,
         PacketCh!Threads, FrameCh!Threads
<1>2. Inv /\ PacketWake => PacketCh!NoMissedWake
  <2> SUFFICES ASSUME Inv, PacketWake, NEW t \in packetAsleep, PacketCh!Ready(t)
               PROVE  \E u \in {Demux, Decode} : u \notin packetAsleep /\ packetOp[u] = "notify"
    BY DEF PacketCh!NoMissedWake, PacketCh!Awake, PacketCh!Threads
  <2>1. CASE t = Demux
    <3>1. Len(packetQueue) # 1
      BY <2>1 DEF PacketWake, PacketCh!Ready, PacketCh!Full
    <3>2. packetQueue = << >>
      BY <3>1, NoneIfNotOne DEF Inv, Types, PacketWake
    <3>3. QED BY <2>1, <3>2 DEF PacketWake
  <2>2. CASE t = Decode
    <3>1. packetQueue # << >>
      BY <2>2 DEF PacketWake, PacketCh!Ready
    <3>2. QED BY <2>2, <3>1 DEF PacketWake
  <2>3. QED BY <2>1, <2>2 DEF PacketWake
<1>3. Inv /\ FrameWake => FrameCh!NoMissedWake
  <2> SUFFICES ASSUME Inv, FrameWake, NEW t \in frameAsleep, FrameCh!Ready(t)
               PROVE  \E u \in {Decode, Process} : u \notin frameAsleep /\ frameOp[u] = "notify"
    BY DEF FrameCh!NoMissedWake, FrameCh!Awake, FrameCh!Threads
  <2>1. CASE t = Decode
    <3>1. Len(frameQueue) # 1
      BY <2>1 DEF FrameWake, FrameCh!Ready, FrameCh!Full
    <3>2. frameQueue = << >>
      BY <3>1, NoneIfNotOne DEF Inv, Types, FrameWake
    <3>3. QED BY <2>1, <3>2 DEF FrameWake
  <2>2. CASE t = Process
    <3>1. frameQueue # << >>
      BY <2>2 DEF FrameWake, FrameCh!Ready
    <3>2. QED BY <2>2, <3>1 DEF FrameWake
  <2>3. QED BY <2>1, <2>2 DEF FrameWake
<1>4. QED BY <1>1, <1>2, <1>3, Invariance, WakeStep, PTL DEF Spec, NoWakeIsMissed

-------------------------------------------------------------------------------
(* Order. *)

Member(s, n) == \E i \in 1..Len(s) : s[i] = n

Sorted(s) == \A i, j \in 1..Len(s) : i < j => s[i] < s[j]

(* Where a frame or packet can be, numbered from the callbacks back to the    *)
(* file as in Line.                                                           *)
At(k, n) ==
    \/ k = 1 /\ Member(delivered, n)
    \/ k = 2 /\ process = "reading" /\ frameItem[Process] = n
    \/ k = 3 /\ Member(frameQueue, n)
    \/ k = 4 /\ frameOp[Decode] \in {"write", "writeWaits"} /\ frameItem[Decode] = n
    \/ k = 5 /\ Member(codec, n)
    \/ k = 6 /\ decode = "reading" /\ packetItem[Decode] = n
    \/ k = 7 /\ Member(packetQueue, n)
    \/ k = 8 /\ packetOp[Demux] \in {"write", "writeWaits"} /\ packetItem[Demux] = n

(* What is further on was read earlier. *)
Ordered ==
    /\ \A k, l \in 1..8 : \A m, n \in Positions : k < l /\ At(k, m) /\ At(l, n) => m < n
    /\ \A k \in 1..8 : \A n \in Positions : At(k, n) => n <= position

OrderInv ==
    /\ delivered \in Seq(Positions)
    /\ Sorted(delivered) /\ Sorted(codec)
    /\ Ordered

(* The three things a step can do to the places: lose something, ...          *)
LEMMA LossKeepsOrder ==
    ASSUME Inv, Ordered, position' \in {position, position + 1},
           \A k \in 1..8 : \A n \in Positions : At(k, n)' => At(k, n)
    PROVE  Ordered'
<1>1. position \in Nat /\ position <= position'
  BY DEF Inv, Types
<1>2. ASSUME NEW k \in 1..8, NEW l \in 1..8, NEW m \in Positions, NEW n \in Positions,
             k < l, At(k, m)', At(l, n)'
      PROVE  m < n
  <2>1. At(k, m) /\ At(l, n)
    BY <1>2
  <2>2. QED BY <1>2, <2>1 DEF Ordered
<1>3. ASSUME NEW k \in 1..8, NEW n \in Positions, At(k, n)'
      PROVE  n <= position'
  <2>1. At(k, n)
    BY <1>3
  <2>2. n <= position
    BY <2>1 DEF Ordered
  <2>3. QED BY <1>1, <2>2
<1>4. QED BY <1>2, <1>3, Zenon DEF Ordered

(* ... move the first of a place on to the next one, ...                      *)
LEMMA MoveKeepsOrder ==
    ASSUME Inv, Ordered, UNCHANGED position,
           NEW j \in 2..8, NEW x \in Positions, At(j, x),
           \A k \in 1..8 : \A n \in Positions : At(k, n)' =>
               \/ At(k, n) /\ (k = j => x < n)
               \/ k = j - 1 /\ n = x
    PROVE  Ordered'
<1>1. ASSUME NEW k \in 1..8, NEW l \in 1..8, NEW m \in Positions, NEW n \in Positions,
             k < l, At(k, m)', At(l, n)'
      PROVE  m < n
  <2>1. CASE k = j - 1 /\ m = x
    <3>1. At(l, n) /\ (l = j => x < n)
      BY <1>1, <2>1
    <3>2. l = j \/ j < l
      BY <1>1, <2>1
    <3>3. QED BY <1>1, <2>1, <3>1, <3>2 DEF Ordered
  <2>2. CASE l = j - 1 /\ n = x
    <3>1. At(k, m) /\ k < j
      BY <1>1, <2>2
    <3>2. QED BY <1>1, <2>2, <3>1 DEF Ordered
  <2>3. CASE At(k, m) /\ At(l, n)
    BY <1>1, <2>3 DEF Ordered
  <2>4. QED BY <1>1, <2>1, <2>2, <2>3
<1>2. ASSUME NEW k \in 1..8, NEW n \in Positions, At(k, n)'
      PROVE  n <= position'
  BY <1>2 DEF Ordered
<1>3. QED BY <1>1, <1>2 DEF Ordered

(* ... or bring in what has just been read.                                   *)
LEMMA EntryKeepsOrder ==
    ASSUME Inv, Ordered, position' = position + 1,
           \A k \in 1..8 : \A n \in Positions : At(k, n)' => At(k, n) \/ (k = 8 /\ n = position')
    PROVE  Ordered'
<1>1. position \in Nat
  BY DEF Inv, Types
<1>2. ASSUME NEW k \in 1..8, NEW l \in 1..8, NEW m \in Positions, NEW n \in Positions,
             k < l, At(k, m)', At(l, n)'
      PROVE  m < n
  <2>1. At(k, m) /\ m <= position
    BY <1>2 DEF Ordered
  <2>2. QED BY <1>1, <1>2, <2>1 DEF Ordered
<1>3. QED BY <1>1, <1>2 DEF Ordered

(* Sequences. *)

LEMMA AppendOne ==
    ASSUME NEW s \in Seq(Positions), NEW x \in Positions
    PROVE  /\ Append(s, x) \in Seq(Positions)
           /\ \A n : Member(Append(s, x), n) => Member(s, n) \/ n = x
           /\ Sorted(s) /\ (\A n \in Positions : Member(s, n) => n < x) => Sorted(Append(s, x))
<1>1. /\ Append(s, x) \in Seq(Positions)
      /\ Len(s) \in Nat /\ Len(Append(s, x)) = Len(s) + 1
      /\ \A i \in 1..Len(s) : Append(s, x)[i] = s[i] /\ s[i] \in Positions
      /\ Append(s, x)[Len(s) + 1] = x
  OBVIOUS
<1>2. \A i \in 1..(Len(s) + 1) : i \in 1..Len(s) \/ i = Len(s) + 1
  BY <1>1
<1>3. QED BY <1>1, <1>2 DEF Member, Sorted

LEMMA TakeOne ==
    ASSUME NEW s \in Seq(Positions), s # << >>
    PROVE  /\ Head(s) \in Positions /\ Member(s, Head(s)) /\ Tail(s) \in Seq(Positions)
           /\ \A n : Member(Tail(s), n) => Member(s, n)
           /\ Sorted(s) => Sorted(Tail(s)) /\ \A n \in Positions : Member(Tail(s), n) => Head(s) < n
           /\ Len(s) <= 1 => \A n : ~ Member(Tail(s), n)
<1>1. /\ Head(s) = s[1] /\ Head(s) \in Positions /\ Len(s) \in Nat /\ 1 \in 1..Len(s)
      /\ Tail(s) \in Seq(Positions) /\ Len(Tail(s)) = Len(s) - 1
      /\ \A i \in 1..(Len(s) - 1) : Tail(s)[i] = s[i + 1] /\ i + 1 \in 1..Len(s)
  OBVIOUS
<1>2. QED BY <1>1 DEF Member, Sorted

LEMMA NoMembers == \A n : ~ Member(<< >>, n)
BY DEF Member

(* Inside the packet channel: the writer's value becomes the queue's, and the *)
(* queue's the reader's.                                                      *)
LEMMA PacketStepOrder ==
    ASSUME Inv, OrderInv, PacketWake, NEW t \in {Demux, Decode}, UsesPacketCh(t)
    PROVE  OrderInv'
<1>1. /\ UNCHANGED <<delivered, process, decode, codec, position, frameVars>>
      /\ PacketCh!Step(t)
  BY DEF UsesPacketCh, demuxVars, decodeVars, processVars
<1>2. /\ packetOp \in [{Demux, Decode} -> PacketCh!OpStates] /\ packetOp[Decode] \in Reading
      /\ packetItem \in [{Demux, Decode} -> Positions \cup {NoValue}]
      /\ packetQueue \in Seq(Positions)
  BY DEF Inv, Types, PacketInv
<1>3. Ordered'
  <2>1. CASE PacketCh!Write(t)
    <3>1. t = Demux /\ packetOp[Demux] = "write" /\ packetItem[Demux] \in Positions
      BY <1>2, <2>1 DEF PacketCh!Write, Reading, Inv, PacketInv
    <3>2. Len(packetQueue) # 1
      BY <2>1 DEF PacketCh!Write, PacketCh!Full
    <3>3. packetQueue = << >>
      BY <1>2, <3>2, NoneIfNotOne DEF PacketWake
    <3>4. packetQueue' = Append(packetQueue, packetItem[Demux]) /\ UNCHANGED packetItem
          /\ packetOp' = [packetOp EXCEPT ![Demux] = "notify"]
      BY <2>1, <3>1 DEF PacketCh!Write, PacketCh!Goes
    <3>5. \A n : Member(packetQueue', n) => n = packetItem[Demux]
      BY <1>2, <3>1, <3>3, <3>4, AppendOne, NoMembers
    <3>6. At(8, packetItem[Demux])
      BY <3>1 DEF At
    <3>7. ASSUME NEW k \in 1..8, NEW n \in Positions, At(k, n)'
          PROVE  \/ At(k, n) /\ (k = 8 => packetItem[Demux] < n)
                 \/ k = 8 - 1 /\ n = packetItem[Demux]
      <4>1. CASE k = 7
        BY <3>5, <3>7, <4>1 DEF At, Member
      <4>2. CASE k = 8
        BY <1>2, <3>4, <3>7, <4>2 DEF At
      <4>3. CASE k \notin {7, 8}
        BY <1>1, <1>2, <3>4, <3>7, <4>3 DEF At, Member, packetVars, frameVars
      <4>4. QED BY <4>1, <4>2, <4>3
    <3>8. 8 \in 2..8 /\ UNCHANGED position /\ Ordered
      BY <1>1 DEF OrderInv
    <3>9. QED BY <3>1, <3>6, <3>7, <3>8, MoveKeepsOrder, Zenon
  <2>2. CASE PacketCh!Read(t)
    <3>1. t = Decode /\ packetQueue # << >>
      BY <2>2 DEF PacketCh!Read, PacketWake
    <3>2. /\ Head(packetQueue) \in Positions /\ Member(packetQueue, Head(packetQueue))
          /\ \A n : ~ Member(Tail(packetQueue), n)
      BY <1>2, <3>1, TakeOne DEF PacketWake
    <3>3. /\ packetQueue' = Tail(packetQueue)
          /\ packetItem' = [packetItem EXCEPT ![Decode] = Head(packetQueue)]
          /\ packetOp' = [packetOp EXCEPT ![Decode] = "notify"]
      BY <2>2, <3>1 DEF PacketCh!Read, PacketCh!Goes
    <3>4. At(7, Head(packetQueue))
      BY <3>2 DEF At
    <3>5. /\ \A n : ~ Member(packetQueue, n)'
          /\ packetItem'[Decode] = Head(packetQueue) /\ packetItem'[Demux] = packetItem[Demux]
          /\ packetOp'[Demux] = packetOp[Demux]
      BY <1>2, <3>2, <3>3 DEF Member
    <3>6. ASSUME NEW k \in 1..8, NEW n \in Positions, At(k, n)'
          PROVE  \/ At(k, n) /\ (k = 7 => Head(packetQueue) < n)
                 \/ k = 7 - 1 /\ n = Head(packetQueue)
      <4>1. CASE k = 7
        BY <3>5, <3>6, <4>1 DEF At
      <4>2. CASE k = 6
        BY <3>5, <3>6, <4>2 DEF At
      <4>3. CASE k \notin {6, 7}
        BY <1>1, <3>5, <3>6, <4>3 DEF At, Member, packetVars, frameVars
      <4>4. QED BY <4>1, <4>2, <4>3
    <3>7. 7 \in 2..8 /\ UNCHANGED position /\ Ordered
      BY <1>1 DEF OrderInv
    <3>8. QED BY <3>2, <3>4, <3>6, <3>7, MoveKeepsOrder, Zenon
  <2>3. CASE ~ PacketCh!Write(t) /\ ~ PacketCh!Read(t)
    <3>1. UNCHANGED <<packetQueue, packetItem>>
      BY <1>1, <2>3 DEF PacketCh!Step, PacketCh!WriteWaits, PacketCh!ReadFindsClosed,
             PacketCh!ReadWaits, PacketCh!FallAsleep, PacketCh!Notify, PacketCh!NotifyAll
    <3>2. packetOp'[Demux] \in {"write", "writeWaits"} =>
              packetOp[Demux] \in {"write", "writeWaits"}
      BY <1>1, <1>2, <2>3 DEF PacketCh!Step, PacketCh!WriteWaits, PacketCh!ReadFindsClosed,
             PacketCh!ReadWaits, PacketCh!FallAsleep, PacketCh!Notify, PacketCh!NotifyAll,
             PacketCh!Goes, PacketWake
    <3>3. \A k \in 1..8 : \A n \in Positions : At(k, n)' => At(k, n)
      BY <1>1, <3>1, <3>2 DEF At, Member, packetVars, frameVars
    <3>4. QED BY <1>1, <3>3, LossKeepsOrder DEF OrderInv
  <2>4. QED BY <2>1, <2>2, <2>3
<1>4. QED BY <1>1, <1>3 DEF OrderInv, Sorted

(* Inside the frame channel: the writer's value becomes the queue's, and the  *)
(* queue's the reader's.                                                      *)
LEMMA FrameStepOrder ==
    ASSUME Inv, OrderInv, FrameWake, NEW t \in {Decode, Process}, UsesFrameCh(t)
    PROVE  OrderInv'
<1>1. /\ UNCHANGED <<delivered, process, decode, codec, position, packetVars>>
      /\ FrameCh!Step(t)
  BY DEF UsesFrameCh, demuxVars, decodeVars, processVars
<1>2. /\ frameOp \in [{Decode, Process} -> FrameCh!OpStates] /\ frameOp[Process] \in Reading
      /\ frameItem \in [{Decode, Process} -> Positions \cup {NoValue}]
      /\ frameQueue \in Seq(Positions)
  BY DEF Inv, Types, FrameInv
<1>3. Ordered'
  <2>1. CASE FrameCh!Write(t)
    <3>1. t = Decode /\ frameOp[Decode] = "write" /\ frameItem[Decode] \in Positions
      BY <1>2, <2>1 DEF FrameCh!Write, Reading, Inv, FrameInv
    <3>2. Len(frameQueue) # 1
      BY <2>1 DEF FrameCh!Write, FrameCh!Full
    <3>3. frameQueue = << >>
      BY <1>2, <3>2, NoneIfNotOne DEF FrameWake
    <3>4. frameQueue' = Append(frameQueue, frameItem[Decode]) /\ UNCHANGED frameItem
          /\ frameOp' = [frameOp EXCEPT ![Decode] = "notify"]
      BY <2>1, <3>1 DEF FrameCh!Write, FrameCh!Goes
    <3>5. \A n : Member(frameQueue', n) => n = frameItem[Decode]
      BY <1>2, <3>1, <3>3, <3>4, AppendOne, NoMembers
    <3>6. At(4, frameItem[Decode])
      BY <3>1 DEF At
    <3>7. ASSUME NEW k \in 1..8, NEW n \in Positions, At(k, n)'
          PROVE  \/ At(k, n) /\ (k = 4 => frameItem[Decode] < n)
                 \/ k = 4 - 1 /\ n = frameItem[Decode]
      <4>1. CASE k = 3
        BY <3>5, <3>7, <4>1 DEF At, Member
      <4>2. CASE k = 4
        BY <1>2, <3>4, <3>7, <4>2 DEF At
      <4>3. CASE k \notin {3, 4}
        BY <1>1, <1>2, <3>4, <3>7, <4>3 DEF At, Member, packetVars, frameVars
      <4>4. QED BY <4>1, <4>2, <4>3
    <3>8. 4 \in 2..8 /\ UNCHANGED position /\ Ordered
      BY <1>1 DEF OrderInv
    <3>9. QED BY <3>1, <3>6, <3>7, <3>8, MoveKeepsOrder, Zenon
  <2>2. CASE FrameCh!Read(t)
    <3>1. t = Process /\ frameQueue # << >>
      BY <2>2 DEF FrameCh!Read, FrameWake
    <3>2. /\ Head(frameQueue) \in Positions /\ Member(frameQueue, Head(frameQueue))
          /\ \A n : ~ Member(Tail(frameQueue), n)
      BY <1>2, <3>1, TakeOne DEF FrameWake
    <3>3. /\ frameQueue' = Tail(frameQueue)
          /\ frameItem' = [frameItem EXCEPT ![Process] = Head(frameQueue)]
          /\ frameOp' = [frameOp EXCEPT ![Process] = "notify"]
      BY <2>2, <3>1 DEF FrameCh!Read, FrameCh!Goes
    <3>4. At(3, Head(frameQueue))
      BY <3>2 DEF At
    <3>5. /\ \A n : ~ Member(frameQueue, n)'
          /\ frameItem'[Process] = Head(frameQueue) /\ frameItem'[Decode] = frameItem[Decode]
          /\ frameOp'[Decode] = frameOp[Decode]
      BY <1>2, <3>2, <3>3 DEF Member
    <3>6. ASSUME NEW k \in 1..8, NEW n \in Positions, At(k, n)'
          PROVE  \/ At(k, n) /\ (k = 3 => Head(frameQueue) < n)
                 \/ k = 3 - 1 /\ n = Head(frameQueue)
      <4>1. CASE k = 3
        BY <3>5, <3>6, <4>1 DEF At
      <4>2. CASE k = 2
        BY <3>5, <3>6, <4>2 DEF At
      <4>3. CASE k \notin {2, 3}
        BY <1>1, <3>5, <3>6, <4>3 DEF At, Member, packetVars, frameVars
      <4>4. QED BY <4>1, <4>2, <4>3
    <3>7. 3 \in 2..8 /\ UNCHANGED position /\ Ordered
      BY <1>1 DEF OrderInv
    <3>8. QED BY <3>2, <3>4, <3>6, <3>7, MoveKeepsOrder, Zenon
  <2>3. CASE ~ FrameCh!Write(t) /\ ~ FrameCh!Read(t)
    <3>1. UNCHANGED <<frameQueue, frameItem>>
      BY <1>1, <2>3 DEF FrameCh!Step, FrameCh!WriteWaits, FrameCh!ReadFindsClosed,
             FrameCh!ReadWaits, FrameCh!FallAsleep, FrameCh!Notify, FrameCh!NotifyAll
    <3>2. frameOp'[Decode] \in {"write", "writeWaits"} =>
              frameOp[Decode] \in {"write", "writeWaits"}
      BY <1>1, <1>2, <2>3 DEF FrameCh!Step, FrameCh!WriteWaits, FrameCh!ReadFindsClosed,
             FrameCh!ReadWaits, FrameCh!FallAsleep, FrameCh!Notify, FrameCh!NotifyAll,
             FrameCh!Goes, FrameWake
    <3>3. \A k \in 1..8 : \A n \in Positions : At(k, n)' => At(k, n)
      BY <1>1, <3>1, <3>2 DEF At, Member, packetVars, frameVars
    <3>4. QED BY <1>1, <3>3, LossKeepsOrder DEF OrderInv
  <2>4. QED BY <2>1, <2>2, <2>3
<1>4. QED BY <1>1, <1>3 DEF OrderInv, Sorted

placeVars == <<delivered, process, frameItem, frameQueue, frameOp, codec, decode, packetItem,
               packetQueue, packetOp>>

LEMMA PlacesKept ==
    ASSUME Inv, OrderInv, UNCHANGED placeVars, position' \in {position, position + 1}
    PROVE  OrderInv'
<1>1. \A k \in 1..8 : \A n \in Positions : At(k, n)' => At(k, n)
  BY DEF placeVars, At, Member
<1>2. QED BY <1>1, LossKeepsOrder DEF OrderInv, placeVars, Sorted

LEMMA ClientStepOrder ==
    ASSUME Inv, OrderInv, NEW c \in Clients,
           Start(c) \/ Pause(c) \/ Resume(c) \/ StopQuits(c) \/ ClientGoesOn(c)
    PROVE  OrderInv'
<1>1. CASE Start(c)
  <2>1. /\ UNCHANGED <<packetVars, frameVars, codec, delivered, position>>
        /\ process' # "reading" /\ decode' # "reading"
    BY <1>1 DEF Start
  <2>2. \A k \in 1..8 : \A n \in Positions : At(k, n)' => At(k, n)
    BY <2>1 DEF At, Member, packetVars, frameVars
  <2>3. QED BY <2>1, <2>2, LossKeepsOrder DEF OrderInv, Sorted
<1>2. CASE ~ Start(c)
  <2>1. UNCHANGED placeVars /\ UNCHANGED position
    BY <1>2 DEF Pause, Resume, StopQuits, ClientGoesOn, ResumeNotifies, StopUnpauses,
           StopNotifies, StopJoins, placeVars, packetVars, frameVars, demuxVars, decodeVars,
           processVars
  <2>2. QED BY <2>1, PlacesKept
<1>3. QED BY <1>1, <1>2

(* Between its file and its channel the demux thread holds the packet it has  *)
(* read last.                                                                 *)
LEMMA DemuxStepOrder ==
    ASSUME Inv, OrderInv, PacketWake, DemuxStep
    PROVE  OrderInv'
<1>0. packetOp \in [{Demux, Decode} -> PacketCh!OpStates]
      /\ packetItem \in [{Demux, Decode} -> Positions \cup {NoValue}]
  BY DEF Inv, Types
<1>1. CASE DemuxChecksPause \/ DemuxFallsAsleep \/ DemuxChecksQuit \/ DemuxReadsNothing
           \/ DemuxReadsOther
  <2>1. UNCHANGED placeVars /\ position' \in {position, position + 1}
    BY <1>1 DEF DemuxChecksPause, DemuxFallsAsleep, DemuxChecksQuit, DemuxReadsNothing,
           DemuxReadsOther, NextPosition, DemuxGoes, placeVars, packetVars, frameVars,
           decodeVars, processVars
  <2>2. QED BY <2>1, PlacesKept
<1>2. CASE DemuxReadsVideo
  <2>1. /\ UNCHANGED <<delivered, process, frameVars, codec, decode, packetQueue>>
        /\ position' = position + 1
        /\ packetItem' = [packetItem EXCEPT ![Demux] = position']
    BY <1>2 DEF DemuxReadsVideo, NextPosition, PacketCh!BeginWrite, DemuxGoes, decodeVars,
           processVars
  <2>2. packetItem'[Demux] = position' /\ packetItem'[Decode] = packetItem[Decode]
    BY <1>0, <2>1
  <2>3. ASSUME NEW k \in 1..8, NEW n \in Positions, At(k, n)'
        PROVE  At(k, n) \/ (k = 8 /\ n = position')
    <3>1. CASE k = 8
      BY <2>2, <2>3, <3>1 DEF At
    <3>2. CASE k # 8
      BY <2>1, <2>2, <2>3, <3>2 DEF At, Member, frameVars
    <3>3. QED BY <3>1, <3>2
  <2>4. Ordered
    BY DEF OrderInv
  <2>5. QED BY <2>1, <2>3, <2>4, EntryKeepsOrder DEF OrderInv, Sorted
<1>3. CASE DemuxHasWritten \/ DemuxCloses \/ DemuxEnds
  <2>1. /\ UNCHANGED <<delivered, process, frameVars, codec, decode, packetQueue, packetItem,
                       position>>
        /\ packetOp'[Demux] \notin {"write", "writeWaits"}
    BY <1>0, <1>3 DEF DemuxHasWritten, DemuxCloses, DemuxEnds, PacketCh!End, PacketCh!BeginClose,
           PacketCh!Goes, DemuxGoes, decodeVars, processVars
  <2>2. \A k \in 1..8 : \A n \in Positions : At(k, n)' => At(k, n)
    BY <2>1 DEF At, Member, frameVars
  <2>3. QED BY <2>1, <2>2, LossKeepsOrder DEF OrderInv, Sorted
<1>4. CASE UsesPacketCh(Demux)
  BY <1>4, PacketStepOrder
<1>5. QED BY <1>1, <1>2, <1>3, <1>4 DEF DemuxStep

(* The decode thread puts what it has read into the codec, and what the codec *)
(* gives first into the frame channel.                                        *)
LEMMA DecodeStepOrder ==
    ASSUME Inv, OrderInv, PacketWake, FrameWake, DecodeStep
    PROVE  OrderInv'
<1>0. /\ packetOp \in [{Demux, Decode} -> PacketCh!OpStates]
      /\ packetItem \in [{Demux, Decode} -> Positions \cup {NoValue}]
      /\ frameOp \in [{Decode, Process} -> FrameCh!OpStates]
      /\ frameItem \in [{Decode, Process} -> Positions \cup {NoValue}]
      /\ codec \in Seq(Positions) /\ Ordered /\ Sorted(codec)
  BY DEF Inv, Types, OrderInv
<1>1. CASE DecodeReads
  <2>1. /\ UNCHANGED <<delivered, process, frameVars, codec, packetQueue, position>>
        /\ packetItem'[Decode] = NoValue /\ packetItem'[Demux] = packetItem[Demux]
        /\ packetOp'[Demux] = packetOp[Demux]
    BY <1>0, <1>1 DEF DecodeReads, PacketCh!BeginRead, PacketCh!Goes, DecodeGoes, demuxVars,
           processVars
  <2>2. \A k \in 1..8 : \A n \in Positions : At(k, n)' => At(k, n)
    BY <2>1 DEF At, Member, frameVars
  <2>3. QED BY <2>1, <2>2, LossKeepsOrder DEF OrderInv, Sorted
<1>2. CASE DecodeSendsPacket
  <2>1. /\ UNCHANGED <<delivered, process, frameVars, packetQueue, packetItem, position>>
        /\ packetOp'[Demux] = packetOp[Demux]
        /\ decode = "reading" /\ decode' # "reading" /\ packetItem[Decode] \in Positions
        /\ codec' = codec \/ codec' = Append(codec, packetItem[Decode])
    BY <1>0, <1>2 DEF DecodeSendsPacket, PacketCh!End, PacketCh!Goes, DecodeGoes, demuxVars,
           processVars
  <2>2. /\ At(6, packetItem[Decode])
        /\ \A n \in Positions : Member(codec, n) => n < packetItem[Decode]
    <3>1. At(6, packetItem[Decode]) /\ \A n \in Positions : Member(codec, n) => At(5, n)
      BY <2>1 DEF At
    <3>2. QED BY <1>0, <2>1, <3>1 DEF Ordered
  <2>3. /\ Sorted(codec')
        /\ \A n : Member(codec', n) => Member(codec, n) \/ n = packetItem[Decode]
    <3>1. CASE codec' = codec
      BY <1>0, <3>1 DEF Sorted, Member
    <3>2. CASE codec' = Append(codec, packetItem[Decode])
      <4>1. Sorted(Append(codec, packetItem[Decode]))
        BY <1>0, <2>1, <2>2, AppendOne
      <4>2. \A n : Member(Append(codec, packetItem[Decode]), n) =>
                Member(codec, n) \/ n = packetItem[Decode]
        BY <1>0, <2>1, AppendOne
      <4>3. QED BY <3>2, <4>1, <4>2
    <3>3. QED BY <2>1, <3>1, <3>2
  <2>4. ASSUME NEW k \in 1..8, NEW n \in Positions, At(k, n)'
        PROVE  \/ At(k, n) /\ (k = 6 => packetItem[Decode] < n)
               \/ k = 6 - 1 /\ n = packetItem[Decode]
    <3>1. CASE k = 5
      BY <2>3, <2>4, <3>1 DEF At, Member
    <3>2. CASE k = 6
      BY <2>1, <2>4, <3>2 DEF At
    <3>3. CASE k \notin {5, 6}
      BY <2>1, <2>4, <3>3 DEF At, Member, frameVars
    <3>4. QED BY <3>1, <3>2, <3>3
  <2>5. 6 \in 2..8 /\ UNCHANGED position
    BY <2>1
  <2>6. Ordered'
    BY <1>0, <2>1, <2>2, <2>4, <2>5, MoveKeepsOrder, Zenon
  <2>7. Sorted(delivered)' /\ Sorted(codec)' /\ delivered' \in Seq(Positions)
    BY <2>1, <2>3 DEF OrderInv, Sorted
  <2>8. QED BY <2>6, <2>7 DEF OrderInv
<1>3. CASE DecodeSendsGarbage
  <2>1. /\ UNCHANGED <<delivered, process, frameVars, codec, packetQueue, packetItem, position>>
        /\ packetOp'[Demux] = packetOp[Demux] /\ packetItem[Decode] = NoValue
    BY <1>0, <1>3 DEF DecodeSendsGarbage, PacketCh!End, PacketCh!Goes, DecodeGoes, demuxVars,
           processVars
  <2>2. \A k \in 1..8 : \A n \in Positions : At(k, n)' => At(k, n)
    BY <2>1 DEF At, Member, frameVars
  <2>3. QED BY <2>1, <2>2, LossKeepsOrder DEF OrderInv, Sorted
<1>4. CASE DecodeReceives
  <2>1. /\ UNCHANGED <<delivered, process, packetVars, frameQueue, position>>
        /\ frameItem'[Decode] = Head(codec) /\ frameItem'[Process] = frameItem[Process]
        /\ decode' # "reading" /\ codec # << >> /\ codec' = Tail(codec)
    BY <1>0, <1>4 DEF DecodeReceives, FrameCh!BeginWrite, FrameCh!Goes, DecodeGoes, demuxVars,
           processVars
  <2>2. /\ Head(codec) \in Positions /\ Member(codec, Head(codec)) /\ Sorted(codec')
        /\ \A n \in Positions : Member(codec', n) => Member(codec, n) /\ Head(codec) < n
    BY <1>0, <2>1, TakeOne
  <2>3. At(5, Head(codec))
    BY <2>2 DEF At
  <2>4. ASSUME NEW k \in 1..8, NEW n \in Positions, At(k, n)'
        PROVE  \/ At(k, n) /\ (k = 5 => Head(codec) < n)
               \/ k = 5 - 1 /\ n = Head(codec)
    <3>1. CASE k = 4
      BY <2>1, <2>4, <3>1 DEF At
    <3>2. CASE k = 5
      <4>1. Member(codec', n)
        BY <2>4, <3>2 DEF At, Member
      <4>2. QED BY <2>2, <3>2, <4>1 DEF At
    <3>3. CASE k \notin {4, 5}
      BY <2>1, <2>4, <3>3 DEF At, Member, packetVars
    <3>4. QED BY <3>1, <3>2, <3>3
  <2>5. 5 \in 2..8 /\ UNCHANGED position
    BY <2>1
  <2>6. Ordered'
    BY <1>0, <2>2, <2>3, <2>4, <2>5, MoveKeepsOrder, Zenon
  <2>7. Sorted(delivered)' /\ Sorted(codec)' /\ delivered' \in Seq(Positions)
    BY <2>1, <2>2 DEF OrderInv, Sorted
  <2>8. QED BY <2>6, <2>7 DEF OrderInv
<1>5. CASE DecodeReceivesError
  <2>1. /\ UNCHANGED <<delivered, process, packetVars, frameVars, position>>
        /\ decode' # "reading" /\ codec # << >> /\ codec' = Tail(codec)
    BY <1>5 DEF DecodeReceivesError, DecodeGoes, demuxVars, processVars
  <2>2. Sorted(codec') /\ \A n : Member(codec', n) => Member(codec, n)
    BY <1>0, <2>1, TakeOne
  <2>3. \A k \in 1..8 : \A n \in Positions : At(k, n)' => At(k, n)
    BY <2>1, <2>2 DEF At, Member, packetVars, frameVars
  <2>4. Sorted(delivered)' /\ Sorted(codec)' /\ delivered' \in Seq(Positions)
    BY <2>1, <2>2 DEF OrderInv, Sorted
  <2>5. QED BY <1>0, <2>1, <2>3, <2>4, LossKeepsOrder DEF OrderInv
<1>6. CASE DecodeReceivesNothing
  <2>1. /\ UNCHANGED <<delivered, process, packetVars, frameVars, codec, position>>
        /\ decode' # "reading"
    BY <1>6 DEF DecodeReceivesNothing, DecodeGoes, demuxVars, processVars
  <2>2. \A k \in 1..8 : \A n \in Positions : At(k, n)' => At(k, n)
    BY <2>1 DEF At, Member, packetVars, frameVars
  <2>3. QED BY <2>1, <2>2, LossKeepsOrder DEF OrderInv, Sorted
<1>7. CASE DecodeHasWritten \/ DecodeCloses \/ DecodeEnds
  <2>1. /\ UNCHANGED <<delivered, process, packetVars, frameQueue, frameItem, codec, position>>
        /\ decode' # "reading" /\ frameOp'[Decode] \notin {"write", "writeWaits"}
    BY <1>0, <1>7 DEF DecodeHasWritten, DecodeCloses, DecodeEnds, FrameCh!End, FrameCh!BeginClose,
           FrameCh!Goes, DecodeGoes, demuxVars, processVars
  <2>2. \A k \in 1..8 : \A n \in Positions : At(k, n)' => At(k, n)
    BY <2>1 DEF At, Member, packetVars
  <2>3. QED BY <2>1, <2>2, LossKeepsOrder DEF OrderInv, Sorted
<1>8. CASE UsesPacketCh(Decode) \/ UsesFrameCh(Decode)
  BY <1>8, PacketStepOrder, FrameStepOrder
<1>9. QED BY <1>1, <1>2, <1>3, <1>4, <1>5, <1>6, <1>7, <1>8 DEF DecodeStep

LEMMA ProcessStepOrder ==
    ASSUME Inv, OrderInv, FrameWake, ProcessStep
    PROVE  OrderInv'
<1>0. /\ frameOp \in [{Decode, Process} -> FrameCh!OpStates]
      /\ frameItem \in [{Decode, Process} -> Positions \cup {NoValue}]
      /\ delivered \in Seq(Positions) /\ Ordered /\ Sorted(delivered)
  BY DEF Inv, Types, OrderInv
<1>1. CASE ProcessChecksQuit \/ ProcessTakesGarbage \/ (ProcessTakesFrame /\ ~ Selected)
  <2>1. /\ UNCHANGED <<delivered, packetVars, frameQueue, codec, decode, position>>
        /\ frameOp'[Decode] = frameOp[Decode] /\ frameItem'[Decode] = frameItem[Decode]
        /\ process' # "reading" \/ frameItem'[Process] = NoValue
    BY <1>0, <1>1 DEF ProcessChecksQuit, ProcessTakesGarbage, ProcessTakesFrame, FrameCh!BeginRead,
           FrameCh!End, FrameCh!Goes, frameVars, demuxVars, decodeVars
  <2>2. \A k \in 1..8 : \A n \in Positions : At(k, n)' => At(k, n)
    BY <2>1 DEF At, Member, packetVars
  <2>3. QED BY <2>1, <2>2, LossKeepsOrder DEF OrderInv, Sorted
<1>2. CASE ProcessTakesFrame /\ Selected
  <2>1. /\ UNCHANGED <<packetVars, frameQueue, frameItem, codec, decode, position>>
        /\ frameOp'[Decode] = frameOp[Decode]
        /\ process = "reading" /\ process' # "reading" /\ frameItem[Process] \in Positions
        /\ delivered' = Append(delivered, frameItem[Process])
    BY <1>0, <1>2 DEF ProcessTakesFrame, FrameCh!End, FrameCh!Goes, demuxVars, decodeVars
  <2>2. /\ At(2, frameItem[Process])
        /\ \A n \in Positions : Member(delivered, n) => n < frameItem[Process]
    <3>1. At(2, frameItem[Process]) /\ \A n \in Positions : Member(delivered, n) => At(1, n)
      BY <2>1 DEF At
    <3>2. QED BY <1>0, <2>1, <3>1 DEF Ordered
  <2>3. Sorted(delivered') /\ delivered' \in Seq(Positions)
    BY <1>0, <2>1, <2>2, AppendOne
  <2>4. \A n : Member(delivered', n) => Member(delivered, n) \/ n = frameItem[Process]
    BY <1>0, <2>1, AppendOne
  <2>5. ASSUME NEW k \in 1..8, NEW n \in Positions, At(k, n)'
        PROVE  \/ At(k, n) /\ (k = 2 => frameItem[Process] < n)
               \/ k = 2 - 1 /\ n = frameItem[Process]
    <3>1. CASE k = 1
      BY <2>4, <2>5, <3>1 DEF At, Member
    <3>2. CASE k = 2
      BY <2>1, <2>5, <3>2 DEF At
    <3>3. CASE k \notin {1, 2}
      BY <2>1, <2>5, <3>3 DEF At, Member, packetVars
    <3>4. QED BY <3>1, <3>2, <3>3
  <2>6. 2 \in 2..8 /\ UNCHANGED position
    BY <2>1
  <2>7. Ordered'
    BY <1>0, <2>1, <2>2, <2>5, <2>6, MoveKeepsOrder, Zenon
  <2>8. Sorted(codec)'
    BY <2>1 DEF OrderInv, Sorted
  <2>9. QED BY <2>3, <2>7, <2>8 DEF OrderInv, Sorted
<1>3. CASE UsesFrameCh(Process)
  BY <1>3, FrameStepOrder
<1>4. QED BY <1>1, <1>2, <1>3 DEF ProcessStep

LEMMA OrderStep ==
    ASSUME Inv, PacketWake, FrameWake, OrderInv, [Next]_vars
    PROVE  OrderInv'
<1>1. CASE UNCHANGED vars
  <2>1. UNCHANGED placeVars /\ UNCHANGED position
    BY <1>1 DEF vars, placeVars, packetVars, frameVars, demuxVars, decodeVars, processVars
  <2>2. QED BY <2>1, PlacesKept
<1>2. CASE Next
  BY <1>2, ClientStepOrder, DemuxStepOrder, DecodeStepOrder, ProcessStepOrder DEF Next, ThreadStep
<1>3. QED BY <1>1, <1>2

(* Two pieces of Line, the second all later than the first.                   *)
LEMMA Joined ==
    ASSUME NEW s \in Seq(Positions), NEW t \in Seq(Positions), Sorted(s), Sorted(t),
           \A m, n \in Positions : Member(s, m) /\ Member(t, n) => m < n
    PROVE  /\ s \o t \in Seq(Positions) /\ Sorted(s \o t)
           /\ \A n : Member(s \o t, n) => Member(s, n) \/ Member(t, n)
<1>1. /\ s \o t \in Seq(Positions) /\ Len(s) \in Nat /\ Len(t) \in Nat
      /\ Len(s \o t) = Len(s) + Len(t)
  OBVIOUS
<1>2. ASSUME NEW i \in 1..Len(s \o t)
      PROVE  \/ i \in 1..Len(s) /\ (s \o t)[i] = s[i] /\ s[i] \in Positions
             \/ /\ i > Len(s) /\ i - Len(s) \in 1..Len(t)
                /\ (s \o t)[i] = t[i - Len(s)] /\ t[i - Len(s)] \in Positions
  BY <1>1
<1>3. \A n : Member(s \o t, n) => Member(s, n) \/ Member(t, n)
  BY <1>2 DEF Member
<1>4. ASSUME NEW i \in 1..Len(s \o t), NEW j \in 1..Len(s \o t), i < j
      PROVE  (s \o t)[i] < (s \o t)[j]
  <2>1. CASE j \in 1..Len(s) /\ (s \o t)[j] = s[j]
    <3>1. i \in 1..Len(s) /\ (s \o t)[i] = s[i]
      BY <1>1, <1>2, <1>4, <2>1
    <3>2. QED BY <1>4, <2>1, <3>1 DEF Sorted
  <2>2. CASE i > Len(s)
    <3>1. /\ i - Len(s) \in 1..Len(t) /\ j - Len(s) \in 1..Len(t) /\ i - Len(s) < j - Len(s)
          /\ (s \o t)[i] = t[i - Len(s)] /\ (s \o t)[j] = t[j - Len(s)]
      BY <1>1, <1>2, <1>4, <2>2
    <3>2. QED BY <3>1 DEF Sorted
  <2>3. CASE i \in 1..Len(s) /\ j > Len(s)
    <3>1. Member(s, (s \o t)[i]) /\ (s \o t)[i] \in Positions
      BY <1>1, <1>2, <2>3 DEF Member
    <3>2. /\ j - Len(s) \in 1..Len(t) /\ (s \o t)[j] = t[j - Len(s)]
          /\ t[j - Len(s)] \in Positions
      BY <1>1, <1>2, <2>3
    <3>3. Member(t, (s \o t)[j]) /\ (s \o t)[j] \in Positions
      BY <3>2 DEF Member
    <3>4. QED BY <3>1, <3>3
  <2>4. QED BY <1>1, <1>2, <2>1, <2>2, <2>3
<1>5. QED BY <1>1, <1>3, <1>4 DEF Sorted

(* A piece of Line: in order, and from the places j to k.                     *)
Holds(s, j, k) ==
    /\ s \in Seq(Positions) /\ Sorted(s)
    /\ \A n : Member(s, n) => \E l \in j..k : At(l, n)

LEMMA NextPiece ==
    ASSUME Ordered, NEW k \in 1..7, NEW s, Holds(s, 1, k), NEW t, Holds(t, k + 1, k + 1)
    PROVE  Holds(s \o t, 1, k + 1)
<1>1. ASSUME NEW m \in Positions, NEW n \in Positions, Member(s, m), Member(t, n)
      PROVE  m < n
  <2>1. PICK l \in 1..k : At(l, m)
    BY <1>1 DEF Holds
  <2>2. At(k + 1, n)
    BY <1>1 DEF Holds
  <2>3. l \in 1..8 /\ k + 1 \in 1..8 /\ l < k + 1
    OBVIOUS
  <2>4. QED BY <2>1, <2>2, <2>3 DEF Ordered
<1>2. s \in Seq(Positions) /\ t \in Seq(Positions) /\ Sorted(s) /\ Sorted(t)
  BY DEF Holds
<1>3. /\ s \o t \in Seq(Positions) /\ Sorted(s \o t)
      /\ \A n : Member(s \o t, n) => Member(s, n) \/ Member(t, n)
  BY <1>1, <1>2, Joined
<1>4. ASSUME NEW n, Member(s \o t, n)
      PROVE  \E l \in 1..(k + 1) : At(l, n)
  <2>1. CASE Member(s, n)
    BY <2>1 DEF Holds
  <2>2. CASE Member(t, n)
    BY <2>2 DEF Holds
  <2>3. QED BY <1>3, <1>4, <2>1, <2>2
<1>5. QED BY <1>3, <1>4 DEF Holds

LEMMA OneInHand ==
    ASSUME NEW s, NEW value, NEW k \in 1..8,
           s = << >> \/ (s = <<value>> /\ value \in Positions /\ At(k, value))
    PROVE  Holds(s, k, k)
<1>1. CASE s = <<value>> /\ value \in Positions /\ At(k, value)
  <2>1. s \in Seq(Positions) /\ Len(s) = 1 /\ s[1] = value
    BY <1>1
  <2>2. k \in k..k /\ \A i, j \in 1..1 : i = 1 /\ ~ i < j
    OBVIOUS
  <2>3. (\A n : Member(s, n) => n = value) /\ Sorted(s)
    BY <2>1, <2>2 DEF Member, Sorted
  <2>4. QED BY <1>1, <2>1, <2>2, <2>3 DEF Holds
<1>2. CASE s = << >>
  BY <1>2 DEF Holds, Member, Sorted
<1>3. QED BY <1>1, <1>2

LEMMA ShortIsSorted ==
    ASSUME NEW s \in Seq(Positions), Len(s) <= 1
    PROVE  Sorted(s)
BY DEF Sorted

LEMMA StartsInOrder == Init => PacketWake /\ FrameWake /\ OrderInv
<1> SUFFICES ASSUME Init PROVE PacketWake /\ FrameWake /\ OrderInv
  OBVIOUS
<1>1. PacketWake /\ FrameWake
  BY DEF Init, PacketWake, FrameWake, PacketCh!ChannelInit, FrameCh!ChannelInit,
         PacketCh!Threads, FrameCh!Threads
<1>2. /\ delivered = << >> /\ codec = << >> /\ packetQueue = << >> /\ frameQueue = << >>
      /\ process = "none" /\ decode = "none"
      /\ frameOp[Decode] = "none" /\ packetOp[Demux] = "none"
  BY DEF Init, PacketCh!ChannelInit, FrameCh!ChannelInit, PacketCh!Threads, FrameCh!Threads
<1>3. \A k \in 1..8 : \A n \in Positions : ~ At(k, n)
  BY <1>2, NoMembers DEF At
<1>4. Ordered
  BY <1>3 DEF Ordered
<1>5. delivered \in Seq(Positions) /\ Sorted(delivered) /\ Sorted(codec)
  BY <1>2 DEF Sorted
<1>6. QED BY <1>1, <1>2, <1>4, <1>5 DEF OrderInv

(* The frames reach the callbacks in the order of the file and none twice,    *)
(* for a file of any length, any codec delay and any clients.                 *)
THEOREM FramesStayInOrder == Spec => []FramesInOrder
<1>1. Init => PacketWake /\ FrameWake /\ OrderInv
  BY StartsInOrder
<1>2. Inv /\ PacketWake /\ FrameWake /\ OrderInv => FramesInOrder
  <2> SUFFICES ASSUME Inv, PacketWake, FrameWake, OrderInv PROVE FramesInOrder
    OBVIOUS
  <2> DEFINE pieceOne   == delivered
             pieceTwo   == InHand(process = "reading" /\ frameItem[Process] # NoValue,
                                  frameItem[Process])
             pieceThree == frameQueue
             pieceFour  == InHand(frameOp[Decode] \in {"write", "writeWaits"}, frameItem[Decode])
             pieceFive  == codec
             pieceSix   == InHand(decode = "reading" /\ packetItem[Decode] # NoValue,
                                  packetItem[Decode])
             pieceSeven == packetQueue
             pieceEight == InHand(packetOp[Demux] \in {"write", "writeWaits"}, packetItem[Demux])
  <2>0. /\ packetItem \in [{Demux, Decode} -> Positions \cup {NoValue}]
        /\ frameItem \in [{Decode, Process} -> Positions \cup {NoValue}]
    BY DEF Inv, Types
  <2>1. Holds(pieceOne, 1, 1)
    BY DEF OrderInv, Holds, At
  <2>2. Holds(pieceTwo, 2, 2)
    <3>1. \/ pieceTwo = << >>
          \/ /\ pieceTwo = <<frameItem[Process]>> /\ frameItem[Process] \in Positions
             /\ At(2, frameItem[Process])
      BY <2>0 DEF At, InHand
    <3>2. 2 \in 1..8
      OBVIOUS
    <3>3. QED BY <3>1, <3>2, OneInHand
  <2>3. Holds(pieceThree, 3, 3)
    BY ShortIsSorted DEF Holds, At, FrameWake, Inv, Types
  <2>4. Holds(pieceFour, 4, 4)
    <3>1. \/ pieceFour = << >>
          \/ /\ pieceFour = <<frameItem[Decode]>> /\ frameItem[Decode] \in Positions
             /\ At(4, frameItem[Decode])
      BY DEF Inv, FrameInv, At, InHand
    <3>2. 4 \in 1..8
      OBVIOUS
    <3>3. QED BY <3>1, <3>2, OneInHand
  <2>5. Holds(pieceFive, 5, 5)
    BY DEF OrderInv, Holds, At, Inv, Types
  <2>6. Holds(pieceSix, 6, 6)
    <3>1. \/ pieceSix = << >>
          \/ /\ pieceSix = <<packetItem[Decode]>> /\ packetItem[Decode] \in Positions
             /\ At(6, packetItem[Decode])
      BY <2>0 DEF At, InHand
    <3>2. 6 \in 1..8
      OBVIOUS
    <3>3. QED BY <3>1, <3>2, OneInHand
  <2>7. Holds(pieceSeven, 7, 7)
    BY ShortIsSorted DEF Holds, At, PacketWake, Inv, Types
  <2>8. Holds(pieceEight, 8, 8)
    <3>1. \/ pieceEight = << >>
          \/ /\ pieceEight = <<packetItem[Demux]>> /\ packetItem[Demux] \in Positions
             /\ At(8, packetItem[Demux])
      BY DEF Inv, PacketInv, At, InHand
    <3>2. 8 \in 1..8
      OBVIOUS
    <3>3. QED BY <3>1, <3>2, OneInHand
  <2> DEFINE upToTwo   == pieceOne \o pieceTwo
             upToThree == upToTwo \o pieceThree
             upToFour  == upToThree \o pieceFour
             upToFive  == upToFour \o pieceFive
             upToSix   == upToFive \o pieceSix
             upToSeven == upToSix \o pieceSeven
             upToEight == upToSeven \o pieceEight
  <2>9. Line = upToEight
    BY DEF Line
  <2> HIDE DEF pieceOne, pieceTwo, pieceThree, pieceFour, pieceFive, pieceSix, pieceSeven,
               pieceEight
  <2>10. Ordered
    BY DEF OrderInv
  <2>11. Holds(upToTwo, 1, 2)
    BY <2>1, <2>2, <2>10, NextPiece, 1 + 1 = 2, 1 \in 1..7
  <2> HIDE DEF upToTwo
  <2>12. Holds(upToThree, 1, 3)
    BY <2>3, <2>10, <2>11, NextPiece, 2 + 1 = 3, 2 \in 1..7
  <2> HIDE DEF upToThree
  <2>13. Holds(upToFour, 1, 4)
    BY <2>4, <2>10, <2>12, NextPiece, 3 + 1 = 4, 3 \in 1..7
  <2> HIDE DEF upToFour
  <2>14. Holds(upToFive, 1, 5)
    BY <2>5, <2>10, <2>13, NextPiece, 4 + 1 = 5, 4 \in 1..7
  <2> HIDE DEF upToFive
  <2>15. Holds(upToSix, 1, 6)
    BY <2>6, <2>10, <2>14, NextPiece, 5 + 1 = 6, 5 \in 1..7
  <2> HIDE DEF upToSix
  <2>16. Holds(upToSeven, 1, 7)
    BY <2>7, <2>10, <2>15, NextPiece, 6 + 1 = 7, 6 \in 1..7
  <2> HIDE DEF upToSeven
  <2>17. Holds(upToEight, 1, 8)
    BY <2>8, <2>10, <2>16, NextPiece, 7 + 1 = 8, 7 \in 1..7
  <2> HIDE DEF upToEight
  <2>18. QED BY <2>9, <2>17 DEF Holds, Sorted, FramesInOrder
<1>3. QED BY <1>1, <1>2, Invariance, WakeStep, OrderStep, PTL DEF Spec

-------------------------------------------------------------------------------
(* Types. *)

(* The codec is fed only when it has asked for more.                          *)
CodecInv ==
    /\ Len(codec) <= Delay + 1
    /\ decode \in {"none", "read", "reading"} /\ ~ draining => Len(codec) <= Delay

TypeInv ==
    /\ {packetClosed, frameClosed, started, quit, paused, draining, crashed} \subseteq BOOLEAN
    /\ at \in [Clients -> ClientStates]
    /\ demux \in DemuxStates /\ decode \in DecodeStates /\ process \in ProcessStates
    /\ frameId \in 0..(WarmUp + Skip)
    /\ overrun \in 0..position
    /\ CodecInv

LEMMA IdStaysSmall ==
    ASSUME NEW n \in Nat, frameId \in 0..(WarmUp + Skip)
    PROVE  IdAfter(n) \in 0..(WarmUp + Skip)
<1>1. /\ WarmUp \in Nat /\ Skip \in Nat \ {0} /\ frameId + n \in Nat
  BY OptionsAssumption
<1>2. CASE frameId + n <= WarmUp
  BY <1>1, <1>2 DEF IdAfter
<1>3. CASE ~ frameId + n <= WarmUp
  <2>1. frameId + n - WarmUp - 1 \in Nat
    BY <1>1, <1>3
  <2>2. (frameId + n - WarmUp - 1) % Skip \in 0..(Skip - 1)
    BY <1>1, <2>1
  <2>3. IdAfter(n) = WarmUp + 1 + ((frameId + n - WarmUp - 1) % Skip)
    BY <1>1, <1>3 DEF IdAfter
  <2>4. QED BY <1>1, <2>2, <2>3
<1>4. QED BY <1>2, <1>3

LEMMA ChannelTypeStep ==
    ASSUME Inv, TypeInv, [Next]_vars
    PROVE  {packetClosed', frameClosed'} \subseteq BOOLEAN
<1>1. packetClosed' \in {packetClosed, TRUE} /\ frameClosed' \in {frameClosed, TRUE}
  BY DEF Next, ThreadStep, DemuxStep, DecodeStep, ProcessStep, vars, packetVars, frameVars, Start,
         Pause, Resume, StopQuits, ClientGoesOn, ResumeNotifies, StopUnpauses, StopNotifies,
         StopJoins, DemuxGoes, DemuxChecksPause, DemuxFallsAsleep, DemuxChecksQuit, DemuxReadsVideo,
         DemuxReadsOther, DemuxReadsNothing, DemuxHasWritten, DemuxCloses, DemuxEnds,
         DecodeReads, DecodeSendsPacket, DecodeSendsGarbage, DecodeReceives, DecodeReceivesError,
         DecodeReceivesNothing, DecodeHasWritten, DecodeCloses, DecodeEnds,
         ProcessChecksQuit, ProcessTakesFrame, ProcessTakesGarbage, UsesPacketCh, UsesFrameCh,
         PacketCh!BeginWrite, PacketCh!BeginRead, PacketCh!BeginClose, PacketCh!End, PacketCh!Step,
         PacketCh!Write, PacketCh!WriteWaits, PacketCh!Read, PacketCh!ReadFindsClosed,
         PacketCh!ReadWaits, PacketCh!FallAsleep, PacketCh!Notify, PacketCh!NotifyAll,
         FrameCh!BeginWrite, FrameCh!BeginRead, FrameCh!BeginClose, FrameCh!End, FrameCh!Step,
         FrameCh!Write, FrameCh!WriteWaits, FrameCh!Read, FrameCh!ReadFindsClosed,
         FrameCh!ReadWaits, FrameCh!FallAsleep, FrameCh!Notify, FrameCh!NotifyAll
<1>2. QED BY <1>1 DEF TypeInv

LEMMA TypeStep ==
    ASSUME Inv, TypeInv, [Next]_vars
    PROVE  TypeInv'
<1> USE DEF TypeInv, CodecInv
<1>0. /\ Delay \in Nat /\ FileLength \in Nat /\ position \in 0..FileLength
      /\ codec \in Seq(Positions) /\ Len(codec) \in Nat
  BY DEF Inv, Types
<1>1. {packetClosed', frameClosed'} \subseteq BOOLEAN
  BY ChannelTypeStep
<1>2. ASSUME NEW c \in Clients,
             Start(c) \/ Pause(c) \/ Resume(c) \/ StopQuits(c) \/ ClientGoesOn(c)
      PROVE  TypeInv'
  <2>1. /\ UNCHANGED <<packetVars, frameVars, position, codec, draining, frameId, crashed>>
        /\ overrun' \in {overrun, 0}
        /\ {started', quit', paused'} \subseteq BOOLEAN
    BY <1>2 DEF Start, Pause, Resume, StopQuits, ClientGoesOn, ResumeNotifies, StopUnpauses,
           StopNotifies, StopJoins, decodeVars, processVars, demuxVars
  <2>2. at' \in [Clients -> ClientStates]
    BY <1>2 DEF Start, Pause, Resume, StopQuits, ClientGoesOn, ResumeNotifies, StopUnpauses,
           StopNotifies, StopJoins, Goes, ClientStates
  <2>3. /\ demux' \in DemuxStates /\ process' \in ProcessStates
        /\ UNCHANGED decode \/ (decode = "none" /\ decode' = "read")
    <3>1. CASE Start(c)
      <4>1. decode = "none"
        BY <3>1 DEF Start, Inv, NotStarted
      <4>2. QED BY <3>1, <4>1 DEF Start, DemuxStates, ProcessStates
    <3>2. CASE ~ Start(c)
      <4>1. demux' \in {demux, "checkPause"} /\ UNCHANGED <<process, decode>>
        BY <1>2, <3>2 DEF Pause, Resume, StopQuits, ClientGoesOn, ResumeNotifies, StopUnpauses,
               StopNotifies, StopJoins, NotifyDemux, decodeVars, processVars, demuxVars
      <4>2. QED BY <4>1 DEF DemuxStates
    <3>3. QED BY <3>1, <3>2
  <2>4. QED BY <1>0, <1>1, <2>1, <2>2, <2>3 DEF DecodeStates
<1>3. CASE DemuxStep
  <2>1. UNCHANGED <<clientVars, decodeVars, processVars, crashed>> /\ demux' \in DemuxStates
    BY <1>3 DEF DemuxStep, DemuxGoes, DemuxChecksPause, DemuxFallsAsleep, DemuxChecksQuit,
           DemuxReadsVideo, DemuxReadsOther, DemuxReadsNothing, DemuxHasWritten, DemuxCloses,
           DemuxEnds, UsesPacketCh, DemuxStates, demuxVars
  <2>2. \/ UNCHANGED <<position, overrun>>
        \/ position' = position + 1 /\ overrun' \in {overrun, overrun + 1}
    BY <1>3 DEF DemuxStep, DemuxChecksPause, DemuxFallsAsleep, DemuxChecksQuit,
           DemuxReadsVideo, DemuxReadsOther, DemuxReadsNothing, DemuxHasWritten, DemuxCloses,
           DemuxEnds, UsesPacketCh, NextPosition, demuxVars
  <2>3. QED BY <1>0, <1>1, <2>1, <2>2 DEF clientVars, decodeVars, processVars
<1>4. CASE DecodeStep
  <2>1. UNCHANGED <<clientVars, demuxVars, processVars>>
    BY <1>4 DEF DecodeStep, DecodeGoes, DecodeReads, DecodeSendsPacket, DecodeSendsGarbage,
           DecodeReceives, DecodeReceivesError, DecodeReceivesNothing, DecodeHasWritten,
           DecodeCloses, DecodeEnds, UsesPacketCh, UsesFrameCh
  <2>2. decode' \in DecodeStates /\ {draining', crashed'} \subseteq BOOLEAN
    BY <1>4 DEF DecodeStep, DecodeGoes, DecodeReads, DecodeSendsPacket, DecodeSendsGarbage,
           DecodeReceives, DecodeReceivesError, DecodeReceivesNothing, DecodeHasWritten,
           DecodeCloses, DecodeEnds, UsesPacketCh, UsesFrameCh, DecodeStates, decodeVars
  <2>3. CodecInv'
    <3>1. CASE DecodeSendsPacket
      <4>1. CASE codec' = codec /\ decode' = "close"
        BY <1>0, <3>1, <4>1
      <4>2. CASE codec' = Append(codec, packetItem[Decode]) /\ decode' = "receive" /\ ~ draining
        <5>1. Len(codec) <= Delay /\ Len(codec') = Len(codec) + 1
          BY <1>0, <3>1, <4>2 DEF DecodeSendsPacket
        <5>2. QED BY <1>0, <4>2, <5>1
      <4>3. QED BY <3>1, <4>1, <4>2 DEF DecodeSendsPacket, DecodeGoes
    <3>2. CASE DecodeReceives \/ DecodeReceivesError
      <4>1. codec # << >> /\ codec' = Tail(codec)
        BY <3>2 DEF DecodeReceives, DecodeReceivesError
      <4>2. Len(codec') = Len(codec) - 1
        BY <1>0, <4>1
      <4>3. QED BY <1>0, <4>2
    <3>3. CASE DecodeReceivesNothing
      <4>1. codec' = codec /\ draining' = draining /\ (~ draining => Len(codec) <= Delay)
        BY <3>3 DEF DecodeReceivesNothing
      <4>2. QED BY <1>0, <4>1
    <3>4. CASE DecodeReads \/ DecodeSendsGarbage \/ DecodeHasWritten \/ DecodeCloses \/ DecodeEnds
               \/ UsesPacketCh(Decode) \/ UsesFrameCh(Decode)
      <4>1. /\ codec' = codec /\ (draining => draining')
            /\ ~ draining' /\ decode' \in {"none", "read", "reading"}
                   => decode \in {"none", "read", "reading"}
        BY <3>4 DEF DecodeReads, DecodeSendsGarbage, DecodeHasWritten, DecodeCloses, DecodeEnds,
               UsesPacketCh, UsesFrameCh, DecodeGoes, decodeVars
      <4>2. QED BY <1>0, <4>1
    <3>5. QED BY <1>4, <3>1, <3>2, <3>3, <3>4 DEF DecodeStep
  <2>4. QED BY <1>0, <1>1, <2>1, <2>2, <2>3 DEF clientVars, demuxVars, processVars
<1>5. CASE ProcessStep
  <2>1. /\ UNCHANGED <<clientVars, demuxVars, decodeVars>>
        /\ process' \in ProcessStates /\ crashed' \in BOOLEAN
    BY <1>5 DEF ProcessStep, ProcessChecksQuit, ProcessTakesFrame, ProcessTakesGarbage, UsesFrameCh,
           ProcessStates, processVars
  <2>2. frameId' \in {frameId, IdAfter(1), IdAfter(Callbacks)}
    BY <1>5 DEF ProcessStep, ProcessChecksQuit, ProcessTakesFrame, ProcessTakesGarbage, UsesFrameCh,
           processVars
  <2>3. frameId' \in 0..(WarmUp + Skip)
    BY <2>2, IdStaysSmall, OptionsAssumption
  <2>4. QED BY <1>0, <1>1, <2>1, <2>3 DEF clientVars, demuxVars, decodeVars
<1>6. CASE UNCHANGED vars
  BY <1>6 DEF vars, packetVars, frameVars, clientVars, demuxVars, decodeVars, processVars
<1>7. QED BY <1>2, <1>3, <1>4, <1>5, <1>6 DEF Next, ThreadStep

(* Type correctness, the capacities of both channels and of the codec         *)
(* included.                                                                  *)
THEOREM Typing == Spec => []TypeOK
<1>1. Init => PacketWake /\ FrameWake /\ OrderInv
  BY StartsInOrder
<1>2. Init => TypeInv
  <2> SUFFICES ASSUME Init PROVE TypeInv
    OBVIOUS
  <2>1. WarmUp \in Nat /\ Skip \in Nat /\ Delay \in Nat /\ FileLength \in Nat
    BY OptionsAssumption
  <2>2. Len(codec) = 0
    BY DEF Init
  <2>3. CodecInv
    BY <2>1, <2>2 DEF CodecInv
  <2>4. at \in [Clients -> ClientStates]
    BY DEF Init, ClientStates
  <2>5. frameId \in 0..(WarmUp + Skip) /\ overrun \in 0..position
    BY <2>1 DEF Init
  <2>6. QED BY <2>3, <2>4, <2>5 DEF Init, TypeInv, DemuxStates, DecodeStates, ProcessStates,
                  PacketCh!ChannelInit, FrameCh!ChannelInit
<1>3. Inv /\ PacketWake /\ FrameWake /\ OrderInv /\ TypeInv => TypeOK
  <2> SUFFICES ASSUME Inv, PacketWake, FrameWake, OrderInv, TypeInv PROVE TypeOK
    OBVIOUS
  <2>1. PacketCh!TypeOK
    BY DEF PacketCh!TypeOK, PacketCh!Threads, PacketWake, Inv, Types, TypeInv
  <2>2. FrameCh!TypeOK
    BY DEF FrameCh!TypeOK, FrameCh!Threads, FrameWake, Inv, Types, TypeInv
  <2>3. overrun \in 0..FileLength
    BY DEF Inv, Types, TypeInv
  <2>4. QED BY <2>1, <2>2, <2>3 DEF TypeOK, TypeInv, CodecInv, OrderInv, Inv, Types
<1>4. QED BY <1>1, <1>2, <1>3, Invariance, WakeStep, OrderStep, TypeStep, PTL DEF Spec
===============================================================================
