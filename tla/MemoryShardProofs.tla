--------------------------- MODULE MemoryShardProofs ---------------------------
(***************************************************************************)
(* For any callers, operations and features: the channel of the shard is   *)
(* there whenever its loop uses it, and the shard is a linearizable set of *)
(* features in the sense of FeatureStore.  The first rests on Start and    *)
(* Stop excluding each other, and on the loop getting past its look at the *)
(* flag only when both have been through; the second on each message being *)
(* in one place, and its caller waiting for it.                            *)
(***************************************************************************)
EXTENDS MemoryShard, SequenceLemmas, TLAPS

USE NamesAssumption

Sections == {"startChannel", "startFlag", "stopWake", "stopJoin", "stopReset"}

(* Who is inside Start or Stop holds the mutex. *)
MutexInv ==
    /\ mutex \in Callers \cup {NoValue}
    /\ at \in [Callers -> CallerStates]
    /\ \A c \in Callers : at[c] \in Sections <=> mutex = c

(* What they have done so far; without them, a shard has a channel and a      *)
(* thread, though maybe one that has ended, if and only if it is not stopped. *)
ThreadInv ==
    /\ mutex = NoValue =>
           IF stopped THEN channel = "null" /\ loop = "none" ELSE channel = "live"
    /\ \A c \in Callers :
          /\ at[c] \in Sections => stopped
          /\ at[c] = "startChannel" => loop \in {"looping", "exited"}
          /\ at[c] = "startFlag" => loop \in {"looping", "exited"} /\ channel = "live"
          /\ at[c] \in {"stopWake", "stopJoin"} => channel = "live"
          /\ at[c] = "stopReset" => loop = "none"
    /\ ChannelOutlivesLoop

(* Start, Stop, and all that only moves a caller. *)
LEMMA SectionStep ==
    ASSUME MutexInv, ThreadInv, NEW c \in Callers,
           \/ StartThread(c) \/ FinishStart(c)
           \/ StopFlag(c) \/ StopReturnsAtOnce(c) \/ StopStep(c)
    PROVE  MutexInv' /\ ThreadInv'
<1> USE DEF MutexInv, ThreadInv, ChannelOutlivesLoop, Sections, CallerStates, Queries, Goes,
            stateVars, loopVars
<1>1. CASE StartThread(c)
  BY <1>1 DEF StartThread
<1>2. CASE StartChannel(c)
  BY <1>2 DEF StartChannel
<1>3. CASE StartFlag(c)
  BY <1>3 DEF StartFlag
<1>4. CASE StopFlag(c)
  BY <1>4 DEF StopFlag
<1>5. CASE StopReturnsAtOnce(c)
  BY <1>5 DEF StopReturnsAtOnce
<1>6. CASE StopWakes(c)
  BY <1>6 DEF StopWakes
<1>7. CASE StopJoins(c)
  BY <1>7 DEF StopJoins
<1>8. CASE StopResets(c)
  BY <1>8 DEF StopResets
<1>9. QED BY <1>1, <1>2, <1>3, <1>4, <1>5, <1>6, <1>7, <1>8 DEF FinishStart, StopStep

LEMMA CallStep ==
    ASSUME MutexInv, ThreadInv, NEW c \in Callers,
           FinishCall(c) \/ \E op \in Operations : Admit(c, op)
    PROVE  MutexInv' /\ ThreadInv'
<1>1. /\ UNCHANGED <<mutex, stopped, channel, loop>>
      /\ \/ UNCHANGED at
         \/ /\ at[c] \notin Sections
            /\ \E place \in CallerStates \ Sections : at' = [at EXCEPT ![c] = place]
  BY DEF FinishCall, Enqueue, EnqueueCrashes, CallReturns, LoadReturns, CloseReturns, Admit,
         Answered, Goes, Sections, CallerStates, Queries, stateVars, loopVars
<1>2. QED
  BY <1>1 DEF MutexInv, ThreadInv, ChannelOutlivesLoop, Sections

LEMMA LoopThreadStep ==
    ASSUME MutexInv, ThreadInv, LoopStep
    PROVE  MutexInv' /\ ThreadInv'
<1>1. UNCHANGED <<mutex, stopped, channel, at>>
  BY DEF LoopStep, LoopBreaks, LoopGoesOn, LoopTakes, LoopWaits, LoopReceives, LoopGetsNull,
         HandleLoad, HandleAdd, HandleRemove, HandleSearch, HandleClose, Handles, Respond,
         stateVars
<1>2. \/ loop = "looping" /\ loop' = "exited" /\ stopped
      \/ loop = "looping" /\ loop' = "dequeuing" /\ ~ stopped
      \/ /\ loop \in {"dequeuing", "waiting", "handling", "replying"}
         /\ loop' \in {"looping", "waiting", "handling", "replying"}
  BY DEF LoopStep, LoopBreaks, LoopGoesOn, LoopTakes, LoopWaits, LoopReceives, LoopGetsNull,
         HandleLoad, HandleAdd, HandleRemove, HandleSearch, HandleClose, Handles, Respond
<1>3. MutexInv'
  BY <1>1 DEF MutexInv
<1>4. ~ stopped => channel = "live"
  BY DEF MutexInv, ThreadInv, Sections
<1>5. QED
  BY <1>1, <1>2, <1>3, <1>4 DEF MutexInv, ThreadInv, ChannelOutlivesLoop, Sections

LEMMA SectionInvariance == Spec => [](MutexInv /\ ThreadInv)
<1>1. Init => MutexInv /\ ThreadInv
  BY DEF Init, MutexInv, ThreadInv, ChannelOutlivesLoop, Sections, CallerStates
<1>2. MutexInv /\ ThreadInv /\ [Next]_vars => MutexInv' /\ ThreadInv'
  <2>1. CASE UNCHANGED vars
    BY <2>1 DEF vars, stateVars, loopVars, MutexInv, ThreadInv, ChannelOutlivesLoop
  <2>2. QED BY <2>1, SectionStep, CallStep, LoopThreadStep DEF Next
<1>3. QED BY <1>1, <1>2, PTL DEF Spec

(* The loop never touches a channel that is not there, whoever starts, stops  *)
(* and closes the shard meanwhile.                                            *)
THEOREM ChannelIsThere == Spec => []ChannelOutlivesLoop
<1>1. MutexInv /\ ThreadInv => ChannelOutlivesLoop
  BY DEF ThreadInv
<1>2. QED BY <1>1, SectionInvariance, PTL

-------------------------------------------------------------------------------
(* Messages. *)

(* What the records have in them.  A batch is a sequence of ids.              *)
Types ==
    /\ at \in [Callers -> CallerStates]
    /\ request \in [Callers -> Requests \cup {NoValue}]
    /\ response \in [Callers -> SUBSET Ids]
    /\ responded \in [Callers -> BOOLEAN]
    /\ cache \subseteq Ids /\ output \subseteq Ids

(* The loop waits, has been handed a message, or works on one.                *)
LoopInv ==
    /\ nfQueue \in Seq(Callers) /\ IsInjective(nfQueue)
    /\ waitQueue \in {<< >>, <<Loop>>}
    /\ handedOver \in [{Loop} -> Callers \cup {NoValue}]
    /\ waitQueue = <<Loop>> => loop = "waiting" /\ handedOver[Loop] = NoValue
    /\ handedOver[Loop] # NoValue => loop = "waiting"
    /\ IF loop \in {"handling", "replying"} THEN serving \in Callers ELSE serving = NoValue

(* A message is in one place, and its caller waits for it.                    *)
MessageInv ==
    \A c \in Callers :
        /\ Held(c) => at[c] = "waiting" /\ ~ responded[c] /\ request[c] \in Requests
        /\ Queued(c) => handedOver[Loop] # c /\ serving # c

Inv == Types /\ LoopInv /\ MessageInv

(* A step of Start or Stop moves its caller, and may put the channel away     *)
(* while the loop does not use it.                                            *)
LEMMA SectionKeeps ==
    ASSUME Inv, MutexInv, ThreadInv, NEW c \in Callers,
           \/ StartThread(c) \/ FinishStart(c)
           \/ StopFlag(c) \/ StopReturnsAtOnce(c) \/ StopStep(c)
    PROVE  Inv'
<1>1. /\ UNCHANGED <<serving, cache, output, request, response, responded>>
      /\ at[c] # "waiting"
      /\ \E place \in CallerStates : at' = [at EXCEPT ![c] = place]
      /\ \/ UNCHANGED <<nfQueue, waitQueue, handedOver, loop>>
         \/ UNCHANGED <<nfQueue, waitQueue, handedOver>> /\ loop = "none" /\ loop' = "looping"
         \/ UNCHANGED <<nfQueue, waitQueue, handedOver>> /\ loop = "exited" /\ loop' = "none"
         \/ UNCHANGED <<nfQueue, handedOver, loop>> /\ waitQueue' = << >>
         \/ NewChannel /\ loop \in {"none", "looping", "exited"} /\ UNCHANGED loop
  BY DEF StartThread, FinishStart, StartChannel, StartFlag, StopFlag, StopReturnsAtOnce,
         StopStep, StopWakes, StopJoins, StopResets, Goes, queueVars, loopVars, msgVars,
         CallerStates, Queries, MutexInv, ThreadInv, wakeUpAll
<1>2. Types'
  BY <1>1 DEF Inv, Types
<1>3. CASE NewChannel /\ loop \in {"none", "looping", "exited"} /\ UNCHANGED loop
  <2>1. /\ nfQueue' = << >> /\ waitQueue' = << >>
        /\ handedOver' = [t \in {Loop} |-> NoValue]
    BY <1>3 DEF NewChannel
  <2>2. IsInjective(nfQueue') /\ \A m : ~ Queued(m)'
    BY <2>1 DEF IsInjective, Queued, Contains
  <2>3. QED BY <1>1, <1>2, <1>3, <2>1, <2>2 DEF Inv, LoopInv, MessageInv, Held
<1>4. CASE UNCHANGED <<nfQueue, handedOver>>
  <2>1. \A m : Queued(m)' = Queued(m)
    BY <1>4 DEF Queued
  <2>2. LoopInv'
    BY <1>1, <1>3, <1>4 DEF Inv, LoopInv, NewChannel
  <2>3. MessageInv'
    BY <1>1, <1>4, <2>1 DEF Inv, MessageInv, Held, Types
  <2>4. QED BY <1>2, <2>2, <2>3 DEF Inv
<1>5. QED BY <1>1, <1>3, <1>4

(* An enqueue puts the message of a caller that has none into one place.      *)
LEMMA EnqueueKeeps ==
    ASSUME Inv, NEW c \in Callers, Enqueue(c)
    PROVE  Inv'
<1>1. /\ at[c] # "waiting" /\ ~ Held(c)
      /\ at' = [at EXCEPT ![c] = "waiting"]
      /\ responded' = [responded EXCEPT ![c] = FALSE]
        /\ response' = [response EXCEPT ![c] = {}]
      /\ UNCHANGED <<cache, output, loop, serving>>
  BY DEF Enqueue, Goes, Queries, Inv, MessageInv, loopVars
<1>2. PICK r \in Requests : request' = [request EXCEPT ![c] = r]
  BY DEF Enqueue, Requests
<1>3. Types'
  BY <1>1, <1>2 DEF Inv, Types, CallerStates
<1>4. CASE waitQueue = << >> /\ nfQueue' = Append(nfQueue, c) /\ UNCHANGED <<waitQueue, handedOver>>
  <2>1. /\ nfQueue' \in Seq(Callers) /\ IsInjective(nfQueue')
        /\ \A m : Queued(m)' <=> Queued(m) \/ m = c
    BY <1>1, <1>4, AppendMembers DEF Inv, LoopInv, Queued, Held
  <2>2. LoopInv'
    BY <1>1, <1>4, <2>1 DEF Inv, LoopInv
  <2>3. MessageInv'
    BY <1>1, <1>2, <1>4, <2>1 DEF Inv, MessageInv, Held, Types
  <2>4. QED BY <1>3, <2>2, <2>3 DEF Inv
<1>5. CASE /\ waitQueue # << >>
           /\ handedOver' = [handedOver EXCEPT ![Head(waitQueue)] = c]
           /\ waitQueue' = Tail(waitQueue) /\ UNCHANGED nfQueue
  <2>1. /\ waitQueue' = << >> /\ handedOver[Loop] = NoValue /\ loop = "waiting"
        /\ handedOver' = [handedOver EXCEPT ![Loop] = c]
    <3>1. waitQueue = <<Loop>>
      BY <1>5 DEF Inv, LoopInv
    <3>2. Head(<<Loop>>) = Loop /\ Tail(<<Loop>>) = << >>
      OBVIOUS
    <3>3. QED BY <1>5, <3>1, <3>2 DEF Inv, LoopInv
  <2>2. \A m : Queued(m)' = Queued(m)
    BY <1>5 DEF Queued
  <2>3. LoopInv'
    BY <1>1, <1>5, <2>1 DEF Inv, LoopInv
  <2>4. MessageInv'
    BY <1>1, <1>2, <2>1, <2>2 DEF Inv, LoopInv, MessageInv, Held, Types
  <2>5. QED BY <1>3, <2>3, <2>4 DEF Inv
<1>6. QED BY <1>4, <1>5 DEF Enqueue, enqueueNotification

(* A call returns with its answer, when no place has its message.             *)
LEMMA ReturnKeeps ==
    ASSUME Inv, NEW c \in Callers,
           \/ EnqueueCrashes(c) \/ CallReturns(c) \/ LoadReturns(c) \/ CloseReturns(c)
           \/ \E op \in Operations : Admit(c, op)
    PROVE  Inv'
<1>1. /\ UNCHANGED <<nfQueue, waitQueue, handedOver, loop, serving, cache, output, request,
                     response>>
      /\ \/ UNCHANGED <<at, responded>>
         \/ /\ at[c] # "waiting" \/ responded[c]
            /\ UNCHANGED responded \/ responded' = [responded EXCEPT ![c] = FALSE]
            /\ \E place \in CallerStates : at' = [at EXCEPT ![c] = place]
  BY DEF EnqueueCrashes, CallReturns, LoadReturns, CloseReturns, Admit, Answered, Goes,
         CallerStates, Queries, queueVars, loopVars, msgVars
<1>2. Types' /\ LoopInv'
  <2>1. Types'
    BY <1>1 DEF Inv, Types
  <2>2. LoopInv'
    BY <1>1 DEF Inv, LoopInv, Types
  <2>3. QED BY <2>1, <2>2
<1>3. ~ Held(c) \/ UNCHANGED <<at, responded>>
  BY <1>1 DEF Inv, MessageInv
<1>4. \A d \in Callers : Held(d)' = Held(d) /\ Queued(d)' = Queued(d)
  BY <1>1 DEF Held, Queued
<1>5. MessageInv'
  BY <1>1, <1>3, <1>4 DEF Inv, MessageInv, Types
<1>6. QED BY <1>2, <1>5 DEF Inv

(* The loop's dealings with the channel: a message it takes leaves the place  *)
(* it was in.                                                                 *)
LEMMA DequeueKeeps ==
    ASSUME Inv, LoopBreaks \/ LoopGoesOn \/ LoopTakes \/ LoopWaits \/ LoopReceives \/ LoopGetsNull
    PROVE  Inv'
<1>1. UNCHANGED <<cache, output, at, request, response, responded>>
  BY DEF LoopBreaks, LoopGoesOn, LoopTakes, LoopWaits, LoopReceives, LoopGetsNull, msgVars
<1>2. Types'
  BY <1>1 DEF Inv, Types
<1>3. CASE LoopBreaks \/ LoopGoesOn
  <2>1. /\ UNCHANGED <<nfQueue, waitQueue, handedOver, serving>>
        /\ loop = "looping" /\ loop' \in {"exited", "dequeuing"}
    BY <1>3 DEF LoopBreaks, LoopGoesOn, queueVars
  <2>2. LoopInv' /\ MessageInv'
    BY <1>1, <2>1 DEF Inv, LoopInv, MessageInv, Held, Queued
  <2>3. QED BY <1>2, <2>2 DEF Inv
<1>4. CASE LoopTakes
  <2>1. PICK m \in Callers : TakeQueued(m) /\ serving' = m
    BY <1>4 DEF LoopTakes
  <2>2. loop = "dequeuing" /\ loop' = "handling"
    BY <1>4 DEF LoopTakes
  <2>3. /\ nfQueue' \in Seq(Callers) /\ IsInjective(nfQueue') /\ Queued(m)
        /\ \A x : Queued(x)' <=> Queued(x) /\ x # m
        /\ UNCHANGED <<waitQueue, handedOver>>
    BY <2>1, TailMembers DEF TakeQueued, Inv, LoopInv, Queued
  <2>4. LoopInv'
    BY <2>1, <2>2, <2>3 DEF Inv, LoopInv
  <2>5. MessageInv'
    BY <1>1, <2>1, <2>2, <2>3 DEF Inv, LoopInv, MessageInv, Held
  <2>6. QED BY <1>2, <2>4, <2>5 DEF Inv
<1>5. CASE LoopWaits
  <2>1. /\ UNCHANGED <<nfQueue, handedOver, serving>> /\ waitQueue' = Append(waitQueue, Loop)
        /\ loop = "dequeuing" /\ loop' = "waiting"
    BY <1>5 DEF LoopWaits, StartWaiting
  <2>2. waitQueue' = <<Loop>>
    <3>1. waitQueue = << >>
      BY <2>1 DEF Inv, LoopInv
    <3>2. Append(<< >>, Loop) = <<Loop>>
      OBVIOUS
    <3>3. QED BY <2>1, <3>1, <3>2
  <2>3. LoopInv' /\ MessageInv'
    BY <1>1, <2>1, <2>2 DEF Inv, LoopInv, MessageInv, Held, Queued
  <2>4. QED BY <1>2, <2>3 DEF Inv
<1>6. CASE LoopReceives
  <2>1. PICK m \in Callers : StopWaiting(Loop, m) /\ serving' = m
    BY <1>6 DEF LoopReceives
  <2>2. loop = "waiting" /\ loop' = "handling"
    BY <1>6 DEF LoopReceives
  <2>3. /\ handedOver[Loop] = m /\ handedOver' = [handedOver EXCEPT ![Loop] = NoValue]
        /\ UNCHANGED <<nfQueue, waitQueue>>
    BY <2>1 DEF StopWaiting
  <2>4. LoopInv'
    BY <2>1, <2>2, <2>3 DEF Inv, LoopInv
  <2>5. MessageInv'
    BY <1>1, <2>1, <2>2, <2>3 DEF Inv, LoopInv, MessageInv, Held, Queued
  <2>6. QED BY <1>2, <2>4, <2>5 DEF Inv
<1>7. CASE LoopGetsNull
  <2>1. loop = "waiting" /\ loop' = "looping" /\ UNCHANGED serving
    BY <1>7 DEF LoopGetsNull
  <2>2. /\ UNCHANGED <<nfQueue, handedOver>> /\ waitQueue' = << >>
        /\ handedOver[Loop] = NoValue
    <3>1. CASE WaitTimesOut(Loop)
      <4>1. PICK i \in DOMAIN waitQueue : waitQueue' = RemoveAt(waitQueue, i)
        BY <3>1 DEF WaitTimesOut
      <4>2. waitQueue = <<Loop>> /\ i = 1
        BY <4>1 DEF Inv, LoopInv
      <4>3. waitQueue' = SubSeq(<<Loop>>, 1, 0) \o SubSeq(<<Loop>>, 2, 1)
        BY <4>1, <4>2 DEF RemoveAt
      <4>4. waitQueue' = << >>
        BY <4>3
      <4>5. QED BY <3>1, <4>2, <4>4 DEF WaitTimesOut, Inv, LoopInv
    <3>2. CASE StopWaiting(Loop, NoValue)
      <4>1. /\ UNCHANGED <<nfQueue, waitQueue>> /\ handedOver[Loop] = NoValue
            /\ handedOver' = [handedOver EXCEPT ![Loop] = NoValue] /\ ~ Blocked(Loop)
        BY <3>2 DEF StopWaiting
      <4>2. waitQueue # <<Loop>>
        BY <4>1 DEF Blocked, Contains
      <4>3. handedOver' = handedOver
        BY <4>1 DEF Inv, LoopInv
      <4>4. QED BY <4>1, <4>2, <4>3 DEF Inv, LoopInv
    <3>3. QED BY <1>7, <3>1, <3>2 DEF LoopGetsNull
  <2>3. LoopInv' /\ MessageInv'
    BY <1>1, <2>1, <2>2 DEF Inv, LoopInv, MessageInv, Held, Queued
  <2>4. QED BY <1>2, <2>3 DEF Inv
<1>8. QED BY <1>3, <1>4, <1>5, <1>6, <1>7

(* What a handler does to the cache stays within the ids.                     *)
LEMMA HandleKeeps ==
    ASSUME Inv, HandleLoad \/ HandleAdd \/ HandleRemove \/ HandleSearch \/ HandleClose
    PROVE  Inv'
<1>1. /\ UNCHANGED <<nfQueue, waitQueue, handedOver, serving, at, request, response, responded>>
      /\ loop = "handling" /\ loop' = "replying"
  BY DEF HandleLoad, HandleAdd, HandleRemove, HandleSearch, HandleClose, Handles, queueVars,
         msgVars
<1>2. cache' \subseteq Ids /\ output' \subseteq Ids
  <2>1. CASE HandleAdd
    <3>1. serving \in Callers /\ request[serving] \in Requests /\ request[serving].op = "add"
      BY <1>1, <2>1 DEF HandleAdd, Handles, Inv, LoopInv, MessageInv, Held
    <3>2. PICK op \in Queries : request[serving] \in RequestsOf(op)
      BY <3>1 DEF Requests
    <3>3. op = "add"
      BY <3>1, <3>2 DEF RequestsOf
    <3>4. request[serving].ids \in Batches
      BY <3>2, <3>3 DEF RequestsOf
    <3>5. ToSet(request[serving].ids) \subseteq Ids
      BY <3>4 DEF Batches, ToSet
    <3>6. QED BY <2>1, <3>5 DEF HandleAdd, Inv, Types
  <2>2. CASE HandleLoad \/ HandleRemove \/ HandleSearch \/ HandleClose
    BY <2>2 DEF HandleLoad, HandleRemove, HandleSearch, HandleClose, Inv, Types
  <2>3. QED BY <2>1, <2>2
<1>3. Types'
  BY <1>1, <1>2 DEF Inv, Types
<1>4. LoopInv' /\ MessageInv'
  BY <1>1 DEF Inv, LoopInv, MessageInv, Held, Queued
<1>5. QED BY <1>3, <1>4 DEF Inv

(* The answer ends the loop's work on a message.                              *)
LEMMA RespondKeeps ==
    ASSUME Inv, Respond
    PROVE  Inv'
<1>1. /\ UNCHANGED <<nfQueue, waitQueue, handedOver, cache, at, request>>
      /\ loop = "replying" /\ loop' = "looping" /\ serving' = NoValue
      /\ output' = {}
      /\ responded' = [responded EXCEPT ![serving] = TRUE]
      /\ response' = [response EXCEPT ![serving] = output]
  BY DEF Respond, queueVars
<1>2. Types'
  BY <1>1 DEF Inv, Types
<1>3. LoopInv'
  BY <1>1 DEF Inv, LoopInv
<1>4. MessageInv'
  BY <1>1 DEF Inv, LoopInv, MessageInv, Held, Queued, Types
<1>5. QED BY <1>2, <1>3, <1>4 DEF Inv

LEMMA Invariance == Spec => [](Inv /\ MutexInv /\ ThreadInv)
<1>1. Init => Inv
  <2> SUFFICES ASSUME Init PROVE Inv
    OBVIOUS
  <2>1. nfQueue = << >> /\ waitQueue = << >> /\ handedOver = [t \in {Loop} |-> NoValue]
    BY DEF Init, ChannelInit
  <2>2. IsInjective(nfQueue) /\ \A m : ~ Queued(m)
    BY <2>1 DEF IsInjective, Queued, Contains
  <2>3. QED
    BY <2>1, <2>2 DEF Init, Inv, Types, LoopInv, MessageInv, Held, CallerStates
<1>2. Inv /\ MutexInv /\ ThreadInv /\ [Next]_vars => Inv'
  <2> SUFFICES ASSUME Inv, MutexInv, ThreadInv, [Next]_vars PROVE Inv'
    OBVIOUS
  <2>1. CASE UNCHANGED vars
    BY <2>1 DEF vars, queueVars, loopVars, msgVars, Inv, Types, LoopInv, MessageInv, Held, Queued
  <2>2. CASE LoopStep
    BY <2>2, DequeueKeeps, HandleKeeps, RespondKeeps DEF LoopStep
  <2>3. ASSUME NEW c \in Callers, FinishCall(c) \/ \E op \in Operations : Admit(c, op)
        PROVE  Inv'
    BY <2>3, EnqueueKeeps, ReturnKeeps DEF FinishCall
  <2>4. QED BY <2>1, <2>2, <2>3, SectionKeeps DEF Next
<1>3. QED BY <1>1, <1>2, SectionInvariance, PTL DEF Spec

(* The rest of TypeOK. *)
RestTypes ==
    /\ channel \in {"null", "live"}
    /\ stopped \in BOOLEAN /\ closed \in BOOLEAN /\ loaded \in BOOLEAN
    /\ built \in BOOLEAN /\ crashed \in BOOLEAN /\ failed \in BOOLEAN
    /\ loop \in LoopStates
    /\ refused \in [Callers -> BOOLEAN]

LEMMA RestKept ==
    ASSUME Inv, RestTypes, [Next]_vars
    PROVE  RestTypes'
<1> USE DEF RestTypes, LoopStates
<1>1. CASE UNCHANGED vars
  BY <1>1 DEF vars, stateVars, loopVars, msgVars
<1>2. CASE LoopBreaks \/ LoopGoesOn \/ LoopTakes \/ LoopWaits \/ LoopReceives \/ LoopGetsNull
  BY <1>2 DEF LoopBreaks, LoopGoesOn, LoopTakes, LoopWaits, LoopReceives, LoopGetsNull, stateVars,
              msgVars
<1>3. CASE HandleLoad \/ HandleAdd \/ HandleRemove \/ HandleSearch \/ HandleClose
  BY <1>3 DEF HandleLoad, HandleAdd, HandleRemove, HandleSearch, HandleClose, Handles, msgVars
<1>4. CASE Respond
  BY <1>4 DEF Respond, stateVars
<1>5. ASSUME NEW c \in Callers,
             \/ StartThread(c) \/ FinishStart(c)
             \/ StopFlag(c) \/ StopReturnsAtOnce(c) \/ StopStep(c)
      PROVE  RestTypes'
  <2>1. CASE StartThread(c) \/ FinishStart(c)
    <3>1. CASE StartThread(c)
      BY <3>1 DEF StartThread, stateVars, msgVars
    <3>2. CASE FinishStart(c)
      <4>1. CASE StartChannel(c)
        BY <4>1 DEF StartChannel, stateVars, loopVars, msgVars
      <4>2. CASE StartFlag(c)
        BY <4>2 DEF StartFlag, stateVars, loopVars, msgVars
      <4>3. QED BY <3>2, <4>1, <4>2 DEF FinishStart
    <3>3. QED BY <2>1, <3>1, <3>2
  <2>2. CASE StopFlag(c) \/ StopReturnsAtOnce(c)
    <3>1. CASE StopFlag(c)
      BY <3>1 DEF StopFlag, stateVars, loopVars, msgVars
    <3>2. CASE StopReturnsAtOnce(c)
      BY <3>2 DEF StopReturnsAtOnce, stateVars, loopVars, msgVars
    <3>3. QED BY <2>2, <3>1, <3>2
  <2>3. CASE StopStep(c)
    BY <2>3 DEF StopStep, StopWakes, StopJoins, StopResets, stateVars, loopVars, msgVars
  <2>4. QED BY <1>5, <2>1, <2>2, <2>3
<1>6. ASSUME NEW c \in Callers, FinishCall(c) \/ \E op \in Operations : Admit(c, op)
      PROVE  RestTypes'
  <2>1. CASE Enqueue(c)
    BY <2>1 DEF Enqueue, stateVars, loopVars
  <2>2. CASE EnqueueCrashes(c)
    BY <2>2 DEF EnqueueCrashes, stateVars, loopVars, msgVars
  <2>3. CASE CallReturns(c) \/ LoadReturns(c) \/ CloseReturns(c)
    <3>1. CASE CallReturns(c)
      BY <3>1 DEF CallReturns, stateVars, loopVars
    <3>2. CASE LoadReturns(c) \/ CloseReturns(c)
      BY <3>2 DEF LoadReturns, CloseReturns, stateVars, loopVars
    <3>3. QED BY <2>3, <3>1, <3>2
  <2>4. ASSUME NEW op \in Operations, Admit(c, op) PROVE RestTypes'
    BY <2>4 DEF Admit, stateVars, loopVars, msgVars
  <2>5. QED BY <1>6, <2>1, <2>2, <2>3, <2>4 DEF FinishCall
<1>7. QED BY <1>1, <1>2, <1>3, <1>4, <1>5, <1>6 DEF Next, LoopStep

(* Type correctness of the shard. *)
THEOREM Typing == Spec => []TypeOK
<1>1. Init => RestTypes
  BY DEF Init, RestTypes, LoopStates
<1>2. Inv /\ MutexInv /\ RestTypes => TypeOK
  <2> SUFFICES ASSUME Inv, MutexInv, RestTypes PROVE TypeOK
    OBVIOUS
  <2>1. ChannelTypeOK
    <3>1. << >> \in Seq({Loop}) /\ <<Loop>> \in Seq({Loop})
      OBVIOUS
    <3>2. QED BY <3>1 DEF Inv, LoopInv, ChannelTypeOK
  <2>2. IF loop \in {"handling", "replying"} THEN serving \in Callers ELSE serving = NoValue
    BY DEF Inv, LoopInv
  <2>3. QED BY <2>1, <2>2 DEF Inv, Types, MutexInv, RestTypes, TypeOK
<1>3. QED BY <1>1, <1>2, RestKept, Invariance, PTL DEF Spec

-------------------------------------------------------------------------------
(* The refinement. *)

(* What FeatureStore calls phase and result.                                  *)
Done(c) == responded[c] \/ (loop = "replying" /\ serving = c)

Phase == [c \in Callers |-> IF at[c] # "waiting" THEN "idle"
                            ELSE IF Done(c) THEN "answered" ELSE "pending"]

Result == [c \in Callers |-> IF loop = "replying" /\ serving = c THEN output ELSE response[c]]

LEMMA MappedStep ==
    ASSUME NEW c \in Callers,
           \/ \E r \in Requests :
                 /\ Phase[c] = "idle" /\ Phase' = [Phase EXCEPT ![c] = "pending"]
                 /\ request' = [request EXCEPT ![c] = r]
                 /\ Result' = [Result EXCEPT ![c] = {}]
                 /\ UNCHANGED cache
           \/ /\ Phase[c] = "pending" /\ Phase' = [Phase EXCEPT ![c] = "answered"]
              /\ cache' \in Store!Effect(request[c])
              /\ Result' = [Result EXCEPT ![c] = IF request[c].op = "search" THEN cache ELSE {}]
              /\ UNCHANGED request
           \/ /\ Phase[c] = "answered" /\ Phase' = [Phase EXCEPT ![c] = "idle"]
              /\ UNCHANGED <<cache, request, Result>>
    PROVE  Store!Next
BY DEF Store!Next, Store!Call, Store!Apply, Store!Return, Phase, Result, Done

LEMMA HiddenStep ==
    ASSUME UNCHANGED <<cache, Phase, request, Result>>
    PROVE  UNCHANGED Store!vars
BY DEF Store!vars, Phase, Result, Done

(* An enqueue is the call.                                                    *)
LEMMA EnqueueCalls ==
    ASSUME Inv, NEW c \in Callers, Enqueue(c)
    PROVE  Store!Next
<1>1. /\ at[c] # "waiting" /\ ~ Held(c)
      /\ at' = [at EXCEPT ![c] = "waiting"]
      /\ responded' = [responded EXCEPT ![c] = FALSE]
      /\ response' = [response EXCEPT ![c] = {}]
      /\ UNCHANGED <<cache, output, loop, serving>>
  BY DEF Enqueue, Goes, Queries, Inv, MessageInv, loopVars
<1>2. PICK r \in Requests : request' = [request EXCEPT ![c] = r]
  BY DEF Enqueue, Requests
<1>3. serving # c
  BY <1>1 DEF Held
<1>4. Phase[c] = "idle" /\ Phase' = [Phase EXCEPT ![c] = "pending"]
  BY <1>1, <1>3 DEF Phase, Done, Inv, Types
<1>5. Result' = [Result EXCEPT ![c] = {}]
  BY <1>1, <1>3 DEF Result, Inv, Types
<1>6. QED BY <1>1, <1>2, <1>4, <1>5, MappedStep

(* The handler is where the operation takes effect.                           *)
LEMMA HandleApplies ==
    ASSUME Inv, HandleLoad \/ HandleAdd \/ HandleRemove \/ HandleSearch \/ HandleClose
    PROVE  Store!Next
<1>1. /\ UNCHANGED <<serving, at, request, response, responded>>
      /\ loop = "handling" /\ loop' = "replying" /\ serving \in Callers
  BY DEF HandleLoad, HandleAdd, HandleRemove, HandleSearch, HandleClose, Handles, msgVars,
         Inv, LoopInv
<1>2. at[serving] = "waiting" /\ ~ responded[serving]
  BY <1>1 DEF Inv, MessageInv, Held
<1>3. Phase[serving] = "pending" /\ Phase' = [Phase EXCEPT ![serving] = "answered"]
  BY <1>1, <1>2 DEF Phase, Done
<1>4. output' = IF request[serving].op = "search" THEN cache ELSE {}
  BY DEF HandleLoad, HandleAdd, HandleRemove, HandleSearch, HandleClose, Handles
<1>5. Result' = [Result EXCEPT ![serving] = IF request[serving].op = "search" THEN cache ELSE {}]
  BY <1>1, <1>4 DEF Result
<1>6. cache' \in Store!Effect(request[serving])
  <2>1. CASE HandleLoad
    <3>1. request[serving].op = "load" /\ cache' \in SUBSET Ids
      BY <2>1 DEF HandleLoad, Handles, Inv, Types
    <3>2. QED BY <3>1 DEF Store!Effect
  <2>2. CASE HandleAdd
    <3>1. request[serving].op = "add" /\ cache' = cache \cup ToSet(request[serving].ids)
      BY <2>2 DEF HandleAdd, Handles
    <3>2. QED BY <3>1 DEF Store!Effect, ToSet, Store!ToSet
  <2>3. CASE HandleRemove
    <3>1. request[serving].op = "remove" /\ cache' = cache \ ToSet(request[serving].ids)
      BY <2>3 DEF HandleRemove, Handles
    <3>2. QED BY <3>1 DEF Store!Effect, ToSet, Store!ToSet
  <2>4. CASE HandleSearch \/ HandleClose
    <3>1. request[serving].op \in {"search", "close"} /\ cache' = cache
      BY <2>4 DEF HandleSearch, HandleClose, Handles
    <3>2. QED BY <3>1 DEF Store!Effect
  <2>5. QED BY <2>1, <2>2, <2>3, <2>4
<1>7. QED BY <1>1, <1>3, <1>5, <1>6, MappedStep

LEMMA ReturnReturns ==
    ASSUME Inv, NEW c \in Callers, CallReturns(c) \/ LoadReturns(c) \/ CloseReturns(c)
    PROVE  Store!Next
<1>1. /\ UNCHANGED <<loop, serving, output, cache, request, response>>
      /\ at[c] = "waiting" /\ responded[c]
      /\ responded' = [responded EXCEPT ![c] = FALSE]
      /\ \E place \in {"idle", "stopping"} : at' = [at EXCEPT ![c] = place]
  BY DEF CallReturns, LoadReturns, CloseReturns, Answered, Goes, loopVars
<1>2. serving # c
  BY <1>1 DEF Inv, MessageInv, Held
<1>3. Phase[c] = "answered" /\ Phase' = [Phase EXCEPT ![c] = "idle"]
  BY <1>1, <1>2 DEF Phase, Done, Inv, Types
<1>4. UNCHANGED Result
  BY <1>1 DEF Result
<1>5. QED BY <1>1, <1>3, <1>4, MappedStep

(* Nothing else is visible to the callers.                                    *)
LEMMA RespondIsHidden ==
    ASSUME Inv, Respond
    PROVE  UNCHANGED Store!vars
<1>1. /\ UNCHANGED <<cache, at, request>>
      /\ loop = "replying" /\ loop' = "looping" /\ serving \in Callers
      /\ responded' = [responded EXCEPT ![serving] = TRUE]
      /\ response' = [response EXCEPT ![serving] = output]
  BY DEF Respond, Inv, LoopInv
<1>2. UNCHANGED Phase
  BY <1>1 DEF Phase, Done, Inv, Types
<1>3. UNCHANGED Result
  BY <1>1 DEF Result, Inv, Types
<1>4. QED BY <1>1, <1>2, <1>3, HiddenStep

LEMMA DequeueIsHidden ==
    ASSUME Inv, LoopBreaks \/ LoopGoesOn \/ LoopTakes \/ LoopWaits \/ LoopReceives \/ LoopGetsNull
    PROVE  UNCHANGED Store!vars
<1>1. /\ UNCHANGED <<cache, output, at, request, response, responded>>
      /\ loop # "replying" /\ loop' # "replying"
  BY DEF LoopBreaks, LoopGoesOn, LoopTakes, LoopWaits, LoopReceives, LoopGetsNull, msgVars
<1>2. UNCHANGED <<Phase, Result>>
  BY <1>1 DEF Phase, Done, Result
<1>3. QED BY <1>1, <1>2, HiddenStep

LEMMA MoveIsHidden ==
    ASSUME Inv, MutexInv, ThreadInv, NEW c \in Callers,
           \/ StartThread(c) \/ FinishStart(c)
           \/ StopFlag(c) \/ StopReturnsAtOnce(c) \/ StopStep(c)
           \/ EnqueueCrashes(c) \/ \E op \in Operations : Admit(c, op)
    PROVE  UNCHANGED Store!vars
<1>1. /\ UNCHANGED <<serving, output, cache, request, response, responded>>
      /\ \/ UNCHANGED loop
         \/ loop # "replying" /\ loop' # "replying"
      /\ \/ UNCHANGED at
         \/ /\ at[c] # "waiting"
            /\ \E place \in CallerStates \ {"waiting"} : at' = [at EXCEPT ![c] = place]
  <2>1. CASE StartThread(c)
    <3>1. loop # "replying"
      BY <2>1 DEF StartThread, MutexInv, ThreadInv
    <3>2. QED BY <2>1, <3>1 DEF StartThread, Goes, msgVars, CallerStates
  <2>2. CASE FinishStart(c)
    BY <2>2 DEF FinishStart, StartChannel, StartFlag, Goes, loopVars, msgVars, CallerStates, Queries
  <2>3. CASE StopFlag(c) \/ StopReturnsAtOnce(c)
    BY <2>3 DEF StopFlag, StopReturnsAtOnce, Goes, loopVars, msgVars, CallerStates
  <2>4. CASE StopStep(c)
    BY <2>4 DEF StopStep, StopWakes, StopJoins, StopResets, Goes, loopVars, msgVars, CallerStates
  <2>5. CASE EnqueueCrashes(c)
    BY <2>5 DEF EnqueueCrashes, loopVars, msgVars
  <2>6. ASSUME NEW op \in Operations, Admit(c, op)
        PROVE  at[c] = "idle" /\ op \in Queries /\ at' = [at EXCEPT ![c] = op]
               /\ UNCHANGED <<cache, loopVars, msgVars>>
    BY <2>6 DEF Admit, Goes
  <2>7. CASE \E op \in Operations : Admit(c, op)
    BY <2>6, <2>7 DEF loopVars, msgVars, CallerStates, Queries
  <2>8. QED BY <2>1, <2>2, <2>3, <2>4, <2>5, <2>7
<1>2. UNCHANGED <<Phase, Result>>
  BY <1>1 DEF Phase, Done, Result, Inv, Types
<1>3. QED BY <1>1, <1>2, HiddenStep

(* MemoryShard implements FeatureStore: an operation takes effect when the    *)
(* loop handles it, between its call and its return, also across Close, Stop  *)
(* and Start, and for any number of callers and features.                     *)
THEOREM Refinement == Spec => ImplementsStore
<1>1. Init => Store!Init
  BY DEF Init, Store!Init
<1>2. Inv /\ MutexInv /\ ThreadInv /\ [Next]_vars => [Store!Next]_(Store!vars)
  <2> SUFFICES ASSUME Inv, MutexInv, ThreadInv, [Next]_vars PROVE [Store!Next]_(Store!vars)
    OBVIOUS
  <2>1. CASE UNCHANGED vars
    BY <2>1 DEF vars, loopVars, msgVars, Store!vars
  <2>2. CASE LoopStep
    BY <2>2, DequeueIsHidden, HandleApplies, RespondIsHidden DEF LoopStep
  <2>3. ASSUME NEW c \in Callers, FinishCall(c) \/ \E op \in Operations : Admit(c, op)
        PROVE  [Store!Next]_(Store!vars)
    BY <2>3, EnqueueCalls, ReturnReturns, MoveIsHidden DEF FinishCall
  <2>4. QED BY <2>1, <2>2, <2>3, MoveIsHidden DEF Next
<1>3. QED BY <1>1, <1>2, Invariance, PTL DEF Spec, ImplementsStore, Store!Spec
===============================================================================
