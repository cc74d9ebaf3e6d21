-------------------------- MODULE ManagerShardProofs ---------------------------
(***************************************************************************)
(* For any callers and batches: the shard of the search manager serves its *)
(* callers as RequestReply says, keeps a message until it is answered or   *)
(* released by Stop, is quiet while stopped, meets a null channel only     *)
(* while stopped, and counts all its worker stores and all its callers are *)
(* told.  As in MemoryShardProofs the first two rest on each message being *)
(* in one place with its caller waiting, the count of what the callers are *)
(* told on adding up what is owed to each of them, and the others on what  *)
(* each part of Start and Stop has done to the thread and the channel.     *)
(***************************************************************************)
EXTENDS ManagerShard, SequenceLemmas, FiniteSetTheorems, TLAPS

USE NamesAssumption

Working == {"handling", "counting", "replying"}

(* How far Start and Stop are; without them, a shard has a thread and a      *)
(* channel if and only if it is not stopped.                                 *)
OwnerInv ==
    /\ owner \in OwnerStates
    /\ owner = "idle" => IF stopped THEN channel = "null" /\ loop = "none" ELSE channel = "live"
    /\ owner # "idle" => stopped
    /\ owner = "startChannel" => loop = "looping" /\ channel = "null"
    /\ owner \in {"startFlag", "stopWake", "stopJoin"} => channel = "live"
    /\ owner = "stopReset" => loop = "none"

(* Types of what calls and answers are made of. *)
CallTypes ==
    /\ call \in [Callers -> {"idle", "adding", "searching", "waiting"}]
    /\ request \in [Callers -> Requests \cup {NoValue}]
    /\ response \in [Callers -> Requests \cup {NoValue}]
    /\ responded \in [Callers -> BOOLEAN]

(* The loop waits, has been handed a message, or works on one; a channel      *)
(* that is not there holds nothing.                                          *)
LoopInv ==
    /\ nfQueue \in Seq(Callers) /\ IsInjective(nfQueue)
    /\ waitQueue \in {<< >>, <<Loop>>}
    /\ handedOver \in [{Loop} -> Callers \cup {NoValue}]
    /\ waitQueue = <<Loop>> => loop = "waiting" /\ handedOver[Loop] = NoValue
    /\ handedOver[Loop] # NoValue => loop = "waiting"
    /\ IF loop \in Working THEN serving \in Callers ELSE serving = NoValue
    /\ channel = "null" => nfQueue = << >> /\ handedOver[Loop] = NoValue

(* A message is in one place, and its caller waits for it.                    *)
MessageInv ==
    \A c \in Callers :
        /\ Held(c) => call[c] = "waiting" /\ ~ responded[c] /\ request[c] \in Requests
        /\ Queued(c) => handedOver[Loop] # c /\ serving # c

Inv == OwnerInv /\ CallTypes /\ LoopInv /\ MessageInv

(* Start and Stop: the queue stays, is woken or is new.                       *)
LEMMA OwnerKeeps ==
    ASSUME Inv, OwnerStep
    PROVE  Inv'
<1>1. OwnerInv'
  BY DEF OwnerStep, StartThread, StartChannel, StartFlag, StopFlag, StopWakes, StopJoins,
         StopResets, Inv, OwnerInv, OwnerStates, shardVars, loopVars
<1>2. /\ UNCHANGED <<serving, call, request, response, responded>>
      /\ \/ UNCHANGED <<nfQueue, waitQueue, handedOver, loop, channel>>
         \/ UNCHANGED <<nfQueue, waitQueue, handedOver, channel>> /\ loop = "none" /\ loop' = "looping"
         \/ UNCHANGED <<nfQueue, waitQueue, handedOver, channel>> /\ loop = "exited" /\ loop' = "none"
         \/ UNCHANGED <<nfQueue, handedOver, loop, channel>> /\ waitQueue' = << >>
         \/ NewChannel /\ loop \in {"none", "looping"} /\ UNCHANGED loop
  BY DEF OwnerStep, StartThread, StartChannel, StartFlag, StopFlag, StopWakes, StopJoins,
         StopResets, Inv, OwnerInv, queueVars, loopVars, callVars, wakeUpAll
<1>3. CallTypes'
  BY <1>2 DEF Inv, CallTypes
<1>4. CASE NewChannel /\ loop \in {"none", "looping"} /\ UNCHANGED loop
  <2>1. /\ nfQueue' = << >> /\ waitQueue' = << >>
        /\ handedOver' = [t \in {Loop} |-> NoValue]
    BY <1>4 DEF NewChannel
  <2>2. IsInjective(nfQueue') /\ \A m : ~ Queued(m)'
    BY <2>1 DEF IsInjective, Queued, Contains
  <2>3. QED
    BY <1>1, <1>2, <1>3, <1>4, <2>1, <2>2 DEF Inv, LoopInv, MessageInv, Held, Working
<1>5. CASE UNCHANGED <<nfQueue, handedOver, channel>>
  <2>1. \A m : Queued(m)' = Queued(m)
    BY <1>5 DEF Queued
  <2>2. LoopInv'
    BY <1>2, <1>4, <1>5 DEF Inv, LoopInv, Working, NewChannel
  <2>3. MessageInv'
    BY <1>2, <1>5, <2>1 DEF Inv, MessageInv, Held
  <2>4. QED BY <1>1, <1>3, <2>2, <2>3 DEF Inv
<1>6. QED BY <1>2, <1>4, <1>5

(* Open, Close, AssignWorker, and a caller whose message no place has: it is  *)
(* admitted, meets a null channel or returns with its answer.                 *)
LEMMA OutsideKeeps ==
    ASSUME Inv,
           \/ Open \/ Close \/ AssignWorker
           \/ \E c \in Callers :
                 AdmitAdd(c) \/ AdmitSearch(c) \/ EnqueueCrashes(c) \/ CallReturns(c)
    PROVE  Inv'
<1>1. UNCHANGED <<nfQueue, waitQueue, handedOver, loop, serving, channel, owner, stopped, request,
                  response>>
  BY DEF Open, Close, AssignWorker, AdmitAdd, AdmitSearch, EnqueueCrashes, CallReturns,
         queueVars, loopVars, callVars, shardVars
<1>2. \/ UNCHANGED <<call, responded>>
      \/ \E c \in Callers :
            /\ call[c] # "waiting" \/ responded[c]
            /\ UNCHANGED responded \/ responded' = [responded EXCEPT ![c] = FALSE]
            /\ \E place \in {"idle", "adding", "searching"} : call' = [call EXCEPT ![c] = place]
  BY DEF Open, Close, AssignWorker, AdmitAdd, AdmitSearch, EnqueueCrashes, CallReturns, callVars
<1>3. \A d \in Callers : Held(d)' = Held(d) /\ Queued(d)' = Queued(d)
  BY <1>1 DEF Held, Queued
<1>4. OwnerInv' /\ LoopInv'
  BY <1>1 DEF Inv, OwnerInv, LoopInv
<1>5. CallTypes'
  BY <1>1, <1>2 DEF Inv, CallTypes
<1>6. MessageInv'
  BY <1>1, <1>2, <1>3 DEF Inv, MessageInv, CallTypes
<1>7. QED BY <1>4, <1>5, <1>6 DEF Inv

(* An enqueue puts the message of a caller that has none into one place.      *)
LEMMA EnqueueKeeps ==
    ASSUME Inv, NEW c \in Callers, Enqueue(c)
    PROVE  Inv'
<1>1. /\ call[c] # "waiting" /\ ~ Held(c)
      /\ channel = "live" /\ call' = [call EXCEPT ![c] = "waiting"]
      /\ responded' = [responded EXCEPT ![c] = FALSE]
      /\ response' = [response EXCEPT ![c] = NoValue]
      /\ UNCHANGED <<owner, stopped, channel, loop, serving>>
  BY DEF Enqueue, Admitted, Inv, MessageInv, loopVars, shardVars
<1>2. PICK r \in Requests : request' = [request EXCEPT ![c] = r]
  BY DEF Enqueue
<1>3. OwnerInv' /\ CallTypes'
  BY <1>1, <1>2 DEF Inv, OwnerInv, CallTypes
<1>4. CASE waitQueue = << >> /\ nfQueue' = Append(nfQueue, c) /\ UNCHANGED <<waitQueue, handedOver>>
  <2>1. /\ nfQueue' \in Seq(Callers) /\ IsInjective(nfQueue')
        /\ \A m : Queued(m)' <=> Queued(m) \/ m = c
    BY <1>1, <1>4, AppendMembers DEF Inv, LoopInv, Queued, Held
  <2>2. LoopInv'
    BY <1>1, <1>4, <2>1 DEF Inv, LoopInv
  <2>3. MessageInv'
    BY <1>1, <1>2, <1>4, <2>1 DEF Inv, MessageInv, Held, CallTypes
  <2>4. QED BY <1>3, <2>2, <2>3 DEF Inv
<1>5. CASE /\ waitQueue # << >>
           /\ handedOver' = [handedOver EXCEPT ![Head(waitQueue)] = c]
           /\ waitQueue' = Tail(waitQueue) /\ UNCHANGED nfQueue
  <2>1. /\ waitQueue' = << >> /\ handedOver[Loop] = NoValue /\ loop = "waiting"
        /\ handedOver' = [handedOver EXCEPT ![Loop] = c]
    <3>1. waitQueue = <<Loop>>
      BY <1>5 DEF Inv, LoopInv
    <3>2. Head(<<Loop>>) = Loop /\ Tail(<<Loop>>) = << >>
      OBVIOUS
    <3>3. QED BY <1>5, <3>1, <3>2 DEF Inv, LoopInv
  <2>2. \A m : Queued(m)' = Queued(m)
    BY <1>5 DEF Queued
  <2>3. LoopInv'
    BY <1>1, <1>5, <2>1 DEF Inv, LoopInv
  <2>4. MessageInv'
    BY <1>1, <1>2, <2>1, <2>2 DEF Inv, LoopInv, MessageInv, Held, CallTypes, Working
  <2>5. QED BY <1>3, <2>3, <2>4 DEF Inv
<1>6. QED BY <1>4, <1>5 DEF Enqueue, enqueueNotification

-------------------------------------------------------------------------------
(* The loop. *)

LEMMA LoopKeepsOwnerInv ==
    ASSUME OwnerInv, LoopStep
    PROVE  OwnerInv'
<1>1. UNCHANGED <<owner, stopped, channel>>
  BY DEF LoopStep, LoopCrashes, LoopTakes, LoopWaits, LoopReceives, LoopGetsNull, LoopContinues,
         LoopBreaks, HandleSearch, HandleAdd, CountUsed, Respond, shardVars
<1>2. \/ UNCHANGED loop
      \/ /\ loop = "looping" => channel = "live"
         /\ loop \in {"looping", "waiting", "gotNull"} \cup Working
         /\ loop' # "none"
  <2>1. CASE LoopCrashes
    BY <2>1 DEF LoopCrashes, loopVars
  <2>2. CASE LoopTakes \/ LoopWaits \/ LoopReceives \/ LoopGetsNull \/ LoopContinues \/ LoopBreaks
    BY <2>2 DEF LoopTakes, LoopWaits, LoopReceives, LoopGetsNull, LoopContinues, LoopBreaks
  <2>3. CASE HandleSearch \/ HandleAdd \/ CountUsed \/ Respond
    BY <2>3 DEF HandleSearch, HandleAdd, CountUsed, Respond, Working
  <2>4. QED BY <2>1, <2>2, <2>3 DEF LoopStep
<1>3. QED BY <1>1, <1>2 DEF OwnerInv, Working

(* The loop's dealings with the channel: a message it takes is the one it     *)
(* then serves, and every other stays where it is.                            *)
LEMMA DequeueKeeps ==
    ASSUME Inv,
           \/ LoopCrashes \/ LoopTakes \/ LoopWaits \/ LoopReceives \/ LoopGetsNull
           \/ LoopContinues \/ LoopBreaks
    PROVE  Inv' /\ \A c \in Callers : Held(c)' = Held(c)
<1>1. UNCHANGED <<call, request, response, responded, channel>>
  BY DEF LoopCrashes, LoopTakes, LoopWaits, LoopReceives, LoopGetsNull, LoopContinues, LoopBreaks,
         callVars
<1>2. OwnerInv' /\ CallTypes'
  BY <1>1, LoopKeepsOwnerInv DEF Inv, CallTypes, LoopStep
<1>3. CASE LoopCrashes \/ LoopContinues \/ LoopBreaks
  <2>1. /\ UNCHANGED <<nfQueue, waitQueue, handedOver, serving>>
        /\ UNCHANGED loop \/ (loop \in {"looping", "gotNull"} /\ loop' \in {"looping", "exited"})
    BY <1>3 DEF LoopCrashes, LoopContinues, LoopBreaks, queueVars, loopVars
  <2>2. \A c \in Callers : Held(c)' = Held(c) /\ Queued(c)' = Queued(c)
    BY <2>1 DEF Held, Queued
  <2>3. LoopInv' /\ MessageInv'
    BY <1>1, <2>1, <2>2 DEF Inv, LoopInv, MessageInv, Working
  <2>4. QED BY <1>2, <2>2, <2>3 DEF Inv
<1>4. CASE LoopTakes
  <2>1. PICK m \in Callers : TakeQueued(m) /\ serving' = m
    BY <1>4 DEF LoopTakes
  <2>2. loop = "looping" /\ loop' = "handling" /\ channel = "live" /\ serving = NoValue
    BY <1>4 DEF LoopTakes, Inv, LoopInv, Working
  <2>3. /\ nfQueue' \in Seq(Callers) /\ IsInjective(nfQueue') /\ Queued(m)
        /\ \A x : Queued(x)' <=> Queued(x) /\ x # m
        /\ UNCHANGED <<waitQueue, handedOver>>
    BY <2>1, TailMembers DEF TakeQueued, Inv, LoopInv, Queued
  <2>4. LoopInv'
    BY <1>1, <2>1, <2>2, <2>3 DEF Inv, LoopInv, Working
  <2>5. \A c \in Callers : Held(c)' = Held(c)
    BY <2>1, <2>2, <2>3 DEF Held
  <2>6. MessageInv'
    BY <1>1, <2>1, <2>2, <2>3, <2>5 DEF Inv, MessageInv
  <2>7. QED BY <1>2, <2>4, <2>5, <2>6 DEF Inv
<1>5. CASE LoopWaits
  <2>1. /\ UNCHANGED <<nfQueue, handedOver, serving>> /\ waitQueue' = Append(waitQueue, Loop)
        /\ loop = "looping" /\ loop' = "waiting"
    BY <1>5 DEF LoopWaits, StartWaiting
  <2>2. waitQueue' = <<Loop>>
    <3>1. waitQueue = << >>
      BY <2>1 DEF Inv, LoopInv
    <3>2. Append(<< >>, Loop) = <<Loop>>
      OBVIOUS
    <3>3. QED BY <2>1, <3>1, <3>2
  <2>3. \A c \in Callers : Held(c)' = Held(c) /\ Queued(c)' = Queued(c)
    BY <2>1 DEF Held, Queued
  <2>4. LoopInv' /\ MessageInv'
    BY <1>1, <2>1, <2>2, <2>3 DEF Inv, LoopInv, MessageInv, Working
  <2>5. QED BY <1>2, <2>3, <2>4 DEF Inv
<1>6. CASE LoopReceives
  <2>1. PICK m \in Callers : StopWaiting(Loop, m) /\ serving' = m
    BY <1>6 DEF LoopReceives
  <2>2. loop = "waiting" /\ loop' = "handling" /\ serving = NoValue
    BY <1>6 DEF LoopReceives, Inv, LoopInv, Working
  <2>3. /\ handedOver[Loop] = m /\ handedOver' = [handedOver EXCEPT ![Loop] = NoValue]
        /\ UNCHANGED <<nfQueue, waitQueue>>
    BY <2>1 DEF StopWaiting
  <2>4. LoopInv'
    BY <1>1, <2>1, <2>2, <2>3 DEF Inv, LoopInv, Working
  <2>5. \A c \in Callers : Held(c)' = Held(c) /\ Queued(c)' = Queued(c)
    BY <2>1, <2>2, <2>3 DEF Held, Queued, Inv, LoopInv
  <2>6. MessageInv'
    BY <1>1, <2>1, <2>2, <2>3, <2>5 DEF Inv, LoopInv, MessageInv
  <2>7. QED BY <1>2, <2>4, <2>5, <2>6 DEF Inv
<1>7. CASE LoopGetsNull
  <2>1. loop = "waiting" /\ loop' = "gotNull" /\ UNCHANGED serving
    BY <1>7 DEF LoopGetsNull
  <2>2. /\ UNCHANGED <<nfQueue, handedOver>> /\ waitQueue' = << >>
        /\ handedOver[Loop] = NoValue
    <3>1. CASE WaitTimesOut(Loop)
      <4>1. PICK i \in DOMAIN waitQueue : waitQueue' = RemoveAt(waitQueue, i)
        BY <3>1 DEF WaitTimesOut
      <4>2. waitQueue = <<Loop>> /\ i = 1
        BY <4>1 DEF Inv, LoopInv
      <4>3. waitQueue' = SubSeq(<<Loop>>, 1, 0) \o SubSeq(<<Loop>>, 2, 1)
        BY <4>1, <4>2 DEF RemoveAt
      <4>4. waitQueue' = << >>
        BY <4>3
      <4>5. QED BY <3>1, <4>2, <4>4 DEF WaitTimesOut, Inv, LoopInv
    <3>2. CASE StopWaiting(Loop, NoValue)
      <4>1. /\ UNCHANGED <<nfQueue, waitQueue>> /\ handedOver[Loop] = NoValue
            /\ handedOver' = [handedOver EXCEPT ![Loop] = NoValue] /\ ~ Blocked(Loop)
        BY <3>2 DEF StopWaiting
      <4>2. waitQueue # <<Loop>>
        BY <4>1 DEF Blocked, Contains
      <4>3. handedOver' = handedOver
        BY <4>1 DEF Inv, LoopInv
      <4>4. QED BY <4>1, <4>2, <4>3 DEF Inv, LoopInv
    <3>3. QED BY <1>7, <3>1, <3>2 DEF LoopGetsNull
  <2>3. \A c \in Callers : Held(c)' = Held(c) /\ Queued(c)' = Queued(c)
    BY <2>1, <2>2 DEF Held, Queued
  <2>4. LoopInv' /\ MessageInv'
    BY <1>1, <2>1, <2>2, <2>3 DEF Inv, LoopInv, MessageInv, Working
  <2>5. QED BY <1>2, <2>3, <2>4 DEF Inv
<1>8. QED BY <1>3, <1>4, <1>5, <1>6, <1>7

(* Serving a message moves none.                                              *)
LEMMA HandleKeeps ==
    ASSUME Inv, HandleSearch \/ HandleAdd \/ CountUsed
    PROVE  Inv' /\ \A c \in Callers : Held(c)' = Held(c)
<1>1. /\ UNCHANGED <<nfQueue, waitQueue, handedOver, serving, channel, call, request, response,
                     responded>>
      /\ loop \in Working /\ loop' \in Working
  BY DEF HandleSearch, HandleAdd, CountUsed, queueVars, callVars, Working
<1>2. OwnerInv' /\ CallTypes'
  BY <1>1, LoopKeepsOwnerInv DEF Inv, CallTypes, LoopStep
<1>3. \A c \in Callers : Held(c)' = Held(c) /\ Queued(c)' = Queued(c)
  BY <1>1 DEF Held, Queued
<1>4. LoopInv' /\ MessageInv'
  BY <1>1, <1>3 DEF Inv, LoopInv, MessageInv, Working
<1>5. QED BY <1>2, <1>3, <1>4 DEF Inv

(* The answer ends the loop's work on a message.                              *)
LEMMA RespondKeeps ==
    ASSUME Inv, Respond
    PROVE  /\ Inv' /\ responded'[serving]
           /\ \A c \in Callers : c # serving => Held(c)' = Held(c)
<1>1. /\ UNCHANGED <<nfQueue, waitQueue, handedOver, channel, call, request>>
      /\ loop = "replying" /\ loop' = "looping" /\ serving \in Callers /\ serving' = NoValue
      /\ responded' = [responded EXCEPT ![serving] = TRUE]
      /\ response' = [response EXCEPT ![serving] = request[serving]]
  BY DEF Respond, queueVars, Inv, LoopInv, Working
<1>2. OwnerInv' /\ CallTypes' /\ responded'[serving]
  BY <1>1, LoopKeepsOwnerInv DEF Inv, CallTypes, LoopStep
<1>3. \A c \in Callers : Queued(c)' = Queued(c) /\ (c # serving => Held(c)' = Held(c))
  BY <1>1 DEF Held, Queued
<1>4. LoopInv'
  BY <1>1 DEF Inv, LoopInv, Working
<1>5. MessageInv'
  BY <1>1, <1>3 DEF Inv, LoopInv, MessageInv, Held, CallTypes
<1>6. QED BY <1>2, <1>3, <1>4, <1>5 DEF Inv

LEMMA Invariance == Spec => []Inv
<1>1. Init => Inv
  <2> SUFFICES ASSUME Init PROVE Inv
    OBVIOUS
  <2>1. nfQueue = << >> /\ waitQueue = << >> /\ handedOver = [t \in {Loop} |-> NoValue]
    BY DEF Init, ChannelInit
  <2>2. IsInjective(nfQueue) /\ \A m : ~ Queued(m)
    BY <2>1 DEF IsInjective, Queued, Contains
  <2>3. QED
    BY <2>1, <2>2 DEF Init, Inv, OwnerInv, OwnerStates, CallTypes, LoopInv, MessageInv, Held, Working
<1>2. Inv /\ [Next]_vars => Inv'
  <2> SUFFICES ASSUME Inv, [Next]_vars PROVE Inv'
    OBVIOUS
  <2>1. CASE UNCHANGED vars
    BY <2>1 DEF vars, queueVars, shardVars, loopVars, callVars, Inv, OwnerInv, CallTypes, LoopInv,
                MessageInv, Held, Queued
  <2>2. CASE LoopStep
    BY <2>2, DequeueKeeps, HandleKeeps, RespondKeeps DEF LoopStep
  <2>3. QED BY <2>1, <2>2, OwnerKeeps, OutsideKeeps, EnqueueKeeps DEF Next, CallStep
<1>3. QED BY <1>1, <1>2, PTL DEF Spec

-------------------------------------------------------------------------------
(* A null channel is met only in a stopped shard: by a loop that outruns      *)
(* Start, or a call that Stop has overtaken.                                  *)
THEOREM NullChannel == Spec => CrashesOnlyWhileStopped
<1>1. Inv /\ [Next]_vars => (crashed' /\ ~ crashed => stopped)
  <2> SUFFICES ASSUME Inv, [Next]_vars, crashed', ~ crashed PROVE stopped
    OBVIOUS
  <2>1. CASE channel = "null"
    BY <2>1 DEF Inv, OwnerInv
  <2>2. CASE UNCHANGED crashed
    BY <2>2
  <2>3. CASE OwnerStep
    BY <2>2, <2>3 DEF OwnerStep, StartThread, StartChannel, StartFlag, StopFlag, StopWakes, StopJoins,
                      StopResets
  <2>4. CASE LoopStep
    BY <2>1, <2>2, <2>4 DEF LoopStep, LoopCrashes, LoopTakes, LoopWaits, LoopReceives, LoopGetsNull,
                            LoopContinues, LoopBreaks, HandleSearch, HandleAdd, CountUsed, Respond
  <2>5. CASE Open \/ Close \/ AssignWorker
    BY <2>2, <2>5 DEF Open, Close, AssignWorker
  <2>6. ASSUME NEW c \in Callers, AdmitAdd(c) \/ AdmitSearch(c) \/ CallStep(c)
        PROVE  stopped
    BY <2>1, <2>2, <2>6 DEF AdmitAdd, AdmitSearch, CallStep, Enqueue, EnqueueCrashes, CallReturns
  <2>7. QED BY <2>2, <2>3, <2>4, <2>5, <2>6 DEF Next, vars
<1>2. QED BY <1>1, Invariance, PTL DEF Spec, CrashesOnlyWhileStopped

(* Only an add that the loop handles touches the records.                     *)
LEMMA RecordsKept ==
    ASSUME [Next]_vars, ~ HandleAdd, ~ CountUsed
    PROVE  UNCHANGED recordVars
<1>1. CASE UNCHANGED vars
  BY <1>1 DEF vars
<1>2. CASE OwnerStep
  BY <1>2 DEF OwnerStep, StartThread, StartChannel, StartFlag, StopFlag, StopWakes, StopJoins,
              StopResets
<1>3. CASE LoopStep
  BY <1>3 DEF LoopStep, LoopCrashes, LoopTakes, LoopWaits, LoopReceives, LoopGetsNull,
              LoopContinues, LoopBreaks, HandleSearch, Respond
<1>4. CASE Open \/ Close \/ AssignWorker
  BY <1>4 DEF Open, Close, AssignWorker
<1>5. ASSUME NEW c \in Callers, AdmitAdd(c) \/ AdmitSearch(c) \/ CallStep(c)
      PROVE  UNCHANGED recordVars
  BY <1>5 DEF AdmitAdd, AdmitSearch, CallStep, Enqueue, EnqueueCrashes, CallReturns
<1>6. QED BY <1>1, <1>2, <1>3, <1>4, <1>5 DEF Next

(* Once Stop has returned, nothing the shard took on before reaches the       *)
(* worker or the record.                                                      *)
THEOREM Quiet == Spec => StoppedIsQuiet
<1>1. Inv /\ [Next]_vars => (stopped /\ owner = "idle" => UNCHANGED recordVars)
  <2> SUFFICES ASSUME Inv, [Next]_vars, stopped, owner = "idle" PROVE UNCHANGED recordVars
    OBVIOUS
  <2>1. loop = "none"
    BY DEF Inv, OwnerInv
  <2>2. ~ HandleAdd /\ ~ CountUsed
    BY <2>1 DEF HandleAdd, CountUsed
  <2>3. QED BY <2>2, RecordsKept
<1>2. QED BY <1>1, Invariance, PTL DEF Spec, StoppedIsQuiet

(* No race of enqueue, timeout, wake-up and restart loses a message: it is    *)
(* answered, or goes with the queue Stop releases.                            *)
THEOREM Kept == Spec => HeldUntilAnswered
<1>1. Inv /\ [Next]_vars =>
          \A c \in Callers : Held(c) /\ ~ Held(c)' => responded'[c] \/ owner = "stopReset"
  <2> SUFFICES ASSUME Inv, [Next]_vars, NEW c \in Callers, Held(c), ~ Held(c)', owner # "stopReset"
               PROVE  responded'[c]
    OBVIOUS
  <2>1. CASE LoopStep
    BY <2>1, DequeueKeeps, HandleKeeps, RespondKeeps DEF LoopStep
  <2>2. CASE UNCHANGED <<nfQueue, handedOver, serving>>
    BY <2>2 DEF Held, Queued
  <2>3. CASE StartChannel
    <3>1. channel = "null" /\ serving = NoValue
      BY <2>3 DEF StartChannel, Inv, OwnerInv, LoopInv, Working
    <3>2. nfQueue = << >> /\ handedOver[Loop] = NoValue
      BY <3>1 DEF Inv, LoopInv
    <3>3. QED BY <3>1, <3>2 DEF Held, Queued, Contains
  <2>4. CASE OwnerStep
    BY <2>2, <2>3, <2>4 DEF OwnerStep, StartThread, StartFlag, StopFlag, StopWakes, StopJoins,
                            StopResets, queueVars, loopVars, wakeUpAll
  <2>5. CASE Open \/ Close \/ AssignWorker
    BY <2>2, <2>5 DEF Open, Close, AssignWorker, queueVars, loopVars
  <2>6. ASSUME NEW d \in Callers,
               AdmitAdd(d) \/ AdmitSearch(d) \/ EnqueueCrashes(d) \/ CallReturns(d)
        PROVE  responded'[c]
    BY <2>2, <2>6 DEF AdmitAdd, AdmitSearch, EnqueueCrashes, CallReturns, queueVars, loopVars
  <2>7. ASSUME NEW d \in Callers, Enqueue(d) PROVE FALSE
    <3>1. UNCHANGED serving
      BY <2>7 DEF Enqueue, loopVars
    <3>2. CASE nfQueue' = Append(nfQueue, d) /\ UNCHANGED <<waitQueue, handedOver>>
      <4>1. \A m : Queued(m)' <=> Queued(m) \/ m = d
        BY <3>2, AppendMembers DEF Inv, LoopInv, Queued
      <4>2. QED BY <3>1, <3>2, <4>1 DEF Held
    <3>3. CASE waitQueue # << >> /\ handedOver' = [handedOver EXCEPT ![Head(waitQueue)] = d]
               /\ UNCHANGED nfQueue
      <4>1. handedOver[Loop] = NoValue
        BY <3>3 DEF Inv, LoopInv
      <4>2. QED BY <3>1, <3>3, <4>1 DEF Held, Queued
    <3>4. QED BY <2>7, <3>2, <3>3 DEF Enqueue, enqueueNotification
  <2>8. CASE UNCHANGED vars
    BY <2>2, <2>8 DEF vars, queueVars, loopVars
  <2>9. QED BY <2>1, <2>4, <2>5, <2>6, <2>7, <2>8 DEF Next, CallStep
<1>2. QED BY <1>1, Invariance, PTL DEF Spec, HeldUntilAnswered

-------------------------------------------------------------------------------
(* What the worker has taken of a batch is at most the batch, and `used'      *)
(* counts the batch.                                                         *)
Counts ==
    /\ used \in Nat /\ recorded \in Nat /\ stored \in Nat
    /\ StoredIsCounted
    /\ loop = "counting" =>
           /\ request[serving].size \in Nat
           /\ accepted \in 0..request[serving].size

LEMMA SizesAreNumbers ==
    ASSUME NEW r \in Requests
    PROVE  r.size \in Nat
<1>1. CASE r = Search
  BY <1>1 DEF Search
<1>2. ASSUME NEW n \in Sizes, r = AddOf(n) PROVE r.size \in Nat
  BY <1>2, SizesAssumption DEF AddOf
<1>3. QED BY <1>1, <1>2 DEF Requests

LEMMA AddCounts ==
    ASSUME Inv, Counts, HandleAdd
    PROVE  Counts'
<1>1. request[serving] \in Requests
  BY DEF HandleAdd, Inv, LoopInv, MessageInv, Held, Working
<1>2. request[serving].size \in Nat
  BY <1>1, SizesAreNumbers
<1>3. PICK k \in 0..request[serving].size :
          /\ accepted' = k /\ stored' = stored + k
          /\ loop' = IF k > 0 THEN "counting" ELSE "replying"
  BY DEF HandleAdd
<1>4. UNCHANGED <<used, recorded, serving, request>> /\ loop = "handling"
  BY DEF HandleAdd, callVars
<1>5. QED BY <1>2, <1>3, <1>4 DEF Counts, StoredIsCounted

LEMMA UsedCounts ==
    ASSUME Counts, CountUsed
    PROVE  Counts'
BY DEF Counts, StoredIsCounted, CountUsed, callVars

LEMMA OthersCount ==
    ASSUME Inv, Counts, [Next]_vars, ~ HandleAdd, ~ CountUsed
    PROVE  Counts'
<1>1. UNCHANGED <<used, recorded, stored>>
  BY RecordsKept DEF recordVars
<1>2. CASE UNCHANGED <<loop, serving, accepted, request>>
  BY <1>1, <1>2 DEF Counts, StoredIsCounted
<1>3. CASE loop # "counting" /\ loop' # "counting"
  BY <1>1, <1>3 DEF Counts, StoredIsCounted
<1>4. ASSUME NEW c \in Callers, Enqueue(c) PROVE Counts'
  <2>1. /\ UNCHANGED <<loop, serving, accepted>>
        /\ \E r : request' = [request EXCEPT ![c] = r]
    BY <1>4 DEF Enqueue, loopVars
  <2>2. loop = "counting" => serving \in Callers /\ serving # c
    BY <1>4 DEF Enqueue, Admitted, Inv, LoopInv, MessageInv, Held, Working
  <2>3. loop = "counting" => request'[serving] = request[serving]
    BY <2>1, <2>2 DEF Inv, CallTypes
  <2>4. QED BY <1>1, <2>1, <2>3 DEF Counts, StoredIsCounted
<1>5. CASE LoopStep
  BY <1>2, <1>3, <1>5 DEF LoopStep, LoopCrashes, LoopTakes, LoopWaits, LoopReceives, LoopGetsNull,
         LoopContinues, LoopBreaks, HandleSearch, Respond, loopVars, callVars
<1>6. CASE OwnerStep
  BY <1>2, <1>3, <1>6 DEF OwnerStep, StartThread, StartChannel, StartFlag, StopFlag, StopWakes,
         StopJoins, StopResets, loopVars, callVars, Inv, OwnerInv
<1>7. CASE Open \/ Close \/ AssignWorker
  BY <1>2, <1>7 DEF Open, Close, AssignWorker, loopVars, callVars
<1>8. ASSUME NEW c \in Callers,
             AdmitAdd(c) \/ AdmitSearch(c) \/ EnqueueCrashes(c) \/ CallReturns(c)
      PROVE  Counts'
  BY <1>2, <1>8 DEF AdmitAdd, AdmitSearch, EnqueueCrashes, CallReturns, loopVars, callVars
<1>9. CASE UNCHANGED vars
  BY <1>2, <1>9 DEF vars, loopVars, callVars
<1>10. QED BY <1>4, <1>5, <1>6, <1>7, <1>8, <1>9 DEF Next, CallStep

LEMMA CountsInvariance == Spec => []Counts
<1>1. Init => Counts
  BY DEF Init, Counts, StoredIsCounted
<1>2. Inv /\ Counts /\ [Next]_vars => Counts'
  <2>1. CASE CountUsed
    BY <2>1, UsedCounts
  <2>2. QED BY <2>1, AddCounts, OthersCount
<1>3. QED BY <1>1, <1>2, Invariance, PTL DEF Spec

-------------------------------------------------------------------------------
(* Types.  The rest of TypeOK; a call that waits has a request.               *)
RestTypes ==
    /\ channel \in {"null", "live"}
    /\ built \in BOOLEAN /\ stopped \in BOOLEAN /\ closed \in BOOLEAN
    /\ hasWorker \in BOOLEAN /\ crashed \in BOOLEAN
    /\ acked \in Nat /\ accepted \in Nat
    /\ loop \in LoopStates
    /\ ids \in [Callers -> Nat]
    /\ \A c \in Callers : call[c] = "waiting" => request[c] \in Requests

LEMMA RestKept ==
    ASSUME Inv, RestTypes, [Next]_vars
    PROVE  RestTypes'
<1> USE DEF RestTypes, LoopStates
<1>1. CASE UNCHANGED vars
  BY <1>1 DEF vars, shardVars, loopVars, callVars
<1>2. CASE OwnerStep
  <2>1. CASE StartThread
    BY <2>1 DEF StartThread, shardVars, callVars
  <2>2. CASE StartChannel \/ StartFlag
    BY <2>2 DEF StartChannel, StartFlag, shardVars, loopVars, callVars
  <2>3. CASE StopFlag \/ StopWakes
    BY <2>3 DEF StopFlag, StopWakes, shardVars, loopVars, callVars
  <2>4. CASE StopJoins \/ StopResets
    BY <2>4 DEF StopJoins, StopResets, shardVars, loopVars, callVars
  <2>5. QED BY <1>2, <2>1, <2>2, <2>3, <2>4 DEF OwnerStep
<1>3. CASE LoopCrashes \/ LoopTakes \/ LoopWaits \/ LoopReceives \/ LoopGetsNull \/ LoopContinues
           \/ LoopBreaks \/ HandleSearch \/ CountUsed
  <2>1. CASE LoopCrashes
    BY <1>3, <2>1 DEF LoopCrashes, shardVars, loopVars, callVars
  <2>2. CASE LoopTakes \/ LoopWaits \/ LoopReceives
    BY <2>2 DEF LoopTakes, LoopWaits, LoopReceives, shardVars, callVars
  <2>3. CASE LoopGetsNull \/ LoopContinues \/ LoopBreaks
    BY <2>3 DEF LoopGetsNull, LoopContinues, LoopBreaks, shardVars, callVars
  <2>4. CASE HandleSearch \/ CountUsed
    BY <2>4 DEF HandleSearch, CountUsed, shardVars, callVars
  <2>5. QED BY <1>3, <2>1, <2>2, <2>3, <2>4
<1>4. CASE HandleAdd
  <2>1. request[serving].size \in Nat
    BY <1>4, SizesAreNumbers DEF HandleAdd, Inv, LoopInv, MessageInv, Held, Working
  <2>2. QED BY <1>4, <2>1 DEF HandleAdd, shardVars, callVars
<1>5. CASE Respond
  BY <1>5 DEF Respond, shardVars
<1>6. CASE Open \/ Close \/ AssignWorker
  BY <1>6 DEF Open, Close, AssignWorker, loopVars, callVars
<1>7. ASSUME NEW c \in Callers, AdmitAdd(c) \/ AdmitSearch(c) \/ EnqueueCrashes(c)
      PROVE  RestTypes'
  BY <1>7 DEF AdmitAdd, AdmitSearch, EnqueueCrashes, shardVars, loopVars, callVars, Inv, CallTypes
<1>8. ASSUME NEW c \in Callers, Enqueue(c) PROVE RestTypes'
  BY <1>8 DEF Enqueue, shardVars, loopVars, Inv, CallTypes
<1>9. ASSUME NEW c \in Callers, CallReturns(c) PROVE RestTypes'
  <2>1. request[c].size \in Nat
    BY <1>9, SizesAreNumbers DEF CallReturns
  <2>2. QED BY <1>9, <2>1 DEF CallReturns, shardVars, loopVars, Inv, CallTypes
<1>10. QED
  BY <1>1, <1>2, <1>3, <1>4, <1>5, <1>6, <1>7, <1>8, <1>9 DEF Next, LoopStep, CallStep

LEMMA InitTypes == Init => RestTypes
<1> SUFFICES ASSUME Init PROVE RestTypes
  OBVIOUS
<1>1. /\ channel = "null" /\ acked = 0 /\ accepted = 0 /\ loop = "none"
      /\ ids = [c \in Callers |-> 0] /\ call = [c \in Callers |-> "idle"]
      /\ built = FALSE /\ stopped = TRUE /\ closed = TRUE /\ hasWorker = FALSE /\ crashed = FALSE
  BY DEF Init
<1>2. QED BY <1>1 DEF RestTypes, LoopStates

(* Type correctness of the shard. *)
THEOREM Typing == Spec => []TypeOK
<1>1. Inv /\ Counts /\ RestTypes => TypeOK
  <2> SUFFICES ASSUME Inv, Counts, RestTypes PROVE TypeOK
    OBVIOUS
  <2>1. ChannelTypeOK
    <3>1. << >> \in Seq({Loop}) /\ <<Loop>> \in Seq({Loop})
      OBVIOUS
    <3>2. QED BY <3>1 DEF Inv, LoopInv, ChannelTypeOK
  <2>2. IF loop \in Working THEN serving \in Callers ELSE serving = NoValue
    BY DEF Inv, LoopInv
  <2>3. used \in Nat /\ recorded \in Nat /\ stored \in Nat
    BY DEF Counts
  <2>4. CallTypes /\ owner \in OwnerStates
    BY DEF Inv, OwnerInv
  <2>5. QED BY <2>1, <2>2, <2>3, <2>4 DEF RestTypes, TypeOK, CallTypes, Working
<1>2. QED BY <1>1, InitTypes, RestKept, Invariance, CountsInvariance, PTL DEF Spec

-------------------------------------------------------------------------------
(* What `used' says of the callers.  It is a sum over those that have not     *)
(* returned yet, one after the other in some order, and a sum is the last of  *)
(* its partial sums: p[i] is a plus what w gives for the first i callers.     *)

Many  == Cardinality(Callers)
Order == CHOOSE f : f \in Bijection(1..Many, Callers)

Tally(p, a, w) ==
    /\ p \in [0..Many -> Nat]
    /\ p[0] = a
    /\ \A i \in 1..Many : p[i] = p[i - 1] + w[Order[i]]
    /\ \A i, j \in 0..Many : i <= j => p[i] <= p[j]

LEMMA CallersAreInOrder ==
    /\ Many \in Nat
    /\ Order \in [1..Many -> Callers]
    /\ \A i, j \in 1..Many : Order[i] = Order[j] => i = j
    /\ \A c \in Callers : \E i \in 1..Many : Order[i] = c
<1>1. Many \in Nat /\ ExistsBijection(1..Many, Callers)
  BY FS_CardinalityType, CallersAssumption DEF Many
<1>2. Order \in Bijection(1..Many, Callers)
  BY <1>1, Zenon DEF ExistsBijection, Order
<1>3. QED BY <1>1, <1>2 DEF Bijection, Injection, Surjection, IsInjective

(* One summand grows, and what follows it with it. *)
LEMMA TallyGrows ==
    ASSUME NEW w \in [Callers -> Nat], NEW v \in [Callers -> Nat], NEW c \in Callers,
           w[c] = 0, \A d \in Callers \ {c} : v[d] = w[d],
           NEW a \in Nat, NEW p, Tally(p, a, w)
    PROVE  \E q : Tally(q, a, v) /\ q[Many] = p[Many] + v[c]
<1>1. PICK n \in 1..Many : Order[n] = c
  BY CallersAreInOrder
<1> DEFINE q == [i \in 0..Many |-> IF i < n THEN p[i] ELSE p[i] + v[c]]
<1>2. Many \in Nat /\ p \in [0..Many -> Nat] /\ v[c] \in Nat
  BY CallersAreInOrder DEF Tally
<1>3. q \in [0..Many -> Nat] /\ q[0] = a /\ q[Many] = p[Many] + v[c]
  BY <1>2 DEF Tally
<1>4. ASSUME NEW i \in 1..Many PROVE q[i] = q[i - 1] + v[Order[i]]
  <2>1. p[i] = p[i - 1] + w[Order[i]] /\ i - 1 \in 0..Many /\ i \in 0..Many
    BY <1>2 DEF Tally
  <2>2. Order[i] \in Callers /\ w[Order[i]] \in Nat
    BY CallersAreInOrder
  <2>3. CASE i = n
    BY <1>1, <1>2, <2>1, <2>3
  <2>4. CASE i # n
    <3>1. v[Order[i]] = w[Order[i]]
      BY <1>1, <2>4, CallersAreInOrder
    <3>2. CASE i < n
      <4>1. q[i] = p[i] /\ q[i - 1] = p[i - 1]
        BY <1>1, <2>1, <3>2
      <4>2. QED BY <2>1, <3>1, <4>1
    <3>3. CASE i > n
      <4>1. q[i] = p[i] + v[c] /\ q[i - 1] = p[i - 1] + v[c]
        BY <1>1, <2>1, <3>3
      <4>2. p[i - 1] \in Nat
        BY <1>2, <2>1
      <4>3. QED BY <1>2, <2>1, <2>2, <3>1, <4>1, <4>2
    <3>4. QED BY <1>1, <2>4, <3>2, <3>3
  <2>5. QED BY <2>3, <2>4
<1>5. ASSUME NEW i \in 0..Many, NEW j \in 0..Many, i <= j PROVE q[i] <= q[j]
  <2>1. p[i] <= p[j] /\ p[i] \in Nat /\ p[j] \in Nat
    BY <1>2, <1>5 DEF Tally
  <2>2. QED BY <1>2, <1>5, <2>1
<1>6. Tally(q, a, v)
  BY <1>3, <1>4, <1>5 DEF Tally
<1>7. QED BY <1>3, <1>6

(* One summand goes over to the number the sum begins with. *)
LEMMA TallyShifts ==
    ASSUME NEW w \in [Callers -> Nat], NEW v \in [Callers -> Nat], NEW c \in Callers,
           v[c] = 0, \A d \in Callers \ {c} : v[d] = w[d],
           NEW a \in Nat, NEW b \in Nat, b = a + w[c], NEW p, Tally(p, a, w)
    PROVE  \E q : Tally(q, b, v) /\ q[Many] = p[Many]
<1>1. PICK n \in 1..Many : Order[n] = c
  BY CallersAreInOrder
<1> DEFINE q == [i \in 0..Many |-> IF i < n THEN p[i] + w[c] ELSE p[i]]
<1>2. Many \in Nat /\ p \in [0..Many -> Nat] /\ w[c] \in Nat
  BY CallersAreInOrder DEF Tally
<1>3. q \in [0..Many -> Nat] /\ q[0] = b /\ q[Many] = p[Many]
  BY <1>2 DEF Tally
<1>4. ASSUME NEW i \in 1..Many PROVE q[i] = q[i - 1] + v[Order[i]]
  <2>1. p[i] = p[i - 1] + w[Order[i]] /\ i - 1 \in 0..Many /\ i \in 0..Many
    BY <1>2 DEF Tally
  <2>2. Order[i] \in Callers /\ w[Order[i]] \in Nat
    BY CallersAreInOrder
  <2>3. CASE i = n
    BY <1>1, <1>2, <2>1, <2>3
  <2>4. CASE i # n
    <3>1. v[Order[i]] = w[Order[i]]
      BY <1>1, <2>4, CallersAreInOrder
    <3>2. CASE i < n
      <4>1. q[i] = p[i] + w[c] /\ q[i - 1] = p[i - 1] + w[c]
        BY <1>1, <2>1, <3>2
      <4>2. p[i - 1] \in Nat
        BY <1>2, <2>1
      <4>3. QED BY <1>2, <2>1, <2>2, <3>1, <4>1, <4>2
    <3>3. CASE i > n
      <4>1. q[i] = p[i] /\ q[i - 1] = p[i - 1]
        BY <1>1, <2>1, <3>3
      <4>2. QED BY <2>1, <3>1, <4>1
    <3>4. QED BY <1>1, <2>4, <3>2, <3>3
  <2>5. QED BY <2>3, <2>4
<1>5. ASSUME NEW i \in 0..Many, NEW j \in 0..Many, i <= j PROVE q[i] <= q[j]
  <2>1. p[i] <= p[j] /\ p[i] \in Nat /\ p[j] \in Nat
    BY <1>2, <1>5 DEF Tally
  <2>2. CASE i < n /\ n <= j
    <3>1. n - 1 \in 0..Many /\ n \in 0..Many /\ i <= n - 1 /\ p[n] = p[n - 1] + w[c]
      BY <1>1, <1>2, <2>2 DEF Tally
    <3>2. p[i] <= p[n - 1] /\ p[n] <= p[j] /\ p[n - 1] \in Nat /\ p[n] \in Nat
      BY <1>2, <2>2, <3>1 DEF Tally
    <3>3. p[i] + w[c] <= p[j]
      <4> HIDE DEF q
      <4>1. p[n] = p[n - 1] + w[c]
        BY <3>1
      <4>2. w[c] \in Nat
        BY <1>2
      <4>3. QED BY <2>1, <3>2, <4>1, <4>2
    <3>4. q[i] = p[i] + w[c] /\ q[j] = p[j]
      BY <1>1, <1>2, <1>5, <2>2
    <3>5. QED BY <3>3, <3>4
  <2>3. QED BY <1>2, <1>5, <2>1, <2>2
<1>6. Tally(q, b, v)
  BY <1>3, <1>4, <1>5 DEF Tally
<1>7. QED BY <1>3, <1>6

(* What a caller will have been told when it returns, once the loop has       *)
(* counted its batch.                                                        *)
Told ==
    [c \in Callers |->
        IF \/ responded[c] /\ ids[c] > 0
           \/ loop = "replying" /\ serving = c /\ accepted > 0
        THEN request[c].size ELSE 0]

Tallied == \E p : Tally(p, acked, Told) /\ p[Many] <= used

Owed ==
    /\ \A c \in Callers : responded[c] => call[c] = "waiting"
    /\ Tallied

LEMMA ToldIsNumber ==
    ASSUME Inv, RestTypes, Owed
    PROVE  Told \in [Callers -> Nat]
<1>1. ASSUME NEW c \in Callers, responded[c] \/ (serving = c /\ loop = "replying")
      PROVE  request[c].size \in Nat
  <2>1. request[c] \in Requests
    BY <1>1 DEF Inv, MessageInv, Held, RestTypes, Owed
  <2>2. QED BY <2>1, SizesAreNumbers
<1>2. QED BY <1>1 DEF Told

(* A step that tells nobody of anything. *)
LEMMA SilentOwes ==
    ASSUME Owed, UNCHANGED <<acked, Told>>, used' >= used, used \in Nat, used' \in Nat, RestTypes,
           \A c \in Callers : responded'[c] => call'[c] = "waiting"
    PROVE  Owed'
<1>1. PICK p : Tally(p, acked, Told) /\ p[Many] <= used
  BY DEF Owed, Tallied
<1>2. p[Many] \in Nat
  BY <1>1, CallersAreInOrder DEF Tally
<1>3. Tally(p, acked', Told') /\ p[Many] <= used'
  BY <1>1, <1>2
<1>4. Tallied'
  BY <1>3 DEF Tallied
<1>5. QED BY <1>4 DEF Owed

LEMMA CountUsedOwes ==
    ASSUME Inv, Counts, RestTypes, Owed, CountUsed
    PROVE  Owed'
<1>1. /\ loop = "counting" /\ loop' = "replying" /\ used' = used + request[serving].size
      /\ UNCHANGED <<call, request, ids, responded, acked, serving, accepted>>
  BY DEF CountUsed, callVars
<1>2. /\ serving \in Callers /\ ~ responded[serving] /\ request[serving].size \in Nat
      /\ used \in Nat /\ accepted \in Nat /\ acked \in Nat
  BY <1>1 DEF Inv, LoopInv, MessageInv, Held, Working, Counts, RestTypes
<1>3. Told[serving] = 0 /\ Told \in [Callers -> Nat]
  BY <1>1, <1>2, ToldIsNumber DEF Told
<1>4. /\ \A d \in Callers \ {serving} : Told'[d] = Told[d]
      /\ Told'[serving] \in 0..request[serving].size
      /\ Told' \in [Callers -> Nat]
  <2>1. Told' = [d \in Callers |->
                    IF d = serving THEN IF accepted > 0 THEN request[serving].size ELSE 0
                    ELSE Told[d]]
    BY <1>1, <1>2 DEF Told
  <2>2. QED BY <1>2, <1>3, <2>1
<1>5. PICK p : Tally(p, acked, Told) /\ p[Many] <= used
  BY DEF Owed, Tallied
<1>6. PICK q : Tally(q, acked, Told') /\ q[Many] = p[Many] + Told'[serving]
  BY <1>2, <1>3, <1>4, <1>5, TallyGrows
<1>7. p[Many] \in Nat
  BY <1>5, CallersAreInOrder DEF Tally
<1>8. Tally(q, acked', Told') /\ q[Many] <= used'
  BY <1>1, <1>2, <1>4, <1>5, <1>6, <1>7
<1>9. Tallied'
  BY <1>8 DEF Tallied
<1>10. QED BY <1>1, <1>9 DEF Owed

LEMMA ReturnOwes ==
    ASSUME Inv, Counts, RestTypes, Owed, NEW c \in Callers, CallReturns(c)
    PROVE  Owed'
<1>1. /\ call[c] = "waiting" /\ responded[c]
      /\ call' = [call EXCEPT ![c] = "idle"]
      /\ responded' = [responded EXCEPT ![c] = FALSE]
      /\ acked' = IF ids[c] > 0 THEN acked + request[c].size ELSE acked
      /\ UNCHANGED <<loop, serving, accepted, request, ids, used>>
  BY DEF CallReturns, loopVars, recordVars
<1>2. serving # c /\ request[c].size \in Nat /\ acked \in Nat /\ ids[c] \in Nat
  <2>1. request[c] \in Requests
    BY <1>1 DEF RestTypes
  <2>2. QED BY <1>1, <2>1, SizesAreNumbers DEF Inv, MessageInv, Held, RestTypes
<1>3. Told \in [Callers -> Nat]
  BY ToldIsNumber
<1>4. acked' = acked + Told[c] /\ acked' \in Nat
  <2>1. Told[c] = IF ids[c] > 0 THEN request[c].size ELSE 0
    BY <1>1, <1>2 DEF Told
  <2>2. QED BY <1>1, <1>2, <2>1
<1>5. /\ Told'[c] = 0 /\ \A d \in Callers \ {c} : Told'[d] = Told[d]
      /\ Told' \in [Callers -> Nat]
  <2>1. Told' = [d \in Callers |-> IF d = c THEN 0 ELSE Told[d]]
    BY <1>1, <1>2 DEF Told, Inv, CallTypes
  <2>2. QED BY <1>3, <2>1
<1>6. PICK p : Tally(p, acked, Told) /\ p[Many] <= used
  BY DEF Owed, Tallied
<1>7. PICK q : Tally(q, acked', Told') /\ q[Many] = p[Many]
  BY <1>2, <1>3, <1>4, <1>5, <1>6, TallyShifts
<1>8. Tally(q, acked', Told') /\ q[Many] <= used'
  BY <1>1, <1>6, <1>7
<1>9. Tallied'
  BY <1>8 DEF Tallied
<1>10. QED BY <1>1, <1>9 DEF Owed, Inv, CallTypes

LEMMA RespondOwes ==
    ASSUME Inv, Counts, RestTypes, Owed, Respond
    PROVE  Owed'
<1>1. /\ loop = "replying" /\ loop' = "looping" /\ serving' = NoValue
      /\ ids' = [ids EXCEPT ![serving] = accepted]
      /\ responded' = [responded EXCEPT ![serving] = TRUE]
      /\ UNCHANGED <<used, call, request, acked>>
  BY DEF Respond, recordVars
<1>2. /\ serving \in Callers /\ ~ responded[serving] /\ call[serving] = "waiting"
      /\ used \in Nat /\ accepted \in Nat
  BY <1>1 DEF Inv, LoopInv, MessageInv, Held, Working, Counts, RestTypes
<1>3. Told' = Told
  BY <1>1, <1>2 DEF Told, Inv, CallTypes, RestTypes
<1>4. \A c \in Callers : responded'[c] => call'[c] = "waiting"
  BY <1>1, <1>2 DEF Owed, Inv, CallTypes
<1>5. QED BY <1>1, <1>2, <1>3, <1>4, SilentOwes

LEMMA EnqueueOwes ==
    ASSUME Inv, Counts, RestTypes, Owed, NEW c \in Callers, Enqueue(c)
    PROVE  Owed'
<1>1. /\ call[c] # "waiting" /\ call' = [call EXCEPT ![c] = "waiting"]
      /\ responded' = [responded EXCEPT ![c] = FALSE]
      /\ ids' = [ids EXCEPT ![c] = 0]
      /\ \E r : request' = [request EXCEPT ![c] = r]
      /\ UNCHANGED <<loop, serving, accepted, used, acked>>
  BY DEF Enqueue, Admitted, loopVars, recordVars
<1>2. ~ responded[c] /\ (loop = "replying" => serving # c)
  BY <1>1 DEF Owed, Inv, MessageInv, Held
<1>3. Told' = Told
  BY <1>1, <1>2 DEF Told, Inv, CallTypes, RestTypes
<1>4. \A d \in Callers : responded'[d] => call'[d] = "waiting"
  BY <1>1 DEF Owed, Inv, CallTypes
<1>5. QED BY <1>1, <1>3, <1>4, SilentOwes DEF Counts

LEMMA OthersOwe ==
    ASSUME Inv, Counts, RestTypes, Owed, [Next]_vars, ~ CountUsed, ~ Respond,
           \A c \in Callers : ~ Enqueue(c) /\ ~ CallReturns(c)
    PROVE  Owed'
<1>1. UNCHANGED <<request, ids, responded, acked>>
  <2>1. CASE LoopStep
    BY <2>1 DEF LoopStep, LoopCrashes, LoopTakes, LoopWaits, LoopReceives, LoopGetsNull,
           LoopContinues, LoopBreaks, HandleSearch, HandleAdd, callVars
  <2>2. CASE OwnerStep
    BY <2>2 DEF OwnerStep, StartThread, StartChannel, StartFlag, StopFlag, StopWakes,
           StopJoins, StopResets, callVars
  <2>3. CASE Open \/ Close \/ AssignWorker
    BY <2>3 DEF Open, Close, AssignWorker, callVars
  <2>4. ASSUME NEW c \in Callers, AdmitAdd(c) \/ AdmitSearch(c) \/ EnqueueCrashes(c)
        PROVE  UNCHANGED <<request, ids, responded, acked>>
    BY <2>4 DEF AdmitAdd, AdmitSearch, EnqueueCrashes, callVars
  <2>5. CASE UNCHANGED vars
    BY <2>5 DEF vars, callVars
  <2>6. QED BY <2>1, <2>2, <2>3, <2>4, <2>5 DEF Next, CallStep
<1>2. \A c \in Callers : responded'[c] => call'[c] = "waiting"
  <2>1. CASE UNCHANGED call
    BY <1>1, <2>1 DEF Owed
  <2>2. ASSUME NEW c \in Callers, AdmitAdd(c) \/ AdmitSearch(c)
        PROVE  \A d \in Callers : responded'[d] => call'[d] = "waiting"
    <3>1. call[c] = "idle" /\ \E place : call' = [call EXCEPT ![c] = place]
      BY <2>2 DEF AdmitAdd, AdmitSearch
    <3>2. QED BY <1>1, <3>1 DEF Owed, Inv, CallTypes
  <2>3. CASE LoopStep
    BY <2>1, <2>3 DEF LoopStep, LoopCrashes, LoopTakes, LoopWaits, LoopReceives, LoopGetsNull,
           LoopContinues, LoopBreaks, HandleSearch, HandleAdd, callVars
  <2>4. CASE OwnerStep
    BY <2>1, <2>4 DEF OwnerStep, StartThread, StartChannel, StartFlag, StopFlag, StopWakes,
           StopJoins, StopResets, callVars
  <2>5. CASE Open \/ Close \/ AssignWorker
    BY <2>1, <2>5 DEF Open, Close, AssignWorker, callVars
  <2>6. CASE UNCHANGED vars
    BY <2>1, <2>6 DEF vars, callVars
  <2>7. ASSUME NEW c \in Callers, EnqueueCrashes(c)
        PROVE  \A d \in Callers : responded'[d] => call'[d] = "waiting"
    BY <2>1, <2>7 DEF EnqueueCrashes, callVars
  <2>8. QED BY <2>2, <2>3, <2>4, <2>5, <2>6, <2>7 DEF Next, CallStep
<1>3. used' >= used /\ used \in Nat /\ used' \in Nat
  <2>1. CASE HandleAdd
    BY <2>1 DEF HandleAdd, Counts
  <2>2. CASE ~ HandleAdd
    BY <2>2, RecordsKept DEF recordVars, Counts
  <2>3. QED BY <2>1, <2>2
<1>4. UNCHANGED Told
  <2>1. \/ UNCHANGED <<loop, serving, accepted>>
        \/ loop # "replying" /\ (loop' = "replying" => accepted' = 0)
    <3>1. CASE LoopStep
      BY <3>1 DEF LoopStep, LoopCrashes, LoopTakes, LoopWaits, LoopReceives, LoopGetsNull,
             LoopContinues, LoopBreaks, HandleSearch, HandleAdd, loopVars
    <3>2. CASE OwnerStep
      BY <3>2 DEF OwnerStep, StartThread, StartChannel, StartFlag, StopFlag, StopWakes,
             StopJoins, StopResets, loopVars, Inv, OwnerInv
    <3>3. CASE Open \/ Close \/ AssignWorker \/ UNCHANGED vars
      BY <3>3 DEF Open, Close, AssignWorker, vars, loopVars
    <3>4. ASSUME NEW c \in Callers, AdmitAdd(c) \/ AdmitSearch(c) \/ EnqueueCrashes(c)
          PROVE  UNCHANGED <<loop, serving, accepted>>
      BY <3>4 DEF AdmitAdd, AdmitSearch, EnqueueCrashes, loopVars
    <3>5. QED BY <3>1, <3>2, <3>3, <3>4 DEF Next, CallStep
  <2>2. CASE UNCHANGED <<loop, serving, accepted>>
    BY <1>1, <2>2 DEF Told
  <2>3. CASE loop # "replying" /\ (loop' = "replying" => accepted' = 0)
    BY <1>1, <2>3 DEF Told
  <2>4. QED BY <2>1, <2>2, <2>3
<1>5. QED BY <1>1, <1>2, <1>3, <1>4, SilentOwes

(* Every feature a caller has been told of is in `used', and so is every one  *)
(* that is stored: for any callers and batches, and whatever fails.           *)
THEOREM Accounted == Spec => []UsedIsAccounted
<1>1. Init => Owed
  <2> SUFFICES ASSUME Init PROVE Owed
    OBVIOUS
  <2>1. /\ responded = [c \in Callers |-> FALSE] /\ used = 0 /\ acked = 0 /\ loop = "none"
    BY DEF Init
  <2>2. Told = [c \in Callers |-> 0]
    BY <2>1 DEF Told
  <2> DEFINE p == [i \in 0..Many |-> 0]
  <2>3. Many \in Nat /\ \A i \in 1..Many : Order[i] \in Callers
    BY CallersAreInOrder
  <2>4. Tally(p, acked, Told) /\ p[Many] <= used
    BY <2>1, <2>2, <2>3 DEF Tally
  <2>5. QED BY <2>1, <2>4 DEF Owed, Tallied
<1>2. Inv /\ Counts /\ RestTypes /\ Owed /\ [Next]_vars => Owed'
  BY CountUsedOwes, RespondOwes, EnqueueOwes, ReturnOwes, OthersOwe
<1>3. Counts /\ Owed => UsedIsAccounted
  <2> SUFFICES ASSUME Counts, Owed PROVE acked <= used
    BY DEF UsedIsAccounted, Counts
  <2>1. PICK p : Tally(p, acked, Told) /\ p[Many] <= used
    BY DEF Owed, Tallied
  <2>2. Many \in Nat
    BY CallersAreInOrder
  <2>3. p[0] <= p[Many] /\ p[0] = acked /\ p[0] \in Nat /\ p[Many] \in Nat /\ used \in Nat
    BY <2>1, <2>2 DEF Tally, Counts
  <2>4. QED BY <2>1, <2>3
<1>4. Init => RestTypes
  BY InitTypes
<1>5. QED BY <1>1, <1>2, <1>3, <1>4, RestKept, Invariance, CountsInvariance, PTL DEF Spec

-------------------------------------------------------------------------------
(* The refinement. *)

(* What RequestReply calls phase. *)
Phase == [c \in Callers |-> IF call[c] # "waiting" THEN "idle"
                            ELSE IF responded[c] THEN "answered" ELSE "pending"]

LEMMA MappedStep ==
    ASSUME NEW c \in Callers,
           \/ \E r \in Requests :
                 /\ Phase[c] = "idle" /\ Phase' = [Phase EXCEPT ![c] = "pending"]
                 /\ request' = [request EXCEPT ![c] = r]
                 /\ response' = [response EXCEPT ![c] = NoValue]
           \/ /\ Phase[c] = "pending" /\ Phase' = [Phase EXCEPT ![c] = "answered"]
              /\ request[c] \in Requests
              /\ response' = [response EXCEPT ![c] = request[c]]
              /\ UNCHANGED request
           \/ /\ Phase[c] = "answered" /\ Phase' = [Phase EXCEPT ![c] = "idle"]
              /\ UNCHANGED <<request, response>>
    PROVE  Service!Next
BY DEF Service!Next, Service!Call, Service!Answer, Service!Return, Phase

LEMMA HiddenStep ==
    ASSUME UNCHANGED <<call, request, response, responded>>
    PROVE  UNCHANGED Service!vars
BY DEF Service!vars

LEMMA EnqueueCalls ==
    ASSUME Inv, NEW c \in Callers, Enqueue(c)
    PROVE  Service!Next
<1>1. /\ call[c] # "waiting" /\ call' = [call EXCEPT ![c] = "waiting"]
      /\ responded' = [responded EXCEPT ![c] = FALSE]
      /\ response' = [response EXCEPT ![c] = NoValue]
      /\ \E r \in Requests : request' = [request EXCEPT ![c] = r]
  BY DEF Enqueue, Admitted
<1>2. Phase[c] = "idle" /\ Phase' = [Phase EXCEPT ![c] = "pending"]
  BY <1>1 DEF Phase, Inv, CallTypes
<1>3. QED BY <1>1, <1>2, MappedStep

LEMMA RespondAnswers ==
    ASSUME Inv, Respond
    PROVE  Service!Next
<1>1. /\ serving \in Callers /\ UNCHANGED <<call, request>>
      /\ responded' = [responded EXCEPT ![serving] = TRUE]
      /\ response' = [response EXCEPT ![serving] = request[serving]]
  BY DEF Respond, Inv, LoopInv, Working
<1>2. call[serving] = "waiting" /\ ~ responded[serving] /\ request[serving] \in Requests
  BY <1>1 DEF Inv, MessageInv, Held
<1>3. Phase[serving] = "pending" /\ Phase' = [Phase EXCEPT ![serving] = "answered"]
  BY <1>1, <1>2 DEF Phase, Inv, CallTypes
<1>4. QED BY <1>1, <1>2, <1>3, MappedStep

LEMMA ReturnReturns ==
    ASSUME Inv, NEW c \in Callers, CallReturns(c)
    PROVE  Service!Next
<1>1. /\ call[c] = "waiting" /\ responded[c] /\ call' = [call EXCEPT ![c] = "idle"]
      /\ responded' = [responded EXCEPT ![c] = FALSE]
      /\ UNCHANGED <<request, response>>
  BY DEF CallReturns
<1>2. Phase[c] = "answered" /\ Phase' = [Phase EXCEPT ![c] = "idle"]
  BY <1>1 DEF Phase, Inv, CallTypes
<1>3. QED BY <1>1, <1>2, MappedStep

LEMMA AdmitIsHidden ==
    ASSUME Inv, NEW c \in Callers, AdmitAdd(c) \/ AdmitSearch(c)
    PROVE  UNCHANGED Service!vars
<1>1. /\ call[c] # "waiting" /\ UNCHANGED <<request, response, responded>>
      /\ \E place \in {"adding", "searching"} : call' = [call EXCEPT ![c] = place]
  BY DEF AdmitAdd, AdmitSearch
<1>2. UNCHANGED Phase
  BY <1>1 DEF Phase, Inv, CallTypes
<1>3. QED BY <1>1, <1>2 DEF Service!vars, Phase

(* The shard answers each call it takes on at most once, with the answer to   *)
(* that call, across Stop and Start, for any callers and batches.             *)
THEOREM Refinement == Spec => ImplementsService
<1>1. Init => Service!Init
  BY DEF Init, Service!Init
<1>2. Inv /\ [Next]_vars => [Service!Next]_(Service!vars)
  <2> SUFFICES ASSUME Inv, [Next]_vars PROVE [Service!Next]_(Service!vars)
    OBVIOUS
  <2>1. CASE UNCHANGED callVars
    BY <2>1, HiddenStep DEF callVars
  <2>2. CASE LoopStep
    BY <2>1, <2>2, RespondAnswers DEF LoopStep, LoopCrashes, LoopTakes, LoopWaits, LoopReceives,
           LoopGetsNull, LoopContinues, LoopBreaks, HandleSearch, HandleAdd, CountUsed
  <2>3. CASE OwnerStep
    BY <2>1, <2>3 DEF OwnerStep, StartThread, StartChannel, StartFlag, StopFlag, StopWakes, StopJoins,
           StopResets
  <2>4. CASE Open \/ Close \/ AssignWorker
    BY <2>1, <2>4 DEF Open, Close, AssignWorker
  <2>5. ASSUME NEW c \in Callers, EnqueueCrashes(c) PROVE [Service!Next]_(Service!vars)
    BY <2>1, <2>5 DEF EnqueueCrashes
  <2>6. CASE UNCHANGED vars
    BY <2>1, <2>6 DEF vars
  <2>7. QED
    BY <2>2, <2>3, <2>4, <2>5, <2>6, EnqueueCalls, ReturnReturns, AdmitIsHidden DEF Next, CallStep
<1>3. QED BY <1>1, <1>2, Invariance, PTL DEF Spec, ImplementsService, Service!Spec
===============================================================================
