---------------------- MODULE ConcurrentProcessorProofs ----------------------
(***************************************************************************)
(* Theorems about ConcurrentProcessor, for any number of callers, workers  *)
(* and inputs.                                                             *)
(***************************************************************************)
EXTENDS ConcurrentProcessor, SequenceLemmas, FiniteSetTheorems, TLAPS

(* What the operations of the channel do to its type. *)
LEMMA EnqueueType ==
    ASSUME ChannelTypeOK, NEW c \in Callers, enqueueNotification(c)
    PROVE  ChannelTypeOK'
<1> USE DEF ChannelTypeOK
<1>1. CASE waitQueue = << >>
  BY <1>1 DEF enqueueNotification
<1>2. CASE waitQueue # << >>
  <2>1. Head(waitQueue) \in Workers /\ Tail(waitQueue) \in Seq(Workers)
    BY <1>2
  <2>2. QED BY <1>2, <2>1 DEF enqueueNotification
<1>3. QED BY <1>1, <1>2

(* The constructors leave every variable in its type. *)
LEMMA InitType == Init => TypeOK
BY ConcurrentAssumption, CapacityAssumption
   DEF Init, TypeOK, ChannelInit, ChannelTypeOK, OwnerStates, WorkerStates

(* No step of the owner, a worker or a caller leaves the types. *)
LEMMA TypeStep == TypeOK /\ [Next]_vars => TypeOK'
<1> SUFFICES ASSUME TypeOK, [Next]_vars PROVE TypeOK'
  OBVIOUS
<1> USE ConcurrentAssumption, CapacityAssumption
    DEF TypeOK, channelVars, ownerVars, workerVars, callVars, OwnerStates, WorkerStates
<1>1. CASE UNCHANGED vars
  BY <1>1 DEF vars, ChannelTypeOK
<1>2. CASE InitBegins
  BY <1>2 DEF InitBegins, ChannelTypeOK
<1>3. CASE CreateWorkerFails
  BY <1>3 DEF CreateWorkerFails, ChannelTypeOK
<1>4. CASE AllCreated
  BY <1>4 DEF AllCreated, ChannelTypeOK
<1>5. CASE InitReturns
  BY <1>5 DEF InitReturns, ChannelTypeOK
<1>6. CASE TerminateBegins
  BY <1>6 DEF TerminateBegins, wakeUpAll, ChannelTypeOK
<1>7. CASE JoinAllReturns
  BY <1>7 DEF JoinAllReturns, ChannelTypeOK
<1>8. ASSUME NEW w \in Workers, CreateWorker(w) PROVE TypeOK'
  BY <1>8 DEF CreateWorker, ChannelTypeOK
<1>9. ASSUME NEW w \in Workers, StartWorker(w) PROVE TypeOK'
  BY <1>9 DEF StartWorker, ChannelTypeOK
<1>10. ASSUME NEW w \in Workers, TakeMessage(w) PROVE TypeOK'
  BY <1>10 DEF TakeMessage, TakeQueued, Begin, ChannelTypeOK
<1>11. ASSUME NEW w \in Workers, WaitForMessage(w) PROVE TypeOK'
  BY <1>11 DEF WaitForMessage, StartWaiting, ChannelTypeOK
<1>12. ASSUME NEW w \in Workers, ReceiveMessage(w) PROVE TypeOK'
  BY <1>12 DEF ReceiveMessage, StopWaiting, Begin, ChannelTypeOK
<1>13. ASSUME NEW w \in Workers, ReceiveNull(w) PROVE TypeOK'
  BY <1>13 DEF ReceiveNull, StopWaiting, ChannelTypeOK
<1>14. ASSUME NEW w \in Workers, Respond(w) PROVE TypeOK'
  BY <1>14 DEF Respond, EndServing, ChannelTypeOK
<1>15. ASSUME NEW w \in Workers, Reject(w) PROVE TypeOK'
  BY <1>15 DEF Reject, EndServing, ChannelTypeOK
<1>16. ASSUME NEW c \in Callers, NEW v \in Inputs, Process(c, v) PROVE TypeOK'
  <2>1. ChannelTypeOK'
    BY <1>16, EnqueueType DEF Process
  <2>2. QED BY <1>16, <2>1 DEF Process
<1>17. ASSUME NEW c \in Callers, ProcessReturns(c) PROVE TypeOK'
  BY <1>17 DEF ProcessReturns, ChannelTypeOK
<1>18. ASSUME NEW w \in Workers, Throw(w) PROVE TypeOK'
  BY <1>18 DEF Throw, ChannelTypeOK
<1>19. QED
  BY <1>1, <1>2, <1>3, <1>4, <1>5, <1>6, <1>7, <1>8, <1>9, <1>10, <1>11, <1>12,
     <1>13, <1>14, <1>15, <1>16, <1>17, <1>18
     DEF Next, OwnerStep, WorkerStep, CallerStep

(* Every variable keeps its type: what Process, Init, Terminate and run      *)
(* assign is in range.                                                       *)
THEOREM Typing == Spec => []TypeOK
BY InitType, TypeStep, PTL DEF Spec

-------------------------------------------------------------------------------
(* What the steps on the channel do to the sets Queued and Blocked.          *)

Inv ==
    /\ TypeOK
    /\ RecordsAgree
    /\ EachCallInOnePlace
    /\ AnswerIsOwn

(* enqueueNotification puts a message in one place: with the worker that has  *)
(* waited longest, or, when none waits, at the end of the queue.              *)
LEMMA EnqueueEffect ==
    ASSUME Inv, NEW c \in Callers, ~ Queued(c), enqueueNotification(c)
    PROVE  \/ /\ waitQueue = << >>
              /\ UNCHANGED <<waitQueue, handedOver>>
              /\ IsInjective(nfQueue)'
              /\ \A x : Queued(x)' <=> Queued(x) \/ x = c
           \/ \E w \in Workers :
              /\ Blocked(w)
              /\ handedOver' = [handedOver EXCEPT ![w] = c]
              /\ UNCHANGED nfQueue
              /\ IsInjective(waitQueue)'
              /\ \A x : Blocked(x)' <=> Blocked(x) /\ x # w
<1> USE DEF Inv, TypeOK, ChannelTypeOK
<1>1. CASE waitQueue = << >>
  <2>1. nfQueue' = Append(nfQueue, c) /\ UNCHANGED <<waitQueue, handedOver>>
    BY <1>1 DEF enqueueNotification
  <2>2. /\ \A x : Contains(nfQueue', x) <=> Contains(nfQueue, x) \/ x = c
        /\ IsInjective(nfQueue')
    BY <2>1, AppendMembers DEF EachCallInOnePlace, Queued
  <2>3. QED BY <1>1, <2>1, <2>2 DEF Queued
<1>2. CASE waitQueue # << >>
  <2>1. /\ handedOver' = [handedOver EXCEPT ![Head(waitQueue)] = c]
        /\ waitQueue' = Tail(waitQueue)
        /\ nfQueue' = nfQueue
    BY <1>2 DEF enqueueNotification
  <2>2. /\ Head(waitQueue) \in Workers
        /\ Contains(waitQueue, Head(waitQueue))
        /\ IsInjective(waitQueue')
        /\ \A x : Contains(waitQueue', x) <=> Contains(waitQueue, x) /\ x # Head(waitQueue)
    BY <1>2, <2>1, TailMembers DEF RecordsAgree
  <2>3. QED BY <2>1, <2>2 DEF Blocked
<1>3. QED BY <1>1, <1>2

(* A dequeue takes one message out of the queue and leaves the waiting        *)
(* workers alone.                                                             *)
LEMMA TakeQueuedEffect ==
    ASSUME Inv, NEW c \in Callers, TakeQueued(c)
    PROVE  /\ Queued(c)
           /\ nfQueue # << >>
           /\ UNCHANGED <<waitQueue, handedOver>>
           /\ IsInjective(nfQueue)'
           /\ \A x : Queued(x)' <=> Queued(x) /\ x # c
<1>1. /\ nfQueue' = Tail(nfQueue) /\ nfQueue # << >> /\ c = Head(nfQueue)
      /\ UNCHANGED <<waitQueue, handedOver>>
  BY DEF TakeQueued
<1>2. /\ Contains(nfQueue, c)
      /\ IsInjective(nfQueue')
      /\ \A x : Contains(nfQueue', x) <=> Contains(nfQueue, x) /\ x # c
  BY <1>1, TailMembers DEF Inv, TypeOK, ChannelTypeOK, EachCallInOnePlace
<1>3. QED BY <1>1, <1>2 DEF Queued

(* A worker blocks only on an empty queue, behind those that wait already.    *)
LEMMA StartWaitingEffect ==
    ASSUME Inv, NEW w \in Workers, ~ Blocked(w), StartWaiting(w)
    PROVE  /\ nfQueue = << >>
           /\ UNCHANGED <<nfQueue, handedOver>>
           /\ IsInjective(waitQueue)'
           /\ \A x : Blocked(x)' <=> Blocked(x) \/ x = w
<1>1. /\ waitQueue' = Append(waitQueue, w) /\ nfQueue = << >>
      /\ UNCHANGED <<nfQueue, handedOver>>
  BY DEF StartWaiting
<1>2. /\ IsInjective(waitQueue')
      /\ \A x : Contains(waitQueue', x) <=> Contains(waitQueue, x) \/ x = w
  BY <1>1, AppendMembers DEF Inv, TypeOK, ChannelTypeOK, RecordsAgree, Blocked
<1>3. QED BY <1>1, <1>2 DEF Blocked

(* wakeUpAll unblocks every waiting worker and hands no message to any.       *)
LEMMA WakeUpAllEffect ==
    ASSUME wakeUpAll
    PROVE  /\ UNCHANGED <<nfQueue, handedOver>>
           /\ waitQueue' = << >>
           /\ IsInjective(waitQueue)'
           /\ \A x : ~ Blocked(x)'
BY DEF wakeUpAll, Blocked, Contains, IsInjective

-------------------------------------------------------------------------------
(* The invariant, one lemma for each group of steps. *)

(* The invariant holds before Init is called. *)
LEMMA InitInv == Init => Inv
<1> SUFFICES ASSUME Init PROVE Inv
  OBVIOUS
<1>1. \A x : ~ Queued(x) /\ ~ Blocked(x)
  BY DEF Init, ChannelInit, Queued, Blocked, Contains
<1>2. IsInjective(nfQueue) /\ IsInjective(waitQueue)
  BY DEF Init, ChannelInit, IsInjective
<1>3. TypeOK
  BY InitType
<1>4. RecordsAgree
  BY <1>1, <1>2, NamesAssumption DEF Init, ChannelInit, RecordsAgree, Running, Dead, NotStarted
<1>5. EachCallInOnePlace
  BY <1>1, <1>2, NamesAssumption
     DEF Init, ChannelInit, EachCallInOnePlace, InHand, Outstanding, Dropped
<1>6. AnswerIsOwn
  BY DEF Init, ChannelInit, AnswerIsOwn
<1>7. QED BY <1>3, <1>4, <1>5, <1>6 DEF Inv

(* The owner: only wakeUpAll touches the channel, and only the starts and     *)
(* creations touch a worker.                                                 *)
LEMMA OwnerStepInv ==
    ASSUME Inv, TypeOK', OwnerStep
    PROVE  Inv'
<1> USE DEF Inv, channelVars, ownerVars, workerVars, callVars
<1>1. ASSUME UNCHANGED channelVars
      PROVE  /\ \A x : (Queued(x)' <=> Queued(x)) /\ (Blocked(x)' <=> Blocked(x))
             /\ IsInjective(nfQueue)' /\ IsInjective(waitQueue)'
  BY <1>1 DEF Queued, Blocked, Contains, IsInjective, RecordsAgree, EachCallInOnePlace
<1>2. ASSUME UNCHANGED <<channelVars, serving, callVars>>
      PROVE  EachCallInOnePlace' /\ AnswerIsOwn'
  <2>1. EachCallInOnePlace'
    BY <1>1, <1>2 DEF EachCallInOnePlace, InHand, Outstanding, Dropped
  <2>2. QED BY <1>2, <2>1 DEF AnswerIsOwn
<1>3. CASE InitBegins
  <2>1. RecordsAgree'
    BY <1>1, <1>3 DEF InitBegins, RecordsAgree, Running, Dead, NotStarted
  <2>2. QED BY <1>2, <1>3, <2>1 DEF InitBegins
<1>4. CASE CreateWorkerFails
  <2>1. RecordsAgree'
    BY <1>1, <1>4 DEF CreateWorkerFails, RecordsAgree, Running, Dead, NotStarted
  <2>2. QED BY <1>2, <1>4, <2>1 DEF CreateWorkerFails
<1>5. CASE AllCreated
  <2>1. RecordsAgree'
    BY <1>1, <1>5 DEF AllCreated, RecordsAgree, Running, Dead, NotStarted
  <2>2. QED BY <1>2, <1>5, <2>1 DEF AllCreated
<1>6. CASE InitReturns
  <2>1. RecordsAgree'
    BY <1>1, <1>6 DEF InitReturns, RecordsAgree, Running, Dead, NotStarted
  <2>2. QED BY <1>2, <1>6, <2>1 DEF InitReturns
<1>7. ASSUME NEW w \in Workers, CreateWorker(w) PROVE Inv'
  <2>1. RecordsAgree'
    BY <1>1, <1>7 DEF CreateWorker, RecordsAgree, Running, Dead, NotStarted, TypeOK, ChannelTypeOK
  <2>2. QED BY <1>2, <1>7, <2>1 DEF CreateWorker
<1>8. ASSUME NEW w \in Workers, StartWorker(w) PROVE Inv'
  <2>1. RecordsAgree'
    BY <1>1, <1>8 DEF StartWorker, RecordsAgree, Running, Dead, NotStarted, TypeOK, ChannelTypeOK
  <2>2. QED BY <1>2, <1>8, <2>1 DEF StartWorker
<1>9. CASE TerminateBegins
  <2>1. /\ UNCHANGED <<nfQueue, handedOver>> /\ waitQueue' = << >>
        /\ IsInjective(waitQueue)' /\ \A x : ~ Blocked(x)'
    BY <1>9, WakeUpAllEffect DEF TerminateBegins
  <2>2. /\ \A x : Queued(x)' <=> Queued(x)
        /\ IsInjective(nfQueue)'
    BY <2>1 DEF Queued, EachCallInOnePlace
  <2>3. RecordsAgree'
    BY <1>9, <2>1 DEF TerminateBegins, RecordsAgree, Running, Dead, NotStarted
  <2>4. EachCallInOnePlace'
    BY <1>9, <2>1, <2>2
       DEF TerminateBegins, EachCallInOnePlace, InHand, Outstanding, Dropped
  <2>5. QED
    BY <1>9, <2>1, <2>3, <2>4 DEF TerminateBegins, AnswerIsOwn
<1>10. CASE JoinAllReturns
  <2>1. /\ owner = "joining" /\ Running = {} /\ owner' = "terminated"
        /\ worker' = [w \in Workers |-> IF worker[w] = "died" THEN "exited" ELSE worker[w]]
        /\ serving' = [w \in Workers |-> NoValue]
        /\ UNCHANGED <<channelVars, toCreate, capacity, isInited, taken, callVars>>
    BY <1>10 DEF JoinAllReturns
  <2>2. RecordsAgree'
    BY <1>1, <2>1 DEF RecordsAgree, Running, Dead, NotStarted, TypeOK, ChannelTypeOK
  <2>3. \A c \in Callers, w \in Workers : InHand(c, w) /\ ~ InHand(c, w)' => input[c] \in Fatal
    BY <2>1 DEF InHand, Running, RecordsAgree, TypeOK, WorkerStates
  <2>4. \A c \in Callers, w \in Workers : InHand(c, w)' => InHand(c, w)
    BY <2>1, NamesAssumption DEF InHand, TypeOK
  <2>5. EachCallInOnePlace'
    <3>1. \A c \in Callers : Outstanding(c)' <=> Outstanding(c)
      BY <2>1 DEF Outstanding
    <3>2. ASSUME NEW c \in Callers, Dropped(c)' PROVE input[c] \notin Accepted
      BY <1>1, <2>1, <2>3, <3>1, <3>2, InputsAssumption DEF Dropped, EachCallInOnePlace
    <3>3. QED BY <1>1, <2>1, <2>4, <3>1, <3>2 DEF EachCallInOnePlace
  <2>6. QED BY <2>1, <2>2, <2>5 DEF AnswerIsOwn
<1>11. QED
  BY <1>3, <1>4, <1>5, <1>6, <1>7, <1>8, <1>9, <1>10 DEF OwnerStep

(* A worker: what it takes or is handed leaves the channel and is in its      *)
(* hands alone; an answer goes to the call whose input it has read.           *)
LEMMA WorkerStepInv ==
    ASSUME Inv, TypeOK', NEW w \in Workers, WorkerStep(w)
    PROVE  Inv'
<1> USE NamesAssumption, InputsAssumption DEF Inv, channelVars, ownerVars, callVars
<1>1. CASE TakeMessage(w)
  <2>1. PICK m \in Callers : TakeQueued(m) /\ Begin(w, m)
    BY <1>1 DEF TakeMessage
  <2>2. worker[w] = "looping" /\ UNCHANGED <<ownerVars, callVars>>
    BY <1>1 DEF TakeMessage
  <2>3. /\ Queued(m) /\ nfQueue # << >> /\ IsInjective(nfQueue)'
        /\ UNCHANGED <<waitQueue, handedOver>>
        /\ \A x : Queued(x)' <=> Queued(x) /\ x # m
    BY <2>1, TakeQueuedEffect
  <2>4. IsInjective(waitQueue)' /\ \A x : Blocked(x)' <=> Blocked(x)
    BY <2>3 DEF Blocked, RecordsAgree
  <2>5. RecordsAgree'
    BY <2>1, <2>2, <2>4, <2>3 DEF Begin, RecordsAgree, Running, Dead, NotStarted, TypeOK, ChannelTypeOK
  <2>6. EachCallInOnePlace'
    BY <2>1, <2>2, <2>3
       DEF Begin, RecordsAgree, EachCallInOnePlace, InHand, Outstanding, Dropped,
           TypeOK, ChannelTypeOK
  <2>7. QED
    BY <2>2, <2>3, <2>5, <2>6 DEF AnswerIsOwn
<1>2. CASE WaitForMessage(w)
  <2>1. /\ worker[w] = "looping" /\ StartWaiting(w)
        /\ worker' = [worker EXCEPT ![w] = "waiting"]
        /\ UNCHANGED <<serving, taken, ownerVars, callVars>>
    BY <1>2 DEF WaitForMessage
  <2>2. ~ Blocked(w)
    BY <2>1 DEF RecordsAgree
  <2>3. /\ nfQueue = << >> /\ UNCHANGED <<nfQueue, handedOver>>
        /\ IsInjective(waitQueue)'
        /\ \A x : Blocked(x)' <=> Blocked(x) \/ x = w
    BY <2>1, <2>2, StartWaitingEffect
  <2>4. IsInjective(nfQueue)' /\ \A x : Queued(x)' <=> Queued(x)
    BY <2>3 DEF Queued, EachCallInOnePlace
  <2>5. RecordsAgree'
    BY <2>1, <2>3 DEF RecordsAgree, Running, Dead, NotStarted, TypeOK, ChannelTypeOK
  <2>6. EachCallInOnePlace'
    BY <2>1, <2>3, <2>4 DEF EachCallInOnePlace, InHand, Outstanding, Dropped
  <2>7. QED
    BY <2>1, <2>3, <2>5, <2>6 DEF AnswerIsOwn
<1>3. ASSUME UNCHANGED <<nfQueue, waitQueue>>
      PROVE  /\ \A x : (Queued(x)' <=> Queued(x)) /\ (Blocked(x)' <=> Blocked(x))
             /\ IsInjective(nfQueue)' /\ IsInjective(waitQueue)'
  BY <1>3 DEF Queued, Blocked, RecordsAgree, EachCallInOnePlace
<1>4. CASE ReceiveMessage(w)
  <2>1. PICK m \in Callers : StopWaiting(w, m) /\ Begin(w, m)
    BY <1>4 DEF ReceiveMessage
  <2>2. worker[w] = "waiting" /\ UNCHANGED <<ownerVars, callVars>>
    BY <1>4 DEF ReceiveMessage
  <2>3. /\ ~ Blocked(w) /\ m = handedOver[w]
        /\ handedOver' = [handedOver EXCEPT ![w] = NoValue]
        /\ UNCHANGED <<nfQueue, waitQueue>>
    BY <2>1 DEF StopWaiting
  <2>4. RecordsAgree'
    BY <1>3, <2>1, <2>2, <2>3
       DEF Begin, RecordsAgree, Running, Dead, NotStarted, TypeOK, ChannelTypeOK
  <2>5. EachCallInOnePlace'
    BY <1>3, <2>1, <2>2, <2>3
       DEF Begin, RecordsAgree, EachCallInOnePlace, InHand, Outstanding, Dropped,
           TypeOK, ChannelTypeOK
  <2>6. QED BY <1>3, <2>2, <2>3, <2>4, <2>5 DEF AnswerIsOwn
<1>5. CASE ReceiveNull(w)
  <2>1. /\ worker[w] = "waiting" /\ ~ Blocked(w) /\ NoValue = handedOver[w]
        /\ handedOver' = handedOver
        /\ worker' = [worker EXCEPT ![w] = "exited"]
        /\ UNCHANGED <<nfQueue, waitQueue, serving, taken, ownerVars, callVars>>
    BY <1>5 DEF ReceiveNull, StopWaiting, TypeOK, ChannelTypeOK
  <2>2. RecordsAgree'
    BY <1>3, <2>1 DEF RecordsAgree, Running, Dead, NotStarted, TypeOK, ChannelTypeOK, WorkerStates
  <2>3. EachCallInOnePlace'
    BY <1>3, <2>1 DEF EachCallInOnePlace, InHand, Outstanding, Dropped
  <2>4. QED BY <1>3, <2>1, <2>2, <2>3 DEF AnswerIsOwn
<1>6. CASE Respond(w)
  <2>1. /\ worker[w] = "processing" /\ taken[w] \in Accepted
        /\ response' = [response EXCEPT ![serving[w]] = taken[w]]
        /\ responded' = [responded EXCEPT ![serving[w]] = TRUE]
        /\ EndServing(w)
        /\ UNCHANGED <<calling, input, output, channelVars, ownerVars>>
    BY <1>6 DEF Respond
  <2>2. /\ serving[w] \in Callers /\ taken[w] = input[serving[w]]
        /\ InHand(serving[w], w)
    BY <2>1 DEF RecordsAgree, TypeOK, InHand
  <2>3. calling[serving[w]]
    BY <2>2 DEF EachCallInOnePlace, Outstanding
  <2>4. RecordsAgree'
    BY <1>3, <2>1, <2>2, <2>3
       DEF EndServing, RecordsAgree, Running, Dead, NotStarted, TypeOK, ChannelTypeOK
  <2>5. EachCallInOnePlace'
    BY <1>3, <2>1, <2>2
       DEF EndServing, RecordsAgree, EachCallInOnePlace, InHand, Outstanding, Dropped,
           TypeOK, ChannelTypeOK
  <2>6. QED BY <1>3, <2>1, <2>4, <2>5 DEF AnswerIsOwn
<1>7. CASE Reject(w)
  <2>1. /\ worker[w] = "processing" /\ taken[w] \notin Accepted \cup Fatal
        /\ EndServing(w)
        /\ UNCHANGED <<channelVars, ownerVars, callVars>>
    BY <1>7 DEF Reject
  <2>2. /\ serving[w] \in Callers /\ taken[w] = input[serving[w]]
        /\ InHand(serving[w], w)
    BY <2>1 DEF RecordsAgree, TypeOK, InHand
  <2>3. RecordsAgree'
    BY <1>3, <2>1 DEF EndServing, RecordsAgree, Running, Dead, NotStarted, TypeOK, ChannelTypeOK
  <2>4. EachCallInOnePlace'
    BY <1>3, <2>1, <2>2
       DEF EndServing, RecordsAgree, EachCallInOnePlace, InHand, Outstanding, Dropped,
           TypeOK, ChannelTypeOK
  <2>5. QED BY <1>3, <2>1, <2>3, <2>4 DEF AnswerIsOwn
<1>8. CASE Throw(w)
  <2>1. /\ worker[w] = "processing" /\ taken[w] \in Fatal
        /\ worker' = [worker EXCEPT ![w] = "died"]
        /\ taken' = [taken EXCEPT ![w] = NoValue]
        /\ UNCHANGED <<serving, channelVars, ownerVars, callVars>>
    BY <1>8 DEF Throw
  <2>2. input[serving[w]] \in Fatal
    BY <2>1 DEF RecordsAgree
  <2>3. RecordsAgree'
    BY <1>3, <2>1, <2>2 DEF RecordsAgree, Running, Dead, NotStarted, TypeOK, ChannelTypeOK
  <2>4. EachCallInOnePlace'
    BY <1>3, <2>1 DEF EachCallInOnePlace, InHand, Outstanding, Dropped
  <2>5. QED BY <1>3, <2>1, <2>3, <2>4 DEF AnswerIsOwn
<1>9. QED
  BY <1>1, <1>2, <1>4, <1>5, <1>6, <1>7, <1>8 DEF WorkerStep

(* A caller: its new message is nowhere yet, and the answer it leaves with is *)
(* the one its own message holds.                                             *)
LEMMA CallerStepInv ==
    ASSUME Inv, TypeOK', NEW c \in Callers, CallerStep(c)
    PROVE  Inv'
<1> USE NamesAssumption, InputsAssumption DEF Inv, channelVars, ownerVars, workerVars
<1>1. ASSUME NEW v \in Inputs, Process(c, v) PROVE Inv'
  <2>1. /\ ~ calling[c]
        /\ calling' = [calling EXCEPT ![c] = TRUE]
        /\ input' = [input EXCEPT ![c] = v]
        /\ response' = [response EXCEPT ![c] = NoValue]
        /\ responded' = [responded EXCEPT ![c] = FALSE]
        /\ enqueueNotification(c)
        /\ output' = [output EXCEPT ![c] = NoValue]
        /\ UNCHANGED <<ownerVars, workerVars>>
    BY <1>1 DEF Process
  <2>2. ~ Queued(c) /\ \A w \in Workers : ~ InHand(c, w)
    BY <2>1 DEF EachCallInOnePlace, Outstanding
  <2>3. CASE /\ waitQueue = << >>
             /\ UNCHANGED <<waitQueue, handedOver>>
             /\ IsInjective(nfQueue)'
             /\ \A x : Queued(x)' <=> Queued(x) \/ x = c
    <3>1. IsInjective(waitQueue)' /\ \A x : Blocked(x)' <=> Blocked(x)
      BY <2>3 DEF Blocked, RecordsAgree
    <3>2. RecordsAgree'
      BY <2>1, <2>2, <2>3, <3>1
         DEF RecordsAgree, InHand, Running, Dead, NotStarted, TypeOK, ChannelTypeOK
    <3>3. EachCallInOnePlace'
      BY <2>1, <2>2, <2>3
         DEF EachCallInOnePlace, InHand, Outstanding, Dropped, TypeOK, ChannelTypeOK
    <3>4. QED BY <2>1, <2>3, <3>2, <3>3 DEF AnswerIsOwn, TypeOK
  <2>4. ASSUME NEW w \in Workers,
               Blocked(w),
               handedOver' = [handedOver EXCEPT ![w] = c],
               UNCHANGED nfQueue,
               IsInjective(waitQueue)',
               \A x : Blocked(x)' <=> Blocked(x) /\ x # w
        PROVE  Inv'
    <3>1. IsInjective(nfQueue)' /\ \A x : Queued(x)' <=> Queued(x)
      BY <2>4 DEF Queued, EachCallInOnePlace
    <3>2. worker[w] = "waiting" /\ handedOver[w] = NoValue /\ serving[w] = NoValue
      BY <2>4 DEF RecordsAgree
    <3>3. RecordsAgree'
      BY <2>1, <2>2, <2>4, <3>2
         DEF RecordsAgree, InHand, Running, Dead, NotStarted, TypeOK, ChannelTypeOK
    <3>4. EachCallInOnePlace'
      BY <2>1, <2>2, <2>4, <3>1, <3>2
         DEF EachCallInOnePlace, InHand, Outstanding, Dropped, TypeOK, ChannelTypeOK
    <3>5. QED BY <2>1, <2>4, <3>3, <3>4 DEF AnswerIsOwn, TypeOK
  <2>5. QED BY <2>1, <2>2, <2>3, <2>4, EnqueueEffect
<1>2. CASE ProcessReturns(c)
  <2>1. /\ calling[c] /\ responded[c]
        /\ output' = [output EXCEPT ![c] = response[c]]
        /\ calling' = [calling EXCEPT ![c] = FALSE]
        /\ responded' = [responded EXCEPT ![c] = FALSE]
        /\ UNCHANGED <<input, response, channelVars, ownerVars, workerVars>>
    BY <1>2 DEF ProcessReturns
  <2>2. /\ \A x : (Queued(x)' <=> Queued(x)) /\ (Blocked(x)' <=> Blocked(x))
        /\ IsInjective(nfQueue)' /\ IsInjective(waitQueue)'
    BY <2>1 DEF Queued, Blocked, RecordsAgree, EachCallInOnePlace
  <2>3. RecordsAgree'
    BY <2>1, <2>2 DEF RecordsAgree, Running, Dead, NotStarted, TypeOK
  <2>4. EachCallInOnePlace'
    BY <2>1, <2>2 DEF EachCallInOnePlace, InHand, Outstanding, Dropped, TypeOK
  <2>5. AnswerIsOwn'
    BY <2>1 DEF AnswerIsOwn, RecordsAgree, TypeOK
  <2>6. QED BY <2>1, <2>3, <2>4, <2>5
<1>3. QED BY <1>1, <1>2 DEF CallerStep

(* The invariant reads nothing but the variables of the specification. *)
LEMMA StutterInv == ASSUME Inv, UNCHANGED vars PROVE Inv'
<1>1. TypeOK'
  BY TypeStep DEF Inv
<1>2. \A x : (Queued(x)' <=> Queued(x)) /\ (Blocked(x)' <=> Blocked(x))
  BY DEF vars, Queued, Blocked
<1>3. RecordsAgree' /\ EachCallInOnePlace'
  BY <1>2 DEF Inv, vars, RecordsAgree, EachCallInOnePlace, InHand, Outstanding, Dropped,
              Running, Dead, NotStarted
<1>4. QED BY <1>1, <1>3 DEF Inv, vars, AnswerIsOwn

(* The inductive invariant: the places of the messages, what the threads      *)
(* record of them and the two properties of the channel hold together.        *)
THEOREM Invariance == Spec => []Inv
<1>1. Inv /\ [Next]_vars => Inv'
  <2> SUFFICES ASSUME Inv, [Next]_vars PROVE Inv'
    OBVIOUS
  <2>1. TypeOK'
    BY TypeStep DEF Inv
  <2>2. QED
    BY <2>1, OwnerStepInv, WorkerStepInv, CallerStepInv, StutterInv DEF Next
<1>2. QED BY <1>1, InitInv, PTL DEF Spec

-------------------------------------------------------------------------------
(* The consequences. *)

(* No message is lost, duplicated or held by two workers, and only a message *)
(* of the wrong valueType is dropped.                                        *)
THEOREM CallsInOnePlace == Spec => []EachCallInOnePlace
BY Invariance, PTL DEF Inv

(* Process returns what was computed from its own input. *)
THEOREM AnswersAreOwn == Spec => []AnswerIsOwn
BY Invariance, PTL DEF Inv

(* From the return of Init to the call of Terminate all workers serve. *)
THEOREM AllServe == Spec => []ReadyMeansAllServe
<1>1. Inv => ReadyMeansAllServe
  <2> SUFFICES ASSUME Inv, owner = "ready" PROVE ReadyMeansAllServe
    BY DEF ReadyMeansAllServe
  <2>1. isInited
    BY DEF Inv, RecordsAgree
  <2>2. ASSUME NEW w \in Workers
        PROVE  /\ worker[w] \in {"absent", "looping", "waiting", "processing", "died"}
               /\ worker[w] = "waiting" /\ handedOver[w] = NoValue => Blocked(w)
    <3>1. ~ NotStarted(w) /\ worker[w] \in WorkerStates
      BY DEF Inv, TypeOK, RecordsAgree
    <3>2. worker[w] = "waiting" /\ handedOver[w] = NoValue => Blocked(w)
      BY DEF Inv, RecordsAgree
    <3>3. QED BY <3>1, <3>2 DEF NotStarted, WorkerStates
  <2>3. QED BY <2>1, <2>2 DEF ReadyMeansAllServe
<1>2. QED BY <1>1, Invariance, PTL

(* A worker is lost only to a fatal input, and every lost worker to a call of *)
(* its own.                                                                   *)
THEOREM Deaths == Spec => []DeathsAreAccounted
<1>1. Inv => DeathsAreAccounted
  <2> SUFFICES ASSUME Inv, NEW w \in Dead
               PROVE  /\ serving[w] \in Callers /\ Outstanding(serving[w])
                      /\ ~ Queued(serving[w]) /\ input[serving[w]] \in Fatal
                      /\ \A v \in Workers : InHand(serving[w], v) => v = w
    BY DEF DeathsAreAccounted
  <2>1. w \in Workers /\ serving[w] \in Callers /\ input[serving[w]] \in Fatal
    BY DEF Inv, TypeOK, RecordsAgree, Dead
  <2>2. InHand(serving[w], w)
    BY DEF InHand
  <2>3. QED BY <2>1, <2>2 DEF Inv, EachCallInOnePlace
<1>2. QED BY <1>1, Invariance, PTL

-------------------------------------------------------------------------------
(* The processor implements RequestReply. *)

(* At first no caller is inside Process, and RequestReply is idle. *)
LEMMA ServiceInit == Init => Service!Init
BY DEF Init, Service!Init

(* Every step of the processor is a step of RequestReply or invisible to it.  *)
LEMMA ServiceStep == Inv /\ [Next]_vars => [Service!Next]_(Service!vars)
<1> SUFFICES ASSUME Inv, [Next]_vars PROVE [Service!Next]_(Service!vars)
  OBVIOUS
<1> USE DEF Inv, TypeOK, channelVars, ownerVars, workerVars, callVars
<1>1. ASSUME UNCHANGED callVars PROVE UNCHANGED Service!vars
  BY <1>1 DEF Service!vars
<1>2. CASE UNCHANGED vars
  BY <1>1, <1>2 DEF vars
<1>3. CASE OwnerStep
  BY <1>1, <1>3 DEF OwnerStep, InitBegins, CreateWorkerFails, AllCreated, InitReturns,
     CreateWorker, StartWorker, TerminateBegins, JoinAllReturns
<1>4. ASSUME NEW w \in Workers, WorkerStep(w), ~ Respond(w)
      PROVE  UNCHANGED Service!vars
  BY <1>1, <1>4 DEF WorkerStep, TakeMessage, WaitForMessage, ReceiveMessage, ReceiveNull, Reject,
     Throw
<1>5. ASSUME NEW w \in Workers, Respond(w) PROVE Service!Next
  <2>1. PICK c \in Callers : c = serving[w]
    BY <1>5 DEF Respond, RecordsAgree
  <2>2. taken[w] = input[c] /\ input[c] \in Accepted /\ InHand(c, w)
    BY <1>5, <2>1 DEF Respond, RecordsAgree, InHand
  <2>3. calling[c] /\ ~ responded[c]
    BY <2>2 DEF EachCallInOnePlace, Outstanding
  <2>4. Service!Answer(c)
    BY <1>5, <2>1, <2>2, <2>3 DEF Respond, Service!Answer
  <2>5. QED BY <2>4 DEF Service!Next
<1>6. ASSUME NEW c \in Callers, NEW v \in Inputs, Process(c, v) PROVE Service!Next
  <2>1. Service!Call(c, v)
    BY <1>6 DEF Process, Service!Call
  <2>2. QED BY <2>1 DEF Service!Next
<1>7. ASSUME NEW c \in Callers, ProcessReturns(c) PROVE Service!Next
  <2>1. Service!Return(c)
    BY <1>7 DEF ProcessReturns, Service!Return
  <2>2. QED BY <2>1 DEF Service!Next
<1>8. QED
  BY <1>2, <1>3, <1>4, <1>5, <1>6, <1>7 DEF Next, CallerStep

(* ConcurrentProcessor implements RequestReply: Process, a worker's           *)
(* setResponse and the return of Process are its Call, Answer and Return, and *)
(* everything else the threads do is invisible to the callers.               *)
THEOREM Refinement == Spec => ImplementsService
BY ServiceInit, ServiceStep, Invariance, PTL DEF Spec, ImplementsService, Service!Spec

-------------------------------------------------------------------------------
(* The pool: _workers never outgrows the capacity the calls of Init add up.  *)

Created == {w \in Workers : worker[w] # "absent"}

PoolInv ==
    /\ IsFiniteSet(Created)
    /\ Cardinality(Created) + toCreate < capacity

(* The pool has a thread more than there are workers, created or still to be  *)
(* created: Init enlarges it before it creates them.                          *)
LEMMA PoolStep == Inv /\ PoolInv /\ [Next]_vars => PoolInv'
<1> SUFFICES ASSUME Inv, PoolInv, [Next]_vars PROVE PoolInv'
  OBVIOUS
<1>1. /\ Cardinality(Created) \in Nat /\ toCreate \in Nat /\ capacity \in Nat
      /\ Concurrent \in Nat
  BY FS_CardinalityType, ConcurrentAssumption, CapacityAssumption DEF PoolInv, Inv, TypeOK
<1>2. ASSUME Created' = Created,
             \A k \in Nat : k + toCreate < capacity => k + toCreate' < capacity'
      PROVE  PoolInv'
  BY <1>1, <1>2 DEF PoolInv
<1> USE DEF channelVars, ownerVars, workerVars, callVars
<1>3. CASE UNCHANGED vars
  BY <1>1, <1>2, <1>3 DEF vars, Created
<1>4. CASE InitBegins
  <2>1. toCreate' = Concurrent /\ capacity' = capacity + Concurrent /\ UNCHANGED worker
    BY <1>4 DEF InitBegins
  <2>2. Created' = Created
    BY <2>1 DEF Created
  <2>3. QED BY <1>1, <1>2, <2>1, <2>2
<1>5. ASSUME NEW w \in Workers, CreateWorker(w) PROVE PoolInv'
  <2>1. /\ toCreate > 0 /\ toCreate' = toCreate - 1 /\ UNCHANGED capacity
        /\ worker[w] = "absent" /\ worker' = [worker EXCEPT ![w] = "created"]
    BY <1>5 DEF CreateWorker
  <2>2. Created' = Created \cup {w} /\ w \notin Created
    BY <2>1 DEF Created, Inv, TypeOK
  <2>3. IsFiniteSet(Created') /\ Cardinality(Created') = Cardinality(Created) + 1
    BY <2>2, FS_AddElement DEF PoolInv
  <2>4. QED BY <1>1, <2>1, <2>3 DEF PoolInv
<1>6. ASSUME NEW w \in Workers, StartWorker(w) PROVE PoolInv'
  <2>1. Created' = Created
    BY <1>6 DEF StartWorker, NotStarted, Created, Inv, TypeOK
  <2>2. QED BY <1>1, <1>2, <1>6, <2>1 DEF StartWorker
<1>7. ASSUME CreateWorkerFails \/ AllCreated \/ InitReturns \/ TerminateBegins \/ JoinAllReturns
      PROVE  PoolInv'
  <2>1. Created' = Created
    BY <1>7 DEF CreateWorkerFails, AllCreated, InitReturns, TerminateBegins, JoinAllReturns,
                Created
  <2>2. /\ toCreate' = toCreate \/ toCreate' = 0
        /\ capacity' = capacity
    BY <1>7 DEF CreateWorkerFails, AllCreated, InitReturns, TerminateBegins, JoinAllReturns
  <2>3. QED BY <1>1, <1>2, <2>1, <2>2
<1>8. ASSUME NEW w \in Workers, WorkerStep(w) PROVE PoolInv'
  <2>1. Created' = Created
    BY <1>8 DEF WorkerStep, TakeMessage, Begin, WaitForMessage, ReceiveMessage, ReceiveNull,
                Respond, Reject, Throw, EndServing, Created, Inv, TypeOK
  <2>2. UNCHANGED <<toCreate, capacity>>
    BY <1>8 DEF WorkerStep, TakeMessage, WaitForMessage, ReceiveMessage, ReceiveNull,
                Respond, Reject, Throw
  <2>3. QED BY <1>1, <1>2, <2>1, <2>2
<1>9. ASSUME NEW c \in Callers, CallerStep(c) PROVE PoolInv'
  <2>1. UNCHANGED <<worker, toCreate, capacity>>
    BY <1>9 DEF CallerStep, Process, ProcessReturns
  <2>2. Created' = Created
    BY <2>1 DEF Created
  <2>3. QED BY <1>1, <1>2, <2>1, <2>2
<1>10. QED
  BY <1>3, <1>4, <1>5, <1>6, <1>7, <1>8, <1>9 DEF Next, OwnerStep

LEMMA InitPoolInv == Init => PoolInv
<1>1. Init => Created = {}
  BY DEF Init, Created
<1>2. QED BY <1>1, FS_EmptySet DEF Init, PoolInv

(* _pool.start never throws for want of a thread, however often Init fails,  *)
(* and is called again, with workers already in _workers.                    *)
THEOREM RoomInPool == Spec => []PoolHasRoom
<1>1. Inv /\ PoolInv => PoolHasRoom
  <2> SUFFICES ASSUME Inv, PoolInv PROVE Cardinality(Running) < capacity
    BY DEF PoolHasRoom
  <2>1. Running \subseteq Created
    BY DEF Running, Created
  <2>2. Cardinality(Running) \in Nat /\ Cardinality(Running) <= Cardinality(Created)
    BY <2>1, FS_Subset, FS_CardinalityType DEF PoolInv
  <2>3. /\ Cardinality(Created) \in Nat /\ toCreate \in Nat /\ capacity \in Nat
    BY FS_CardinalityType, ConcurrentAssumption, CapacityAssumption DEF PoolInv, Inv, TypeOK
  <2>4. QED BY <2>2, <2>3 DEF PoolInv
<1>2. QED BY <1>1, InitPoolInv, PoolStep, Invariance, PTL DEF Spec

-------------------------------------------------------------------------------
(* The processor implements WorkerPool. *)

(* The workers the last Init was asked for are there, or still to be made.    *)
AskedFor == owner = "creating" => Cardinality(Created) + toCreate >= Concurrent

LEMMA AskedForStep == Inv /\ PoolInv /\ AskedFor /\ [Next]_vars => AskedFor'
<1> SUFFICES ASSUME Inv, PoolInv, AskedFor, [Next]_vars, owner' = "creating"
             PROVE  Cardinality(Created)' + toCreate' >= Concurrent
  BY DEF AskedFor
<1> USE DEF channelVars, ownerVars, workerVars, callVars
<1>1. Cardinality(Created) \in Nat /\ toCreate \in Nat /\ Concurrent \in Nat
  BY FS_CardinalityType, ConcurrentAssumption DEF PoolInv, Inv, TypeOK
<1>2. CASE InitBegins
  <2>1. toCreate' = Concurrent /\ Created' = Created
    BY <1>2 DEF InitBegins, Created
  <2>2. QED BY <1>1, <2>1
<1>3. ASSUME NEW w \in Workers, CreateWorker(w)
      PROVE  Cardinality(Created)' + toCreate' >= Concurrent
  <2>1. /\ owner = "creating" /\ toCreate' = toCreate - 1
        /\ worker[w] = "absent" /\ worker' = [worker EXCEPT ![w] = "created"]
    BY <1>3 DEF CreateWorker
  <2>2. Created' = Created \cup {w} /\ w \notin Created
    BY <2>1 DEF Created, Inv, TypeOK
  <2>3. Cardinality(Created') = Cardinality(Created) + 1
    BY <2>2, FS_AddElement DEF PoolInv
  <2>4. QED BY <1>1, <2>1, <2>3 DEF AskedFor
<1>4. ASSUME \/ UNCHANGED vars
             \/ \E w \in Workers : StartWorker(w) \/ WorkerStep(w)
             \/ \E c \in Callers : CallerStep(c)
      PROVE  Cardinality(Created)' + toCreate' >= Concurrent
  <2>1. UNCHANGED <<owner, toCreate>>
    BY <1>4 DEF vars, StartWorker, WorkerStep, TakeMessage, WaitForMessage, ReceiveMessage,
       ReceiveNull, Respond, Reject, Throw, CallerStep, Process, ProcessReturns
  <2>2. Created' = Created
    <3>1. CASE \/ UNCHANGED vars \/ \E c \in Callers : CallerStep(c)
      BY <3>1 DEF vars, CallerStep, Process, ProcessReturns, Created
    <3>2. ASSUME NEW w \in Workers, StartWorker(w) \/ WorkerStep(w) PROVE Created' = Created
      <4>1. \E x \in WorkerStates \ {"absent"} :
               worker[w] # "absent" /\ worker' = [worker EXCEPT ![w] = x]
        BY <3>2 DEF StartWorker, NotStarted, WorkerStep, TakeMessage, Begin, WaitForMessage,
           ReceiveMessage, ReceiveNull, Respond, Reject, Throw, EndServing, WorkerStates
      <4>2. QED BY <4>1 DEF Created, Inv, TypeOK
    <3>3. QED BY <1>4, <3>1, <3>2
  <2>3. QED BY <2>1, <2>2 DEF AskedFor
<1>5. CASE CreateWorkerFails \/ AllCreated \/ InitReturns \/ TerminateBegins \/ JoinAllReturns
  BY <1>5 DEF CreateWorkerFails, AllCreated, InitReturns, TerminateBegins, JoinAllReturns
<1>6. QED BY <1>2, <1>3, <1>4, <1>5 DEF Next, OwnerStep

(* How the pool sees the callers, and how many workers it has.                *)
Phases ==
    [c \in Callers |-> IF ~ calling[c] THEN "idle"
                       ELSE IF responded[c] THEN "answered"
                       ELSE IF Lost(c) THEN "lost" ELSE "pending"]

Count == IF InService = "off" THEN 0 ELSE Cardinality(Able)

LEMMA PhasesKept ==
    ASSUME UNCHANGED callVars, \A c \in Callers : Lost(c)' <=> Lost(c)
    PROVE  Phases' = Phases
BY DEF Phases, callVars

LEMMA Invisible ==
    ASSUME UNCHANGED callVars, Phases' = Phases, InService' = InService, Count' = Count
    PROVE  UNCHANGED Pool!vars
BY DEF Pool!vars, Phases, Count, callVars

LEMMA AbleIsFinite == IsFiniteSet(Able) /\ Cardinality(Able) \in Nat
<1>1. Able \subseteq Workers
  BY DEF Able
<1>2. QED BY <1>1, WorkersAssumption, FS_Subset, FS_CardinalityType

LEMMA OwnerPoolStep ==
    ASSUME Inv, PoolInv, AskedFor, OwnerStep
    PROVE  [Pool!Next]_(Pool!vars)
<1> USE DEF Inv, TypeOK, channelVars, ownerVars, workerVars
<1>1. ASSUME UNCHANGED <<nfQueue, handedOver, callVars>>, UNCHANGED <<worker, serving>>
      PROVE  Phases' = Phases /\ Able' = Able /\ Running' = Running
  <2>1. \A c \in Callers : Lost(c)' <=> Lost(c)
    BY <1>1 DEF Lost, Outstanding, Queued, InHand, callVars
  <2>2. QED BY <1>1, <2>1, PhasesKept DEF Able, Running
<1>2. CASE InitBegins \/ CreateWorkerFails \/ InitReturns
  <2>1. /\ UNCHANGED <<nfQueue, handedOver, callVars>> /\ UNCHANGED <<worker, serving>>
        /\ InService' = InService
    BY <1>2 DEF InitBegins, CreateWorkerFails, InitReturns, InService
  <2>2. QED BY <1>1, <2>1, Invisible DEF Count
<1>3. CASE AllCreated
  <2>1. /\ UNCHANGED <<nfQueue, handedOver, callVars>> /\ UNCHANGED <<worker, serving>>
        /\ InService = "off" /\ InService' = "serving"
        /\ owner = "creating" /\ toCreate = 0
    BY <1>3 DEF AllCreated, InService
  <2>2. Able = Created
    BY <2>1 DEF Able, Created, RecordsAgree, Dead
  <2>3. Count' \in Nat /\ Count' >= Concurrent
    <3>1. Count' = Cardinality(Created)
      BY <1>1, <2>1, <2>2 DEF Count
    <3>2. Cardinality(Created) \in Nat
      BY AbleIsFinite, <2>2
    <3>3. QED BY <2>1, <3>1, <3>2 DEF AskedFor
  <2>4. Pool!Starts
    BY <1>1, <2>1, <2>3 DEF Pool!Starts, Phases, Count, callVars
  <2>5. QED BY <2>4 DEF Pool!Next
<1>4. ASSUME NEW w \in Workers, CreateWorker(w) \/ StartWorker(w)
      PROVE  UNCHANGED Pool!vars
  <2>1. PICK x \in {"created", "looping"} :
            /\ worker' = [worker EXCEPT ![w] = x] /\ worker[w] # "died"
            /\ worker[w] = "absent" => owner = "creating"
    BY <1>4 DEF CreateWorker, StartWorker, NotStarted
  <2>2. UNCHANGED <<nfQueue, handedOver, callVars, serving, owner>>
    BY <1>4 DEF CreateWorker, StartWorker
  <2>3. \A v \in Workers : worker'[v] = "died" <=> worker[v] = "died"
    BY <2>1
  <2>4. Phases' = Phases
    <3>1. \A c \in Callers : Lost(c)' <=> Lost(c)
      BY <2>2, <2>3 DEF Lost, Outstanding, Queued, InHand, callVars
    <3>2. QED BY <2>2, <3>1, PhasesKept
  <2>5. InService' = InService /\ Count' = Count
    <3>1. CASE owner = "creating"
      BY <2>2, <3>1 DEF InService, Count
    <3>2. CASE owner # "creating"
      <4>1. owner = "starting"
        BY <1>4, <3>2 DEF CreateWorker, StartWorker
      <4>2. Able' = Able
        BY <2>1, <3>2 DEF Able
      <4>3. QED BY <2>2, <4>1, <4>2 DEF InService, Count
    <3>3. QED BY <3>1, <3>2
  <2>6. QED BY <2>2, <2>4, <2>5, Invisible
<1>5. CASE TerminateBegins
  <2>1. UNCHANGED <<nfQueue, handedOver, callVars>> /\ UNCHANGED <<worker, serving>>
    BY <1>5, WakeUpAllEffect DEF TerminateBegins
  <2>2. owner \in {"idle", "ready", "terminated"} /\ owner' = "joining"
    BY <1>5 DEF TerminateBegins
  <2>3. CASE owner # "ready"
    <3>1. Running = {}
      BY <2>2, <2>3 DEF RecordsAgree, Running
    <3>2. InService' = "off" /\ InService = "off"
      BY <1>1, <2>1, <2>2, <2>3, <3>1 DEF InService
    <3>3. QED BY <1>1, <2>1, <3>2, Invisible DEF Count
  <2>4. CASE owner = "ready" /\ Running # {}
    <3>1. InService = "serving" /\ InService' = "stopping" /\ Count' = Count
      BY <1>1, <2>1, <2>2, <2>4 DEF InService, Count
    <3>2. Pool!Wakes
      BY <1>1, <2>1, <3>1 DEF Pool!Wakes, Phases, Count, callVars
    <3>3. QED BY <3>2 DEF Pool!Next
  <2>5. CASE owner = "ready" /\ Running = {}
    <3>1. Able = {}
      BY <2>5 DEF Able, Running, RecordsAgree, NotStarted, WorkerStates
    <3>2. InService = "serving" /\ InService' = "off" /\ Count = 0 /\ Count' = 0
      BY <1>1, <2>1, <2>2, <2>5, <3>1, FS_EmptySet DEF InService, Count
    <3>3. Pool!Stops
      BY <1>1, <2>1, <3>2 DEF Pool!Stops, Pool!TurnsOff, Phases, Count, callVars
    <3>4. QED BY <3>3 DEF Pool!Next
  <2>6. QED BY <2>3, <2>4, <2>5
<1>6. CASE JoinAllReturns
  <2>1. /\ UNCHANGED <<nfQueue, handedOver, callVars>> /\ Running = {}
        /\ owner = "joining" /\ owner' = "terminated"
        /\ \A w \in Workers : worker'[w] # "died" /\ serving'[w] = NoValue
    BY <1>6 DEF JoinAllReturns
  <2>2. \A c \in Callers, w \in Workers : ~ InHand(c, w)'
    BY <2>1, NamesAssumption DEF InHand, RecordsAgree, Running
  <2>3. \A c \in Callers, w \in Workers : InHand(c, w) => worker[w] = "died"
    BY <2>1, NamesAssumption DEF InHand, RecordsAgree, Running
  <2>4. \A c \in Callers : Lost(c)' <=> Lost(c)
    BY <2>1, <2>2, <2>3 DEF Lost, Outstanding, Queued, callVars
  <2>5. InService' = "off" /\ InService = "off"
    BY <2>1 DEF InService
  <2>6. QED BY <2>1, <2>4, <2>5, PhasesKept, Invisible DEF Count
<1>7. QED
  BY <1>2, <1>3, <1>4, <1>5, <1>6 DEF OwnerStep

(* A worker that takes a message or waits changes nothing for the pool.       *)
LEMMA TakingPoolStep ==
    ASSUME Inv, NEW w \in Workers, TakeMessage(w) \/ WaitForMessage(w) \/ ReceiveMessage(w)
    PROVE  UNCHANGED Pool!vars
<1> USE NamesAssumption DEF Inv, TypeOK, ChannelTypeOK, channelVars, ownerVars
<1>1. /\ UNCHANGED <<owner, callVars>>
      /\ worker[w] \in {"looping", "waiting"}
      /\ \E x \in {"processing", "waiting"} : worker' = [worker EXCEPT ![w] = x]
  BY DEF TakeMessage, WaitForMessage, ReceiveMessage, Begin
<1>2. InService' = InService /\ Count' = Count
  <2>1. Running' = Running /\ Able' = Able
    BY <1>1 DEF Running, Able
  <2>2. QED BY <1>1, <2>1 DEF InService, Count
<1>3. \A v \in Workers : worker'[v] = "died" <=> worker[v] = "died"
  BY <1>1
<1>4. serving[w] = NoValue /\ (worker[w] = "looping" => handedOver[w] = NoValue)
  BY <1>1 DEF RecordsAgree
<1>5. CASE TakeMessage(w)
  <2>1. PICK m \in Callers : TakeQueued(m) /\ Begin(w, m)
    BY <1>5 DEF TakeMessage
  <2>2. /\ Queued(m) /\ UNCHANGED handedOver
        /\ \A x : Queued(x)' <=> Queued(x) /\ x # m
    BY <2>1, TakeQueuedEffect
  <2>3. serving' = [serving EXCEPT ![w] = m] /\ worker'[w] = "processing"
    BY <2>1 DEF Begin
  <2>4. \A c \in Callers \ {m}, v \in Workers : InHand(c, v)' <=> InHand(c, v)
    BY <1>4, <2>2, <2>3 DEF InHand
  <2>5. InHand(m, w)'
    BY <2>3 DEF InHand
  <2>6. \A c \in Callers : Lost(c)' <=> Lost(c)
    <3>1. ~ Lost(m) /\ ~ Lost(m)'
      BY <2>2, <2>3, <2>5 DEF Lost
    <3>2. ASSUME NEW c \in Callers \ {m} PROVE Lost(c)' <=> Lost(c)
      BY <1>1, <1>3, <2>2, <2>4 DEF Lost, Outstanding, callVars
    <3>3. QED BY <3>1, <3>2
  <2>7. QED BY <1>1, <1>2, <2>6, PhasesKept, Invisible
<1>6. CASE WaitForMessage(w)
  <2>1. UNCHANGED <<nfQueue, handedOver, serving>>
    BY <1>6 DEF WaitForMessage, StartWaiting
  <2>2. \A c \in Callers : Lost(c)' <=> Lost(c)
    BY <1>1, <1>3, <2>1 DEF Lost, Outstanding, Queued, InHand, callVars
  <2>3. QED BY <1>1, <1>2, <2>2, PhasesKept, Invisible
<1>7. CASE ReceiveMessage(w)
  <2>1. PICK m \in Callers : StopWaiting(w, m) /\ Begin(w, m)
    BY <1>7 DEF ReceiveMessage
  <2>2. /\ handedOver[w] = m /\ handedOver' = [handedOver EXCEPT ![w] = NoValue]
        /\ UNCHANGED nfQueue /\ serving' = [serving EXCEPT ![w] = m]
    BY <2>1 DEF StopWaiting, Begin
  <2>3. \A c \in Callers, v \in Workers : InHand(c, v)' <=> InHand(c, v)
    BY <1>4, <2>2 DEF InHand
  <2>4. \A c \in Callers : Lost(c)' <=> Lost(c)
    BY <1>1, <1>3, <2>2, <2>3 DEF Lost, Outstanding, Queued, callVars
  <2>5. QED BY <1>1, <1>2, <2>4, PhasesKept, Invisible
<1>8. QED BY <1>5, <1>6, <1>7

(* Workers leave their loop only while Terminate waits for them.              *)
LEMMA LeavingPoolStep ==
    ASSUME Inv, NEW w \in Workers, ReceiveNull(w)
    PROVE  [Pool!Next]_(Pool!vars)
<1> USE NamesAssumption DEF Inv, TypeOK, ChannelTypeOK, channelVars, ownerVars
<1>1. /\ UNCHANGED <<owner, callVars, serving, nfQueue>>
      /\ worker[w] = "waiting" /\ worker' = [worker EXCEPT ![w] = "exited"]
      /\ ~ Blocked(w) /\ handedOver[w] = NoValue /\ UNCHANGED handedOver
  BY DEF ReceiveNull, StopWaiting
<1>2. w \in Running /\ owner = "joining"
  BY <1>1 DEF Running, RecordsAgree, OwnerStates
<1>3. Phases' = Phases
  <2>1. \A c \in Callers : Lost(c)' <=> Lost(c)
    BY <1>1 DEF Lost, Outstanding, Queued, InHand, callVars
  <2>2. QED BY <1>1, <2>1, PhasesKept
<1>4. Able' = Able
  BY <1>1 DEF Able
<1>5. InService = "stopping"
  BY <1>2 DEF InService
<1>6. CASE Running' # {}
  <2>1. InService' = InService /\ Count' = Count
    BY <1>1, <1>2, <1>4, <1>5, <1>6 DEF InService, Count
  <2>2. QED BY <1>1, <1>3, <2>1, Invisible
<1>7. CASE Running' = {}
  <2>1. InService' = "off" /\ Count' = 0
    BY <1>1, <1>2, <1>7 DEF InService, Count
  <2>2. Pool!Stops
    BY <1>1, <1>3, <1>5, <2>1 DEF Pool!Stops, Pool!TurnsOff, Phases, Count, callVars
  <2>3. QED BY <2>2 DEF Pool!Next
<1>8. QED BY <1>6, <1>7

(* The message a worker is processing is pending, the pool that has this      *)
(* worker serves it, and no other worker has the message.                     *)
LEMMA WhatIsProcessed ==
    ASSUME Inv, NEW w \in Workers, worker[w] = "processing"
    PROVE  /\ serving[w] \in Callers
           /\ taken[w] = input[serving[w]]
           /\ Outstanding(serving[w]) /\ ~ Queued(serving[w]) /\ ~ Lost(serving[w])
           /\ \A v \in Workers \ {w} : ~ InHand(serving[w], v)
           /\ handedOver[w] = NoValue
           /\ Pool!IsServed(serving[w])
           /\ InService # "off" /\ w \in Running
<1> USE DEF Inv, TypeOK, ChannelTypeOK
<1>1. serving[w] \in Callers /\ taken[w] = input[serving[w]] /\ handedOver[w] = NoValue
  BY DEF RecordsAgree
<1>2. InHand(serving[w], w)
  BY DEF InHand
<1>3. /\ Outstanding(serving[w]) /\ ~ Queued(serving[w])
      /\ \A v \in Workers \ {w} : ~ InHand(serving[w], v)
  BY <1>1, <1>2 DEF EachCallInOnePlace
<1>4. ~ Lost(serving[w])
  BY <1>2 DEF Lost
<1>5. w \in Running /\ w \in Able
  BY DEF Running, Able
<1>6. InService \in {"serving", "stopping"}
  BY <1>5 DEF InService, RecordsAgree, OwnerStates
<1>7. Cardinality(Able) > 0
  <2>1. Cardinality(Able) # 0
    BY <1>5, AbleIsFinite, FS_EmptySet
  <2>2. QED BY <2>1, AbleIsFinite
<1>8. Pool!IsServed(serving[w])
  BY <1>1, <1>3, <1>4, <1>6, <1>7 DEF Pool!IsServed, Outstanding
<1>9. QED BY <1>1, <1>3, <1>4, <1>5, <1>6, <1>8

(* Other calls are not touched by a worker that is done with its own.         *)
LEMMA OthersStay ==
    ASSUME Inv, NEW w \in Workers, worker[w] = "processing",
           UNCHANGED <<nfQueue, handedOver, calling>>,
           \A v \in Workers \ {w} : serving'[v] = serving[v] /\ worker'[v] = worker[v],
           serving'[w] \in {serving[w], NoValue},
           NEW c \in Callers \ {serving[w]},
           responded'[c] = responded[c]
    PROVE  Lost(c)' <=> Lost(c)
<1>1. Outstanding(c)' <=> Outstanding(c)
  BY DEF Outstanding
<1>2. Queued(c)' <=> Queued(c)
  BY DEF Queued
<1>3. ~ InHand(c, w) /\ ~ InHand(c, w)'
  BY WhatIsProcessed, NamesAssumption DEF InHand
<1>4. \A v \in Workers \ {w} : InHand(c, v)' <=> InHand(c, v)
  BY DEF InHand
<1>5. QED BY <1>1, <1>2, <1>3, <1>4 DEF Lost

LEMMA RespondPoolStep ==
    ASSUME Inv, NEW w \in Workers, Respond(w), NEW c \in Callers, c = serving[w]
    PROVE  Pool!Answer(c)
<1> USE DEF Inv, TypeOK, channelVars, ownerVars
<1>1. /\ worker[w] = "processing" /\ taken[w] \in Accepted
      /\ response' = [response EXCEPT ![c] = taken[w]]
      /\ responded' = [responded EXCEPT ![c] = TRUE]
      /\ worker' = [worker EXCEPT ![w] = "looping"]
      /\ serving' = [serving EXCEPT ![w] = NoValue]
      /\ UNCHANGED <<calling, input, nfQueue, handedOver, owner>>
  BY DEF Respond, EndServing
<1>2. /\ taken[w] = input[c] /\ Outstanding(c) /\ ~ Lost(c)
      /\ Pool!IsServed(c) /\ w \in Running
  BY <1>1, WhatIsProcessed
<1>3. Running' = Running /\ Able' = Able
  BY <1>1 DEF Running, Able
<1>4. InService' = InService /\ Count' = Count
  BY <1>1, <1>3 DEF InService, Count
<1>5. \A d \in Callers \ {c} : Lost(d)' <=> Lost(d)
  BY <1>1, OthersStay
<1>6. Phases' = [Phases EXCEPT ![c] = "answered"]
  BY <1>1, <1>2, <1>5 DEF Phases, Outstanding
<1>7. QED
  BY <1>1, <1>2, <1>4, <1>6 DEF Pool!Answer, Pool!poolVars, Phases, Count

(* The call of a message that is dropped, or that ends its worker, is lost.   *)
LEMMA NowLost ==
    ASSUME Inv, NEW w \in Workers, worker[w] = "processing",
           UNCHANGED <<nfQueue, handedOver, calling, responded>>,
           \A v \in Workers \ {w} : serving'[v] = serving[v] /\ worker'[v] = worker[v],
           serving'[w] = NoValue \/ (serving'[w] = serving[w] /\ worker'[w] = "died")
    PROVE  Phases' = [Phases EXCEPT ![serving[w]] = "lost"]
<1>0. PICK c \in Callers : c = serving[w]
  BY WhatIsProcessed
<1>1. /\ Outstanding(c) /\ ~ Queued(c) /\ handedOver[w] = NoValue
      /\ \A v \in Workers \ {w} : ~ InHand(c, v)
  BY <1>0, WhatIsProcessed
<1>2. \A d \in Callers \ {c} : Lost(d)' <=> Lost(d)
  BY <1>0, OthersStay
<1>3. Lost(c)'
  <2>1. Outstanding(c)' /\ ~ Queued(c)'
    BY <1>1 DEF Outstanding, Queued
  <2>2. \A v \in Workers \ {w} : ~ InHand(c, v)'
    BY <1>1 DEF InHand
  <2>3. InHand(c, w)' => worker'[w] = "died"
    BY <1>0, <1>1, NamesAssumption DEF InHand
  <2>4. QED BY <2>1, <2>2, <2>3 DEF Lost
<1>4. QED BY <1>0, <1>1, <1>2, <1>3 DEF Phases, Outstanding

LEMMA RejectPoolStep ==
    ASSUME Inv, NEW w \in Workers, Reject(w), NEW c \in Callers, c = serving[w]
    PROVE  Pool!Drop(c)
<1> USE DEF Inv, TypeOK, channelVars, ownerVars, callVars
<1>1. /\ worker[w] = "processing" /\ taken[w] \notin Accepted \cup Fatal
      /\ worker' = [worker EXCEPT ![w] = "looping"]
      /\ serving' = [serving EXCEPT ![w] = NoValue]
      /\ UNCHANGED <<callVars, nfQueue, handedOver, owner>>
  BY DEF Reject, EndServing
<1>2. taken[w] = input[c] /\ Pool!IsServed(c)
  BY <1>1, WhatIsProcessed
<1>3. Running' = Running /\ Able' = Able
  BY <1>1 DEF Running, Able
<1>4. InService' = InService /\ Count' = Count
  BY <1>1, <1>3 DEF InService, Count
<1>5. Phases' = [Phases EXCEPT ![c] = "lost"]
  BY <1>1, NowLost
<1>6. QED
  BY <1>1, <1>2, <1>4, <1>5 DEF Pool!Drop, Pool!poolVars, Phases, Count

LEMMA ThrowPoolStep ==
    ASSUME Inv, NEW w \in Workers, Throw(w), NEW c \in Callers, c = serving[w]
    PROVE  Pool!Throw(c)
<1> USE DEF Inv, TypeOK, channelVars, ownerVars, callVars
<1>1. /\ worker[w] = "processing" /\ taken[w] \in Fatal
      /\ worker' = [worker EXCEPT ![w] = "died"]
      /\ UNCHANGED <<callVars, serving, nfQueue, handedOver, owner>>
  BY DEF Throw
<1>2. /\ taken[w] = input[c] /\ Pool!IsServed(c)
      /\ InService # "off" /\ w \in Running
  BY <1>1, WhatIsProcessed
<1>3. Phases' = [Phases EXCEPT ![c] = "lost"]
  BY <1>1, NowLost
<1>4. \/ Count' = Count - 1 /\ InService' = InService
      \/ InService = "stopping" /\ InService' = "off" /\ Count' = 0
  <2>1. w \in Able /\ Able' = Able \ {w}
    BY <1>1 DEF Able
  <2>2. Cardinality(Able') = Cardinality(Able) - 1
    BY <2>1, AbleIsFinite, FS_RemoveElement
  <2>3. CASE InService' = "off"
    BY <1>1, <1>2, <2>3 DEF InService, Count
  <2>4. CASE InService' # "off"
    <3>1. InService' = InService
      BY <1>1, <1>2, <2>4 DEF InService
    <3>2. QED BY <1>2, <2>2, <2>4, <3>1 DEF Count
  <2>5. QED BY <2>3, <2>4
<1>5. QED
  BY <1>1, <1>2, <1>3, <1>4 DEF Pool!Throw, Pool!TurnsOff, Phases, Count

(* A call begins as pending: its message is queued, or with a worker.         *)
LEMMA ProcessPoolStep ==
    ASSUME Inv, NEW c \in Callers, NEW r \in Inputs, Process(c, r)
    PROVE  Pool!Call(c, r)
<1> USE DEF Inv, TypeOK, ChannelTypeOK, ownerVars, workerVars
<1>1. /\ ~ calling[c]
      /\ calling' = [calling EXCEPT ![c] = TRUE]
      /\ input' = [input EXCEPT ![c] = r]
      /\ response' = [response EXCEPT ![c] = NoValue]
      /\ responded' = [responded EXCEPT ![c] = FALSE]
      /\ enqueueNotification(c)
      /\ UNCHANGED <<owner, worker, serving>>
  BY DEF Process
<1>2. ~ Queued(c)
  BY <1>1 DEF EachCallInOnePlace, Outstanding
<1>3. \/ /\ UNCHANGED handedOver
         /\ \A x : Queued(x)' <=> Queued(x) \/ x = c
      \/ \E w \in Workers :
           /\ Blocked(w)
           /\ handedOver' = [handedOver EXCEPT ![w] = c]
           /\ UNCHANGED nfQueue
  BY <1>1, <1>2, EnqueueEffect
<1>4. ~ Lost(c)'
  <2>1. CASE Queued(c)'
    BY <2>1 DEF Lost
  <2>2. ASSUME NEW w \in Workers, Blocked(w), handedOver' = [handedOver EXCEPT ![w] = c]
        PROVE  ~ Lost(c)'
    <3>1. InHand(c, w)' /\ worker'[w] # "died"
      BY <1>1, <2>2 DEF InHand, RecordsAgree
    <3>2. QED BY <3>1 DEF Lost
  <2>3. QED BY <1>3, <2>1, <2>2
<1>5. ASSUME NEW d \in Callers \ {c} PROVE Lost(d)' <=> Lost(d)
  <2>1. Outstanding(d)' <=> Outstanding(d)
    BY <1>1 DEF Outstanding
  <2>2. Queued(d)' <=> Queued(d)
    BY <1>3 DEF Queued
  <2>3. ASSUME NEW v \in Workers PROVE InHand(d, v)' <=> InHand(d, v)
    BY <1>1, <1>3, NamesAssumption DEF InHand, RecordsAgree
  <2>4. QED BY <1>1, <2>1, <2>2, <2>3 DEF Lost
<1>6. Phases' = [Phases EXCEPT ![c] = "pending"] /\ Phases[c] = "idle"
  BY <1>1, <1>4, <1>5 DEF Phases
<1>7. InService' = InService /\ Count' = Count
  BY <1>1 DEF InService, Running, Able, Count
<1>8. QED
  BY <1>1, <1>6, <1>7 DEF Pool!Call, Pool!poolVars, Phases, Count

LEMMA ReturnPoolStep ==
    ASSUME Inv, NEW c \in Callers, ProcessReturns(c)
    PROVE  Pool!Return(c)
<1> USE DEF Inv, TypeOK, channelVars, ownerVars, workerVars
<1>1. /\ calling[c] /\ responded[c]
      /\ calling' = [calling EXCEPT ![c] = FALSE]
      /\ responded' = [responded EXCEPT ![c] = FALSE]
      /\ UNCHANGED <<input, response, nfQueue, handedOver, owner, worker, serving>>
  BY DEF ProcessReturns
<1>2. \A d \in Callers \ {c} : Lost(d)' <=> Lost(d)
  BY <1>1 DEF Lost, Outstanding, Queued, InHand
<1>3. Phases' = [Phases EXCEPT ![c] = "idle"] /\ Phases[c] = "answered"
  BY <1>1, <1>2 DEF Phases
<1>4. InService' = InService /\ Count' = Count
  BY <1>1 DEF InService, Running, Able, Count
<1>5. QED
  BY <1>1, <1>3, <1>4 DEF Pool!Return, Pool!poolVars, Phases, Count

LEMMA PoolRefInit == Init => Pool!Init /\ AskedFor
<1> SUFFICES ASSUME Init PROVE Pool!Init /\ AskedFor
  OBVIOUS
<1>1. InService = "off" /\ Phases = [c \in Callers |-> "idle"]
  BY DEF Init, InService, Phases
<1>2. QED BY <1>1 DEF Init, AskedFor, Pool!Init, Phases

LEMMA PoolRefStep ==
    ASSUME Inv, PoolInv, AskedFor, [Next]_vars
    PROVE  [Pool!Next]_(Pool!vars)
<1>1. CASE UNCHANGED vars
  <2>1. InService' = InService /\ Count' = Count
    BY <1>1 DEF vars, InService, Running, Able, Count
  <2>2. Phases' = Phases
    BY <1>1 DEF vars, Phases, Lost, Outstanding, Queued, InHand
  <2>3. QED BY <1>1, <2>1, <2>2, Invisible DEF vars, callVars
<1>2. ASSUME NEW w \in Workers, WorkerStep(w) PROVE [Pool!Next]_(Pool!vars)
  <2>1. CASE Respond(w) \/ Reject(w) \/ Throw(w)
    <3>1. PICK c \in Callers : c = serving[w]
      BY <2>1, WhatIsProcessed DEF Respond, Reject, Throw
    <3>2. Pool!Answer(c) \/ Pool!Drop(c) \/ Pool!Throw(c)
      BY <2>1, <3>1, RespondPoolStep, RejectPoolStep, ThrowPoolStep
    <3>3. QED BY <3>2 DEF Pool!Next
  <2>2. QED BY <1>2, <2>1, TakingPoolStep, LeavingPoolStep DEF WorkerStep
<1>3. ASSUME NEW c \in Callers, CallerStep(c) PROVE Pool!Next
  <2>1. Pool!Return(c) \/ \E r \in Inputs : Pool!Call(c, r)
    BY <1>3, ReturnPoolStep, ProcessPoolStep DEF CallerStep
  <2>2. QED BY <2>1 DEF Pool!Next
<1>4. QED
  BY <1>1, <1>2, <1>3, OwnerPoolStep DEF Next

(* ConcurrentProcessor implements WorkerPool: Init starts as many workers as  *)
(* it was configured for, whatever an Init that failed has left; none of them *)
(* is gone before Terminate but with a call that threw; a call is answered,   *)
(* or lost for good for one of the two reasons WorkerPool knows.              *)
THEOREM PoolRefinement == Spec => ImplementsPool
<1> DEFINE J == Inv /\ PoolInv /\ AskedFor
<1>1. Spec => []J
  <2>1. Init => J
    BY InitInv, InitPoolInv, PoolRefInit
  <2>2. J /\ [Next]_vars => J'
    <3>1. Inv /\ [Next]_vars => Inv'
      BY TypeStep, OwnerStepInv, WorkerStepInv, CallerStepInv, StutterInv DEF Next, Inv
    <3>2. QED BY <3>1, PoolStep, AskedForStep
  <2>3. QED BY <2>1, <2>2, PTL DEF Spec
<1>2. J /\ [Next]_vars => [Pool!Next]_(Pool!vars)
  BY PoolRefStep
<1>3. QED BY <1>1, <1>2, PoolRefInit, PTL DEF Spec, ImplementsPool, Pool!Spec
===============================================================================
