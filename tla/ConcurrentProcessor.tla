------------------------- MODULE ConcurrentProcessor -------------------------
(***************************************************************************)
(* ConcurrentProcessor<T> of feature_extract: a pool of worker threads     *)
(* behind one channel.  Any thread may call Process, which enqueues a      *)
(* message and blocks until a worker has answered it.  The owner           *)
(* calls Init, which creates and starts the workers, and Terminate, which  *)
(* wakes the blocked workers and joins all of them.                        *)
(*                                                                         *)
(* A WorkMessage lives as long as the call that made it and a caller has   *)
(* one call at a time, so a message is named by its caller; its fields are *)
(* functions of the caller.                                                *)
(*                                                                         *)
(* The failure covered: process throws, for the inputs in Fatal.  run()    *)
(* does not catch, so the exception ends the worker; the thread pool       *)
(* swallows it, and the call it was for is never answered.                 *)
(***************************************************************************)
EXTENDS Naturals, Sequences, FiniteSets, SequencesExt

CONSTANTS
    Callers,      \* the threads that call Process
    Workers,      \* the worker objects Init may come to create
    Concurrent,   \* conf["concurrent"]
    Inputs,       \* the values Process is called with
    Accepted,     \* those of the valueType the workers of this processor take ...
    Fatal,        \* ... but these, for which process throws
    MaxCapacity,  \* bound: Init is called while the pool is to stay below it
    NoValue       \* a null pointer

ASSUME ConcurrentAssumption == Concurrent \in Nat \ {0}
ASSUME CapacityAssumption   == MaxCapacity \in Nat
ASSUME InputsAssumption     ==
    /\ Accepted \subseteq Inputs /\ Fatal \subseteq Inputs \ Accepted
    /\ NoValue \notin Inputs
ASSUME NamesAssumption      == NoValue \notin Callers
ASSUME WorkersAssumption    == IsFiniteSet(Workers)

VARIABLES
    nfQueue, waitQueue, handedOver,   \* _channel
    owner,      \* where the owner thread is: see OwnerStates
    toCreate,   \* workers the running Init has still to create
    capacity,   \* threads _pool can run
    isInited,   \* _is_inited, which the constructor does not set
    worker,     \* of each worker: see WorkerStates
    serving,    \* the message a worker is processing, or has died of
    taken,      \* the input it has read from that message
    calling,    \* is this caller inside Process?
    input,      \* _request of the caller's message
    response,   \* _response, named by the input it was computed from
    responded,  \* _evt_response is set
    output      \* what the last Process of this caller has returned

INSTANCE MsgChannel WITH Threads <- Workers, Messages <- Callers, NoMessage <- NoValue

channelVars == <<nfQueue, waitQueue, handedOver>>
ownerVars  == <<owner, toCreate, capacity, isInited>>
workerVars == <<worker, serving, taken>>
callVars   == <<calling, input, response, responded, output>>
vars == <<nfQueue, waitQueue, handedOver, owner, toCreate, capacity, isInited,
          worker, serving, taken, calling, input, response, responded, output>>

OwnerStates ==
    {"idle",        \* not inited, or Init has failed
     "creating",    \* in Init: the loop that makes the workers
     "starting",    \* in Init: the loop that hands them to the pool
     "ready",       \* Init has returned RET_OK
     "joining",     \* in Terminate: _pool.joinAll()
     "terminated"}

WorkerStates ==
    {"absent",      \* not created
     "created",     \* in _workers, no thread
     "looping",     \* at the head of run()
     "waiting",     \* inside waitDequeueNotification
     "processing",  \* has a message
     "died",        \* run() has been left by an exception
     "exited"}      \* run() has returned

Running == {w \in Workers : worker[w] \in {"looping", "waiting", "processing"}}
Dead    == {w \in Workers : worker[w] = "died"}

Init ==
    /\ ChannelInit
    /\ owner = "idle"
    /\ toCreate = 0
    /\ capacity = 1
    /\ isInited \in BOOLEAN
    /\ worker = [w \in Workers |-> "absent"]
    /\ serving = [w \in Workers |-> NoValue]
    /\ taken = [w \in Workers |-> NoValue]
    /\ calling = [c \in Callers |-> FALSE]
    /\ input = [c \in Callers |-> NoValue]
    /\ response = [c \in Callers |-> NoValue]
    /\ responded = [c \in Callers |-> FALSE]
    /\ output = [c \in Callers |-> NoValue]

-------------------------------------------------------------------------------
(* The owner: Init.  It is called again after it has failed, and after      *)
(* Terminate; the workers of the earlier Init are still in _workers.        *)

(* A pool that is sized once: its capacity does not grow with _workers. *)
InitForgetsCapacity ==
    /\ owner \in {"idle", "terminated"}
    /\ capacity + Concurrent <= MaxCapacity
    /\ owner' = "creating"
    /\ toCreate' = Concurrent
    /\ capacity' = 1 + Concurrent
    /\ UNCHANGED <<channelVars, isInited, workerVars, callVars>>

InitBegins ==
    /\ owner \in {"idle", "terminated"}
    /\ capacity + Concurrent <= MaxCapacity
    /\ owner' = "creating"
    /\ toCreate' = Concurrent
    /\ capacity' = capacity + Concurrent
    /\ UNCHANGED <<channelVars, isInited, workerVars, callVars>>

(* worker->Init returns RET_OK and the worker is pushed to _workers. *)
CreateWorker(w) ==
    /\ owner = "creating"
    /\ toCreate > 0
    /\ worker[w] = "absent"
    /\ worker' = [worker EXCEPT ![w] = "created"]
    /\ toCreate' = toCreate - 1
    /\ UNCHANGED <<channelVars, owner, capacity, isInited, serving, taken, callVars>>

(* worker->Init fails: Init returns, the workers made so far stay. *)
CreateWorkerFails ==
    /\ owner = "creating"
    /\ toCreate > 0
    /\ owner' = "idle"
    /\ toCreate' = 0
    /\ UNCHANGED <<channelVars, capacity, isInited, workerVars, callVars>>

AllCreated ==
    /\ owner = "creating"
    /\ toCreate = 0
    /\ owner' = "starting"
    /\ UNCHANGED <<channelVars, toCreate, capacity, isInited, workerVars, callVars>>

NotStarted(w) == worker[w] \in {"created", "exited"}

(* _pool.start: throws when every thread of the pool is taken, which        *)
(* PoolHasRoom excludes.                                                    *)
StartWorker(w) ==
    /\ owner = "starting"
    /\ NotStarted(w)
    /\ worker' = [worker EXCEPT ![w] = "looping"]
    /\ UNCHANGED <<channelVars, ownerVars, serving, taken, callVars>>

InitReturns ==
    /\ owner = "starting"
    /\ \A w \in Workers : ~ NotStarted(w)
    /\ owner' = "ready"
    /\ isInited' = TRUE
    /\ UNCHANGED <<channelVars, toCreate, capacity, workerVars, callVars>>

-------------------------------------------------------------------------------
(* The owner: Terminate, at any time Init is not running.  It leaves        *)
(* isInited as it is.                                                       *)

TerminateBegins ==
    /\ owner \in {"idle", "ready", "terminated"}
    /\ wakeUpAll
    /\ owner' = "joining"
    /\ UNCHANGED <<toCreate, capacity, isInited, workerVars, callVars>>

(* What has died is now as good as what has exited: the next Init starts it.  *)
JoinAllReturns ==
    /\ owner = "joining"
    /\ Running = {}
    /\ owner' = "terminated"
    /\ worker' = [w \in Workers |-> IF worker[w] = "died" THEN "exited" ELSE worker[w]]
    /\ serving' = [w \in Workers |-> NoValue]
    /\ UNCHANGED <<channelVars, toCreate, capacity, isInited, taken, callVars>>

-------------------------------------------------------------------------------
(* The callers: Process.                                                    *)

(* new WorkMessage(input), enqueueNotification; then waitResponse blocks.    *)
(* The caller brings an empty output, as FacePipelineImpl does.              *)
Process(c, v) ==
    /\ ~ calling[c]
    /\ calling' = [calling EXCEPT ![c] = TRUE]
    /\ input' = [input EXCEPT ![c] = v]
    /\ response' = [response EXCEPT ![c] = NoValue]
    /\ responded' = [responded EXCEPT ![c] = FALSE]
    /\ output' = [output EXCEPT ![c] = NoValue]
    /\ enqueueNotification(c)
    /\ UNCHANGED <<ownerVars, workerVars>>

(* waitResponse returns.  The event resets itself. *)
ProcessReturns(c) ==
    /\ calling[c]
    /\ responded[c]
    /\ output' = [output EXCEPT ![c] = response[c]]
    /\ calling' = [calling EXCEPT ![c] = FALSE]
    /\ responded' = [responded EXCEPT ![c] = FALSE]
    /\ UNCHANGED <<input, response, channelVars, ownerVars, workerVars>>

-------------------------------------------------------------------------------
(* The workers: run().                                                      *)

(* A current message that is a field all workers share. *)
BeginShared(w, m) ==
    /\ worker' = [worker EXCEPT ![w] = "processing"]
    /\ serving' = [u \in Workers |-> IF u = w \/ serving[u] # NoValue THEN m ELSE NoValue]
    /\ taken' = [taken EXCEPT ![w] = input[m]]

(* The worker has got message m and reads its request. *)
Begin(w, m) ==
    /\ worker' = [worker EXCEPT ![w] = "processing"]
    /\ serving' = [serving EXCEPT ![w] = m]
    /\ taken' = [taken EXCEPT ![w] = input[m]]

(* A worker that looks at the oldest message and leaves it in the queue. *)
PeekMessage(w) ==
    /\ worker[w] = "looping"
    /\ nfQueue # << >>
    /\ Begin(w, Head(nfQueue))
    /\ UNCHANGED <<channelVars, ownerVars, callVars>>

TakeMessage(w) ==
    /\ worker[w] = "looping"
    /\ \E m \in Callers : TakeQueued(m) /\ Begin(w, m)
    /\ UNCHANGED <<ownerVars, callVars>>

WaitForMessage(w) ==
    /\ worker[w] = "looping"
    /\ StartWaiting(w)
    /\ worker' = [worker EXCEPT ![w] = "waiting"]
    /\ UNCHANGED <<serving, taken, ownerVars, callVars>>

ReceiveMessage(w) ==
    /\ worker[w] = "waiting"
    /\ \E m \in Callers : StopWaiting(w, m) /\ Begin(w, m)
    /\ UNCHANGED <<ownerVars, callVars>>

(* A null notification taken for an empty queue. *)
IgnoreNull(w) ==
    /\ worker[w] = "waiting"
    /\ StopWaiting(w, NoValue)
    /\ worker' = [worker EXCEPT ![w] = "looping"]
    /\ UNCHANGED <<serving, taken, ownerVars, callVars>>

(* A wait that returns null although Terminate has not been called. *)
SpuriousNull(w) ==
    /\ worker[w] = "waiting"
    /\ handedOver[w] = NoValue
    /\ worker' = [worker EXCEPT ![w] = "exited"]
    /\ UNCHANGED <<channelVars, serving, taken, ownerVars, callVars>>

(* The notification is null: break. *)
ReceiveNull(w) ==
    /\ worker[w] = "waiting"
    /\ StopWaiting(w, NoValue)
    /\ worker' = [worker EXCEPT ![w] = "exited"]
    /\ UNCHANGED <<serving, taken, ownerVars, callVars>>

EndServing(w) ==
    /\ worker' = [worker EXCEPT ![w] = "looping"]
    /\ serving' = [serving EXCEPT ![w] = NoValue]
    /\ taken' = [taken EXCEPT ![w] = NoValue]

(* A worker that gives the message of a failed attempt back for another try. *)
ThrowAndRetry(w) ==
    /\ worker[w] = "processing"
    /\ taken[w] \in Fatal
    /\ worker' = [worker EXCEPT ![w] = "died"]
    /\ taken' = [taken EXCEPT ![w] = NoValue]
    /\ nfQueue' = Append(nfQueue, serving[w])
    /\ UNCHANGED <<serving, waitQueue, handedOver, ownerVars, callVars>>

(* process(...), whose result code is only logged, then setResponse. *)
Respond(w) ==
    /\ worker[w] = "processing"
    /\ taken[w] \in Accepted
    /\ response' = [response EXCEPT ![serving[w]] = taken[w]]
    /\ responded' = [responded EXCEPT ![serving[w]] = TRUE]
    /\ EndServing(w)
    /\ UNCHANGED <<calling, input, output, channelVars, ownerVars>>

(* A wrong valueType is logged and the message is dropped: continue. *)
Reject(w) ==
    /\ worker[w] = "processing"
    /\ taken[w] \notin Accepted \cup Fatal
    /\ EndServing(w)
    /\ UNCHANGED <<channelVars, ownerVars, callVars>>

(* process throws: no response, and no worker any more. *)
Throw(w) ==
    /\ worker[w] = "processing"
    /\ taken[w] \in Fatal
    /\ worker' = [worker EXCEPT ![w] = "died"]
    /\ taken' = [taken EXCEPT ![w] = NoValue]
    /\ UNCHANGED <<serving, channelVars, ownerVars, callVars>>

-------------------------------------------------------------------------------
OwnerStep ==
    \/ InitBegins \/ CreateWorkerFails \/ AllCreated \/ InitReturns
    \/ \E w \in Workers : CreateWorker(w) \/ StartWorker(w)
    \/ TerminateBegins \/ JoinAllReturns

WorkerStep(w) ==
    \/ TakeMessage(w) \/ WaitForMessage(w) \/ ReceiveMessage(w) \/ ReceiveNull(w)
    \/ Respond(w) \/ Reject(w) \/ Throw(w)

CallerStep(c) == ProcessReturns(c) \/ \E v \in Inputs : Process(c, v)

Next ==
    \/ OwnerStep
    \/ \E w \in Workers : WorkerStep(w)
    \/ \E c \in Callers : CallerStep(c)

Spec == Init /\ [][Next]_vars

(* The scheduler runs every thread that can run, and a call that has begun   *)
(* goes on.  Nothing makes the owner call Init or Terminate, or a caller     *)
(* call Process.                                                             *)
Fairness ==
    /\ \A w \in Workers : WF_vars(WorkerStep(w))
    /\ \A c \in Callers : WF_vars(ProcessReturns(c))
    /\ WF_vars(JoinAllReturns)

FairSpec == Spec /\ Fairness

-------------------------------------------------------------------------------
(* Type invariant. *)
TypeOK ==
    /\ ChannelTypeOK
    /\ owner \in OwnerStates
    /\ toCreate \in 0..Concurrent
    /\ capacity \in 1..(MaxCapacity + 1)
    /\ isInited \in BOOLEAN
    /\ worker \in [Workers -> WorkerStates]
    /\ serving \in [Workers -> Callers \cup {NoValue}]
    /\ taken \in [Workers -> Inputs \cup {NoValue}]
    /\ calling \in [Callers -> BOOLEAN]
    /\ input \in [Callers -> Inputs \cup {NoValue}]
    /\ response \in [Callers -> Inputs \cup {NoValue}]
    /\ responded \in [Callers -> BOOLEAN]
    /\ output \in [Callers -> Inputs \cup {NoValue}]

InHand(c, w) == handedOver[w] = c \/ serving[w] = c
Outstanding(c) == calling[c] /\ ~ responded[c]

(* A call whose message nobody holds and nobody will answer. *)
Dropped(c) == Outstanding(c) /\ ~ Queued(c) /\ \A w \in Workers : ~ InHand(c, w)

(* A message is in one place at most: once in the queue, or with one worker; *)
(* it is somewhere only while its call is unanswered, and only a message of  *)
(* the wrong valueType, or a fatal one, is ever dropped.  So no call is lost or served twice, *)
(* whatever the order of enqueues, handovers, wake-ups and dequeues.         *)
EachCallInOnePlace ==
    /\ IsInjective(nfQueue)
    /\ \A c \in Callers, w \in Workers : InHand(c, w) => ~ Queued(c)
    /\ \A c \in Callers, v, w \in Workers : InHand(c, v) /\ InHand(c, w) => v = w
    /\ \A c \in Callers :
          Queued(c) \/ (\E w \in Workers : InHand(c, w)) => Outstanding(c)
    /\ \A c \in Callers : Dropped(c) => input[c] \notin Accepted

(* Process hands its caller what was computed from the caller's own input,   *)
(* although all workers and callers share one channel.                       *)
AnswerIsOwn ==
    \A c \in Callers : ~ calling[c] => output[c] = input[c]

(* Between Init and Terminate every worker serves, but for those that have    *)
(* died: none has left its loop and none is about to leave it (its wait ended *)
(* without a message).                                                        *)
ReadyMeansAllServe ==
    owner = "ready" =>
        /\ isInited
        /\ \A w \in Workers :
              /\ worker[w] \in {"absent", "looping", "waiting", "processing", "died"}
              /\ worker[w] = "waiting" /\ handedOver[w] = NoValue => Blocked(w)

(* A worker dies only of a fatal input, and each of a call of its own, whose  *)
(* caller is blocked for ever: so there are no more dead workers than callers *)
(* that are, and no input takes a second worker with it.                      *)
DeathsAreAccounted ==
    \A w \in Dead :
        /\ serving[w] \in Callers /\ Outstanding(serving[w]) /\ ~ Queued(serving[w])
        /\ input[serving[w]] \in Fatal
        /\ \A v \in Workers : InHand(serving[w], v) => v = w

(* What the threads believe agrees with the channel and the messages: a       *)
(* worker is in the wait queue or has been handed a message only inside its   *)
(* wait, what it processes is what its message asks, an answered call has     *)
(* its own answer, and workers run only between Init and Terminate.           *)
RecordsAgree ==
    /\ IsInjective(waitQueue)
    /\ owner = "ready" => isInited
    /\ \A w \in Workers :
          /\ Blocked(w) => worker[w] = "waiting" /\ handedOver[w] = NoValue
          /\ handedOver[w] # NoValue => worker[w] = "waiting"
          /\ worker[w] \notin {"processing", "died"} => serving[w] = NoValue
          /\ worker[w] = "died" => serving[w] # NoValue /\ input[serving[w]] \in Fatal
          /\ worker[w] = "processing" => serving[w] # NoValue /\ taken[w] = input[serving[w]]
          /\ owner \in {"idle", "creating", "terminated"} => w \notin Running \cup Dead
          /\ owner \in {"starting", "ready"} /\ worker[w] = "waiting"
                /\ handedOver[w] = NoValue => Blocked(w)
          /\ owner = "ready" => ~ NotStarted(w)
    /\ \A c \in Callers :
          /\ calling[c] => input[c] \in Inputs
          /\ responded[c] => calling[c] /\ response[c] = input[c]

(* Init never asks the pool for a thread it has not got, also when it is     *)
(* called again after a failure or after Terminate with the workers of the   *)
(* earlier call still in _workers.                                           *)
PoolHasRoom ==
    owner = "starting" /\ (\E w \in Workers : NotStarted(w))
        => Cardinality(Running) < capacity

(* The processor is a request/reply service in the sense of RequestReply.    *)
Service == INSTANCE RequestReply WITH
    phase   <- [c \in Callers |-> IF ~ calling[c] THEN "idle"
                                  ELSE IF responded[c] THEN "answered" ELSE "pending"],
    request <- input,
    reply   <- response,
    Requests <- Inputs

ImplementsService == Service!Spec

(* From the end of the creations until the last worker that was woken has gone. *)
InService ==
    IF owner \in {"starting", "ready"} THEN "serving"
    ELSE IF owner = "joining" /\ Running # {} THEN "stopping" ELSE "off"

(* The workers that are there, and not ended by an exception. *)
Able == {w \in Workers : worker[w] \notin {"absent", "died"}}

(* The worker that had its message has dropped it, or died with it. *)
Lost(c) ==
    /\ Outstanding(c) /\ ~ Queued(c)
    /\ \A w \in Workers : InHand(c, w) => worker[w] = "died"

(* ... and, more than that, a pool of workers in the sense of WorkerPool: how *)
(* many serve, what a call that throws costs, and which calls are lost.       *)
Pool == INSTANCE WorkerPool WITH
    state   <- InService,
    alive   <- IF InService = "off" THEN 0 ELSE Cardinality(Able),
    phase   <- [c \in Callers |-> IF ~ calling[c] THEN "idle"
                                  ELSE IF responded[c] THEN "answered"
                                  ELSE IF Lost(c) THEN "lost" ELSE "pending"],
    request <- input,
    reply   <- response,
    Requests <- Inputs

ImplementsPool == Pool!Spec

(* While the workers run, a call with an input they accept is answered:      *)
(* messages are taken in order and no worker is lost but to a fatal input.   *)
(* Only when each of them is lost do the calls hang.                         *)
AcceptedCallReturns ==
    \A c \in Callers :
        (owner = "ready" /\ calling[c] /\ input[c] \in Accepted)
            ~> (owner # "ready" \/ ~ calling[c] \/ Running = {})

(* Terminate returns when its wakeUpAll has found every worker blocked.      *)
TerminateReturnsWhenAllWaited ==
    (owner = "joining" /\ \A w \in Running : worker[w] = "waiting" /\ ~ Blocked(w)
                                            /\ handedOver[w] = NoValue)
        ~> (owner = "terminated")

(* What tests/feature_extract/processor/concurrent_processor_impl.cc:139     *)
(* takes for granted: Terminate returns.                                     *)
TerminateReturns == (owner = "joining") ~> (owner = "terminated")
===============================================================================
