----------------------------- MODULE ManagerShard -----------------------------
(***************************************************************************)
(* ShardImpl of feature_search/search_manager: one shard of a feature      *)
(* database as the search manager sees it.  Any thread may call            *)
(* AddFeatures or SearchFeature; the call is a message to the shard's loop *)
(* thread, which passes it on to the worker the shard is assigned to and   *)
(* keeps the shard's record up to date.  The owner constructs the shard,   *)
(* stops it and starts it again; anybody may close and open it.            *)
(*                                                                         *)
(* As in ConcurrentProcessor a message is named by its caller.  The worker *)
(* and the shard manager, reached through their interfaces, are external:  *)
(* what they return is nondeterministic.                                   *)
(***************************************************************************)
EXTENDS Naturals, Sequences, FiniteSets, SequencesExt

CONSTANTS
    Callers,   \* the threads that call AddFeatures and SearchFeature
    Sizes,     \* how many features an AddFeatures brings
    MaxUsed,   \* bound: no AddFeatures begins once the shard has used so much
    NoValue

ASSUME SizesAssumption == Sizes \subseteq Nat \ {0} /\ MaxUsed \in Nat
ASSUME NamesAssumption == NoValue \notin Callers
ASSUME CallersAssumption == IsFiniteSet(Callers)

Search    == [op |-> "search", size |-> 0]
AddOf(n)  == [op |-> "add", size |-> n]
Requests  == {Search} \cup {AddOf(n) : n \in Sizes}
Loop      == "loop"   \* the thread in _loop_thread

VARIABLES
    nfQueue, waitQueue, handedOver,   \* the queue _channel points to
    channel,     \* _channel: "null" or "live"
    owner,       \* where the owner thread is: see OwnerStates
    built,       \* the constructor has returned
    stopped,     \* _is_stopped
    closed,      \* _is_closed
    hasWorker,   \* _worker is set
    used,        \* _shard_info.used
    recorded,    \* the `used' of the last UpdateShard the manager has carried out
    stored,      \* features the worker has stored in this shard
    loop,        \* where the loop thread is: see LoopStates
    serving,     \* the message it works on
    accepted,    \* how many ids the worker has returned for it
    call,        \* of each caller: "idle", "adding", "searching", "waiting"
    request,     \* _request of its message
    response,    \* _response, named by the request it answers
    ids,         \* how many ids that response holds
    responded,   \* _evt_response is set
    acked,       \* features of all AddFeatures that have returned ids
    crashed      \* a null _channel has been dereferenced

INSTANCE MsgChannel WITH Threads <- {Loop}, Messages <- Callers, NoMessage <- NoValue

queueVars  == <<nfQueue, waitQueue, handedOver>>
shardVars  == <<built, stopped, closed, hasWorker>>
recordVars == <<used, recorded, stored>>
loopVars   == <<loop, serving, accepted>>
callVars   == <<call, request, response, ids, responded, acked>>
vars == <<queueVars, channel, owner, shardVars, recordVars, loopVars, callVars, crashed>>

OwnerStates ==
    {"idle",
     "startChannel", "startFlag",              \* inside Start
     "stopWake", "stopJoin", "stopReset"}      \* inside Stop

LoopStates ==
    {"none",        \* no thread
     "looping",     \* about to call waitDequeueNotification
     "waiting",     \* blocked in it
     "gotNull",     \* it has returned null
     "handling",    \* has a message
     "counting",    \* the worker has added the features
     "replying",    \* has the output for setResponse
     "exited"}      \* loop() has returned

Init ==
    /\ ChannelInit
    /\ channel = "null"
    /\ owner = "idle"
    /\ built = FALSE
    /\ stopped = TRUE
    /\ closed = TRUE
    /\ hasWorker = FALSE
    /\ used = 0 /\ recorded = 0 /\ stored = 0 /\ acked = 0
    /\ loop = "none" /\ serving = NoValue /\ accepted = 0
    /\ call = [c \in Callers |-> "idle"]
    /\ request = [c \in Callers |-> NoValue]
    /\ response = [c \in Callers |-> NoValue]
    /\ ids = [c \in Callers |-> 0]
    /\ responded = [c \in Callers |-> FALSE]
    /\ crashed = FALSE

-------------------------------------------------------------------------------
(* Start, under _thread_mu: the thread is created before the channel it      *)
(* reads.  The constructor is Start followed by Open.                        *)

(* A Start that clears the flag before it makes the channel. *)
StartClearsFlagFirst ==
    /\ owner = "idle"
    /\ stopped
    /\ stopped' = FALSE
    /\ loop' = "looping"
    /\ owner' = "startChannel"
    /\ UNCHANGED <<queueVars, channel, built, closed, hasWorker, recordVars, serving, accepted,
                   callVars, crashed>>

StartThread ==
    /\ owner = "idle"
    /\ stopped
    /\ loop' = "looping"
    /\ owner' = "startChannel"
    /\ UNCHANGED <<queueVars, channel, shardVars, recordVars, serving, accepted, callVars, crashed>>

StartChannel ==
    /\ owner = "startChannel"
    /\ channel' = "live"
    /\ NewChannel
    /\ owner' = "startFlag"
    /\ UNCHANGED <<shardVars, recordVars, loopVars, callVars, crashed>>

StartFlag ==
    /\ owner = "startFlag"
    /\ stopped' = FALSE
    /\ owner' = "idle"
    /\ UNCHANGED <<queueVars, channel, built, closed, hasWorker, recordVars,
                   loopVars, callVars, crashed>>

(* Stop, under _thread_mu. *)
StopFlag ==
    /\ owner = "idle" /\ built
    /\ ~ stopped
    /\ stopped' = TRUE
    /\ owner' = "stopWake"
    /\ UNCHANGED <<queueVars, channel, built, closed, hasWorker, recordVars,
                   loopVars, callVars, crashed>>

StopWakes ==
    /\ owner = "stopWake"
    /\ wakeUpAll
    /\ owner' = "stopJoin"
    /\ UNCHANGED <<channel, shardVars, recordVars, loopVars, callVars, crashed>>

(* A Stop that detaches the thread. *)
StopDetaches ==
    /\ owner = "stopJoin"
    /\ owner' = "stopReset"
    /\ UNCHANGED <<queueVars, channel, shardVars, recordVars, loopVars, callVars, crashed>>

StopJoins ==
    /\ owner = "stopJoin"
    /\ loop = "exited"
    /\ loop' = "none"
    /\ owner' = "stopReset"
    /\ UNCHANGED <<queueVars, channel, shardVars, recordVars, serving, accepted, callVars, crashed>>

(* _channel.reset(): what is still queued goes with the queue. *)
StopResets ==
    /\ owner = "stopReset"
    /\ channel' = "null"
    /\ NewChannel
    /\ owner' = "idle"
    /\ UNCHANGED <<shardVars, recordVars, loopVars, callVars, crashed>>

Open ==
    /\ built \/ (owner = "idle" /\ ~ stopped)
    /\ closed
    /\ closed' = FALSE
    /\ built' = TRUE
    /\ UNCHANGED <<queueVars, channel, owner, stopped, hasWorker, recordVars,
                   loopVars, callVars, crashed>>

Close ==
    /\ built
    /\ ~ closed
    /\ closed' = TRUE
    /\ UNCHANGED <<queueVars, channel, owner, built, stopped, hasWorker,
                   recordVars, loopVars, callVars, crashed>>

AssignWorker ==
    /\ built
    /\ ~ stopped /\ ~ closed
    /\ ~ hasWorker
    /\ hasWorker' = TRUE
    /\ UNCHANGED <<queueVars, channel, owner, built, stopped, closed, recordVars, loopVars, callVars, crashed>>

-------------------------------------------------------------------------------
(* AddFeatures and SearchFeature: the checks, then the enqueue, then the     *)
(* wait.  Nothing is held from one to the next.  A call that fails a check   *)
(* returns an empty result and changes nothing.                              *)

AdmitAdd(c) ==
    /\ call[c] = "idle" /\ built
    /\ ~ stopped /\ ~ closed
    /\ hasWorker
    /\ used < MaxUsed
    /\ call' = [call EXCEPT ![c] = "adding"]
    /\ UNCHANGED <<queueVars, channel, owner, shardVars, recordVars, loopVars,
                   request, response, ids, responded, acked, crashed>>

(* A closed shard can still be searched. *)
AdmitSearch(c) ==
    /\ call[c] = "idle" /\ built
    /\ ~ stopped
    /\ hasWorker
    /\ call' = [call EXCEPT ![c] = "searching"]
    /\ UNCHANGED <<queueVars, channel, owner, shardVars, recordVars, loopVars,
                   request, response, ids, responded, acked, crashed>>

Admitted(c) == call[c] \in {"adding", "searching"}

Enqueue(c) ==
    /\ Admitted(c)
    /\ channel = "live"
    /\ enqueueNotification(c)
    /\ \E r \in Requests :
          /\ (r = Search) = (call[c] = "searching")
          /\ request' = [request EXCEPT ![c] = r]
    /\ call' = [call EXCEPT ![c] = "waiting"]
    /\ response' = [response EXCEPT ![c] = NoValue]
    /\ ids' = [ids EXCEPT ![c] = 0]
    /\ responded' = [responded EXCEPT ![c] = FALSE]
    /\ UNCHANGED <<channel, owner, shardVars, recordVars, loopVars, acked, crashed>>

(* Stop has already released the channel. *)
EnqueueCrashes(c) ==
    /\ Admitted(c)
    /\ channel = "null"
    /\ crashed' = TRUE
    /\ UNCHANGED <<queueVars, channel, owner, shardVars, recordVars, loopVars, callVars>>

(* A wait for the response that gives up. *)
CallGivesUp(c) ==
    /\ call[c] = "waiting"
    /\ call' = [call EXCEPT ![c] = "idle"]
    /\ UNCHANGED <<queueVars, channel, owner, shardVars, recordVars, loopVars,
                   request, response, ids, responded, acked, crashed>>

CallReturns(c) ==
    /\ call[c] = "waiting"
    /\ responded[c]
    /\ call' = [call EXCEPT ![c] = "idle"]
    /\ responded' = [responded EXCEPT ![c] = FALSE]
    /\ acked' = IF ids[c] > 0 THEN acked + request[c].size ELSE acked
    /\ UNCHANGED <<queueVars, channel, owner, shardVars, recordVars, loopVars,
                   request, response, ids, crashed>>

-------------------------------------------------------------------------------
(* loop(). *)

LoopCrashes ==
    /\ loop = "looping"
    /\ channel = "null"
    /\ crashed' = TRUE
    /\ UNCHANGED <<queueVars, channel, owner, shardVars, recordVars, loopVars, callVars>>

LoopTakes ==
    /\ loop = "looping"
    /\ channel = "live"
    /\ \E m \in Callers : TakeQueued(m) /\ serving' = m
    /\ loop' = "handling"
    /\ UNCHANGED <<channel, owner, shardVars, recordVars, accepted, callVars, crashed>>

LoopWaits ==
    /\ loop = "looping"
    /\ channel = "live"
    /\ StartWaiting(Loop)
    /\ loop' = "waiting"
    /\ UNCHANGED <<channel, owner, shardVars, recordVars, serving, accepted, callVars, crashed>>

LoopReceives ==
    /\ loop = "waiting"
    /\ \E m \in Callers : StopWaiting(Loop, m) /\ serving' = m
    /\ loop' = "handling"
    /\ UNCHANGED <<channel, owner, shardVars, recordVars, accepted, callVars, crashed>>

(* A wait without a timeout. *)
LoopIsWoken ==
    /\ loop = "waiting"
    /\ StopWaiting(Loop, NoValue)
    /\ loop' = "gotNull"
    /\ UNCHANGED <<channel, owner, shardVars, recordVars, serving, accepted, callVars, crashed>>

(* A timeout that does not look whether a message has just been handed over. *)
LoopTimesOutBlindly ==
    /\ loop = "waiting"
    /\ waitQueue' = << >>
    /\ handedOver' = [handedOver EXCEPT ![Loop] = NoValue]
    /\ loop' = "gotNull"
    /\ UNCHANGED <<nfQueue, channel, owner, shardVars, recordVars, serving, accepted,
                   callVars, crashed>>

(* A null notification that is not looked at. *)
LoopServesNull ==
    /\ loop = "waiting"
    /\ WaitTimesOut(Loop) \/ StopWaiting(Loop, NoValue)
    /\ loop' = "handling"
    /\ UNCHANGED <<channel, owner, shardVars, recordVars, serving, accepted, callVars, crashed>>

(* WAIT_MSG_INTERVAL_MS is over, or wakeUpAll. *)
LoopGetsNull ==
    /\ loop = "waiting"
    /\ WaitTimesOut(Loop) \/ StopWaiting(Loop, NoValue)
    /\ loop' = "gotNull"
    /\ UNCHANGED <<channel, owner, shardVars, recordVars, serving, accepted, callVars, crashed>>

(* Only an empty queue lets the loop look at the flag. *)
LoopContinues ==
    /\ loop = "gotNull"
    /\ ~ stopped
    /\ loop' = "looping"
    /\ UNCHANGED <<queueVars, channel, owner, shardVars, recordVars, serving, accepted,
                   callVars, crashed>>

(* A loop that looks at the flag before the queue. *)
LoopBreaksAtOnce ==
    /\ loop \in {"looping", "gotNull"}
    /\ stopped
    /\ loop' = "exited"
    /\ UNCHANGED <<queueVars, channel, owner, shardVars, recordVars, serving, accepted,
                   callVars, crashed>>

LoopBreaks ==
    /\ loop = "gotNull"
    /\ stopped
    /\ loop' = "exited"
    /\ UNCHANGED <<queueVars, channel, owner, shardVars, recordVars, serving, accepted,
                   callVars, crashed>>

(* _worker->SearchFeature. *)
HandleSearch ==
    /\ loop = "handling"
    /\ request[serving].op = "search"
    /\ accepted' = 0
    /\ loop' = "replying"
    /\ UNCHANGED <<queueVars, channel, owner, shardVars, recordVars, serving, callVars, crashed>>

(* _worker->AddFeatures: it stores all, some or none of them. *)
HandleAdd ==
    /\ loop = "handling"
    /\ request[serving].op = "add"
    /\ \E k \in 0..request[serving].size :
          /\ accepted' = k
          /\ stored' = stored + k
          /\ loop' = IF k > 0 THEN "counting" ELSE "replying"
    /\ UNCHANGED <<queueVars, channel, owner, shardVars, used, recorded, serving,
                   callVars, crashed>>

(* A batch that is counted only when the worker has taken all of it. *)
CountWholeBatch ==
    /\ loop = "counting"
    /\ used' = IF accepted = request[serving].size THEN used + accepted ELSE used
    /\ recorded' \in {recorded, used'}
    /\ loop' = "replying"
    /\ UNCHANGED <<queueVars, channel, owner, shardVars, stored, serving, accepted,
                   callVars, crashed>>

(* The whole batch is counted, and the manager told; that it may fail to     *)
(* record it goes unnoticed.                                                 *)
CountUsed ==
    /\ loop = "counting"
    /\ used' = used + request[serving].size
    /\ recorded' \in {recorded, used'}
    /\ loop' = "replying"
    /\ UNCHANGED <<queueVars, channel, owner, shardVars, stored, serving, accepted,
                   callVars, crashed>>

Respond ==
    /\ loop = "replying"
    /\ response' = [response EXCEPT ![serving] = request[serving]]
    /\ ids' = [ids EXCEPT ![serving] = accepted]
    /\ responded' = [responded EXCEPT ![serving] = TRUE]
    /\ loop' = "looping"
    /\ serving' = NoValue
    /\ accepted' = 0
    /\ UNCHANGED <<queueVars, channel, owner, shardVars, recordVars, call, request, acked, crashed>>

-------------------------------------------------------------------------------
OwnerStep ==
    StartThread \/ StartChannel \/ StartFlag
    \/ StopFlag \/ StopWakes \/ StopJoins \/ StopResets

LoopStep ==
    \/ LoopCrashes \/ LoopTakes \/ LoopWaits \/ LoopReceives \/ LoopGetsNull
    \/ LoopContinues \/ LoopBreaks
    \/ HandleSearch \/ HandleAdd \/ CountUsed \/ Respond

CallStep(c) == Enqueue(c) \/ EnqueueCrashes(c) \/ CallReturns(c)

Next ==
    /\ ~ crashed
    /\ \/ OwnerStep \/ LoopStep
       \/ Open \/ Close \/ AssignWorker
       \/ \E c \in Callers : AdmitAdd(c) \/ AdmitSearch(c) \/ CallStep(c)

Spec == Init /\ [][Next]_vars

(* A thread that is inside an operation goes on with it, and a wait with a   *)
(* timeout ends.  Nobody has to begin a Start, a Stop or a call.             *)
Fairness ==
    /\ WF_vars(~ crashed /\ LoopStep)
    /\ WF_vars(~ crashed /\ owner # "idle" /\ OwnerStep)
    /\ \A c \in Callers : WF_vars(~ crashed /\ CallStep(c))

FairSpec == Spec /\ Fairness

-------------------------------------------------------------------------------
(* Type invariant: the loop works on a message exactly while it says so. *)
TypeOK ==
    /\ ChannelTypeOK
    /\ channel \in {"null", "live"}
    /\ owner \in OwnerStates
    /\ built \in BOOLEAN /\ stopped \in BOOLEAN /\ closed \in BOOLEAN
    /\ hasWorker \in BOOLEAN /\ crashed \in BOOLEAN
    /\ used \in Nat /\ recorded \in Nat /\ stored \in Nat /\ acked \in Nat
    /\ accepted \in Nat
    /\ loop \in LoopStates
    /\ IF loop \in {"handling", "counting", "replying"}
       THEN serving \in Callers ELSE serving = NoValue
    /\ call \in [Callers -> {"idle", "adding", "searching", "waiting"}]
    /\ request \in [Callers -> Requests \cup {NoValue}]
    /\ response \in [Callers -> Requests \cup {NoValue}]
    /\ ids \in [Callers -> Nat]
    /\ responded \in [Callers -> BOOLEAN]

(* The shard is a request/reply service in the sense of RequestReply, also   *)
(* across Stop and a new Start: each call that reaches the loop is answered  *)
(* at most once and with its own answer.                                     *)
Service == INSTANCE RequestReply WITH
    Accepted <- Requests,
    phase   <- [c \in Callers |-> IF call[c] # "waiting" THEN "idle"
                                  ELSE IF responded[c] THEN "answered" ELSE "pending"],
    reply   <- response

ImplementsService == Service!Spec

(* What the worker has stored is in `used' (or is about to be, the loop being *)
(* between the worker and the record), and the manager is never told more.   *)
StoredIsCounted ==
    /\ stored <= used + (IF loop = "counting" THEN accepted ELSE 0)
    /\ recorded <= used

(* The accounting of the shard: so is every feature a caller has been told of; *)
(* UpdateShard and the worker may fail at any point.                         *)
UsedIsAccounted == StoredIsCounted /\ acked <= used

(* A stopped shard is quiet: once Stop has returned nothing it took on before *)
(* reaches the worker or the record.                                         *)
StoppedIsQuiet ==
    [][stopped /\ owner = "idle" => UNCHANGED recordVars]_vars

Held(c) == Queued(c) \/ handedOver[Loop] = c \/ serving = c

(* A message the shard holds leaves it by being answered, or with the queue   *)
(* that Stop releases; no race of enqueue, timeout and wake-up loses it.     *)
HeldUntilAnswered ==
    [][\A c \in Callers :
          Held(c) /\ ~ Held(c)' => responded'[c] \/ owner = "stopReset"]_vars

(* Stop drains: a message that is queued when the loop comes back to the      *)
(* queue is answered, whether or not the shard has been stopped.              *)
QueuedIsDrained ==
    \A c \in Callers :
        (Queued(c) /\ loop \in {"looping", "handling", "counting", "replying"})
            ~> (call[c] = "idle" \/ crashed)

(* Stop returns, although its wakeUpAll misses a loop that is busy: the       *)
(* loop's wait has a timeout.                                                *)
StopReturns ==
    owner \in {"stopWake", "stopJoin", "stopReset"} ~> (owner = "idle" \/ crashed)

-------------------------------------------------------------------------------
(* What shard_impl.h:70-72 says of Stop, "if there are still some operations  *)
(* in msg queue, those items will be drained": the queue Stop releases is     *)
(* empty.                                                                    *)
StopDrainsQueue == owner = "stopReset" => nfQueue = << >>

(* A null _channel is dereferenced in the two windows of Start and Stop only, *)
(* by a loop that runs before Start has made the channel or by a call that   *)
(* has passed its check before Stop: never in a shard that counts as running. *)
CrashesOnlyWhileStopped == [][crashed' /\ ~ crashed => stopped]_vars
===============================================================================
