----------------------------- MODULE MemoryShard ------------------------------
(***************************************************************************)
(* MemoryShardImpl of feature_search/search_worker: a shard of a feature   *)
(* database held in the memory of a search worker.  The constructor starts *)
(* the loop thread and loads the features; then any thread may add,        *)
(* remove, search, close, stop and start.  All but Start and Stop are      *)
(* messages to the loop, which alone touches the cache.                    *)
(*                                                                         *)
(* A message is named by its caller.  A feature is its id.  The driver is  *)
(* external: a load may bring any features, or fail.                       *)
(***************************************************************************)
EXTENDS Naturals, Sequences, FiniteSets, SequencesExt

CONSTANTS
    Callers,      \* the threads that share the shard
    Operations,   \* which of the public operations they use
    Ids,          \* the feature_id of a FeatureDbItem
    MaxBatch,     \* bound: features in one AddFeatures or RemoveFeatures
    NoValue

ASSUME OperationsAssumption ==
    Operations \subseteq {"add", "remove", "search", "close", "stop", "start"}
ASSUME BatchAssumption == MaxBatch \in Nat \ {0}
ASSUME NamesAssumption == NoValue \notin Callers

Loop == "loop"   \* the thread in _loop_thread

Batches == UNION {[1..n -> Ids] : n \in 1..MaxBatch}
RequestsOf(op) ==
    [op : {op}, ids : IF op \in {"add", "remove"} THEN Batches ELSE {<< >>}]
Queries  == {"add", "remove", "search", "close", "load"}   \* served by the loop
Requests == UNION {RequestsOf(op) : op \in Queries}

VARIABLES
    nfQueue, waitQueue, handedOver,   \* the queue _channel points to
    channel,     \* _channel: "null" or "live"
    mutex,       \* who holds _thread_mu
    stopped,     \* _is_stopped
    closed,      \* _shard_info.is_closed
    loaded,      \* _is_loaded
    built,       \* the constructor has returned
    cache,       \* the keys of _cached_fts
    loop,        \* where the loop thread is: see LoopStates
    serving,     \* the message it works on
    output,      \* the ids in the output for setResponse
    failed,      \* the error field of that output is set
    at,          \* where each caller is: see CallerStates
    request,     \* _request of its message
    response,    \* _response of its message: the ids in it
    refused,     \* and its error field
    responded,   \* _evt_response is set
    crashed      \* a null _channel has been dereferenced

INSTANCE MsgChannel WITH Threads <- {Loop}, Messages <- Callers, NoMessage <- NoValue

queueVars == <<nfQueue, waitQueue, handedOver>>
stateVars == <<stopped, closed, loaded, built>>
loopVars  == <<loop, serving, output, failed>>
msgVars   == <<request, response, refused, responded>>
vars == <<queueVars, channel, mutex, stateVars, cache, loopVars, at, msgVars, crashed>>

CallerStates ==
    {"idle"}
    \cup Queries                                     \* admitted, about to enqueue
    \cup {"waiting",                                 \* in waitResponse
          "startChannel", "startFlag",               \* inside Start
          "stopping",                                \* Close is about to Stop
          "stopWake", "stopJoin", "stopReset"}       \* inside Stop

LoopStates ==
    {"none",        \* no thread
     "looping",     \* at the head of the loop
     "dequeuing",   \* has found _is_stopped false
     "waiting",     \* blocked in waitDequeueNotification
     "handling",    \* has a message
     "replying",    \* has the output for setResponse
     "exited"}      \* loop() has returned

Init ==
    /\ ChannelInit
    /\ channel = "null" /\ mutex = NoValue
    /\ stopped = TRUE /\ loaded = FALSE /\ built = FALSE
    /\ closed \in BOOLEAN
    /\ cache = {}
    /\ loop = "none" /\ serving = NoValue /\ output = {} /\ failed = FALSE
    /\ at = [c \in Callers |-> "idle"]
    /\ request = [c \in Callers |-> NoValue]
    /\ response = [c \in Callers |-> {}]
    /\ refused = [c \in Callers |-> FALSE]
    /\ responded = [c \in Callers |-> FALSE]
    /\ crashed = FALSE

Goes(c, place) == at' = [at EXCEPT ![c] = place]

-------------------------------------------------------------------------------
(* Start, under _thread_mu.  The constructor calls it first.                 *)

StartThread(c) ==
    /\ at[c] = "idle"
    /\ IF built THEN "start" \in Operations ELSE \A d \in Callers : at[d] = "idle"
    /\ mutex = NoValue
    /\ stopped
    /\ mutex' = c
    /\ loop' = "looping"
    /\ Goes(c, "startChannel")
    /\ UNCHANGED <<queueVars, channel, stateVars, cache, serving, output, failed, msgVars, crashed>>

StartChannel(c) ==
    /\ at[c] = "startChannel"
    /\ channel' = "live"
    /\ NewChannel
    /\ Goes(c, "startFlag")
    /\ UNCHANGED <<mutex, stateVars, cache, loopVars, msgVars, crashed>>

(* The constructor goes on with Load. *)
StartFlag(c) ==
    /\ at[c] = "startFlag"
    /\ stopped' = FALSE
    /\ mutex' = NoValue
    /\ Goes(c, IF built THEN "idle" ELSE "load")
    /\ UNCHANGED <<queueVars, channel, closed, loaded, built, cache, loopVars, msgVars, crashed>>

(* Stop, under _thread_mu: called by anybody, and at the end of Close. *)
StopFlag(c) ==
    /\ at[c] = "stopping" \/ (at[c] = "idle" /\ built /\ "stop" \in Operations)
    /\ mutex = NoValue
    /\ ~ stopped
    /\ mutex' = c
    /\ stopped' = TRUE
    /\ Goes(c, "stopWake")
    /\ UNCHANGED <<queueVars, channel, closed, loaded, built, cache, loopVars, msgVars, crashed>>

(* Stopped already. *)
StopReturnsAtOnce(c) ==
    /\ at[c] = "stopping"
    /\ mutex = NoValue
    /\ stopped
    /\ Goes(c, "idle")
    /\ UNCHANGED <<queueVars, channel, mutex, stateVars, cache, loopVars, msgVars, crashed>>

StopWakes(c) ==
    /\ at[c] = "stopWake"
    /\ wakeUpAll
    /\ Goes(c, "stopJoin")
    /\ UNCHANGED <<channel, mutex, stateVars, cache, loopVars, msgVars, crashed>>

(* A Stop that detaches the thread. *)
StopDetaches(c) ==
    /\ at[c] = "stopJoin"
    /\ Goes(c, "stopReset")
    /\ UNCHANGED <<queueVars, channel, mutex, stateVars, cache, loopVars, msgVars, crashed>>

StopJoins(c) ==
    /\ at[c] = "stopJoin"
    /\ loop = "exited"
    /\ loop' = "none"
    /\ Goes(c, "stopReset")
    /\ UNCHANGED <<queueVars, channel, mutex, stateVars, cache, serving, output, failed,
                   msgVars, crashed>>

StopResets(c) ==
    /\ at[c] = "stopReset"
    /\ channel' = "null"
    /\ NewChannel
    /\ mutex' = NoValue
    /\ Goes(c, "idle")
    /\ UNCHANGED <<stateVars, cache, loopVars, msgVars, crashed>>

-------------------------------------------------------------------------------
(* Load, AddFeatures, RemoveFeatures, SearchFeature and Close: the checks,   *)
(* then the enqueue, then the wait, and nothing held from one to the next.   *)
(* A call that fails a check returns and changes nothing.                    *)

Admit(c, op) ==
    /\ at[c] = "idle" /\ built
    /\ op \in Queries \cap Operations
    /\ op \in {"add", "remove", "close"} => ~ closed
    /\ op \in {"add", "remove", "search"} => loaded
    /\ Goes(c, op)
    /\ UNCHANGED <<queueVars, channel, mutex, stateVars, cache, loopVars, msgVars, crashed>>

Enqueue(c) ==
    /\ at[c] \in Queries
    /\ channel = "live"
    /\ \E r \in RequestsOf(at[c]) : request' = [request EXCEPT ![c] = r]
    /\ enqueueNotification(c)
    /\ response' = [response EXCEPT ![c] = {}]
    /\ refused' = [refused EXCEPT ![c] = FALSE]
    /\ responded' = [responded EXCEPT ![c] = FALSE]
    /\ Goes(c, "waiting")
    /\ UNCHANGED <<channel, mutex, stateVars, cache, loopVars, crashed>>

(* A Stop has released the channel. *)
EnqueueCrashes(c) ==
    /\ at[c] \in Queries
    /\ channel = "null"
    /\ crashed' = TRUE
    /\ UNCHANGED <<queueVars, channel, mutex, stateVars, cache, loopVars, at, msgVars>>

Answered(c, ops) == at[c] = "waiting" /\ responded[c] /\ request[c].op \in ops

CallReturns(c) ==
    /\ Answered(c, {"add", "remove", "search"})
    /\ responded' = [responded EXCEPT ![c] = FALSE]
    /\ Goes(c, "idle")
    /\ UNCHANGED <<queueVars, channel, mutex, stateVars, cache, loopVars, request,
                   response, refused, crashed>>

(* The end of the constructor. *)
LoadReturns(c) ==
    /\ Answered(c, {"load"})
    /\ responded' = [responded EXCEPT ![c] = FALSE]
    /\ loaded' = (loaded \/ ~ refused[c])
    /\ built' = TRUE
    /\ Goes(c, "idle")
    /\ UNCHANGED <<queueVars, channel, mutex, stopped, closed, cache, loopVars, request,
                   response, refused, crashed>>

(* Close marks the shard as closed and stops it. *)
CloseReturns(c) ==
    /\ Answered(c, {"close"})
    /\ responded' = [responded EXCEPT ![c] = FALSE]
    /\ closed' = TRUE
    /\ Goes(c, "stopping")
    /\ UNCHANGED <<queueVars, channel, mutex, stopped, loaded, built, cache, loopVars,
                   request, response, refused, crashed>>

-------------------------------------------------------------------------------
(* loop(): it looks at the flag before it looks at the queue.                *)

LoopBreaks ==
    /\ loop = "looping"
    /\ stopped
    /\ loop' = "exited"
    /\ UNCHANGED <<queueVars, channel, mutex, stateVars, cache, serving, output, failed,
                   at, msgVars, crashed>>

LoopGoesOn ==
    /\ loop = "looping"
    /\ ~ stopped
    /\ loop' = "dequeuing"
    /\ UNCHANGED <<queueVars, channel, mutex, stateVars, cache, serving, output, failed,
                   at, msgVars, crashed>>

LoopTakes ==
    /\ loop = "dequeuing"
    /\ \E m \in Callers : TakeQueued(m) /\ serving' = m
    /\ loop' = "handling"
    /\ UNCHANGED <<channel, mutex, stateVars, cache, output, failed, at, msgVars, crashed>>

LoopWaits ==
    /\ loop = "dequeuing"
    /\ StartWaiting(Loop)
    /\ loop' = "waiting"
    /\ UNCHANGED <<channel, mutex, stateVars, cache, serving, output, failed, at, msgVars,
                   crashed>>

LoopReceives ==
    /\ loop = "waiting"
    /\ \E m \in Callers : StopWaiting(Loop, m) /\ serving' = m
    /\ loop' = "handling"
    /\ UNCHANGED <<channel, mutex, stateVars, cache, output, failed, at, msgVars, crashed>>

(* A wait without a timeout. *)
LoopIsWoken ==
    /\ loop = "waiting"
    /\ StopWaiting(Loop, NoValue)
    /\ loop' = "looping"
    /\ UNCHANGED <<channel, mutex, stateVars, cache, serving, output, failed, at, msgVars,
                   crashed>>

(* A timeout that does not look whether a message has just been handed over. *)
LoopTimesOutBlindly ==
    /\ loop = "waiting"
    /\ waitQueue' = << >>
    /\ handedOver' = [handedOver EXCEPT ![Loop] = NoValue]
    /\ loop' = "looping"
    /\ UNCHANGED <<nfQueue, channel, mutex, stateVars, cache, serving, output, failed, at,
                   msgVars, crashed>>

(* A null notification that is not looked at. *)
LoopServesNull ==
    /\ loop = "waiting"
    /\ WaitTimesOut(Loop) \/ StopWaiting(Loop, NoValue)
    /\ loop' = "handling"
    /\ UNCHANGED <<channel, mutex, stateVars, cache, serving, output, failed, at, msgVars,
                   crashed>>

(* WAIT_MSG_INTERVAL_MS is over, or wakeUpAll. *)
LoopGetsNull ==
    /\ loop = "waiting"
    /\ WaitTimesOut(Loop) \/ StopWaiting(Loop, NoValue)
    /\ loop' = "looping"
    /\ UNCHANGED <<channel, mutex, stateVars, cache, serving, output, failed, at, msgVars,
                   crashed>>

Handles(op) ==
    /\ loop = "handling"
    /\ request[serving].op = op
    /\ loop' = "replying"
    /\ UNCHANGED <<queueVars, channel, mutex, stopped, closed, built, serving, at, msgVars,
                   crashed>>

(* do_load_features reads all pages into a map of its own and swaps it in,   *)
(* unless the driver does not return a feature for each id of a page.        *)
HandleLoad ==
    /\ Handles("load")
    /\ output' = {}
    /\ \/ /\ cache' \in SUBSET Ids
          /\ loaded' = TRUE
          /\ failed' = FALSE
       \/ /\ failed' = TRUE
          /\ UNCHANGED <<cache, loaded>>

(* An add that assigns the map instead of its entries. *)
HandleAddReplaces ==
    /\ Handles("add")
    /\ cache' = ToSet(request[serving].ids)
    /\ output' = {} /\ failed' = FALSE
    /\ UNCHANGED loaded

(* do_add_features.  What the driver makes of the features, the ids it       *)
(* returns included, is not looked at.                                       *)
HandleAdd ==
    /\ Handles("add")
    /\ cache' = cache \cup ToSet(request[serving].ids)
    /\ output' = {} /\ failed' = FALSE
    /\ UNCHANGED loaded

HandleRemove ==
    /\ Handles("remove")
    /\ cache' = cache \ ToSet(request[serving].ids)
    /\ output' = {} /\ failed' = FALSE
    /\ UNCHANGED loaded

(* The ranking runs over all of the cache. *)
HandleSearch ==
    /\ Handles("search")
    /\ output' = cache /\ failed' = FALSE
    /\ UNCHANGED <<cache, loaded>>

HandleClose ==
    /\ Handles("close")
    /\ output' = {} /\ failed' = FALSE
    /\ UNCHANGED <<cache, loaded>>

Respond ==
    /\ loop = "replying"
    /\ response' = [response EXCEPT ![serving] = output]
    /\ refused' = [refused EXCEPT ![serving] = failed]
    /\ responded' = [responded EXCEPT ![serving] = TRUE]
    /\ loop' = "looping"
    /\ serving' = NoValue /\ output' = {} /\ failed' = FALSE
    /\ UNCHANGED <<queueVars, channel, mutex, stateVars, cache, at, request, crashed>>

-------------------------------------------------------------------------------
InStop(c)     == at[c] \in {"stopWake", "stopJoin", "stopReset"}
StopStep(c)   == StopWakes(c) \/ StopJoins(c) \/ StopResets(c)
FinishStart(c) == StartChannel(c) \/ StartFlag(c)
FinishCall(c) == Enqueue(c) \/ EnqueueCrashes(c) \/ CallReturns(c) \/ LoadReturns(c) \/ CloseReturns(c)

LoopStep ==
    \/ LoopBreaks \/ LoopGoesOn \/ LoopTakes \/ LoopWaits \/ LoopReceives \/ LoopGetsNull
    \/ HandleLoad \/ HandleAdd \/ HandleRemove \/ HandleSearch \/ HandleClose \/ Respond

Next ==
    /\ ~ crashed
    /\ \/ LoopStep
       \/ \E c \in Callers :
             \/ StartThread(c) \/ FinishStart(c)
             \/ StopFlag(c) \/ StopReturnsAtOnce(c) \/ StopStep(c)
             \/ FinishCall(c)
             \/ \E op \in Operations : Admit(c, op)

Spec == Init /\ [][Next]_vars

(* A thread goes on with what it has begun, and a wait with a timeout ends.  *)
(* Nothing makes a caller begin an operation, and nothing says who gets the  *)
(* mutex.                                                                    *)
Fairness ==
    /\ WF_vars(~ crashed /\ LoopStep)
    /\ \A c \in Callers : WF_vars(~ crashed /\ (FinishStart(c) \/ StopStep(c) \/ FinishCall(c)))

FairSpec == Spec /\ Fairness

-------------------------------------------------------------------------------
(* Type invariant: the loop works on a message exactly while it says so.     *)
TypeOK ==
    /\ ChannelTypeOK
    /\ channel \in {"null", "live"}
    /\ mutex \in Callers \cup {NoValue}
    /\ stopped \in BOOLEAN /\ closed \in BOOLEAN /\ loaded \in BOOLEAN
    /\ built \in BOOLEAN /\ crashed \in BOOLEAN /\ failed \in BOOLEAN
    /\ cache \subseteq Ids /\ output \subseteq Ids
    /\ loop \in LoopStates
    /\ IF loop \in {"handling", "replying"} THEN serving \in Callers ELSE serving = NoValue
    /\ at \in [Callers -> CallerStates]
    /\ request \in [Callers -> Requests \cup {NoValue}]
    /\ response \in [Callers -> SUBSET Ids]
    /\ refused \in [Callers -> BOOLEAN]
    /\ responded \in [Callers -> BOOLEAN]

(* The loop never touches a channel that is not there: the flag it looks at  *)
(* first is cleared only after the channel has been made, and Stop releases  *)
(* the channel only after the loop has ended.                                *)
ChannelOutlivesLoop ==
    loop \in {"dequeuing", "waiting", "handling", "replying"} => channel = "live"

(* The shard is a linearizable set of features, also across Close, Stop and  *)
(* Start: a search sees every add and remove that has returned and none that *)
(* has not been called.                                                      *)
Store == INSTANCE FeatureStore WITH
    store  <- cache,
    phase  <- [c \in Callers |->
                  IF at[c] # "waiting" THEN "idle"
                  ELSE IF responded[c] \/ (loop = "replying" /\ serving = c)
                       THEN "answered" ELSE "pending"],
    result <- [c \in Callers |-> IF loop = "replying" /\ serving = c THEN output
                                 ELSE response[c]]

ImplementsStore == Store!Spec

Held(c) == Queued(c) \/ handedOver[Loop] = c \/ serving = c

(* While the loop runs and nobody stops it, a call whose message the shard    *)
(* holds is answered.                                                        *)
AnsweredWhileRunning ==
    \A c \in Callers :
        (Held(c) /\ loop \notin {"none", "exited"})
            ~> (at[c] # "waiting" \/ stopped \/ crashed)

(* Stop returns, although its wakeUpAll misses a loop that is busy or about   *)
(* to wait.                                                                  *)
StopReturns == \A c \in Callers : InStop(c) ~> (~ InStop(c) \/ crashed)

-------------------------------------------------------------------------------
(* What mem_shard_impl.h:98 says of Close, "cannot add features from this     *)
(* shard, but still can search": a search of a closed shard does not end in   *)
(* a null pointer.                                                           *)
ClosedCanBeSearched ==
    ~ (crashed /\ closed /\ \E c \in Callers : at[c] = "search")
===============================================================================
