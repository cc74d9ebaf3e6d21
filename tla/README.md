# Donde toolkits in TLA+

Models of the concurrent core of donde-toolkits (face feature extraction, feature search,
video decoding), checked with TLC on small instances, and proofs about them checked with TLAPS.
`PROJECT.json` lists the components, the runs, the mutants of the code each property is known to
notice, the source lines behind every definition, the findings and the hazards.

## The system

| component | state | operations | interacts through |
|---|---|---|---|
| message channel `common/message.h` | the queue and wait queue of a `Poco::NotificationQueue` | enqueue, wait for a message (with or without a timeout), wake all up; `WorkMessage` adds `waitResponse`/`setResponse` | shared by producers and consumers |
| concurrent processor and its workers `feature_extract/src` | `_workers`, the thread pool, `_is_inited`, one channel | `Init`, `Process`, `Terminate`; `run()` of detector, landmarks, aligner and feature workers | messages; `Process` blocks for the answer |
| inference workers `openvino_worker/*.cc` | a network each | `process()`: a frame to faces, to landmarks, to aligned faces, to features | called by `run()` |
| face pipeline | four processors | `Init`, `Decode`, `Detect`, `Landmarks`, `Align`, `Extract`, `Terminate` | calls `Process` |
| search manager: shard `search_manager/shard_impl` | `_is_stopped`, `_is_closed`, `_worker`, `_shard_info.used`, channel and loop thread | constructor, `Start`, `Stop`, `Open`, `Close`, `AssignWorker`, `AddFeatures`, `SearchFeature` | messages to its loop; calls the worker and the shard manager |
| search manager: shard manager, worker manager, coordinator | lists of shards and workers per database | find or create a writable shard, register and assign workers, add and search | direct calls, no locks |
| search worker: memory shard `search_worker/mem_shard_impl` | a cache of features, `_is_stopped`, `_is_closed`, `_is_loaded`, channel and loop thread | constructor (`Start`, `Load`), `AddFeatures`, `RemoveFeatures`, `SearchFeature`, `Close`, `Start`, `Stop` | messages to its loop; calls the driver |
| search worker: shard manager, brute force worker | the served shards | serve, close, add, remove, search | calls shards |
| drivers (SQLite, Cassandra) | databases, shards, features as rows | create, find, list, delete, add, load, remove | SQL statements |
| top-k ranking `feature_topk_rank.h` | a list of candidates | `FeedIn`, `SortOut` | pure |
| video pipeline `video_process` | `quit_`, `pause_`, three threads, two channels | `Process`, `Pause`, `Resume`, `Stop` | `msd::channel`, callbacks |
| video channel `include/msd` | a buffer, one mutex, one condition variable | `<<`, `>>`, `close` | threads |

What is hard in it is the same in all threaded parts: a loop thread or a pool of workers behind a
channel, callers that block for an answer, and a stop that has to reach threads that are busy, about
to wait, or waiting.  `PROJECT.json` lists each place under `hazards`.

What makes each component correct:

* channel and processor: a call is served once, by one worker, and gets its own answer; nobody
  sleeps over a queued message; the pool has a thread for each worker; Terminate returns; a worker that an
  exception ends takes no other call with it than its own;
* inference workers: a face, its landmarks, its aligned picture and its feature stay together; what is cut
  out of a frame lies in it, copied or not; only a frame that is not clean makes them throw;
* shards: the same as the processor, and across Stop and Start; what the loop of the one before has taken on
  does not reach the worker after Stop; what a search sees is what
  has been added (linearizability); what a shard has stored is accounted for;
* video: frames arrive in order and once; Pause, Resume and Stop take effect; nobody sleeps for ever; nothing
  is read from a closed channel before the end of the stream;
* driver: rows, files and the ids it has returned agree; pages bring each feature once;
* face pipeline: Terminate finds every processor that runs, whatever Init reached; in a complete
  pipeline a frame gets its features;
* ranking and search worker: a search brings the best scores first, and as many as there are or were
  asked for; what a database holds can be removed;
* managers: a shard is not filled beyond its capacity, one with room is not closed, what the driver has
  cached exists.

## Modules

| module | models | extends / instantiates |
|---|---|---|
| `MsgChannel` | `Poco::NotificationQueue` as the loops use it (external library) | instantiated by `ConcurrentProcessor`, `ManagerShard`, `MemoryShard` |
| `RequestReply` | what a message channel promises its callers: each call is answered at most once, with its own answer | abstract |
| `WorkerPool` | what a processor promises: how many workers serve, what a call that throws costs, which calls are lost | abstract |
| `FeatureStore` | what a shard promises: a linearizable set of features | abstract |
| `ConcurrentProcessor` | `ConcurrentProcessor<T>` with `run()` of its workers | implements `RequestReply` and `WorkerPool` |
| `ManagerShard` | `ShardImpl` of the search manager | implements `RequestReply` |
| `MemoryShard` | `MemoryShardImpl` of the search worker | implements `FeatureStore` |
| `FaceStages` | `process()` of the four workers, as operators | extends `Subsequences` |
| `FacePipeline` | `FacePipelineImpl` over four processors | extends `FaceStages`; a processor is what `WorkerPool` promises |
| `TopkRank` | `FeatureTopkRanking`, as operators | |
| `SearchWorker` | `BruteForceWorkerImpl` and its `ShardManagerImpl` | extends `TopkRank`; a shard is what `MemoryShard` is |
| `ManagerShards` | the databases of `SimpleDriver` and their cache, `ShardManagerImpl` of the search manager | extends `Subsequences`; a shard is what `ManagerShard` is |
| `DriverFeatures` | the features in `SimpleDriver`: a table and files | extends `Subsequences` |
| `Subsequences` | what a `where` or a loop with a `continue` leaves of a sequence | |
| `MsdChannel` | `msd::channel` | instantiated twice by `VideoPipeline` |
| `VideoPipeline` | `FFmpegVideoProcessorImpl` | composes two `MsdChannel` and three threads |
| `SequenceLemmas`, `ConcurrentProcessorProofs`, `FacePipelineProofs`, `SearchWorkerProofs`, `VideoPipelineProofs`, `ManagerShardProofs`, `MemoryShardProofs` | proofs | each extends the module it is about |
| `DriverProofs` | proofs about both halves of the `SimpleDriver` | extends `ManagerShards` and `DriverFeatures`, whose `FeaturesInit`, `FeaturesNext`, `FeaturesSpec` have names of their own for that |
| `MCDriverFeatures`, `MCFacePipeline` | symmetry and constants for TLC | |

### How state and actions correspond to the code

**Message channel.** `nfQueue` and `waitQueue` are the two queues of Poco; `handedOver[t]` is the
notification field of the wait record of thread `t`.  An enqueue gives the message to the thread
that has waited longest, or queues it when none waits; a wait that ends (message, wake-up, timeout)
takes what its record holds.  A message is named by the caller that sent it, since a caller has one
call at a time; `_request`, `_response` and `_evt_response` are functions of the caller.  The
`giveReceipt` side of a message is never waited for and is left out.

**Concurrent processor.** One owner calls `Init` and `Terminate`; `InitBegins`, `CreateWorker`,
`CreateWorkerFails`, `AllCreated`, `StartWorker` and `InitReturns` are the steps of `Init` between
which other threads run, `TerminateBegins` and `JoinAllReturns` those of `Terminate`.  A worker's
`run()` is `TakeMessage` or `WaitForMessage` followed by `ReceiveMessage` or `ReceiveNull`, then
`Respond` or `Reject`.  The four workers differ only in the inference between, so one model stands
for all of them; `Accepted` are the inputs whose `valueType` the workers take, `Fatal` those at which
`process()` throws.  `run()` does not catch: the pool's thread ends (`Throw`), the worker is "died", its message
is released without an answer.  `_is_inited` starts with any value because the constructor does not set it.

**Inference workers.** `FaceStages` has one operator per `process()`.  What the networks answer is data: a
frame comes with the rows the detector's network gives for it, as integers of a resolution `Unit`, and a row
says whether the landmarks network will find its eyes.  `Box` cuts corner and size to pixels as the casts to
`int` do, `Inside` and `HasPixels` are what `image(box)` and `cv::resize` assert.  A face of just the size
of the network is not resized, and `memcpy` takes its rows for one piece of memory (`Seen`, `RawPixels`): as much as
the network wants, from the corner of the face on.  So the network does not see that face, unless it is one row or as
wide as the image; that is what the code does, and no property forbids it.  What is checked is that it reads
the frame and nothing behind it.  `extract`
makes every feature from a buffer that nobody has written to, since the code fills another one.

**Face pipeline.** A processor is abstracted to what `WorkerPool` says, which `ConcurrentProcessor` is proved
to implement: while it serves it answers every call of its `valueType` (`Answer`), drops the others (`Drop`), and loses
a worker to each call at which `process()` throws (`Throw`), until none is `alive`; with asserts compiled in, an
empty picture may end the program first (`Abort`).  Its `Terminate` wakes the workers (`TerminateStageWakes`)
and returns, if it does, with none left (`TerminateStage`).  `InitStage`, `InitStageFails` and `InitSkipsStage`
are the outcomes of one of the four blocks of `Init`, at the stage `at`; a config that names a stage without a
processor uses a null pointer.  `wired` says whose workers a processor has, since the four parameters have one
type and can be swapped.  The flag of a processor Init has not reached has any value.  A client calls the four
stages in order, each with what it has got (`held`), before `Init` too, when a call uses a null pointer, so `got` is the progress of its `frame`; `Detect`,
`Landmarks`, `Align` and `Extract` are one action, `Call`.  A result has the `valueType` of its stage, so the
checks that return `nullptr` never do.

**Shards.** `Start` and `Stop` are split at every statement another thread can observe: creating
the thread, making the channel, setting the flag; setting the flag, waking, joining, releasing the
channel.  `channel` says whether `_channel` is null, and using a null one sets `crashed`, after which
nothing happens.  A call is admitted (its early returns), enqueues, and returns when it is answered.
The loop is split where it releases control: its look at the flag, its wait, each handler, the
response.  In `ManagerShard` the worker takes any part of a batch or fails and `UpdateShard` may
fail; in `MemoryShard` the driver may fail, and the features are their ids (possibly the empty
one several times, since callers leave it empty).

**Driver.** One thread per shard, the shard's loop, calls the driver; `rows` is the feature table in
the order of its keys, `files` the ids with a file.  A statement is one step, as is a file; between
them other shards run, and the process may die (`DriverDies`) and start again on what is there.  `AddWrites` is a
round of the loop of `AddFeatures`, `AddReturns` its insert, `RemoveUnlinks` and `RemoveDeletes` the two
halves of `RemoveFeatures`, `ListCounts` and `ListSelects` those of `ListFeatures`, which a shard calls page by
page.  A select that fails keeps what it has read, a file that does not open goes unnoticed, bad
metadata puts an empty id in place of the id, a call for no features inserts a row of nulls, and the
unlocked generator may give two threads the same uuid; all of these share the bound `MaxFaults`.

**Ranking.** An item is its score.  Which target comes with a score is not modelled: `SortOut` reads it
through a reference to the top of the heap after the pop.  What is left of `SortOut` is the order it
gives, which loses the worst and has the best twice.

**Search worker.** One thread, so one action per operation, with the shards as lists of what they
cache.  `ServeShards` takes shards as the manager finds them, `NewShards` makes and loads one; a shard with
rows in the driver is not loaded, because `LoadFeatures` brings nothing.  Adds and removes go to the first
shard that is not closed.  `CloseShards` has no effect the code can see, and what a manager serves as closed
holds nothing, so in a process one shard of a database has features; the merge of several lists is
modelled all the same.  `Die` is a restart: the rows stay, the shards go.

**Search manager.** Its callers do what `CoordinatorImpl::AddFeatures` does: find or create a writable
shard, assign a worker to one that has none, add the batch.  The coordinator itself cannot be made: its
constructor throws for every driver type (`coordinator_impl.cc:35`), and the worker manager's ping thread
throws at the first worker.  Calls of the driver and of the manager exclude each other, because neither
protects its lists; between them other callers run, and that is what overfills a shard.
`insert_into_user_dbs` and `delete_user_db` have the two outcomes of a statement: it is done, or it fails
and is logged.  `Room` is
`capacity - used` in `Width` bits.

**Video.** `MsdChannel` splits an operation where it takes or gives up the mutex: the look at
`closed()` before it, the decision to write, read or wait under it, falling asleep (which gives the
mutex up), and `notify_one` after it; `close()` takes no mutex.  `VideoPipeline` has one program
counter per thread and one per client; a packet and its frame are the position in the file, so order
and duplication can be told.  Which packets are of the video stream, and at which the codec may fail, is
given with the file (`VideoPackets`, `Damaged`); a read may find the end anywhere, and the codec holds up
to `Delay` packets back and may refuse any.  A read that returns from a closed and empty
channel leaves the variable as it was; using it may crash (`crashed`), pass for a flush request, or
be refused.

## What the runs check

| run | instance | shows |
|---|---|---|
| `processor` | 2 callers, up to 4 workers, 2 Inits, 2 inputs that are accepted, 1 that is not, 1 at which `process()` throws | no call is lost, duplicated or mixed up; a worker that died has one caller of its own and no other; the pool has room; all workers serve between Init and Terminate; refinement of `WorkerPool`: the workers asked for are there, and each that is gone has gone with one call; accepted calls return; Terminate returns when all workers waited |
| `face_pipeline` | 2 clients; clean, unclean and undecodable frames of 6 x 3 pixels; configs and processors of the tests, complete ones, and swapped ones | Terminate leaves no processor running; only frames that are not clean cost a worker; results stay with their face; the landmarks network is given no memory beyond the frame; a clean frame gets its features in a complete pipeline, whatever other clients lose |
| `manager_shard` | 2 callers, batches of 2 | `used` bounds what is stored, acknowledged and recorded, under partial adds and failed updates; refinement of `RequestReply` across Stop and Start; messages are held until answered and the queue is drained; a stopped shard is quiet; a null channel is used only in the windows of Start and Stop; Stop returns |
| `mem_shard` | 2 callers, 2 features, all operations | the channel outlives the loop, whoever starts and stops; refinement of `FeatureStore`; calls are answered while the loop runs; Stop returns |
| `driver` | 2 shards, 3 features, pages of 2, 1 thing that goes wrong | rows, files and returned ids agree once no call is at them; pages bring each feature of a shard once, in order |
| `search_worker` | 1 database, 2 shards, 3 features | number and order of what a search brings; what is held can be removed |
| `manager_shards` | 1 caller, 2 databases, 3 shards | cached databases exist; a shard is not overfilled, and closed only when full |
| `video` | 1 client, 5 packets, 4 of them video, 1 damaged | frames in order and once, from file to callbacks; no wake-up is missed in the channels; the stack is read only at the end of a stream; Pause holds, Resume wakes; packets move; Stop returns unless the demux thread is caught for ever at one of two known places |

Four runs end in a violation.  They are findings: a comment or a test of the repository says one thing
and the code does another.

* `processor_terminate`: `Terminate` wakes once; a busy worker misses it and `joinAll` waits for ever.
* `manager_shard_drain`: a call that passes the `_is_stopped` check may enqueue after the loop's last
  look at the queue and is thrown away with the channel.
* `mem_shard_search`: a closed shard cannot be searched, its channel is gone.
* `manager_shards_full`: two callers overfill the shard both were given; its room then wraps around, and
  it is never full again.

Other places where the code does less than one would think are part of the models, and listed under
`hazards`: both shards create the loop thread before its channel or its flag is ready (the manager's may
use a null channel, which `CrashesOnlyWhileStopped` confines; the worker's may end at once, and its
constructor then waits for ever); the memory shard returns no ids and keeps one feature of those that
bring the same id; `LoadFeatures` of the driver brings no feature, so no shard with rows can be loaded
again; the decode thread uses an uninitialised pointer at the end of every file (and, as is checked, nowhere
else); `close()` of a video channel can fall between a reader's check and its sleep; a face that reaches beyond
the image, is less than a pixel wide or shows no eyes costs the pipeline a worker, and the client waits for ever;
every feature is made from a buffer nobody has filled; a face of the size of the landmarks network is read
from the frame row after row as if it were one piece.

`StopReturnsUnlessStuck` names the two hangs of the pipeline's `Stop`, which joins the demux thread.
That may have gone to sleep in the pause wait just after `Stop`, which takes no mutex, has sent its
wake-up (`PauseStuck`); or it writes to a packet channel that nobody reads any more (`WriteStuck`), because
the decode thread has given up on an error, or is itself stuck writing to a frame channel the process
thread has left on `quit_` (`FramesUnread`).  The excuse is to be in one of these for ever: a channel that is
full for a moment excuses nothing.  All three occur in the run, and the property fails without any of them.

### Bounds

Two callers are the smallest number that interleave; the code treats them alike.  Two inputs are accepted,
so that an answer to the wrong call shows.  Four workers let a
second `Init` find those of the first.  `MaxCapacity` bounds the number of `Init`s (each makes the pool
larger), `MaxUsed` the adds of a shard, `MaxBatch` (`MaxFeatures` in `DriverFeatures`) a batch, `FileLength` the file: four packets
of the video stream fill both channels with a thread waiting to write to each, which is what the second hang of `Stop`
takes, and the codec may hold one besides (`Delay`); one that is damaged and one of another stream are each passed over once.  Three features with pages of two give a second page, and one fault shows what each kind leaves, since
`StorageAgrees` excuses just the ids of the call it hits.  One client of the pipeline may call everything
at any time, and each of its calls is split where the others could run; a second one would add calls
inside those gaps, which `Pause` and `Resume` by the first before and after cover except within `Stop`.
In `search_worker` a heap of up to three can be short, full and overfull.  In `manager_shards` a batch of two
may or may not fit into a shard of four, and a third shard is made when two are closed; `Width` leaves the
counters the room `MaxUsed` needs, so that only the subtraction can wrap.  Two clients of the face pipeline
are at different stages when Terminate comes; `Configs`, `Wirings`, `Concurrent` and `Frames` are given in
`MCFacePipeline`: the frames have a face in each position that matters (inside, above, below and beyond the edge, of
the network's size, unsure, without eyes), and stages of one and of two workers tell the loss of one from the
loss of all.
Symmetry is used in `driver` only, where no liveness is checked.

### Fairness

Weak fairness for every thread that has begun something: the scheduler runs a thread that can run,
and a wait with a timeout ends.  No caller, owner or client is obliged to begin anything, and nothing
is assumed about who gets a mutex or which sleeper `notify_one` wakes.

Deadlock is not checked: after a Terminate, Stop, close or crash the threads of a correct run end and
nobody is obliged to call anything; that a wait ends is what the liveness properties state.

## What is proved

`ConcurrentProcessorProofs`, for any sets of callers, workers and inputs, any `Concurrent` > 0 and any
`MaxCapacity`; `Workers` finite is used for `WorkerPool` only, which counts them.

* `Typing`: type correctness.
* `Invariance`: the inductive invariant `Inv`, the conjunction of `TypeOK`, `EachCallInOnePlace`,
  `RecordsAgree` and `AnswerIsOwn`.  None is inductive alone: that a message
  handed to a worker was not already with another one needs the wait queue to be free of repetitions
  and its members to hold nothing (`RecordsAgree`); that the answer is the caller's own needs `taken`
  to be what the message asks (`RecordsAgree`), which needs the message to be in one place
  (`EachCallInOnePlace`).  One lemma per group of actions, under it one step per action.
* `CallsInOnePlace`, `AnswersAreOwn`, `AllServe`: from it.
* `RoomInPool`: with `PoolInv`, that the workers created and to be created stay below the capacity.
* `Refinement`: `Spec => ImplementsService`, each step maps to one of `RequestReply` or a stutter.
* `PoolRefinement`: `Spec => ImplementsPool`, the stronger contract, with the workers that are there as a number.
  That Init starts no fewer than it was asked for needs those made and those to be made to add up to that
  (`AskedFor`); that a call is lost exactly when its worker drops it or dies needs its message to be in one place and
  to be what the worker has read (`WhatIsProcessed`), and that taking or handing over a message loses none
  (`TakingPoolStep`, `ProcessPoolStep`).  It is for this step that `Lost` is stated over queue, wait records and workers.
* `Deaths`: every worker an exception has ended has a caller of its own that waits for ever.

`FacePipelineProofs`, first about the stages, for any resolution, image, network and number of faces:

* `CleanFramesPass`: no stage throws for what the ones before it have made of a clean frame.  It rests on
  `BoxFits`: the box of a face that lies in the image does, though corner and size are cut off one by one.
* `SeenIsInFrame`: what is copied of a box that lies in the image lies in its memory: resized, pixel by pixel (`RowOf`,
  `PixelOfImage`); not resized, because the memory from its corner on ends where its last row does, or before.

and then about the pipeline, for any clients, frames, configs and any processors given to it:

* `Typing`, and `TerminateIsComplete`: when Terminate has returned no worker runs.  The invariant `Inv` adds
  to `TerminatedIsQuiet` that what runs has a processor and its flag set (`RunningIsFound`: the flags of the
  others are garbage, so Terminate may call those too), that nothing runs behind the stage Terminate is at
  or ahead of the one Init is at (`DoneIsQuiet`), and that a client in a call has a stage left.
* `CleanFramesLoseNoWorker` and `ReadsStayInFrame`: with `HeldIsOfFrame`, that a client holds what the stages
  it has been through make of its frame, they follow from these two.
  `CoordinatesAssumption` (the networks' numbers are numbers) is used for them.
* `ResultsAreByPosition`: `ResultsStayInPlace`, from the same invariant: each stage is a function over the places of
  what it is given, and the first one picks as many rows as pass the threshold, in their order (`PickLength`).
  `FramesAssumption` says that a frame is one of an image with rows.

`VideoPipelineProofs`, for a file of any length, any codec delay and any clients; `ValueAssumption` says that no
packet is the mark of an empty-handed read:

* `GarbageAtTheEnd`: `GarbageOnlyAtTheEnd`.  The invariant says that each channel is closed by the thread that
  writes to it, on its way out (`PacketInv`, `FrameInv`), so a reader that has found it closed and empty finds
  nothing later either, and that before `Process` there are no threads.
* `PauseLetsOnePass`: `PauseHolds`, from the fact that with a packet read under pause the demux thread is not
  between its check of the flag and its read.
* `NobodyOversleeps`: `NoWakeIsMissed`.  `PacketWake` and `FrameWake` say what a thread about to sleep has found is
  still so, since it has the mutex, and that a sleeper that could go on has the other side about to notify; with one
  reader and one writer that is enough, though `notify_one` may wake either.
* `FramesStayInOrder`: `FramesInOrder`.  A frame is at one of eight places (`At`), and what is further on was read
  earlier (`Ordered`).  Every step loses something, moves the first of a place on, or brings in what was just read
  (one lemma for each); that the first of a queue is all of it needs the wake-up invariant, where the bound on its
  length is.
* `Typing`: type correctness; that the codec never holds more than one above its delay needs it to be fed only
  when it has asked for more (`CodecInv`).

`ManagerShardProofs`, for any callers and batches; `NamesAssumption` says that the null message is no caller:

* `Invariance`: the inductive invariant `Inv`.  `OwnerInv` says how far Start and Stop are, and that with
  neither under way the shard has a thread and a channel if and only if it is not stopped; `LoopInv` and
  `MessageInv` say that a message is in one place (queue, wait record or loop) and its caller waits for it.
  None is inductive alone: that an answer goes to a caller that waits needs the message to be in one place,
  and that a channel just made throws nothing away needs the one before it to have been released empty.
* `NullChannel`, `Quiet`, `Kept`, `Typing`: `CrashesOnlyWhileStopped`, `StoppedIsQuiet`, `HeldUntilAnswered`, `TypeOK`.
* `Accounted`: `UsedIsAccounted`.  That what is stored is counted, and what the manager is told is, follows from
  a worker taking at most the batch (`Counts`).  What the callers have been told needs what they will be told too,
  once the loop has counted their batch (`Told`), and that the sum of both over all callers stays below `used`
  (`Owed`).  That sum is what the last of a function on `0..Many` is, which starts at `acked` and grows by one caller
  per place of an enumeration of the callers (`Tally`); `CallersAssumption` says that there are finitely many.
* `Refinement`: `Spec => ImplementsService`: an enqueue is the call, the loop's answer the answer.

`MemoryShardProofs`, for any callers, operations, batches and features, under the same assumption:

* `ChannelIsThere`: `ChannelOutlivesLoop`.  `MutexInv` says that a caller is inside Start or Stop exactly while it
  has the mutex, `ThreadInv` what the section has done to thread and channel so far; a loop that has found the flag
  clear has therefore got a channel that stays until the loop has been joined.
* `Refinement`: `Spec => ImplementsStore`: an operation takes effect when the loop handles it.  That this is
  between the call and the return needs the message in one place with its caller waiting, as above.
* `Typing`: type correctness.

`SearchWorkerProofs`, for any databases, shards, features and batches:

* `HeldIsRemovable`: `HeldCanBeRemoved`, since a shard that holds anything is the first open one of the list, and
  that never changes: shards are listed in the order they were first served in and not opened, closed or dropped.
* `SearchIsRanked`: `SearchRanks`, for any scores and any number asked for.  A heap that has been fed has as many as
  there were or as were asked for, in ascending order, with the best one last (`FedRanks`, one lemma for each loop);
  what `SortOut` makes of it starts with that (`SortedOut`); and since just one shard of a database holds anything, the
  merge of the lists is the list of that shard, ranked again (`MergeOfAll`).

`DriverProofs`, first about the features of the driver, for any shards, ids, size of a page and of a batch and any
number of things that go wrong, restarts included:

* `StorageKeepsAgreeing`: `StorageAgrees`.  It says nothing of an id while a call is at it, so what is true of those
  has to be part of the invariant (`UnderWayInv`): an id that is being added is in no other batch and has no row or
  return yet (`AddIsNew`), one that is being removed was returned and has its row, and its file unless it has been unlinked
  (`RemovalIsUnderWay`), and a shard with nothing under way has no batch.  One lemma per step of a call.
* `PagesAreTheShard`: the action property `PagesMakeTheShard`.  A listing that nobody has disturbed is a beginning of
  the features of the shard, all of them were there when it began, and the rows before the next page are those
  listed (`ListInv`); what other shards insert or delete is not of the shard, so it does not move the pages.

and then about databases and shards, for any callers, databases, batches and capacity below `2^Width`:

* `ClosedShardsAreFull`: `ClosedIsFull`, also when shards have been overfilled.
* `OneCallerHandlesFull`: a single caller never overfills a shard (`RoomIsKept`: what it was given a shard for
  still fits), if its batches are no larger than a shard, `MaxBatch <= Capacity`, the one theorem that needs this:
  `FindOrCreateWritableShard` makes a shard without looking at the size of the batch it is for; the run `manager_shards_full` shows that two do.
* `CacheIsLive`: `CachedAreLive`.  Whatever changes the table forgets the cache, whether its statement succeeds or not;
  a select that fails half way leaves a beginning of the table, which nobody extends (`CacheInv`).

`SequenceLemmas` holds what `Append`, `Tail` and `Pick` do to the length and the members of a sequence, and what
stands in for induction, which the provers cannot apply to an operator: the least of a set of numbers is there
(`LeastIsThere`), a set that has 0 and the next of each of its members has them all (`CountingUp`), and a function
that takes a step at each number up to a bound exists (`StepByStep`).

So every safety invariant and every action property of the passing runs is a theorem, and so are the four
refinements (`ImplementsService` of the processor is proved and not run, `ImplementsPool` says more).  Only model-checked: liveness and `ENABLED`, which are out of the prover's reach.  `TypeOK` of the
processor, the shards and the face pipeline are proved and not run; `TypeOK` of the video pipeline is both, since the
bound of its channels is part of it.

## What is not modelled

* `ConcurrentProcessor`: a second `Init` without `Terminate` between, the destructor.
* Inference workers: their `Init` and warm-up (OpenVINO calls), frames of one or four channels (the copy
  assumes three), the arithmetic of the rotation (`aligner_worker.cc:118` turns about coordinates that are
  still relative, so the picture is wrong, but there is one), the dimension of a feature, which nobody sets, the
  static map that `format_value_type` fills on its first call (`definitions.h:168`).
* Shards: exceptions of worker or driver; a `Load` other than the constructor's; whether the driver's
  rows equal the cache.
* Driver: the tables of workers and shards (the functions are empty), `update_user_db` (no caller), a shard
  with an empty id (it lists the whole table), `page * perPage` beyond 32 bits, a page of 0, overlapping calls
  on its list of databases (a data race).
* Face pipeline (its `Terminate` may be called at any time, again after itself or before `Init`): `Init` without `Terminate` before it and destruction without it, which destroy workers
  under their threads; calls during `Init`, whose pointers nothing protects.
* Ranking and search worker: a `topk` of 0, for which `FeedIn(Feature)` asks an empty heap for its top
  (`feature_topk_rank.h:35`); calls of several threads (the lists have no lock).
* Search manager: searches, the worker manager, the coordinator but for `AddFeatures`, as said above: they are out of
  reach behind the constructor that throws.  (Were they not, the ping thread would go on with an iterator it
  has erased, and Stop deletes workers that stay listed.)
* The Cassandra driver: a near copy of the simple one over the same statements, and nothing in the repository
  makes one.
* Video: `Process` or `Stop` called twice or in the wrong order (the process ends), `Register` after
  `Process`, destruction after `Stop`, FFmpeg itself, the sleep between packets.
* Undefined behaviour is a choice over what the build can do where it is local (a null or uninitialised
  pointer); spurious wake-ups of condition variables are left out, since every wait re-evaluates its
  predicate.
* Networks, the values of pixels, SQL text, logging.

## Plan

Done: the channel, the processor with the death of its workers, what the workers compute, the pipeline over
them, both shards, the worker and the manager above them, the features and databases of the driver, the video
channel and pipeline, and the proofs named above.  Left, in this order:

1. `FacePipeline`: a fairness for `WorkerPool`, implemented by `FairSpec` of the processor, on which what the pipeline
   lives on (`ChainCompletes`) could then rest; it stays with TLC, like all liveness.
2. The coordinator and the worker manager, once the coordinator can be made; the Cassandra driver, once
   something makes one.
