--------------------------- MODULE ManagerShards ---------------------------
(***************************************************************************)
(* The databases of SimpleDriver with their cache, and the                 *)
(* ShardManagerImpl of the search manager on top of them: which shard of a *)
(* database a batch of features goes to, and when a new one is made.       *)
(*                                                                         *)
(* Callers do what CoordinatorImpl::AddFeatures does: find or create a     *)
(* shard for a batch, have a worker assigned to a new one, add the batch.  *)
(* Calls of the driver and of the manager exclude each other, since their  *)
(* lists have no lock; between two of them other callers run.  The inside  *)
(* of a shard is ManagerShard; here its AddFeatures is one step.           *)
(***************************************************************************)
EXTENDS Integers, Sequences, FiniteSets, SequencesExt, FiniteSetsExt, Subsequences

CONSTANTS
    Callers,
    DBs,          \* the ids generate_uuid comes to make
    Capacity,     \* DEFAULT_SHARD_CAPACITY
    Width,        \* bits of uint64
    MaxBatch,     \* bound: features in a batch
    MaxShards,    \* bound: shards of a database
    MaxUsed,      \* bound: features counted in a shard
    Nothing

ASSUME BatchAssumption == Capacity \in Nat /\ MaxBatch \in Nat \ {0}
ASSUME WidthAssumption ==
    Width \in Nat /\ 2^Width \in Nat /\ MaxUsed \in 0..(2^Width - 1) /\ Capacity < 2^Width

VARIABLES
    dbs,      \* rows of the table: records with db_id and is_deleted
    cached,   \* _cached_db_items
    shards,   \* _db_shards: of each known database, in the order they were made
    held      \* the shard a caller has got from the manager, and its batch

vars == <<dbs, cached, shards, held>>

Init ==
    /\ dbs = << >>
    /\ cached = << >>
    /\ shards = [db \in {} |-> << >>]
    /\ held = [c \in Callers |-> Nothing]

-------------------------------------------------------------------------------
(* The databases.  An insert or update that fails is logged and ignored.      *)
insert_into_user_dbs(db) == {dbs, Append(dbs, [db_id |-> db, is_deleted |-> FALSE])}

delete_user_db(db) ==
    {dbs, [i \in DOMAIN dbs |->
              IF dbs[i].db_id = db THEN [dbs[i] EXCEPT !.is_deleted = TRUE] ELSE dbs[i]]}

CreateDB(db) ==
    /\ \A i \in DOMAIN dbs : dbs[i].db_id # db
    /\ cached' = << >>
    /\ dbs' \in insert_into_user_dbs(db)
    /\ UNCHANGED <<shards, held>>

(* A delete that forgets the cache. *)
DeleteDBOnly(db) ==
    /\ dbs' \in delete_user_db(db)
    /\ UNCHANGED <<cached, shards, held>>

DeleteDB(db) ==
    /\ cached' = << >>
    /\ dbs' \in delete_user_db(db)
    /\ UNCHANGED <<shards, held>>

LiveDBs ==
    Pick([i \in DOMAIN dbs |-> dbs[i].db_id], {i \in DOMAIN dbs : ~ dbs[i].is_deleted})

(* A select that fails half way returns what it has read. *)
list_user_dbs == Prefixes(LiveDBs)

Listed == IF cached = << >> THEN list_user_dbs ELSE {cached}

(* ListDBs and FindDB. *)
ListDBs ==
    /\ cached' \in Listed
    /\ UNCHANGED <<dbs, shards, held>>

-------------------------------------------------------------------------------
(* ShardManagerImpl: the driver lists the databases, and no shard for any.    *)
load_db_shards ==
    /\ \A c \in Callers : held[c] = Nothing
    /\ cached' \in Listed
    /\ shards' = [db \in ToSet(cached') |-> << >>]
    /\ UNCHANGED <<dbs, held>>

(* shard_info.capacity - shard_info.used, both uint64. *)
Room(shard) == (Capacity - shard.used) % 2^Width

(* Of the record, which Close does not update, so that IsClosed is FALSE. *)
NotClosed(list) == {i \in DOMAIN list : ~ list[i].is_closed}

NewShard == [used |-> 0, is_closed |-> FALSE, open |-> TRUE, worker |-> FALSE]

(* A check for any room at all. *)
HasRoom(shard, count) == Room(shard) > 0

Fits(shard, count) == Room(shard) > count

Found(c, db, i, count) ==
    /\ held' = [held EXCEPT ![c] = [db |-> db, shard |-> i, count |-> count,
                                    new_created |-> FALSE]]
    /\ UNCHANGED shards

Created(c, db, list, count) ==
    /\ Len(list) < MaxShards
    /\ shards' = [shards EXCEPT ![db] = Append(list, NewShard)]
    /\ held' = [held EXCEPT ![c] = [db |-> db, shard |-> Len(list) + 1, count |-> count,
                                    new_created |-> TRUE]]

(* A walk that goes on. *)
CloseAll(list) == [i \in DOMAIN list |-> [list[i] EXCEPT !.open = FALSE]]

(* The walk ends at the first shard that is not closed. *)
CloseFirst(list) ==
    IF NotClosed(list) = {} THEN list ELSE [list EXCEPT ![Min(NotClosed(list))].open = FALSE]

(* Of a database that is not known it throws. *)
FindOrCreateWritableShard(c, db, count) ==
    /\ held[c] = Nothing
    /\ db \in DOMAIN shards
    /\ LET list  == shards[db]
           first == Min(NotClosed(list))
       IN  IF NotClosed(list) # {} /\ Fits(list[first], count)
             THEN Found(c, db, first, count)
             ELSE Created(c, db, CloseFirst(list), count)
    /\ UNCHANGED <<dbs, cached>>

-------------------------------------------------------------------------------
HeldShard(c) == shards[held[c].db][held[c].shard]

(* A worker is found for a new shard, and its ServeShard assigns it; if none  *)
(* is found, the shard has none for ever.                                     *)
AssignWorker(c) ==
    /\ held[c] # Nothing
    /\ held[c].new_created
    /\ HeldShard(c).open
    /\ ~ HeldShard(c).worker
    /\ shards' = [shards EXCEPT ![held[c].db][held[c].shard].worker = TRUE]
    /\ UNCHANGED <<dbs, cached, held>>

(* AddFeatures of the shard: it refuses, or the worker stores nothing, or     *)
(* some of the batch, which counts as all of it.                              *)
AddFeatures(c) ==
    /\ held[c] # Nothing
    /\ \/ UNCHANGED shards
       \/ /\ HeldShard(c).open
          /\ HeldShard(c).worker
          /\ HeldShard(c).used + held[c].count <= MaxUsed
          /\ shards' = [shards EXCEPT ![held[c].db][held[c].shard].used = @ + held[c].count]
    /\ held' = [held EXCEPT ![c] = Nothing]
    /\ UNCHANGED <<dbs, cached>>

(* The process ends; the table stays. *)
Die ==
    /\ cached' = << >>
    /\ shards' = [db \in {} |-> << >>]
    /\ held' = [c \in Callers |-> Nothing]
    /\ UNCHANGED dbs

Next ==
    \/ \E db \in DBs : CreateDB(db) \/ DeleteDB(db)
    \/ ListDBs \/ load_db_shards \/ Die
    \/ \E c \in Callers :
          \/ \E db \in DBs, count \in 1..MaxBatch : FindOrCreateWritableShard(c, db, count)
          \/ AssignWorker(c)
          \/ AddFeatures(c)

Spec == Init /\ [][Next]_vars

-------------------------------------------------------------------------------
(* What the cache of the driver answers are databases that exist, in the      *)
(* order of the table, whatever was created, deleted, or failed since it was  *)
(* filled.                                                                    *)
CachedAreLive == IsPrefix(cached, LiveDBs)

(* "what about shard full? the search_manager handle this."                   *)
(* (brute_force_worker_impl.cc:76): a shard is not filled beyond its capacity *)
(* but for the batches other callers had been given it for.  A batch must not *)
(* be larger than a shard: one is made for it without a look at its size.     *)
FullIsHandled ==
    \A db \in DOMAIN shards : \A i \in DOMAIN shards[db] :
        shards[db][i].used <= Capacity + MaxBatch * (Cardinality(Callers) - 1)

(* A shard is closed for writing only when a batch of the size that occurs    *)
(* does not fit any more, and stays so.                                       *)
ClosedIsFull ==
    \A db \in DOMAIN shards : \A i \in DOMAIN shards[db] :
        ~ shards[db][i].open => shards[db][i].used + MaxBatch >= Capacity
===============================================================================
