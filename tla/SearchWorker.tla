---------------------------- MODULE SearchWorker ----------------------------
(***************************************************************************)
(* BruteForceWorkerImpl and the ShardManagerImpl of the search worker: the *)
(* shards a worker serves for each database, the one its adds and removes  *)
(* go to, and the search that merges all of them.  One thread calls it.    *)
(* What the loop thread of a shard makes of a call is MemoryShard; here a  *)
(* call of a shard is one step.                                            *)
(*                                                                         *)
(* The driver outlives the worker process: `stored' are the shards that    *)
(* have rows.  Features are searched with one query and are their scores.  *)
(***************************************************************************)
EXTENDS Naturals, Sequences, FiniteSets, SequencesExt, FiniteSetsExt, Functions, TopkRank

CONSTANTS
    DBs,
    ShardIds,
    FeatureIds,   \* the ids callers put into features, and remove by
    Scores,
    MaxTopk,
    MaxBatch      \* bound: features in an AddFeatures

ASSUME ScoresAssumption == Scores \subseteq Int
ASSUME BoundsAssumption == MaxTopk \in Nat /\ MaxBatch \in Nat

VARIABLES
    shards,   \* _db_shards: records with shard_id, is_closed, loaded, cached
    stored,   \* pairs of database and shard the driver has rows of
    found     \* the last SearchFeature: db, topk and scores; no topk before it

vars == <<shards, stored, found>>

NothingFound == [topk |-> 0]
Items == [feature_id : FeatureIds, score : Scores]
Batches == UNION {[1..n -> Items] : n \in 1..MaxBatch}

Init ==
    /\ shards = [db \in DBs |-> << >>]
    /\ stored = {}
    /\ found = NothingFound

-------------------------------------------------------------------------------
(* ServeShards for one of its shards.  The constructor of the shard loads it: *)
(* LoadFeatures brings nothing for the rows there are, and the load fails;    *)
(* a listing that fails in the driver looks like a shard without rows.        *)
NewShards(db, id, closed) ==
    [shard_id : {id}, is_closed : {closed}, cached : {<< >>},
     loaded : {TRUE} \cup (IF <<db, id>> \in stored THEN {FALSE} ELSE {})]

(* A manager that keeps the newest shard first. *)
ManageInFront(db, shard) ==
    IF \E i \in DOMAIN shards[db] : shards[db][i].shard_id = shard.shard_id
      THEN UNCHANGED shards
      ELSE shards' = [shards EXCEPT ![db] = <<shard>> \o @]

ManageShard(db, shard) ==
    IF \E i \in DOMAIN shards[db] : shards[db][i].shard_id = shard.shard_id
      THEN UNCHANGED shards
      ELSE shards' = [shards EXCEPT ![db] = Append(@, shard)]

ServeShards(db, id, closed) ==
    /\ \E shard \in NewShards(db, id, closed) : ManageShard(db, shard)
    /\ found' = NothingFound
    /\ UNCHANGED stored

(* CloseShards only tells the driver, where CloseShard is empty. *)
CloseShards(db, id) ==
    /\ found' = NothingFound
    /\ UNCHANGED <<shards, stored>>

Writable(db) == {i \in DOMAIN shards[db] : ~ shards[db][i].is_closed}
FindShard(db) == Min(Writable(db))

-------------------------------------------------------------------------------
(* The features of a batch enter the cache one after the other. *)
Cache(cached, fts) ==
    [id \in DOMAIN cached \cup {fts[n].feature_id : n \in DOMAIN fts} |->
        LET last == SelectLastInSeq(fts, LAMBDA ft : ft.feature_id = id)
        IN  IF last = 0 THEN cached[id] ELSE fts[last].score]

(* A shard that is not loaded refuses.  The driver may have stored rows.     *)
AddFeatures(db, fts) ==
    /\ found' = NothingFound
    /\ IF Writable(db) = {} \/ ~ shards[db][FindShard(db)].loaded
         THEN UNCHANGED <<shards, stored>>
         ELSE LET i == FindShard(db) IN
              /\ shards' = [shards EXCEPT ![db][i].cached = Cache(@, fts)]
              /\ stored' \in {stored, stored \cup {<<db, shards[db][i].shard_id>>}}

(* The driver may have lost the last row of any shard: the ids are looked up *)
(* in the whole table.  Without a writable shard a null pointer is used.     *)
RemoveFeatures(db, ids) ==
    /\ Writable(db) # {}
    /\ found' = NothingFound
    /\ LET i == FindShard(db) IN
       IF shards[db][i].loaded
         THEN /\ shards' = [shards EXCEPT ![db][i].cached = Restrict(@, DOMAIN @ \ ids)]
              /\ stored' \in SUBSET stored
         ELSE UNCHANGED <<shards, stored>>

(* do_search_feature of a shard, which goes through its cache in any order;   *)
(* a shard that is not loaded finds nothing.                                  *)
ShardFinds(shard, topk) ==
    IF shard.loaded
      THEN {SortOut(FeedFeatures([n \in DOMAIN ids |-> shard.cached[ids[n]]], topk)) :
                ids \in SetToSeqs(DOMAIN shard.cached)}
      ELSE {<< >>}

(* The merge of what the first n shards may find. *)
Merged(db, topk) ==
    LET heaps[n \in 0..Len(shards[db])] ==
            IF n = 0 THEN {<< >>}
            ELSE {FeedItems(heap, items, topk) :
                     heap \in heaps[n - 1], items \in ShardFinds(shards[db][n], topk)}
    IN  heaps[Len(shards[db])]

SearchFeature(db, topk) ==
    /\ \E heap \in Merged(db, topk) :
          found' = [db |-> db, topk |-> topk, scores |-> SortOut(heap)]
    /\ UNCHANGED <<shards, stored>>

(* The process ends: by itself, in RemoveFeatures without a writable shard,   *)
(* or when SortOut reads a destroyed feature.                                 *)
Die ==
    /\ shards' = [db \in DBs |-> << >>]
    /\ found' = NothingFound
    /\ UNCHANGED stored

Next ==
    \/ \E db \in DBs, id \in ShardIds :
          CloseShards(db, id) \/ \E closed \in BOOLEAN : ServeShards(db, id, closed)
    \/ \E db \in DBs, fts \in Batches : AddFeatures(db, fts)
    \/ \E db \in DBs, ids \in SUBSET FeatureIds : RemoveFeatures(db, ids)
    \/ \E db \in DBs, topk \in 1..MaxTopk : SearchFeature(db, topk)
    \/ Die

Spec == Init /\ [][Next]_vars

-------------------------------------------------------------------------------
(* What the shards of a database hold: pairs of the place and the id. *)
Held(db) ==
    {h \in (DOMAIN shards[db]) \X FeatureIds : h[2] \in DOMAIN shards[db][h[1]].cached}
HeldScore(db, h) == shards[db][h[1]].cached[h[2]]

(* A search over all shards of a database brings as many results as it is     *)
(* asked for, or as the shards hold, in descending order and the best first,  *)
(* although each shard ranks for itself, a feature that finds room in its     *)
(* heap may push another one out, and the worst of each heap is not read.     *)
SearchRanks ==
    found # NothingFound =>
        LET held   == Held(found.db)
            scores == found.scores
        IN  /\ Len(scores) = Min({found.topk, Cardinality(held)})
            /\ \A n \in 2..Len(scores) : scores[n] <= scores[n - 1]
            /\ ToSet(scores) \subseteq {HeldScore(found.db, h) : h \in held}
            /\ \A h \in held : HeldScore(found.db, h) <= scores[1]

(* What can be found can be removed: features are only in the shard that      *)
(* RemoveFeatures reaches, in whatever order open and closed shards are       *)
(* served, closed and served again.                                           *)
HeldCanBeRemoved ==
    \A db \in DBs : \A h \in Held(db) : Writable(db) # {} /\ h[1] = FindShard(db)
===============================================================================
