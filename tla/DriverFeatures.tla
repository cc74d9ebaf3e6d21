----------------------------- MODULE DriverFeatures ----------------------------
(***************************************************************************)
(* The features in the SimpleDriver of feature_search: rows of an SQLite   *)
(* table for each database, and a file for each feature.  The loop threads *)
(* of the shards of a database share its table; each adds, removes and     *)
(* lists page by page.                                                     *)
(*                                                                         *)
(* A statement of SQLite takes effect in one step or fails.  The process   *)
(* may die at any step, and starts again on the rows and files it left.    *)
(* A feature is its feature_id.                                            *)
(***************************************************************************)
EXTENDS Naturals, Sequences, FiniteSets, SequencesExt, Subsequences

CONSTANTS
    Shards,       \* the shards of the database, each with its loop thread
    Ids,          \* the uuids of features
    EmptyId,      \* the empty string in place of an id
    Null,         \* SQL's null
    PerPage,      \* features on a page of a listing
    MaxFeatures,  \* bound: features in one AddFeatures or RemoveFeatures
    MaxFaults     \* bound: failed statements and files, bad metadata, equal uuids,
                  \* empty adds, deaths

ASSUME DriverAssumption ==
    /\ EmptyId \notin Ids /\ Null \notin Ids \cup {EmptyId} \cup Shards
    /\ PerPage \in Nat \ {0} /\ MaxFeatures \in Nat \ {0} /\ MaxFaults \in Nat

VARIABLES
    hasTable,     \* the table exists
    rows,         \* its rows, in the order of their keys
    files,        \* the ids with a file in _data_dir
    made,         \* the ids generate_uuid has returned
    at,           \* where each shard's thread is: see Places
    todo,         \* of an add, the features still to be written
    batch,        \* the ids of its call
    page,         \* of a listing, the page it is at
    listed,       \* and the ids it has brought so far
    before,       \* and the shard's ids when it began
    disturbed,    \* these have changed since, or a statement has failed
    returned,     \* the ids AddFeatures has returned
    dropped,      \* the ids passed to RemoveFeatures
    excused,      \* the ids whose call went wrong half way
    faults        \* how much has gone wrong

callVars == <<at, todo, batch>>
listVars == <<page, listed, before, disturbed>>
ghosts   == <<returned, dropped, excused>>
featuresVars == <<hasTable, rows, files, made, callVars, listVars, ghosts, faults>>

Places ==
    {"idle",
     "writing",      \* AddFeatures, in its loop and before the insert
     "unlinking",    \* RemoveFeatures, in its loop over the files
     "deleting",     \* RemoveFeatures, before the delete
     "counting",     \* ListFeatures, before the count
     "selecting"}    \* ListFeatures, before the select

FeaturesInit ==
    /\ hasTable = FALSE /\ rows = << >> /\ files = {} /\ made = {}
    /\ at = [s \in Shards |-> "idle"]
    /\ todo = [s \in Shards |-> 0]
    /\ batch = [s \in Shards |-> << >>]
    /\ page = [s \in Shards |-> 0]
    /\ listed = [s \in Shards |-> << >>]
    /\ before = [s \in Shards |-> << >>]
    /\ disturbed = [s \in Shards |-> FALSE]
    /\ returned = {} /\ dropped = {} /\ excused = {}
    /\ faults = 0

Goes(s, place) == at' = [at EXCEPT ![s] = place]

Fails == faults < MaxFaults /\ faults' = faults + 1
Succeeds == faults' = faults

-------------------------------------------------------------------------------
(* init_features_table_for_db: create table if not exists; by CreateDB when  *)
(* it has the row of the database, or by Driver::Init.                       *)
InitTable ==
    /\ \/ Succeeds /\ hasTable' = TRUE
       \/ Fails /\ hasTable' = hasTable
    /\ UNCHANGED <<rows, files, made, callVars, listVars, ghosts>>

-------------------------------------------------------------------------------
(* AddFeatures.                                                              *)

AddBegins(s) ==
    /\ at[s] = "idle"
    /\ \E n \in 0..MaxFeatures :
        /\ todo' = [todo EXCEPT ![s] = n]
        /\ IF n = 0 THEN Fails ELSE Succeeds
    /\ Goes(s, "writing")
    /\ UNCHANGED <<hasTable, rows, files, made, batch, listVars, ghosts>>

IdsIn(s) == ToSet(batch[s]) \ {EmptyId}

(* The generator of uuids is shared without a lock: two threads that draw at *)
(* once may get the same.                                                    *)
DrawnByAnother(s) == UNION {IdsIn(t) : t \in {u \in Shards \ {s} : at[u] = "writing"}}

(* One round of the loop.  That the file cannot be opened goes unnoticed;    *)
(* metadata that is not UTF-8 throws, and an empty id takes the id's place.  *)
AddWrites(s) ==
    /\ at[s] = "writing" /\ todo[s] > 0
    /\ todo' = [todo EXCEPT ![s] = @ - 1]
    /\ \E id \in (Ids \ made) \cup DrawnByAnother(s), opened, formatted \in BOOLEAN :
        /\ made' = made \cup {id}
        /\ files' = IF opened THEN files \cup {id} ELSE files
        /\ batch' = [batch EXCEPT ![s] = Append(@, IF formatted THEN id ELSE EmptyId)]
        /\ IF id \notin made /\ opened /\ formatted
           THEN Succeeds /\ excused' = excused
           ELSE Fails /\ excused' = excused \cup {id}
    /\ UNCHANGED <<hasTable, rows, at, listVars, returned, dropped>>

(* The statement has a row for one feature at least, and nothing is bound to *)
(* it when there is none.                                                    *)
NewRows(s) ==
    IF batch[s] = << >> THEN <<[id |-> Null, shard |-> Null]>>
    ELSE [i \in DOMAIN batch[s] |-> [id |-> batch[s][i], shard |-> s]]

(* The ids are returned whether the rows have been inserted or not.          *)
AddReturns(s) ==
    /\ at[s] = "writing" /\ todo[s] = 0
    /\ \/ /\ hasTable /\ Succeeds
          /\ rows' = rows \o NewRows(s)
          /\ excused' = excused
       \/ /\ IF hasTable THEN Fails ELSE Succeeds
          /\ rows' = rows
          /\ excused' = excused \cup IdsIn(s)
    /\ returned' = returned \cup IdsIn(s)
    /\ batch' = [batch EXCEPT ![s] = << >>]
    /\ Goes(s, "idle")
    /\ UNCHANGED <<hasTable, files, made, todo, listVars, dropped>>

-------------------------------------------------------------------------------
(* RemoveFeatures.                                                           *)

(* Any thread may pass any ids it has heard of, in any order.                *)
RemoveBegins(s) ==
    /\ at[s] = "idle"
    /\ \E n \in 1..MaxFeatures : \E ids \in [1..n -> returned \cup {EmptyId}] :
        /\ batch' = [batch EXCEPT ![s] = ids]
        /\ todo' = [todo EXCEPT ![s] = n]
        /\ dropped' = dropped \cup (ToSet(ids) \ {EmptyId})
    /\ Goes(s, "unlinking")
    /\ UNCHANGED <<hasTable, rows, files, made, listVars, returned, excused, faults>>

(* No file has the name of the empty id, and none may have the id's.  A file *)
(* that cannot be removed throws, nobody catches, and DriverDies.            *)
RemoveUnlinks(s) ==
    /\ at[s] = "unlinking" /\ todo[s] > 0
    /\ files' = files \ {batch[s][Len(batch[s]) + 1 - todo[s]]}
    /\ todo' = [todo EXCEPT ![s] = @ - 1]
    /\ Goes(s, IF todo[s] = 1 THEN "deleting" ELSE "unlinking")
    /\ UNCHANGED <<hasTable, rows, made, batch, listVars, ghosts, faults>>

(* Rows of the shard's own only.                                             *)
SparedOfOthers(s) ==
    Pick(rows, {i \in DOMAIN rows : rows[i].id \notin ToSet(batch[s]) \/ rows[i].shard # s})

(* delete_features_from_db asks for the ids and not for the shard.           *)
Spared(s) == Pick(rows, {i \in DOMAIN rows : rows[i].id \notin ToSet(batch[s])})

OfShard(rs, s) ==
    Pick([i \in DOMAIN rs |-> rs[i].id], {i \in DOMAIN rs : rs[i].shard = s})

RemoveDeletes(s) ==
    /\ at[s] = "deleting"
    /\ \/ /\ hasTable /\ Succeeds
          /\ rows' = Spared(s)
          /\ disturbed' = [t \in Shards |->
                disturbed[t] \/ (at[t] \in {"counting", "selecting"}
                                 /\ OfShard(rows, t) # OfShard(rows', t))]
          /\ excused' = excused
       \/ /\ IF hasTable THEN Fails ELSE Succeeds
          /\ excused' = excused \cup IdsIn(s)
          /\ UNCHANGED <<rows, disturbed>>
    /\ batch' = [batch EXCEPT ![s] = << >>]
    /\ Goes(s, "idle")
    /\ UNCHANGED <<hasTable, files, made, todo, page, listed, before, returned, dropped>>

-------------------------------------------------------------------------------
(* ListFeatures, page after page until one is empty, as the load of a shard  *)
(* asks for them.                                                            *)

ListBegins(s) ==
    /\ at[s] = "idle"
    /\ before' = [before EXCEPT ![s] = OfShard(rows, s)]
    /\ Goes(s, "counting")
    /\ UNCHANGED <<hasTable, rows, files, made, todo, batch, page, listed, disturbed, ghosts, faults>>

ListEnds(s) ==
    /\ page' = [page EXCEPT ![s] = 0]
    /\ listed' = [listed EXCEPT ![s] = << >>]
    /\ before' = [before EXCEPT ![s] = << >>]
    /\ disturbed' = [disturbed EXCEPT ![s] = FALSE]
    /\ Goes(s, "idle")

(* All features of the database are counted.  When this fails -1 is taken    *)
(* for their number.                                                         *)
ListCounts(s) ==
    /\ at[s] = "counting"
    /\ \/ rows = << >> /\ hasTable /\ Succeeds /\ ListEnds(s)
       \/ /\ rows # << >> \/ ~ hasTable
          /\ Succeeds
          /\ Goes(s, "selecting")
          /\ UNCHANGED listVars
       \/ /\ hasTable /\ Fails
          /\ Goes(s, "selecting")
          /\ UNCHANGED listVars
    /\ UNCHANGED <<hasTable, rows, files, made, todo, batch, ghosts>>

Page(s, start) == LET own == OfShard(rows, s) IN
    SubSeq(own, start + 1, IF start + PerPage < Len(own) THEN start + PerPage ELSE Len(own))

(* A listing that takes the number of the page for the offset.               *)
NextPageByNumber(s) == Page(s, page[s])

NextPage(s) == Page(s, page[s] * PerPage)

(* A page is read row by row, and what a select that fails has read is kept. *)
ListSelects(s) ==
    /\ at[s] = "selecting"
    /\ \E n \in 0..Len(NextPage(s)) :
        /\ IF n = Len(NextPage(s)) THEN Succeeds ELSE Fails
        /\ IF n = 0 THEN ListEnds(s)
           ELSE /\ listed' = [listed EXCEPT ![s] = @ \o SubSeq(NextPage(s), 1, n)]
                /\ page' = [page EXCEPT ![s] = @ + 1]
                /\ disturbed' = [disturbed EXCEPT ![s] = @ \/ n < Len(NextPage(s))]
                /\ before' = before
                /\ Goes(s, "counting")
    /\ UNCHANGED <<hasTable, rows, files, made, todo, batch, ghosts>>

-------------------------------------------------------------------------------
(* The process dies, and a new SimpleDriver opens the same directory.        *)

UnderWay == UNION {IdsIn(s) : s \in Shards}

DriverDies ==
    /\ Fails
    /\ at' = [s \in Shards |-> "idle"]
    /\ todo' = [s \in Shards |-> 0]
    /\ batch' = [s \in Shards |-> << >>]
    /\ page' = [s \in Shards |-> 0]
    /\ listed' = [s \in Shards |-> << >>]
    /\ before' = [s \in Shards |-> << >>]
    /\ disturbed' = [s \in Shards |-> FALSE]
    /\ excused' = excused \cup UnderWay
    /\ UNCHANGED <<hasTable, rows, files, made, returned, dropped>>

FeaturesNext ==
    \/ InitTable
    \/ \E s \in Shards :
        \/ AddBegins(s) \/ AddWrites(s) \/ AddReturns(s)
        \/ RemoveBegins(s) \/ RemoveUnlinks(s) \/ RemoveDeletes(s)
        \/ ListBegins(s) \/ ListCounts(s) \/ ListSelects(s)
    \/ DriverDies

FeaturesSpec == FeaturesInit /\ [][FeaturesNext]_featuresVars

-------------------------------------------------------------------------------
Settled == Ids \ (excused \cup UnderWay)

(* An id is in one row at most.                                              *)
EachIdOnce ==
    \A i, j \in DOMAIN rows : i # j /\ rows[i].id = rows[j].id => rows[i].id \notin Settled

(* Files are written before the rows and removed before them, by several     *)
(* threads.  Once no call is at it, an id has a file where it has a row, ... *)
FilesMatchRows ==
    \A id \in Settled : id \in files <=> \E i \in DOMAIN rows : rows[i].id = id

(* ... and it has both from AddFeatures to RemoveFeatures, of whichever      *)
(* shard, restarts included, unless its call failed half way.                *)
ReturnedAreStored ==
    \A id \in Settled : id \in files <=> id \in returned \ dropped

StorageAgrees == EachIdOnce /\ FilesMatchRows /\ ReturnedAreStored

(* The pages of a shard bring all its features, once and in order, while     *)
(* other shards add to the table they are cut from and remove.               *)
PagesMakeTheShard ==
    [][\A s \in Shards :
        at[s] \in {"counting", "selecting"} /\ at'[s] = "idle"
            /\ ~ disturbed[s] /\ faults' = faults
        => listed[s] = before[s]]_featuresVars
===============================================================================
