------------------------------ MODULE DriverProofs ------------------------------
(***************************************************************************)
(* Both halves of the SimpleDriver: the databases, with the shards the     *)
(* manager makes on top of them, and the features.                         *)
(*                                                                         *)
(* For any callers, databases, capacity and batches: a shard is closed for *)
(* writing only when a batch of the size that occurs does not fit any more, *)
(* and a single caller never fills a shard beyond its capacity.  Both rest *)
(* on the room of a shard being what is left of its capacity, not that     *)
(* taken modulo the width of the counter.  And what the cache answers are  *)
(* databases that exist, in the order of their table.                      *)
(*                                                                         *)
(* For any shards, ids, pages and failures: rows, files and returned ids   *)
(* agree, which rests on who may be at an id at one time, and the pages of *)
(* a listing make the shard, of which they are a beginning all along.      *)
(***************************************************************************)
EXTENDS ManagerShards, DriverFeatures, SequenceLemmas, SequenceTheorems, TLAPS

-------------------------------------------------------------------------------
(***************************************************************************)
(* Features: what is true of them and of the ids under way.                *)
(***************************************************************************)
Row == [id : Ids \cup {EmptyId, Null}, shard : Shards \cup {Null}]

RowIds == {rows[i].id : i \in DOMAIN rows}

FeatureTypes ==
    /\ hasTable \in BOOLEAN /\ faults \in Nat
    /\ rows \in Seq(Row)
    /\ at \in [Shards -> Places]
    /\ todo \in [Shards -> Nat]
    /\ batch \in [Shards -> Seq(Ids \cup {EmptyId})]
    /\ made \in SUBSET Ids
    /\ RowIds \subseteq made \cup {EmptyId, Null}
    /\ files \subseteq made /\ returned \subseteq made /\ dropped \subseteq returned
    /\ excused \subseteq made
    /\ \A s \in Shards : IdsIn(s) \subseteq made

(* The ids under way.  Those of an add that goes well are in one add only,    *)
(* once, with a file and no row, and have not been returned; ...              *)
AddIsNew(s) ==
    at[s] = "writing" =>
        /\ \A id \in IdsIn(s) \ excused :
              /\ id \in files /\ id \notin RowIds /\ id \notin returned
              /\ \A t \in Shards \ {s} : id \notin IdsIn(t)
        /\ \A i, j \in DOMAIN batch[s] :
              i # j /\ batch[s][i] = batch[s][j] => batch[s][i] \in excused \cup {EmptyId}

(* ... those of a removal have been returned, and those it has been at have   *)
(* no file.                                                                   *)
RemovalIsUnderWay(s) ==
    at[s] \in {"unlinking", "deleting"} =>
        /\ IdsIn(s) \subseteq dropped
        /\ todo[s] <= Len(batch[s])
        /\ at[s] = "deleting" => todo[s] = 0
        /\ \A i \in 1..(Len(batch[s]) - todo[s]) :
              batch[s][i] \in files => batch[s][i] \in excused

NothingUnderWay(s) == at[s] \in {"idle", "counting", "selecting"} => batch[s] = << >>

UnderWayInv ==
    \A s \in Shards : AddIsNew(s) /\ RemovalIsUnderWay(s) /\ NothingUnderWay(s)

FeaturesInv == FeatureTypes /\ UnderWayInv /\ StorageAgrees

-------------------------------------------------------------------------------
(***************************************************************************)
(* What the steps do to the rows and to the ids of a call.                 *)
(***************************************************************************)
LEMMA OneMore ==
    ASSUME NEW S, NEW q \in Seq(S), NEW e \in S
    PROVE  /\ Append(q, e) \in Seq(S)
           /\ ToSet(Append(q, e)) = ToSet(q) \cup {e}
           /\ DOMAIN Append(q, e) = 1..(Len(q) + 1) /\ DOMAIN q = 1..Len(q) /\ Len(q) \in Nat
           /\ \A i \in 1..Len(q) : Append(q, e)[i] = q[i]
           /\ Append(q, e)[Len(q) + 1] = e
<1>1. /\ Append(q, e) \in Seq(S)
      /\ DOMAIN Append(q, e) = 1..(Len(q) + 1) /\ DOMAIN q = 1..Len(q) /\ Len(q) \in Nat
      /\ \A i \in 1..Len(q) : Append(q, e)[i] = q[i]
      /\ Append(q, e)[Len(q) + 1] = e
  OBVIOUS
<1>2. ASSUME NEW x PROVE x \in ToSet(Append(q, e)) <=> x \in ToSet(q) \cup {e}
  <2>1. \A i \in 1..(Len(q) + 1) : i \in 1..Len(q) \/ i = Len(q) + 1
    BY <1>1
  <2>2. Len(q) + 1 \in 1..(Len(q) + 1) /\ \A i \in 1..Len(q) : i \in 1..(Len(q) + 1)
    BY <1>1
  <2>3. QED BY <1>1, <2>1, <2>2 DEF ToSet
<1>3. QED BY <1>1, <1>2

LEMMA NothingIn ==
    ToSet(<< >>) = {}
BY DEF ToSet

(* An insert adds a row for each id of the batch.                             *)
LEMMA RowsAdded ==
    ASSUME FeatureTypes, NEW s \in Shards, rows' = rows \o NewRows(s)
    PROVE  /\ NewRows(s) \in Seq(Row) /\ rows' \in Seq(Row)
           /\ Len(rows') = Len(rows) + Len(NewRows(s))
           /\ Len(rows) \in Nat /\ Len(NewRows(s)) \in Nat
           /\ \A i \in 1..Len(rows) : rows'[i] = rows[i]
           /\ \A i \in 1..Len(NewRows(s)) : rows'[Len(rows) + i] = NewRows(s)[i]
           /\ \A i \in 1..Len(NewRows(s)) :
                 \/ NewRows(s)[i].id = Null /\ batch[s] = << >> /\ NewRows(s)[i].shard = Null
                 \/ /\ i \in DOMAIN batch[s]
                    /\ NewRows(s)[i].id = batch[s][i] /\ NewRows(s)[i].shard = s
           /\ batch[s] # << >> => Len(NewRows(s)) = Len(batch[s])
<1>1. rows \in Seq(Row) /\ batch[s] \in Seq(Ids \cup {EmptyId})
  BY DEF FeatureTypes
<1>2. /\ NewRows(s) \in Seq(Row)
      /\ \A i \in 1..Len(NewRows(s)) :
                 \/ NewRows(s)[i].id = Null /\ batch[s] = << >> /\ NewRows(s)[i].shard = Null
                 \/ /\ i \in DOMAIN batch[s]
                    /\ NewRows(s)[i].id = batch[s][i] /\ NewRows(s)[i].shard = s
      /\ batch[s] # << >> => Len(NewRows(s)) = Len(batch[s])
  <2>1. CASE batch[s] = << >>
    <3>1. [id |-> Null, shard |-> Null] \in Row
      BY DEF Row
    <3>2. NewRows(s) = <<[id |-> Null, shard |-> Null]>>
      BY <2>1 DEF NewRows
    <3>3. QED BY <2>1, <3>1, <3>2
  <2>2. CASE batch[s] # << >>
    <3>1. NewRows(s) = [i \in DOMAIN batch[s] |-> [id |-> batch[s][i], shard |-> s]]
      BY <2>2 DEF NewRows
    <3>2. DOMAIN batch[s] = 1..Len(batch[s]) /\ Len(batch[s]) \in Nat
      BY <1>1
    <3>3. \A i \in DOMAIN batch[s] : [id |-> batch[s][i], shard |-> s] \in Row
      BY <1>1 DEF Row
    <3>4. NewRows(s) \in [1..Len(batch[s]) -> Row]
      BY <3>1, <3>2, <3>3
    <3>5. PICK new : new = NewRows(s)
      OBVIOUS
    <3>6. new \in Seq(Row) /\ Len(new) = Len(batch[s])
      BY <3>2, <3>4, <3>5
    <3>7. QED BY <3>1, <3>2, <3>5, <3>6
  <2>3. QED BY <2>1, <2>2
<1>3. QED BY <1>1, <1>2

LEMMA RowIdsAdded ==
    ASSUME FeatureTypes, NEW s \in Shards, rows' = rows \o NewRows(s)
    PROVE  \A id \in Ids : id \in RowIds' <=> id \in RowIds \/ id \in IdsIn(s)
<1>1. PICK rs : rs = rows'
  OBVIOUS
<1>2. /\ NewRows(s) \in Seq(Row) /\ rows' \in Seq(Row)
      /\ Len(rows') = Len(rows) + Len(NewRows(s))
      /\ Len(rows) \in Nat /\ Len(NewRows(s)) \in Nat
      /\ \A i \in 1..Len(rows) : rows'[i] = rows[i]
      /\ \A i \in 1..Len(NewRows(s)) : rows'[Len(rows) + i] = NewRows(s)[i]
      /\ \A i \in 1..Len(NewRows(s)) :
                 \/ NewRows(s)[i].id = Null /\ batch[s] = << >> /\ NewRows(s)[i].shard = Null
                 \/ /\ i \in DOMAIN batch[s]
                    /\ NewRows(s)[i].id = batch[s][i] /\ NewRows(s)[i].shard = s
      /\ batch[s] # << >> => Len(NewRows(s)) = Len(batch[s])
  BY RowsAdded
<1> DEFINE new == NewRows(s)
<1> HIDE DEF new
<1>3. batch[s] \in Seq(Ids \cup {EmptyId})
  BY DEF FeatureTypes
<1>4. /\ DOMAIN rs = 1..(Len(rows) + Len(new)) /\ DOMAIN rows = 1..Len(rows)
      /\ DOMAIN batch[s] = 1..Len(batch[s])
      /\ rs \in Seq(Row) /\ rows \in Seq(Row) /\ new \in Seq(Row)
      /\ Len(rs) = Len(rows) + Len(new) /\ Len(rows) \in Nat /\ Len(new) \in Nat
      /\ \A i \in 1..Len(rows) : rs[i] = rows[i]
      /\ \A i \in 1..Len(new) : rs[Len(rows) + i] = new[i]
      /\ \A i \in 1..Len(new) :
                 \/ new[i].id = Null
                 \/ i \in DOMAIN batch[s] /\ new[i].id = batch[s][i]
      /\ batch[s] # << >> => Len(new) = Len(batch[s])
  BY <1>1, <1>2, <1>3 DEF FeatureTypes, new
<1> SUFFICES ASSUME NEW id \in Ids
             PROVE  id \in RowIds' <=> id \in RowIds \/ id \in IdsIn(s)
  OBVIOUS
<1>5. id # Null /\ id # EmptyId
  BY DriverAssumption
<1>6. ASSUME id \in RowIds' PROVE id \in RowIds \/ id \in IdsIn(s)
  <2>1. PICK i \in DOMAIN rs : rs[i].id = id
    BY <1>1, <1>6 DEF RowIds
  <2>2. CASE i \in 1..Len(rows)
    BY <1>3, <1>4, <2>1, <2>2 DEF RowIds
  <2>3. CASE i \notin 1..Len(rows)
    <3>1. i - Len(rows) \in 1..Len(new) /\ Len(rows) + (i - Len(rows)) = i
      BY <1>4, <2>1, <2>3
    <3>2. new[i - Len(rows)].id = id
      BY <1>4, <2>1, <3>1
    <3>3. QED BY <1>4, <1>5, <3>1, <3>2 DEF IdsIn, ToSet
  <2>4. QED BY <2>2, <2>3
<1>7. ASSUME id \in RowIds PROVE id \in RowIds'
  <2>1. PICK i \in DOMAIN rows : rows[i].id = id
    BY <1>7 DEF RowIds
  <2>2. i \in DOMAIN rs /\ rs[i] = rows[i]
    BY <1>3, <1>4
  <2>3. QED BY <1>1, <2>1, <2>2 DEF RowIds
<1>8. ASSUME id \in IdsIn(s) PROVE id \in RowIds'
  <2>1. PICK i \in DOMAIN batch[s] : batch[s][i] = id
    BY <1>8 DEF IdsIn, ToSet
  <2>2. i \in 1..Len(new) /\ new[i].id = id
    <3>1. batch[s] # << >>
      BY <2>1
    <3>2. i \in 1..Len(new)
      BY <1>3, <1>4, <2>1, <3>1
    <3>3. new[i] = [id |-> batch[s][i], shard |-> s]
      BY <3>1, <2>1 DEF NewRows, new
    <3>4. QED BY <2>1, <3>2, <3>3
  <2>3. Len(rows) + i \in DOMAIN rs /\ rs[Len(rows) + i] = new[i]
    BY <1>3, <1>4, <2>2
  <2>4. QED BY <1>1, <2>2, <2>3 DEF RowIds
<1>9. QED BY <1>6, <1>7, <1>8

(* A delete leaves the rows of other ids, and each of them once.              *)
LEMMA RowsSpared ==
    ASSUME FeatureTypes, NEW s \in Shards, NEW rs, rs = Spared(s)
    PROVE  /\ rs \in Seq(Row)
           /\ \A k \in DOMAIN rs : \E i \in DOMAIN rows :
                  rs[k] = rows[i] /\ rows[i].id \notin ToSet(batch[s])
           /\ \A i \in DOMAIN rows : rows[i].id \notin ToSet(batch[s]) =>
                  \E k \in DOMAIN rs : rs[k] = rows[i]
           /\ \A k, l \in DOMAIN rs : k # l =>
                  \E i, j \in DOMAIN rows : i # j /\ rs[k] = rows[i] /\ rs[l] = rows[j]
<1> DEFINE I == {i \in DOMAIN rows : rows[i].id \notin ToSet(batch[s])}
           n == Len(rows)
<1>1. rows \in Seq(Row) /\ n \in Nat /\ DOMAIN rows = 1..n /\ I \in SUBSET (1..n)
  BY DEF FeatureTypes
<1>2. rs = Pick(rows, I)
  BY DEF Spared
<1> HIDE DEF n
<1>3. /\ DOMAIN rs = 1..Cardinality(I) /\ Cardinality(I) \in Nat
      /\ \A k \in DOMAIN rs : Nth(I, k) \in I /\ rs[k] = rows[Nth(I, k)]
      /\ \A k, l \in DOMAIN rs : Nth(I, k) = Nth(I, l) => k = l
      /\ \A i \in I : Rank(I, i) \in DOMAIN rs /\ rs[Rank(I, i)] = rows[i]
  <2> HIDE DEF I
  <2>1. Cardinality(I) \in Nat
    BY <1>1, PlacesAreFinite
  <2>2. DOMAIN rs = 1..Cardinality(I)
    BY <1>1, <1>2, PickLength
  <2>3. /\ \A k \in 1..Cardinality(I) : Nth(I, k) \in I /\ Pick(rows, I)[k] = rows[Nth(I, k)]
        /\ \A k, l \in 1..Cardinality(I) : Nth(I, k) = Nth(I, l) => k = l
        /\ \A i \in I : Rank(I, i) \in 1..Cardinality(I) /\ Pick(rows, I)[Rank(I, i)] = rows[i]
    BY <1>1, PickMembers DEF n
  <2>4. QED BY <1>2, <2>1, <2>2, <2>3
<1>4. rs \in Seq(Row)
  <2>1. \A k \in DOMAIN rs : rs[k] \in Row
    BY <1>1, <1>3
  <2>2. rs = [k \in 1..Cardinality(I) |-> rs[k]]
    BY <1>2, <1>3 DEF Pick
  <2>3. PICK m \in Nat : m = Cardinality(I)
    BY <1>3
  <2> HIDE DEF I
  <2>4. rs = [k \in 1..m |-> rs[k]] /\ \A k \in 1..m : rs[k] \in Row
    BY <1>3, <2>1, <2>2, <2>3
  <2>5. PICK f : f = [k \in 1..m |-> rs[k]]
    OBVIOUS
  <2>6. f \in [1..m -> Row]
    BY <2>4, <2>5
  <2>7. f \in Seq(Row)
    BY <2>6
  <2>8. rs = f
    BY <2>4, <2>5, Zenon
  <2>9. QED BY <2>7, <2>8
<1>5. \A k \in DOMAIN rs : Nth(I, k) \in DOMAIN rows /\ rows[Nth(I, k)].id \notin ToSet(batch[s])
  BY <1>3
<1>6. ASSUME NEW i \in DOMAIN rows, rows[i].id \notin ToSet(batch[s])
      PROVE  \E k \in DOMAIN rs : rs[k] = rows[i]
  <2>1. i \in I
    BY <1>6
  <2>2. QED BY <1>3, <2>1
<1> HIDE DEF I
<1>7. QED BY <1>3, <1>4, <1>5, <1>6

LEMMA RowIdsSpared ==
    ASSUME FeatureTypes, NEW s \in Shards, rows' = Spared(s)
    PROVE  \A id : id \in RowIds' <=> id \in RowIds /\ id \notin ToSet(batch[s])
<1>1. PICK rs : rs = rows'
  OBVIOUS
<1>2. /\ \A k \in DOMAIN rs : \E i \in DOMAIN rows :
                  rs[k] = rows[i] /\ rows[i].id \notin ToSet(batch[s])
      /\ \A i \in DOMAIN rows : rows[i].id \notin ToSet(batch[s]) =>
                  \E k \in DOMAIN rs : rs[k] = rows[i]
  BY <1>1, RowsSpared
<1>3. RowIds' = {rs[i].id : i \in DOMAIN rs}
  BY <1>1 DEF RowIds
<1>4. ASSUME NEW id, id \in RowIds' PROVE id \in RowIds /\ id \notin ToSet(batch[s])
  <2>1. PICK k \in DOMAIN rs : rs[k].id = id
    BY <1>3, <1>4
  <2>2. QED BY <1>2, <2>1 DEF RowIds
<1>5. ASSUME NEW id, id \in RowIds, id \notin ToSet(batch[s]) PROVE id \in RowIds'
  <2>1. PICK i \in DOMAIN rows : rows[i].id = id
    BY <1>5 DEF RowIds
  <2>2. PICK k \in DOMAIN rs : rs[k] = rows[i]
    BY <1>2, <1>5, <2>1
  <2>3. QED BY <1>3, <2>1, <2>2
<1>6. QED BY <1>4, <1>5

(* The batch of one call changes.                                             *)
LEMMA BatchChanges ==
    ASSUME FeatureTypes, NEW s \in Shards, NEW b \in Seq(Ids \cup {EmptyId}),
           batch' = [batch EXCEPT ![s] = b]
    PROVE  /\ batch' \in [Shards -> Seq(Ids \cup {EmptyId})]
           /\ batch'[s] = b /\ IdsIn(s)' = ToSet(b) \ {EmptyId}
           /\ \A t \in Shards \ {s} : batch'[t] = batch[t] /\ IdsIn(t)' = IdsIn(t)
           /\ UnderWay' = (ToSet(b) \ {EmptyId}) \cup UNION {IdsIn(t) : t \in Shards \ {s}}
<1>1. /\ batch' \in [Shards -> Seq(Ids \cup {EmptyId})]
      /\ batch'[s] = b
      /\ \A t \in Shards \ {s} : batch'[t] = batch[t]
  BY DEF FeatureTypes
<1>2. IdsIn(s)' = ToSet(b) \ {EmptyId} /\ \A t \in Shards \ {s} : IdsIn(t)' = IdsIn(t)
  BY <1>1 DEF IdsIn
<1>3. \A x : x \in UnderWay' <=> x \in IdsIn(s)' \/ \E t \in Shards \ {s} : x \in IdsIn(t)'
  BY DEF UnderWay
<1>4. QED BY <1>1, <1>2, <1>3

(* A step of s leaves the calls of the other shards as they are, when it      *)
(* takes no id of theirs without an excuse.                                   *)
LEMMA OthersGoOn ==
    ASSUME FeatureTypes, UnderWayInv, NEW s \in Shards, NEW t \in Shards \ {s},
           at'[t] = at[t], batch'[t] = batch[t], todo'[t] = todo[t],
           \A u \in Shards \ {s} : IdsIn(u)' = IdsIn(u),
           excused \subseteq excused', dropped \subseteq dropped',
           at[t] = "writing" =>
               \A id \in IdsIn(t) \ excused' :
                  /\ id \in files => id \in files'
                  /\ id \in RowIds' => id \in RowIds
                  /\ id \in returned' => id \in returned
                  /\ id \notin IdsIn(s)',
           at[t] \in {"unlinking", "deleting"} =>
               \A i \in DOMAIN batch[t] :
                  batch[t][i] \in files' => batch[t][i] \in files \cup excused'
    PROVE  AddIsNew(t)' /\ RemovalIsUnderWay(t)' /\ NothingUnderWay(t)'
<1>1. AddIsNew(t) /\ RemovalIsUnderWay(t) /\ NothingUnderWay(t) /\ IdsIn(t)' = IdsIn(t)
  BY DEF UnderWayInv
<1>2. AddIsNew(t)'
  <2> SUFFICES ASSUME at[t] = "writing" PROVE AddIsNew(t)'
    BY DEF AddIsNew
  <2>1. ASSUME NEW id \in IdsIn(t) \ excused'
        PROVE  /\ id \in files' /\ id \notin RowIds' /\ id \notin returned'
               /\ \A u \in Shards \ {t} : id \notin IdsIn(u)'
    <3>1. /\ id \in files /\ id \notin RowIds /\ id \notin returned
          /\ \A u \in Shards \ {t} : id \notin IdsIn(u)
      BY <1>1, <2>1 DEF AddIsNew
    <3>2. id \notin IdsIn(s)' /\ \A u \in Shards \ {s} : IdsIn(u)' = IdsIn(u)
      BY <2>1
    <3>3. QED BY <2>1, <3>1, <3>2
  <2>2. \A i, j \in DOMAIN batch'[t] :
           i # j /\ batch'[t][i] = batch'[t][j] => batch'[t][i] \in excused' \cup {EmptyId}
    BY <1>1 DEF AddIsNew
  <2>3. QED BY <1>1, <2>1, <2>2 DEF AddIsNew
<1>3. RemovalIsUnderWay(t)'
  <2> SUFFICES ASSUME at[t] \in {"unlinking", "deleting"} PROVE RemovalIsUnderWay(t)'
    BY DEF RemovalIsUnderWay
  <2>1. /\ IdsIn(t) \subseteq dropped
        /\ todo[t] <= Len(batch[t])
        /\ at[t] = "deleting" => todo[t] = 0
        /\ \A i \in 1..(Len(batch[t]) - todo[t]) :
              i \in DOMAIN batch[t] /\ (batch[t][i] \in files => batch[t][i] \in excused)
    <3>1. todo[t] \in Nat /\ batch[t] \in Seq(Ids \cup {EmptyId})
      BY DEF FeatureTypes
    <3>2. \A i \in 1..(Len(batch[t]) - todo[t]) : i \in DOMAIN batch[t]
      BY <3>1
    <3>3. QED BY <1>1, <3>2 DEF RemovalIsUnderWay
  <2>2. QED BY <1>1, <2>1 DEF RemovalIsUnderWay
<1>4. NothingUnderWay(t)'
  BY <1>1 DEF NothingUnderWay
<1>5. QED BY <1>2, <1>3, <1>4

(* The rows stay, and of the ids that are settled the rest does.              *)
LEMMA SettledStay ==
    ASSUME StorageAgrees, rows' = rows,
           \A id \in Settled' :
              /\ id \in Settled
              /\ id \in files' <=> id \in files
              /\ id \in returned' \ dropped' <=> id \in returned \ dropped
    PROVE  StorageAgrees'
<1>1. EachIdOnce'
  BY DEF StorageAgrees, EachIdOnce
<1>2. FilesMatchRows'
  BY DEF StorageAgrees, FilesMatchRows
<1>3. ReturnedAreStored'
  BY DEF StorageAgrees, ReturnedAreStored
<1>4. QED BY <1>1, <1>2, <1>3 DEF StorageAgrees

(* A step that leaves rows, files and batches, and begins no removal.         *)
LEMMA QuietStep ==
    ASSUME FeaturesInv, NEW s \in Shards,
           NEW place \in {"idle", "counting", "selecting", "writing"},
           at[s] \in {"idle", "counting", "selecting"}, at' = [at EXCEPT ![s] = place],
           todo' \in [Shards -> Nat], \A t \in Shards \ {s} : todo'[t] = todo[t],
           faults' \in Nat,
           UNCHANGED <<hasTable, rows, files, made, batch, ghosts>>
    PROVE  FeaturesInv'
<1>1. \A t \in Shards : IdsIn(t)' = IdsIn(t)
  BY DEF IdsIn
<1>2. RowIds' = RowIds /\ UnderWay' = UnderWay
  BY <1>1 DEF RowIds, UnderWay
<1>3. at' \in [Shards -> Places] /\ at'[s] = place /\ \A t \in Shards \ {s} : at'[t] = at[t]
  BY DEF FeaturesInv, FeatureTypes, Places
<1>4. FeatureTypes'
  BY <1>1, <1>2, <1>3 DEF FeaturesInv, FeatureTypes, ghosts
<1>5. ASSUME NEW t \in Shards
      PROVE  AddIsNew(t)' /\ RemovalIsUnderWay(t)' /\ NothingUnderWay(t)'
  <2>1. CASE t = s
    <3>1. batch[s] = << >> /\ batch'[s] = << >>
      BY DEF FeaturesInv, UnderWayInv, NothingUnderWay
    <3>2. IdsIn(s)' = {}
      BY <3>1, NothingIn DEF IdsIn
    <3>3. DOMAIN batch'[s] = {}
      BY <3>1
    <3>4. QED BY <1>3, <2>1, <3>1, <3>2, <3>3 DEF AddIsNew, RemovalIsUnderWay, NothingUnderWay
  <2>2. CASE t # s
    <3>1. t \in Shards \ {s} /\ batch'[t] = batch[t] /\ todo'[t] = todo[t]
      BY <2>2
    <3>2. at[t] = "writing" => \A id \in IdsIn(t) \ excused' : id \notin IdsIn(s)'
      BY <1>1, <3>1 DEF FeaturesInv, UnderWayInv, AddIsNew, ghosts
    <3>3. QED BY <1>1, <1>2, <1>3, <3>1, <3>2, OthersGoOn DEF FeaturesInv, ghosts
  <2>3. QED BY <2>1, <2>2
<1>6. StorageAgrees'
  <2>1. Settled' = Settled
    BY <1>2 DEF Settled, ghosts
  <2>2. QED BY <2>1, SettledStay DEF FeaturesInv, ghosts
<1>7. QED BY <1>4, <1>5, <1>6 DEF FeaturesInv, UnderWayInv

LEMMA FaultsCount ==
    ASSUME FeaturesInv, Fails \/ Succeeds
    PROVE  faults' \in Nat
BY DEF FeaturesInv, FeatureTypes, Fails, Succeeds

(* Listings, and the begin of an add.                                         *)
LEMMA ListStep ==
    ASSUME FeaturesInv, NEW s \in Shards,
           ListBegins(s) \/ ListCounts(s) \/ ListSelects(s) \/ AddBegins(s)
    PROVE  FeaturesInv'
<1> DEFINE L == {"idle", "counting", "selecting"}
<1>1. todo \in [Shards -> Nat] /\ faults \in Nat
  BY DEF FeaturesInv, FeatureTypes
<1>2. CASE ListBegins(s)
  <2>1. /\ at[s] \in L /\ at' = [at EXCEPT ![s] = "counting"]
        /\ UNCHANGED <<hasTable, rows, files, made, batch, ghosts, todo, faults>>
    BY <1>2 DEF ListBegins, Goes
  <2>2. QED BY <1>1, <2>1, QuietStep DEF ghosts
<1>3. CASE ListCounts(s)
  <2>1. /\ at[s] \in L /\ faults' \in Nat
        /\ UNCHANGED <<hasTable, rows, files, made, batch, ghosts, todo>>
    BY <1>3, FaultsCount DEF ListCounts
  <2>2. \/ at' = [at EXCEPT ![s] = "idle"]
        \/ at' = [at EXCEPT ![s] = "selecting"]
    BY <1>3 DEF ListCounts, ListEnds, Goes
  <2>3. QED BY <1>1, <2>1, <2>2, QuietStep DEF ghosts
<1>4. CASE ListSelects(s)
  <2>1. /\ at[s] \in L /\ faults' \in Nat
        /\ UNCHANGED <<hasTable, rows, files, made, batch, ghosts, todo>>
    BY <1>4, FaultsCount DEF ListSelects
  <2>2. \/ at' = [at EXCEPT ![s] = "idle"]
        \/ at' = [at EXCEPT ![s] = "counting"]
    BY <1>4 DEF ListSelects, ListEnds, Goes
  <2>3. QED BY <1>1, <2>1, <2>2, QuietStep DEF ghosts
<1>5. CASE AddBegins(s)
  <2>1. /\ at[s] \in L /\ at' = [at EXCEPT ![s] = "writing"]
        /\ faults' \in Nat
        /\ UNCHANGED <<hasTable, rows, files, made, batch, ghosts>>
    BY <1>5, FaultsCount DEF AddBegins, Goes
  <2>2. PICK n \in 0..MaxFeatures : todo' = [todo EXCEPT ![s] = n]
    BY <1>5 DEF AddBegins
  <2>3. todo' \in [Shards -> Nat] /\ \A t \in Shards \ {s} : todo'[t] = todo[t]
    BY <1>1, <2>2
  <2>4. QED BY <2>1, <2>3, QuietStep DEF ghosts
<1>6. QED BY <1>2, <1>3, <1>4, <1>5

(* A new id has its file and is in one add only, or something has gone wrong  *)
(* with it.                                                                   *)
LEMMA AddWritesStep ==
    ASSUME FeaturesInv, NEW s \in Shards, AddWrites(s)
    PROVE  FeaturesInv'
<1> USE DEF FeaturesInv
<1>1. PICK id \in (Ids \ made) \cup DrawnByAnother(s), opened \in BOOLEAN, formatted \in BOOLEAN :
        /\ made' = made \cup {id}
        /\ files' = IF opened THEN files \cup {id} ELSE files
        /\ batch' = [batch EXCEPT ![s] = Append(@, IF formatted THEN id ELSE EmptyId)]
        /\ IF id \notin made /\ opened /\ formatted
           THEN Succeeds /\ excused' = excused
           ELSE Fails /\ excused' = excused \cup {id}
  BY DEF AddWrites
<1>2. /\ at[s] = "writing" /\ todo[s] \in Nat /\ todo[s] > 0 /\ at' = at
      /\ todo' = [todo EXCEPT ![s] = @ - 1]
      /\ UNCHANGED <<hasTable, rows, returned, dropped>>
  BY DEF AddWrites, FeatureTypes
<1>3. id \in Ids /\ id # EmptyId
  <2>1. id \in DrawnByAnother(s) => \E t \in Shards : id \in IdsIn(t)
    BY DEF DrawnByAnother
  <2>2. \A t \in Shards : IdsIn(t) \subseteq Ids
    BY DEF FeatureTypes
  <2>3. QED BY <1>1, <2>1, <2>2, DriverAssumption
<1>4. PICK e \in Ids \cup {EmptyId} : e = IF formatted THEN id ELSE EmptyId
  BY <1>3
<1>5. PICK b : b = Append(batch[s], e)
  OBVIOUS
<1>6. /\ b \in Seq(Ids \cup {EmptyId}) /\ ToSet(b) = ToSet(batch[s]) \cup {e}
      /\ DOMAIN b = 1..(Len(batch[s]) + 1) /\ DOMAIN batch[s] = 1..Len(batch[s])
      /\ Len(batch[s]) \in Nat
      /\ \A i \in 1..Len(batch[s]) : b[i] = batch[s][i]
      /\ b[Len(batch[s]) + 1] = e
  <2>1. PICK q \in Seq(Ids \cup {EmptyId}) : q = batch[s]
    BY DEF FeatureTypes
  <2>2. /\ Append(q, e) \in Seq(Ids \cup {EmptyId}) /\ ToSet(Append(q, e)) = ToSet(q) \cup {e}
        /\ DOMAIN Append(q, e) = 1..(Len(q) + 1) /\ DOMAIN q = 1..Len(q) /\ Len(q) \in Nat
        /\ \A i \in 1..Len(q) : Append(q, e)[i] = q[i]
        /\ Append(q, e)[Len(q) + 1] = e
    BY <1>4, OneMore
  <2>3. QED BY <1>5, <2>1, <2>2
<1>7. batch' = [batch EXCEPT ![s] = b]
  BY <1>1, <1>4, <1>5
<1>8. /\ batch' \in [Shards -> Seq(Ids \cup {EmptyId})]
      /\ batch'[s] = b /\ IdsIn(s)' = ToSet(b) \ {EmptyId}
      /\ \A t \in Shards \ {s} : batch'[t] = batch[t] /\ IdsIn(t)' = IdsIn(t)
      /\ UnderWay' = (ToSet(b) \ {EmptyId}) \cup UNION {IdsIn(t) : t \in Shards \ {s}}
  BY <1>6, <1>7, BatchChanges
<1>9. IdsIn(s) = ToSet(batch[s]) \ {EmptyId} /\ IdsIn(s)' \subseteq IdsIn(s) \cup {id}
  BY <1>4, <1>6, <1>8 DEF IdsIn
<1>10. /\ excused' \in {excused, excused \cup {id}} /\ files' \in {files, files \cup {id}}
       /\ id \notin excused' => id \notin made /\ id \in files' /\ e = id
       /\ faults' \in Nat
  BY <1>1, <1>4, FaultsCount
<1>11. RowIds' = RowIds
  BY <1>2 DEF RowIds
<1>12. FeatureTypes'
  <2>1. todo' \in [Shards -> Nat]
    BY <1>2 DEF FeatureTypes
  <2>2. ASSUME NEW t \in Shards PROVE IdsIn(t)' \subseteq made'
    <3>1. IdsIn(t) \subseteq made /\ made' = made \cup {id}
      BY <1>1 DEF FeatureTypes
    <3>2. IdsIn(t)' = IdsIn(t) \/ IdsIn(t)' \subseteq IdsIn(t) \cup {id}
      BY <1>8, <1>9
    <3>3. QED BY <3>1, <3>2
  <2>3. QED BY <1>1, <1>2, <1>3, <1>8, <1>10, <1>11, <2>1, <2>2 DEF FeatureTypes
<1>13. AddIsNew(s)'
  <2>1. AddIsNew(s)
    BY DEF UnderWayInv
  <2>2. ASSUME NEW x \in IdsIn(s)' \ excused'
        PROVE  /\ x \in files' /\ x \notin RowIds' /\ x \notin returned'
               /\ \A t \in Shards \ {s} : x \notin IdsIn(t)'
    <3>1. CASE x = id
      <4>1. id \notin made /\ id \in files'
        BY <1>10, <2>2, <3>1
      <4>2. id \notin RowIds' /\ id \notin returned'
        BY <1>2, <1>3, <1>11, <4>1, DriverAssumption DEF FeatureTypes
      <4>3. \A t \in Shards \ {s} : id \notin IdsIn(t)'
        BY <1>8, <4>1 DEF FeatureTypes
      <4>4. QED BY <3>1, <4>1, <4>2, <4>3
    <3>2. CASE x # id
      <4>1. x \in IdsIn(s) \ excused
        BY <1>9, <1>10, <2>2, <3>2
      <4>2. QED BY <1>2, <1>8, <1>10, <1>11, <2>1, <4>1 DEF AddIsNew
    <3>3. QED BY <3>1, <3>2
  <2>3. ASSUME NEW i \in DOMAIN b, NEW j \in DOMAIN b, i # j, b[i] = b[j]
        PROVE  b[i] \in excused' \cup {EmptyId}
    <3>1. CASE i \in DOMAIN batch[s] /\ j \in DOMAIN batch[s]
      BY <1>2, <1>6, <1>10, <2>1, <2>3, <3>1 DEF AddIsNew
    <3>2. CASE i \notin DOMAIN batch[s] \/ j \notin DOMAIN batch[s]
      <4>1. b[i] = e /\ e \in ToSet(batch[s])
        <5>1. \A k \in DOMAIN b : k \in DOMAIN batch[s] \/ k = Len(batch[s]) + 1
          BY <1>6
        <5>2. \A k \in DOMAIN batch[s] : b[k] \in ToSet(batch[s])
          BY <1>6 DEF ToSet
        <5>3. QED BY <1>6, <2>3, <3>2, <5>1, <5>2
      <4>2. e = EmptyId \/ e \in made
        BY <1>9, <4>1 DEF FeatureTypes
      <4>3. e = EmptyId \/ e = id
        BY <1>4
      <4>4. QED BY <1>10, <4>1, <4>2, <4>3
    <3>3. QED BY <3>1, <3>2
  <2>4. QED BY <1>8, <2>2, <2>3 DEF AddIsNew
<1>14. RemovalIsUnderWay(s)' /\ NothingUnderWay(s)'
  BY <1>2 DEF RemovalIsUnderWay, NothingUnderWay
<1>15. ASSUME NEW t \in Shards \ {s}
       PROVE  AddIsNew(t)' /\ RemovalIsUnderWay(t)' /\ NothingUnderWay(t)'
  <2>1. at'[t] = at[t] /\ batch'[t] = batch[t] /\ todo'[t] = todo[t]
    BY <1>2, <1>8 DEF FeatureTypes
  <2>2. ASSUME NEW x \in IdsIn(t) \ excused', at[t] = "writing"
        PROVE  x \notin IdsIn(s)' /\ (x \in files => x \in files')
    <3>1. AddIsNew(t)
      BY DEF UnderWayInv
    <3>2. x \in made /\ x \notin IdsIn(s)
      BY <1>10, <2>2, <3>1 DEF AddIsNew, FeatureTypes
    <3>3. x # id
      BY <1>10, <2>2, <3>2
    <3>4. QED BY <1>9, <1>10, <3>2, <3>3
  <2>3. ASSUME NEW i \in DOMAIN batch[t], at[t] \in {"unlinking", "deleting"},
               batch[t][i] \in files'
        PROVE  batch[t][i] \in files \cup excused'
    <3>1. batch[t][i] \in IdsIn(t) \/ batch[t][i] = EmptyId
      BY DEF IdsIn, ToSet
    <3>2. CASE batch[t][i] = id
      BY <1>3, <1>10, <3>1, <3>2 DEF FeatureTypes
    <3>3. CASE batch[t][i] # id
      BY <1>10, <2>3, <3>3
    <3>4. QED BY <3>2, <3>3
  <2>4. excused \subseteq excused' /\ dropped \subseteq dropped'
    BY <1>2, <1>10
  <2>5. QED BY <1>2, <1>8, <1>11, <2>1, <2>2, <2>3, <2>4, OthersGoOn
<1>16. StorageAgrees'
  <2>1. ASSUME NEW x \in Settled'
        PROVE  x \in Settled /\ (x \in files' <=> x \in files)
    <3>1. x \in Ids /\ x \notin excused' /\ x \notin UnderWay'
      BY DEF Settled
    <3>2. x # id
      <4>1. id \in excused' \/ id \in UnderWay'
        BY <1>3, <1>6, <1>8, <1>10
      <4>2. QED BY <3>1, <4>1
    <3>3. IdsIn(s) \subseteq IdsIn(s)'
      BY <1>6, <1>8, <1>9
    <3>4. x \notin UnderWay
      BY <1>8, <3>1, <3>3 DEF UnderWay
    <3>5. QED BY <1>10, <3>1, <3>2, <3>4 DEF Settled
  <2>2. QED BY <1>2, <2>1, SettledStay
<1>17. QED BY <1>12, <1>13, <1>14, <1>15, <1>16 DEF UnderWayInv

(* An insert that succeeds adds each id that goes well once, and where no row *)
(* has it.                                                                    *)
LEMMA AddedOnce ==
    ASSUME FeaturesInv, NEW s \in Shards, at[s] = "writing",
           rows' = rows \o NewRows(s), excused' = excused,
           \A x \in Settled' : x \in Settled \/ x \in IdsIn(s)
    PROVE  EachIdOnce'
<1> USE DEF FeaturesInv
<1>1. /\ NewRows(s) \in Seq(Row) /\ rows' \in Seq(Row)
      /\ Len(rows') = Len(rows) + Len(NewRows(s))
      /\ Len(rows) \in Nat /\ Len(NewRows(s)) \in Nat
      /\ \A i \in 1..Len(rows) : rows'[i] = rows[i]
      /\ \A i \in 1..Len(NewRows(s)) : rows'[Len(rows) + i] = NewRows(s)[i]
      /\ \A i \in 1..Len(NewRows(s)) :
            \/ NewRows(s)[i].id = Null /\ batch[s] = << >> /\ NewRows(s)[i].shard = Null
            \/ /\ i \in DOMAIN batch[s]
               /\ NewRows(s)[i].id = batch[s][i] /\ NewRows(s)[i].shard = s
      /\ batch[s] # << >> => Len(NewRows(s)) = Len(batch[s])
  BY RowsAdded
<1>2. AddIsNew(s) /\ EachIdOnce /\ rows \in Seq(Row)
  BY DEF UnderWayInv, StorageAgrees, FeatureTypes
<1>3. DOMAIN rows' = 1..(Len(rows) + Len(NewRows(s))) /\ DOMAIN rows = 1..Len(rows)
  BY <1>1, <1>2
<1> DEFINE Old(i) == i \in 1..Len(rows)
           k(i) == i - Len(rows)
<1>4. ASSUME NEW i \in DOMAIN rows', ~ Old(i), rows'[i].id \in Ids
      PROVE  k(i) \in DOMAIN batch[s] /\ rows'[i].id = batch[s][k(i)]
  <2>1. k(i) \in 1..Len(NewRows(s)) /\ Len(rows) + k(i) = i
    BY <1>1, <1>3, <1>4
  <2>2. rows'[i] = NewRows(s)[k(i)]
    BY <1>1, <2>1
  <2>3. rows'[i].id # Null
    BY <1>4, DriverAssumption
  <2> HIDE DEF k
  <2>4. QED BY <1>1, <2>1, <2>2, <2>3
<1> SUFFICES ASSUME NEW i \in DOMAIN rows', NEW j \in DOMAIN rows', i # j,
                    rows'[i].id = rows'[j].id, rows'[i].id \in Settled'
             PROVE  FALSE
  BY DEF EachIdOnce
<1> DEFINE x == rows'[i].id
<1>5. /\ x \in Ids /\ x \notin excused /\ x # EmptyId
      /\ x \in Settled \/ x \in IdsIn(s)
  BY DriverAssumption DEF Settled
<1>6. x \in IdsIn(s) => x \notin RowIds
  BY <1>2, <1>5 DEF AddIsNew
<1>7. \A l \in DOMAIN rows' : Old(l) => rows'[l].id \in RowIds
  BY <1>1, <1>3 DEF RowIds
<1>8. \A l \in DOMAIN rows' : ~ Old(l) /\ rows'[l].id = x => x \in IdsIn(s)
  BY <1>4, <1>5 DEF IdsIn, ToSet
<1>9. CASE Old(i) /\ Old(j)
  <2>1. x \in Settled
    BY <1>5, <1>6, <1>7, <1>9
  <2>2. rows[i].id = x /\ rows[j].id = x
    BY <1>1, <1>9
  <2>3. QED BY <1>2, <1>3, <1>9, <2>1, <2>2 DEF EachIdOnce
<1>10. CASE ~ Old(i) /\ ~ Old(j)
  <2>1. /\ k(i) \in DOMAIN batch[s] /\ k(j) \in DOMAIN batch[s]
        /\ batch[s][k(i)] = x /\ batch[s][k(j)] = x
    BY <1>4, <1>5, <1>10
  <2>2. k(i) # k(j)
    BY <1>1, <1>3
  <2> HIDE DEF k
  <2>3. QED BY <1>2, <1>5, <2>1, <2>2 DEF AddIsNew
<1>11. CASE Old(i) /\ ~ Old(j)
  <2>1. x \in RowIds /\ x \in IdsIn(s)
    BY <1>7, <1>8, <1>11
  <2>2. QED BY <1>6, <2>1
<1>12. CASE Old(j) /\ ~ Old(i)
  <2>1. x \in RowIds /\ x \in IdsIn(s)
    BY <1>7, <1>8, <1>12
  <2>2. QED BY <1>6, <2>1
<1>13. QED BY <1>9, <1>10, <1>11, <1>12

LEMMA AddReturnsStep ==
    ASSUME FeaturesInv, NEW s \in Shards, AddReturns(s)
    PROVE  FeaturesInv'
<1> USE DEF FeaturesInv
<1>1. /\ at[s] = "writing" /\ at' = [at EXCEPT ![s] = "idle"]
      /\ batch' = [batch EXCEPT ![s] = << >>]
      /\ returned' = returned \cup IdsIn(s)
      /\ UNCHANGED <<hasTable, files, made, todo, dropped>>
  BY DEF AddReturns, Goes
<1>2. \/ rows' = rows \o NewRows(s) /\ excused' = excused
      \/ rows' = rows /\ excused' = excused \cup IdsIn(s)
  BY DEF AddReturns
<1>3. << >> \in Seq(Ids \cup {EmptyId}) /\ ToSet(<< >>) = {}
  BY NothingIn
<1>4. /\ batch' \in [Shards -> Seq(Ids \cup {EmptyId})]
      /\ batch'[s] = << >> /\ IdsIn(s)' = {}
      /\ \A t \in Shards \ {s} : batch'[t] = batch[t] /\ IdsIn(t)' = IdsIn(t)
      /\ UnderWay' = UNION {IdsIn(t) : t \in Shards \ {s}}
  BY <1>1, <1>3, BatchChanges
<1>5. \A id \in Ids : id \in RowIds' => id \in RowIds \/ id \in IdsIn(s)
  <2>1. CASE rows' = rows
    BY <2>1 DEF RowIds
  <2>2. QED BY <1>2, <2>1, RowIdsAdded
<1>6. IdsIn(s) \subseteq made /\ made \subseteq Ids /\ excused' \in {excused, excused \cup IdsIn(s)}
  BY <1>2 DEF FeatureTypes
<1>7. rows' \in Seq(Row)
  <2>1. CASE rows' = rows
    BY <2>1 DEF FeatureTypes
  <2>2. QED BY <1>2, <2>1, RowsAdded
<1>8. FeatureTypes'
  <2>1. faults' \in Nat
    BY FaultsCount DEF AddReturns
  <2>2. at' \in [Shards -> Places]
    BY <1>1 DEF FeatureTypes, Places
  <2>3. RowIds' \subseteq made' \cup {EmptyId, Null}
    <3>1. RowIds' \subseteq Ids \cup {EmptyId, Null}
      <4>1. PICK rs \in Seq(Row) : rs = rows'
        BY <1>7
      <4>2. \A r \in Row : r.id \in Ids \cup {EmptyId, Null}
        BY DEF Row
      <4>3. \A i \in DOMAIN rs : rs[i] \in Row
        BY <4>1
      <4>4. QED BY <4>1, <4>2, <4>3 DEF RowIds
    <3>2. QED BY <1>1, <1>5, <1>6, <3>1 DEF FeatureTypes
  <2>4. ASSUME NEW t \in Shards PROVE IdsIn(t)' \subseteq made'
    <3>1. IdsIn(t) \subseteq made /\ made' = made /\ (IdsIn(t)' = IdsIn(t) \/ IdsIn(t)' = {})
      BY <1>1, <1>4 DEF FeatureTypes
    <3>2. QED BY <3>1
  <2>5. QED BY <1>1, <1>4, <1>6, <1>7, <2>1, <2>2, <2>3, <2>4 DEF FeatureTypes
<1>9. AddIsNew(s)' /\ RemovalIsUnderWay(s)' /\ NothingUnderWay(s)'
  <2>1. at'[s] = "idle"
    BY <1>1 DEF FeatureTypes
  <2>2. QED BY <1>4, <2>1 DEF AddIsNew, RemovalIsUnderWay, NothingUnderWay
<1>10. ASSUME NEW t \in Shards \ {s}
       PROVE  AddIsNew(t)' /\ RemovalIsUnderWay(t)' /\ NothingUnderWay(t)'
  <2>1. at'[t] = at[t] /\ batch'[t] = batch[t] /\ todo'[t] = todo[t]
    BY <1>1, <1>4 DEF FeatureTypes
  <2>2. ASSUME NEW id \in IdsIn(t) \ excused', at[t] = "writing"
        PROVE  /\ id \in RowIds' => id \in RowIds
               /\ id \in returned' => id \in returned
               /\ id \notin IdsIn(s)'
    <3>1. AddIsNew(t) /\ id \in Ids /\ id \notin excused
      BY <1>6 DEF UnderWayInv, FeatureTypes
    <3>2. id \notin IdsIn(s)
      BY <2>2, <3>1 DEF AddIsNew
    <3>3. QED BY <1>1, <1>4, <1>5, <3>1, <3>2
  <2>3. QED BY <1>1, <1>4, <1>6, <2>1, <2>2, OthersGoOn
<1>11. \A x \in Settled' : x \in Ids /\ x \notin excused' /\ (x \in Settled \/ x \in IdsIn(s))
  BY <1>4, <1>6 DEF Settled, UnderWay
<1>12. StorageAgrees'
  <2>1. CASE rows' = rows \o NewRows(s) /\ excused' = excused
    <3>1. EachIdOnce'
      BY <1>1, <1>11, <2>1, AddedOnce
    <3>2. ASSUME NEW x \in Settled'
          PROVE  (x \in files' <=> x \in RowIds') /\ (x \in files' <=> x \in returned' \ dropped')
      <4>1. x \in Ids /\ x \notin excused /\ (x \in RowIds' <=> x \in RowIds \/ x \in IdsIn(s))
        BY <1>11, <2>1, RowIdsAdded
      <4>2. CASE x \in IdsIn(s)
        <5>1. x \in files /\ x \notin returned
          BY <1>1, <4>1, <4>2 DEF UnderWayInv, AddIsNew
        <5>2. x \notin dropped
          BY <5>1 DEF FeatureTypes
        <5>3. QED BY <1>1, <4>1, <4>2, <5>1, <5>2
      <4>3. CASE x \notin IdsIn(s)
        <5>1. x \in Settled
          BY <1>11, <4>3
        <5>2. (x \in files <=> x \in RowIds) /\ (x \in files <=> x \in returned \ dropped)
          BY <5>1 DEF StorageAgrees, FilesMatchRows, ReturnedAreStored, RowIds
        <5>3. QED BY <1>1, <4>1, <4>3, <5>2
      <4>4. QED BY <4>2, <4>3
    <3>3. QED BY <3>1, <3>2 DEF StorageAgrees, FilesMatchRows, ReturnedAreStored, RowIds
  <2>2. CASE rows' = rows /\ excused' = excused \cup IdsIn(s)
    <3>1. \A x \in Settled' : x \in Settled /\ x \notin IdsIn(s)
      BY <1>11, <2>2
    <3>2. QED BY <1>1, <2>2, <3>1, SettledStay
  <2>3. QED BY <1>2, <2>1, <2>2
<1>13. QED BY <1>8, <1>9, <1>10, <1>12 DEF UnderWayInv

LEMMA RemoveBeginsStep ==
    ASSUME FeaturesInv, NEW s \in Shards, RemoveBegins(s)
    PROVE  FeaturesInv'
<1> USE DEF FeaturesInv
<1>1. PICK n \in 1..MaxFeatures : \E ids \in [1..n -> returned \cup {EmptyId}] :
        /\ batch' = [batch EXCEPT ![s] = ids]
        /\ todo' = [todo EXCEPT ![s] = n]
        /\ dropped' = dropped \cup (ToSet(ids) \ {EmptyId})
  BY DEF RemoveBegins
<1>2. PICK ids \in [1..n -> returned \cup {EmptyId}] :
        /\ batch' = [batch EXCEPT ![s] = ids]
        /\ todo' = [todo EXCEPT ![s] = n]
        /\ dropped' = dropped \cup (ToSet(ids) \ {EmptyId})
  BY <1>1
<1>3. /\ at[s] = "idle" /\ at' = [at EXCEPT ![s] = "unlinking"]
      /\ UNCHANGED <<hasTable, rows, files, made, returned, excused, faults>>
  BY DEF RemoveBegins, Goes
<1>4. n \in Nat /\ returned \subseteq Ids
  BY DEF FeatureTypes
<1>5. ids \in Seq(Ids \cup {EmptyId}) /\ Len(ids) = n
  BY <1>2, <1>4
<1>6. ToSet(ids) \ {EmptyId} \subseteq returned
  BY <1>2 DEF ToSet
<1>7. /\ batch' \in [Shards -> Seq(Ids \cup {EmptyId})]
      /\ batch'[s] = ids /\ IdsIn(s)' = ToSet(ids) \ {EmptyId}
      /\ \A t \in Shards \ {s} : batch'[t] = batch[t] /\ IdsIn(t)' = IdsIn(t)
      /\ UnderWay' = (ToSet(ids) \ {EmptyId}) \cup UNION {IdsIn(t) : t \in Shards \ {s}}
  BY <1>2, <1>5, BatchChanges
<1>8. RowIds' = RowIds
  BY <1>3 DEF RowIds
<1>9. FeatureTypes'
  <2>1. at' \in [Shards -> Places] /\ todo' \in [Shards -> Nat]
    BY <1>2, <1>3, <1>4 DEF FeatureTypes, Places
  <2>2. ASSUME NEW t \in Shards PROVE IdsIn(t)' \subseteq made'
    BY <1>3, <1>6, <1>7 DEF FeatureTypes
  <2>3. QED BY <1>2, <1>3, <1>6, <1>7, <1>8, <2>1, <2>2 DEF FeatureTypes
<1>10. AddIsNew(s)' /\ RemovalIsUnderWay(s)' /\ NothingUnderWay(s)'
  <2>1. at'[s] = "unlinking" /\ todo'[s] = n
    BY <1>2, <1>3 DEF FeatureTypes
  <2>2. todo'[s] <= Len(batch'[s]) /\ 1..(Len(batch'[s]) - todo'[s]) = {}
    BY <1>4, <1>5, <1>7, <2>1
  <2>3. QED BY <1>2, <1>7, <2>1, <2>2 DEF AddIsNew, RemovalIsUnderWay, NothingUnderWay
<1>11. ASSUME NEW t \in Shards \ {s}
       PROVE  AddIsNew(t)' /\ RemovalIsUnderWay(t)' /\ NothingUnderWay(t)'
  <2>1. at'[t] = at[t] /\ batch'[t] = batch[t] /\ todo'[t] = todo[t]
    BY <1>2, <1>3, <1>7 DEF FeatureTypes
  <2>2. ASSUME NEW id \in IdsIn(t) \ excused', at[t] = "writing"
        PROVE  id \notin IdsIn(s)'
    BY <1>3, <1>6, <1>7, <2>2 DEF UnderWayInv, AddIsNew
  <2>3. QED BY <1>2, <1>3, <1>7, <1>8, <2>1, <2>2, OthersGoOn
<1>12. StorageAgrees'
  <2>1. IdsIn(s) = {}
    BY <1>3, NothingIn DEF UnderWayInv, NothingUnderWay, IdsIn
  <2>2. \A x \in Settled' : x \in Settled /\ x \notin ToSet(ids) \ {EmptyId}
    BY <1>3, <1>7, <2>1 DEF Settled, UnderWay
  <2>3. QED BY <1>2, <1>3, <2>2, SettledStay
<1>13. QED BY <1>9, <1>10, <1>11, <1>12 DEF UnderWayInv

LEMMA RemoveUnlinksStep ==
    ASSUME FeaturesInv, NEW s \in Shards, RemoveUnlinks(s)
    PROVE  FeaturesInv'
<1> USE DEF FeaturesInv
<1> DEFINE k == Len(batch[s]) + 1 - todo[s]
<1>1. /\ at[s] = "unlinking" /\ todo[s] > 0 /\ todo[s] \in Nat
      /\ files' = files \ {batch[s][k]}
      /\ todo' = [todo EXCEPT ![s] = @ - 1]
      /\ at' = [at EXCEPT ![s] = IF todo[s] = 1 THEN "deleting" ELSE "unlinking"]
      /\ UNCHANGED <<hasTable, rows, made, batch, ghosts, faults>>
  BY DEF RemoveUnlinks, Goes, FeatureTypes
<1>2. /\ IdsIn(s) \subseteq dropped /\ todo[s] <= Len(batch[s])
      /\ \A i \in 1..(Len(batch[s]) - todo[s]) : batch[s][i] \in files => batch[s][i] \in excused
      /\ batch[s] \in Seq(Ids \cup {EmptyId}) /\ Len(batch[s]) \in Nat
  BY <1>1 DEF UnderWayInv, RemovalIsUnderWay, FeatureTypes
<1>3. k \in DOMAIN batch[s] /\ k \in Nat
  BY <1>1, <1>2
<1>4. \A t \in Shards : IdsIn(t)' = IdsIn(t)
  BY <1>1 DEF IdsIn
<1>5. RowIds' = RowIds /\ UnderWay' = UnderWay /\ Settled' = Settled
  BY <1>1, <1>4 DEF RowIds, UnderWay, Settled, ghosts
<1>6. batch[s][k] = EmptyId \/ batch[s][k] \in IdsIn(s)
  BY <1>3 DEF IdsIn, ToSet
<1>7. todo' \in [Shards -> Nat] /\ todo'[s] = todo[s] - 1
  BY <1>1 DEF FeatureTypes
<1>8. FeatureTypes'
  <2>1. at' \in [Shards -> Places]
    BY <1>1 DEF FeatureTypes, Places
  <2>2. QED BY <1>1, <1>4, <1>5, <1>7, <2>1 DEF FeatureTypes, ghosts
<1>9. AddIsNew(s)' /\ RemovalIsUnderWay(s)' /\ NothingUnderWay(s)'
  <2>1. at'[s] = IF todo[s] = 1 THEN "deleting" ELSE "unlinking"
    BY <1>1 DEF FeatureTypes
  <2>2. todo'[s] <= Len(batch'[s]) /\ (at'[s] = "deleting" => todo'[s] = 0)
    BY <1>1, <1>2, <1>7, <2>1
  <2>3. ASSUME NEW i \in 1..(Len(batch[s]) - todo'[s]), batch[s][i] \in files'
        PROVE  batch[s][i] \in excused
    <3>1. i # k
      BY <1>1, <2>3
    <3>2. i \in 1..(Len(batch[s]) - todo[s])
      BY <1>1, <1>2, <1>7, <2>3, <3>1
    <3>3. QED BY <1>1, <1>2, <2>3, <3>2
  <2> HIDE DEF k
  <2>4. QED BY <1>1, <1>2, <1>4, <2>1, <2>2, <2>3
           DEF AddIsNew, RemovalIsUnderWay, NothingUnderWay, ghosts
<1>10. ASSUME NEW t \in Shards \ {s}
       PROVE  AddIsNew(t)' /\ RemovalIsUnderWay(t)' /\ NothingUnderWay(t)'
  <2>1. at'[t] = at[t] /\ batch'[t] = batch[t] /\ todo'[t] = todo[t]
    BY <1>1 DEF FeatureTypes
  <2>2. ASSUME NEW id \in IdsIn(t) \ excused', at[t] = "writing"
        PROVE  id \notin IdsIn(s)' /\ (id \in files => id \in files')
    <3>1. id \notin returned /\ id \notin IdsIn(s) /\ id # EmptyId
      BY <1>1, <2>2 DEF UnderWayInv, AddIsNew, ghosts, IdsIn
    <3>2. QED BY <1>1, <1>4, <1>6, <3>1
  <2>3. \A u \in Shards \ {s} : IdsIn(u)' = IdsIn(u)
    BY <1>4
  <2> HIDE DEF k
  <2>4. QED BY <1>1, <1>5, <2>1, <2>2, <2>3, OthersGoOn DEF ghosts
<1>11. StorageAgrees'
  <2>1. ASSUME NEW x \in Settled' PROVE x # batch[s][k]
    <3>1. x \in Ids /\ x \notin IdsIn(s)
      BY <1>5 DEF Settled, UnderWay
    <3>2. QED BY <1>6, <3>1, DriverAssumption
  <2> HIDE DEF k
  <2>2. QED BY <1>1, <1>5, <2>1, SettledStay DEF ghosts
<1>12. QED BY <1>8, <1>9, <1>10, <1>11 DEF UnderWayInv

LEMMA RemoveDeletesStep ==
    ASSUME FeaturesInv, NEW s \in Shards, RemoveDeletes(s)
    PROVE  FeaturesInv'
<1> USE DEF FeaturesInv
<1>1. /\ at[s] = "deleting" /\ at' = [at EXCEPT ![s] = "idle"]
      /\ batch' = [batch EXCEPT ![s] = << >>]
      /\ UNCHANGED <<hasTable, files, made, todo, returned, dropped>>
  BY DEF RemoveDeletes, Goes
<1>2. \/ rows' = Spared(s) /\ excused' = excused
      \/ rows' = rows /\ excused' = excused \cup IdsIn(s)
  BY DEF RemoveDeletes
<1>3. << >> \in Seq(Ids \cup {EmptyId}) /\ ToSet(<< >>) = {}
  BY NothingIn
<1>4. /\ batch' \in [Shards -> Seq(Ids \cup {EmptyId})]
      /\ batch'[s] = << >> /\ IdsIn(s)' = {}
      /\ \A t \in Shards \ {s} : batch'[t] = batch[t] /\ IdsIn(t)' = IdsIn(t)
      /\ UnderWay' = UNION {IdsIn(t) : t \in Shards \ {s}}
  BY <1>1, <1>3, BatchChanges
<1>5. RowIds' \subseteq RowIds
  <2>1. CASE rows' = rows
    BY <2>1 DEF RowIds
  <2>2. QED BY <1>2, <2>1, RowIdsSpared
<1>6. IdsIn(s) \subseteq made /\ made \subseteq Ids /\ excused' \in {excused, excused \cup IdsIn(s)}
  BY <1>2 DEF FeatureTypes
<1>7. rows' \in Seq(Row)
  <2>1. CASE rows' = rows
    BY <2>1 DEF FeatureTypes
  <2>2. QED BY <1>2, <2>1, RowsSpared
<1>8. FeatureTypes'
  <2>1. faults' \in Nat
    BY FaultsCount DEF RemoveDeletes
  <2>2. at' \in [Shards -> Places]
    BY <1>1 DEF FeatureTypes, Places
  <2>3. ASSUME NEW t \in Shards PROVE IdsIn(t)' \subseteq made'
    <3>1. IdsIn(t) \subseteq made /\ made' = made /\ (IdsIn(t)' = IdsIn(t) \/ IdsIn(t)' = {})
      BY <1>1, <1>4 DEF FeatureTypes
    <3>2. QED BY <3>1
  <2>4. QED BY <1>1, <1>4, <1>5, <1>6, <1>7, <2>1, <2>2, <2>3 DEF FeatureTypes
<1>9. AddIsNew(s)' /\ RemovalIsUnderWay(s)' /\ NothingUnderWay(s)'
  <2>1. at'[s] = "idle"
    BY <1>1 DEF FeatureTypes
  <2>2. QED BY <1>4, <2>1 DEF AddIsNew, RemovalIsUnderWay, NothingUnderWay
<1>10. ASSUME NEW t \in Shards \ {s}
       PROVE  AddIsNew(t)' /\ RemovalIsUnderWay(t)' /\ NothingUnderWay(t)'
  <2>1. at'[t] = at[t] /\ batch'[t] = batch[t] /\ todo'[t] = todo[t]
    BY <1>1, <1>4 DEF FeatureTypes
  <2>2. QED BY <1>1, <1>4, <1>5, <1>6, <2>1, OthersGoOn
<1>11. \A x \in Settled' : x \in Ids /\ x \notin excused' /\ (x \in Settled \/ x \in IdsIn(s))
  BY <1>4, <1>6 DEF Settled, UnderWay
<1>12. StorageAgrees'
  <2>1. CASE rows' = Spared(s) /\ excused' = excused
    <3>1. ASSUME NEW x \in Settled'
          PROVE  /\ x \notin ToSet(batch[s]) => x \in Settled
                 /\ x \in ToSet(batch[s]) => x \notin files /\ x \in dropped
      <4>1. x \in ToSet(batch[s]) <=> x \in IdsIn(s)
        BY <1>11, DriverAssumption DEF IdsIn
      <4>2. /\ IdsIn(s) \subseteq dropped
            /\ \A i \in DOMAIN batch[s] : batch[s][i] \in files => batch[s][i] \in excused
        <5>1. /\ RemovalIsUnderWay(s) /\ batch[s] \in Seq(Ids \cup {EmptyId})
              /\ todo[s] = 0
          BY <1>1 DEF UnderWayInv, FeatureTypes, RemovalIsUnderWay
        <5>2. DOMAIN batch[s] = 1..(Len(batch[s]) - todo[s])
          BY <5>1
        <5>3. QED BY <1>1, <5>1, <5>2 DEF RemovalIsUnderWay
      <4>3. QED BY <1>11, <2>1, <4>1, <4>2 DEF ToSet
    <3>2. EachIdOnce'
      <4>1. PICK rs : rs = rows'
        OBVIOUS
      <4>2. /\ \A k, l \in DOMAIN rs : k # l =>
                  \E i, j \in DOMAIN rows : i # j /\ rs[k] = rows[i] /\ rs[l] = rows[j]
            /\ \A k \in DOMAIN rs : \E i \in DOMAIN rows :
                  rs[k] = rows[i] /\ rows[i].id \notin ToSet(batch[s])
        BY <2>1, <4>1, RowsSpared
      <4> SUFFICES ASSUME NEW k \in DOMAIN rs, NEW l \in DOMAIN rs, k # l,
                          rs[k].id = rs[l].id, rs[k].id \in Settled'
                   PROVE  FALSE
        BY <4>1 DEF EachIdOnce
      <4>3. rs[k].id \in Settled
        BY <3>1, <4>2
      <4>4. QED BY <4>2, <4>3 DEF StorageAgrees, EachIdOnce
    <3>3. ASSUME NEW x \in Settled'
          PROVE  (x \in files' <=> x \in RowIds') /\ (x \in files' <=> x \in returned' \ dropped')
      <4>1. x \in RowIds' <=> x \in RowIds /\ x \notin ToSet(batch[s])
        BY <2>1, RowIdsSpared
      <4>2. CASE x \in ToSet(batch[s])
        BY <1>1, <3>1, <4>1, <4>2
      <4>3. CASE x \notin ToSet(batch[s])
        <5>1. x \in Settled
          BY <3>1, <4>3
        <5>2. (x \in files <=> x \in RowIds) /\ (x \in files <=> x \in returned \ dropped)
          BY <5>1 DEF StorageAgrees, FilesMatchRows, ReturnedAreStored, RowIds
        <5>3. QED BY <1>1, <4>1, <4>3, <5>2
      <4>4. QED BY <4>2, <4>3
    <3>4. QED BY <3>2, <3>3 DEF StorageAgrees, FilesMatchRows, ReturnedAreStored, RowIds
  <2>2. CASE rows' = rows /\ excused' = excused \cup IdsIn(s)
    <3>1. \A x \in Settled' : x \in Settled
      BY <1>11, <2>2
    <3>2. QED BY <1>1, <2>2, <3>1, SettledStay
  <2>3. QED BY <1>2, <2>1, <2>2
<1>13. QED BY <1>8, <1>9, <1>10, <1>12 DEF UnderWayInv

(* Whatever was under way when the process died has an excuse.                *)
LEMMA DeathStep ==
    ASSUME FeaturesInv, DriverDies
    PROVE  FeaturesInv'
<1> USE DEF FeaturesInv
<1>1. /\ at' = [s \in Shards |-> "idle"] /\ todo' = [s \in Shards |-> 0]
      /\ batch' = [s \in Shards |-> << >>]
      /\ excused' = excused \cup UnderWay
      /\ UNCHANGED <<hasTable, rows, files, made, returned, dropped>>
      /\ faults' \in Nat
  BY FaultsCount DEF DriverDies
<1>2. \A s \in Shards : batch'[s] = << >> /\ IdsIn(s)' = {} /\ at'[s] = "idle"
  BY <1>1, NothingIn DEF IdsIn
<1>3. UnderWay' = {} /\ UnderWay \subseteq made /\ RowIds' = RowIds
  BY <1>1, <1>2 DEF UnderWay, FeatureTypes, RowIds
<1>4. FeatureTypes'
  <2>1. batch' \in [Shards -> Seq(Ids \cup {EmptyId})]
    BY <1>1
  <2>2. at' \in [Shards -> Places] /\ todo' \in [Shards -> Nat]
    BY <1>1 DEF Places
  <2>3. QED BY <1>1, <1>2, <1>3, <2>1, <2>2 DEF FeatureTypes
<1>5. UnderWayInv'
  BY <1>2 DEF UnderWayInv, AddIsNew, RemovalIsUnderWay, NothingUnderWay
<1>6. Settled' = Settled
  BY <1>1, <1>3 DEF Settled
<1>7. StorageAgrees'
  BY <1>1, <1>6, SettledStay
<1>8. QED BY <1>4, <1>5, <1>7

LEMMA FeaturesStep == FeaturesInv /\ [FeaturesNext]_featuresVars => FeaturesInv'
<1> SUFFICES ASSUME FeaturesInv, [FeaturesNext]_featuresVars PROVE FeaturesInv'
  OBVIOUS
<1>1. ASSUME UNCHANGED <<rows, files, made, callVars, ghosts>>,
             hasTable' \in BOOLEAN, faults' \in Nat
      PROVE  FeaturesInv'
  <2>1. \A s \in Shards : IdsIn(s)' = IdsIn(s)
    BY <1>1 DEF IdsIn, callVars
  <2>2. RowIds' = RowIds /\ UnderWay' = UnderWay
    BY <1>1, <2>1 DEF RowIds, UnderWay
  <2>3. FeatureTypes'
    BY <1>1, <2>1, <2>2 DEF FeaturesInv, FeatureTypes, callVars, ghosts
  <2>4. UnderWayInv'
    BY <1>1, <2>1, <2>2 DEF FeaturesInv, UnderWayInv, AddIsNew, RemovalIsUnderWay,
                             NothingUnderWay, callVars, ghosts
  <2>5. StorageAgrees'
    BY <1>1, <2>2, SettledStay DEF FeaturesInv, Settled, ghosts
  <2>6. QED BY <2>3, <2>4, <2>5 DEF FeaturesInv
<1>2. CASE UNCHANGED featuresVars
  BY <1>1, <1>2 DEF featuresVars, FeaturesInv, FeatureTypes
<1>3. CASE InitTable
  BY <1>1, <1>3, FaultsCount DEF InitTable, FeaturesInv, FeatureTypes
<1>4. CASE DriverDies
  BY <1>4, DeathStep
<1>5. ASSUME NEW s \in Shards,
             ListBegins(s) \/ ListCounts(s) \/ ListSelects(s) \/ AddBegins(s)
      PROVE  FeaturesInv'
  BY <1>5, ListStep
<1>6. ASSUME NEW s \in Shards, AddWrites(s) \/ AddReturns(s)
      PROVE  FeaturesInv'
  BY <1>6, AddWritesStep, AddReturnsStep
<1>7. ASSUME NEW s \in Shards, RemoveBegins(s) \/ RemoveUnlinks(s) \/ RemoveDeletes(s)
      PROVE  FeaturesInv'
  BY <1>7, RemoveBeginsStep, RemoveUnlinksStep, RemoveDeletesStep
<1>8. QED BY <1>2, <1>3, <1>4, <1>5, <1>6, <1>7 DEF FeaturesNext

LEMMA FeaturesInvariance == FeaturesSpec => []FeaturesInv
<1>1. FeaturesInit => FeaturesInv
  <2> SUFFICES ASSUME FeaturesInit PROVE FeaturesInv
    OBVIOUS
  <2>1. \A s \in Shards : batch[s] = << >> /\ IdsIn(s) = {} /\ at[s] = "idle"
    BY NothingIn DEF FeaturesInit, IdsIn
  <2>2. RowIds = {}
    BY DEF FeaturesInit, RowIds
  <2>3. FeatureTypes
    <3>1. batch \in [Shards -> Seq(Ids \cup {EmptyId})] /\ rows \in Seq(Row)
      BY DEF FeaturesInit
    <3>2. at \in [Shards -> Places] /\ todo \in [Shards -> Nat]
      BY DEF FeaturesInit, Places
    <3>3. QED BY <2>1, <2>2, <3>1, <3>2 DEF FeaturesInit, FeatureTypes
  <2>4. UnderWayInv
    BY <2>1 DEF UnderWayInv, AddIsNew, RemovalIsUnderWay, NothingUnderWay
  <2>5. StorageAgrees
    BY DEF FeaturesInit, StorageAgrees, EachIdOnce, FilesMatchRows, ReturnedAreStored
  <2>6. QED BY <2>3, <2>4, <2>5 DEF FeaturesInv
<1>2. QED BY <1>1, FeaturesStep, PTL DEF FeaturesSpec

(* For any shards, ids and sizes of batches, and any number of failed         *)
(* statements and files, equal uuids and deaths: of the ids no call is at and *)
(* none has gone wrong with, those returned and not removed, and only they,   *)
(* have a file and a row, and one row only.                                   *)
THEOREM StorageKeepsAgreeing == FeaturesSpec => []StorageAgrees
<1>1. FeaturesInv => StorageAgrees
  BY DEF FeaturesInv
<1>2. QED BY <1>1, FeaturesInvariance, PTL

-------------------------------------------------------------------------------
(***************************************************************************)
(* Listings.                                                               *)
(***************************************************************************)
RowId == Ids \cup {EmptyId, Null}

FirstOf(q, n) == SubSeq(q, 1, IF n < Len(q) THEN n ELSE Len(q))

ListTypes ==
    /\ page \in [Shards -> Nat] /\ disturbed \in [Shards -> BOOLEAN]
    /\ listed \in [Shards -> Seq(RowId)] /\ before \in [Shards -> Seq(RowId)]

(* The pages read so far are the beginning of the shard, which is what it was *)
(* when the listing began.                                                    *)
PagesSoFar(s) ==
    /\ at[s] \notin {"counting", "selecting"} => page[s] = 0 /\ listed[s] = << >>
    /\ at[s] \in {"counting", "selecting"} /\ ~ disturbed[s] =>
          /\ before[s] = OfShard(rows, s)
          /\ listed[s] = FirstOf(before[s], page[s] * PerPage)

ListInv == ListTypes /\ \A s \in Shards : PagesSoFar(s)

(* The rows of a shard, as they are and after an insert of another's.         *)
LEMMA OfShardIsSequence ==
    ASSUME NEW rs \in Seq(Row), NEW s
    PROVE  OfShard(rs, s) \in Seq(RowId)
<1>1. PICK I : I = {i \in DOMAIN rs : rs[i].shard = s}
  OBVIOUS
<1>2. PICK n \in Nat : n = Len(rs)
  OBVIOUS
<1>3. PICK ids : ids = [i \in DOMAIN rs |-> rs[i].id]
  OBVIOUS
<1>4. I \in SUBSET (1..n) /\ DOMAIN rs = 1..n
  BY <1>1, <1>2
<1>5. \A r \in Row : r.id \in RowId
  BY DEF Row, RowId
<1>6. ids \in Seq(RowId) /\ Len(ids) = n
  <2>1. \A i \in 1..n : rs[i] \in Row
    BY <1>4
  <2>2. ids \in [1..n -> RowId]
    BY <1>3, <1>4, <1>5, <2>1
  <2>3. QED BY <2>2
<1>7. PICK m \in Nat : m = Cardinality(I)
  BY <1>4, PlacesAreFinite
<1>8. \A k \in 1..m : Nth(I, k) \in I /\ Pick(ids, I)[k] = ids[Nth(I, k)]
  BY <1>4, <1>6, <1>7, PickMembers
<1>9. PICK f : f = [k \in 1..m |-> ids[Nth(I, k)]]
  OBVIOUS
<1>10. f \in [1..m -> RowId]
  <2>1. \A i \in I : ids[i] \in RowId
    BY <1>4, <1>6
  <2>2. \A k \in 1..m : ids[Nth(I, k)] \in RowId
    BY <1>8, <2>1
  <2>3. QED BY <1>9, <2>2
<1>11. f = OfShard(rs, s)
  <2>1. OfShard(rs, s) = Pick(ids, I)
    BY <1>1, <1>3, Zenon DEF OfShard
  <2>2. QED BY <1>7, <1>9, <2>1 DEF Pick
<1>12. f \in Seq(RowId)
  BY <1>10
<1>13. QED BY <1>11, <1>12

LEMMA OthersAddElsewhere ==
    ASSUME FeatureTypes, NEW s \in Shards, NEW t \in Shards \ {s}, rows' = rows \o NewRows(s)
    PROVE  OfShard(rows', t) = OfShard(rows, t)
<1>1. /\ NewRows(s) \in Seq(Row) /\ rows' \in Seq(Row)
      /\ Len(rows') = Len(rows) + Len(NewRows(s))
      /\ Len(rows) \in Nat /\ Len(NewRows(s)) \in Nat
      /\ \A i \in 1..Len(rows) : rows'[i] = rows[i]
      /\ \A i \in 1..Len(NewRows(s)) : rows'[Len(rows) + i] = NewRows(s)[i]
      /\ \A i \in 1..Len(NewRows(s)) :
            \/ NewRows(s)[i].id = Null /\ batch[s] = << >> /\ NewRows(s)[i].shard = Null
            \/ /\ i \in DOMAIN batch[s]
               /\ NewRows(s)[i].id = batch[s][i] /\ NewRows(s)[i].shard = s
      /\ batch[s] # << >> => Len(NewRows(s)) = Len(batch[s])
  BY RowsAdded
<1>2. rows \in Seq(Row)
  BY DEF FeatureTypes
<1>3. DOMAIN rows' = 1..(Len(rows) + Len(NewRows(s))) /\ DOMAIN rows = 1..Len(rows)
  BY <1>1, <1>2
<1>4. PICK I : I = {i \in DOMAIN rows : rows[i].shard = t}
  OBVIOUS
<1>5. I = {i \in DOMAIN rows' : rows'[i].shard = t}
  <2>1. ASSUME NEW i \in DOMAIN rows', i \notin 1..Len(rows) PROVE rows'[i].shard # t
    <3>1. i - Len(rows) \in 1..Len(NewRows(s)) /\ Len(rows) + (i - Len(rows)) = i
      BY <1>1, <1>3, <2>1
    <3>2. rows'[i] = NewRows(s)[i - Len(rows)] /\ NewRows(s)[i - Len(rows)].shard \in {Null, s}
      BY <1>1, <3>1
    <3>3. QED BY <3>2, DriverAssumption
  <2>2. \A i \in DOMAIN rows : i \in DOMAIN rows' /\ rows'[i] = rows[i]
    BY <1>1, <1>3
  <2>3. QED BY <1>3, <1>4, <2>1, <2>2
<1>6. \A i \in I : [j \in DOMAIN rows' |-> rows'[j].id][i] = [j \in DOMAIN rows |-> rows[j].id][i]
  <2>1. \A i \in I : i \in DOMAIN rows' /\ i \in DOMAIN rows /\ rows'[i] = rows[i]
    BY <1>1, <1>3, <1>4, <1>5
  <2>2. QED BY <2>1
<1>7. PICK n \in Nat : n = Len(rows) /\ I \in SUBSET (1..n)
  BY <1>1, <1>3, <1>4
<1>8. \A k \in 1..Cardinality(I) : Nth(I, k) \in I
  BY <1>7, NthHasRank
<1>9. PICK a : a = [j \in DOMAIN rows' |-> rows'[j].id]
  OBVIOUS
<1>10. PICK b : b = [j \in DOMAIN rows |-> rows[j].id]
  OBVIOUS
<1>11. [k \in 1..Cardinality(I) |-> a[Nth(I, k)]] = [k \in 1..Cardinality(I) |-> b[Nth(I, k)]]
  <2>1. \A k \in 1..Cardinality(I) : a[Nth(I, k)] = b[Nth(I, k)]
    BY <1>6, <1>8, <1>9, <1>10
  <2>2. QED BY <2>1
<1>12. OfShard(rows', t) = Pick(a, I) /\ OfShard(rows, t) = Pick(b, I)
  BY <1>4, <1>5, <1>9, <1>10, Zenon DEF OfShard
<1>13. QED BY <1>11, <1>12 DEF Pick

(* A sequence cut in two.                                                     *)
LEMMA CutInTwo ==
    ASSUME NEW S, NEW q \in Seq(S), NEW l \in 0..Len(q), NEW u \in l..Len(q)
    PROVE  /\ SubSeq(q, 1, l) \in Seq(S) /\ SubSeq(q, l + 1, u) \in Seq(S)
           /\ Len(SubSeq(q, l + 1, u)) = u - l
           /\ SubSeq(q, 1, l) \o SubSeq(q, l + 1, u) = SubSeq(q, 1, u)
           /\ l = Len(q) => SubSeq(q, 1, l) = q
<1>1. Len(q) \in Nat /\ l \in Nat /\ u \in Nat /\ l <= u /\ u <= Len(q)
  OBVIOUS
<1>2. PICK a : a = SubSeq(q, 1, l)
  OBVIOUS
<1>3. a \in Seq(S) /\ Len(a) = l /\ \A i \in 1..l : a[i] = q[i]
  BY <1>1, <1>2
<1>4. PICK b : b = SubSeq(q, l + 1, u)
  OBVIOUS
<1>5. b \in Seq(S) /\ Len(b) = u - l /\ \A i \in 1..(u - l) : b[i] = q[l + i]
  BY <1>1, <1>4
<1>6. PICK c : c = SubSeq(q, 1, u)
  OBVIOUS
<1>7. c \in Seq(S) /\ Len(c) = u /\ \A i \in 1..u : c[i] = q[i]
  BY <1>1, <1>6
<1>8. /\ a \o b \in Seq(S) /\ Len(a \o b) = u
      /\ \A i \in 1..l : (a \o b)[i] = a[i]
      /\ \A i \in (l + 1)..u : (a \o b)[i] = b[i - l]
  <2>1. /\ a \o b \in Seq(S) /\ Len(a \o b) = Len(a) + Len(b)
        /\ \A i \in 1..(Len(a) + Len(b)) :
              (a \o b)[i] = IF i <= Len(a) THEN a[i] ELSE b[i - Len(a)]
    BY <1>3, <1>5, ConcatProperties
  <2>2. PICK w : w = a \o b
    OBVIOUS
  <2>3. w \in Seq(S) /\ Len(w) = u /\ \A i \in 1..u : w[i] = IF i <= l THEN a[i] ELSE b[i - l]
    BY <1>1, <1>3, <1>5, <2>1, <2>2
  <2>4. \A i \in 1..l : w[i] = a[i]
    BY <1>1, <2>3
  <2>5. \A i \in (l + 1)..u : w[i] = b[i - l]
    BY <1>1, <2>3
  <2>6. QED BY <2>2, <2>3, <2>4, <2>5
<1>9. ASSUME NEW i \in 1..u PROVE (a \o b)[i] = c[i]
  <2>1. CASE i <= l
    <3>1. i \in 1..l
      BY <1>1, <1>9, <2>1
    <3>2. QED BY <1>3, <1>7, <1>8, <1>9, <3>1
  <2>2. CASE ~ i <= l
    <3>1. i - l \in 1..(u - l) /\ l + (i - l) = i
      BY <1>1, <1>9, <2>2
    <3>2. (a \o b)[i] = b[i - l] /\ b[i - l] = q[l + (i - l)]
      BY <1>1, <1>5, <1>8, <1>9, <2>2, <3>1
    <3>3. QED BY <1>7, <1>9, <3>1, <3>2
  <2>3. QED BY <2>1, <2>2
<1>10. a \o b = c
  <2>1. PICK d \in Seq(S) : d = a \o b
    BY <1>8
  <2>2. Len(d) = Len(c) /\ \A i \in 1..Len(d) : d[i] = c[i]
    BY <1>7, <1>8, <1>9, <2>1
  <2>3. d = c
    BY <1>7, <2>2
  <2>4. QED BY <2>1, <2>3
<1>11. l = Len(q) => a = q
  BY <1>3
<1>12. QED BY <1>2, <1>3, <1>4, <1>5, <1>6, <1>10, <1>11

(* Another page makes the beginning longer by it, and at an empty one it is   *)
(* all.                                                                       *)
PageAt(q, m, size) == SubSeq(q, m + 1, IF m + size < Len(q) THEN m + size ELSE Len(q))

LEMMA OnePageMore ==
    ASSUME NEW S, NEW q \in Seq(S), NEW m \in Nat, NEW size \in Nat \ {0}
    PROVE  /\ PageAt(q, m, size) \in Seq(S) /\ FirstOf(q, m) \in Seq(S)
           /\ FirstOf(q, m) \o PageAt(q, m, size) = FirstOf(q, m + size)
           /\ Len(PageAt(q, m, size)) = 0 => FirstOf(q, m) = q
<1>1. PICK n \in Nat : n = Len(q)
  OBVIOUS
<1>2. CASE m < n
  <2>1. PICK u \in m..n : u = IF m + size < n THEN m + size ELSE n
    BY <1>2
  <2>2. m \in 0..Len(q) /\ u \in m..Len(q)
    BY <1>1, <1>2, <2>1
  <2>3. /\ SubSeq(q, 1, m) \in Seq(S) /\ SubSeq(q, m + 1, u) \in Seq(S)
        /\ Len(SubSeq(q, m + 1, u)) = u - m
        /\ SubSeq(q, 1, m) \o SubSeq(q, m + 1, u) = SubSeq(q, 1, u)
    BY <2>2, CutInTwo
  <2>4. /\ PageAt(q, m, size) = SubSeq(q, m + 1, u) /\ FirstOf(q, m) = SubSeq(q, 1, m)
        /\ FirstOf(q, m + size) = SubSeq(q, 1, u)
    BY <1>1, <1>2, <2>1, Zenon DEF PageAt, FirstOf
  <2>5. u - m # 0
    BY <1>2, <2>1
  <2>6. QED BY <2>3, <2>4, <2>5
<1>3. CASE ~ m < n
  <2>1. /\ SubSeq(q, 1, n) \in Seq(S) /\ SubSeq(q, 1, n) = q
    BY <1>1, CutInTwo
  <2>2. ~ m + size < n /\ m + 1 > n
    BY <1>3
  <2>3. /\ PageAt(q, m, size) = SubSeq(q, m + 1, n) /\ FirstOf(q, m) = SubSeq(q, 1, n)
        /\ FirstOf(q, m + size) = SubSeq(q, 1, n)
    BY <1>1, <1>3, <2>2, Zenon DEF PageAt, FirstOf
  <2>4. SubSeq(q, m + 1, n) = << >>
    BY <1>1, <2>2
  <2>5. q \o << >> = q /\ << >> \in Seq(S)
    OBVIOUS
  <2>6. QED BY <2>1, <2>3, <2>4, <2>5
<1>4. QED BY <1>2, <1>3

Listing == {"counting", "selecting"}

(* A step that is not of a listing, and changes no shard that is listed.      *)
LEMMA ListingsStay ==
    ASSUME FeatureTypes, ListInv, NEW s \in Shards, NEW place, place \notin Listing,
           at[s] \notin Listing, at' = [at EXCEPT ![s] = place],
           UNCHANGED <<page, listed, before>>, disturbed' \in [Shards -> BOOLEAN],
           \A t \in Shards \ {s} : at[t] \in Listing /\ ~ disturbed'[t] =>
               ~ disturbed[t] /\ OfShard(rows', t) = OfShard(rows, t)
    PROVE  ListInv'
<1>1. ListTypes'
  BY DEF ListInv, ListTypes
<1>2. at'[s] = place /\ \A t \in Shards \ {s} : at'[t] = at[t]
  BY DEF FeatureTypes
<1>3. PagesSoFar(s)'
  BY <1>2 DEF ListInv, PagesSoFar, Listing
<1>4. ASSUME NEW t \in Shards \ {s} PROVE PagesSoFar(t)'
  <2>1. CASE at[t] \in Listing /\ ~ disturbed'[t]
    <3>1. ~ disturbed[t] /\ OfShard(rows', t) = OfShard(rows, t)
      BY <2>1
    <3>2. PagesSoFar(t) /\ before'[t] = before[t] /\ listed'[t] = listed[t] /\ page'[t] = page[t]
      BY DEF ListInv
    <3>3. /\ before'[t] = OfShard(rows', t)
          /\ listed'[t] = FirstOf(before'[t], page'[t] * PerPage)
      BY <2>1, <3>1, <3>2, Zenon DEF PagesSoFar, Listing
    <3>4. QED BY <1>2, <2>1, <3>3 DEF PagesSoFar, Listing
  <2>2. CASE ~ (at[t] \in Listing /\ ~ disturbed'[t])
    BY <1>2, <2>2 DEF ListInv, PagesSoFar, Listing
  <2>3. QED BY <2>1, <2>2
<1>5. QED BY <1>1, <1>3, <1>4 DEF ListInv

(* A step of a listing leaves the others.                                     *)
LEMMA OtherListingsStay ==
    ASSUME FeatureTypes, ListInv, NEW s \in Shards, NEW place, at' = [at EXCEPT ![s] = place],
           rows' = rows, ListTypes', PagesSoFar(s)',
           \A t \in Shards \ {s} : /\ page'[t] = page[t] /\ listed'[t] = listed[t]
                                   /\ before'[t] = before[t] /\ disturbed'[t] = disturbed[t]
    PROVE  ListInv'
<1>1. \A t \in Shards \ {s} : at'[t] = at[t]
  BY DEF FeatureTypes
<1>2. ASSUME NEW t \in Shards \ {s} PROVE PagesSoFar(t)'
  BY <1>1, Zenon DEF ListInv, PagesSoFar
<1>3. QED BY <1>2 DEF ListInv

LEMMA ListEndsStep ==
    ASSUME FeatureTypes, ListInv, NEW s \in Shards, ListEnds(s), rows' = rows
    PROVE  ListInv'
<1>1. /\ page' = [page EXCEPT ![s] = 0] /\ listed' = [listed EXCEPT ![s] = << >>]
      /\ before' = [before EXCEPT ![s] = << >>] /\ disturbed' = [disturbed EXCEPT ![s] = FALSE]
      /\ at' = [at EXCEPT ![s] = "idle"]
  BY DEF ListEnds, Goes
<1>2. ListTypes'
  BY <1>1 DEF ListInv, ListTypes
<1>3. PagesSoFar(s)'
  BY <1>1 DEF PagesSoFar, ListInv, ListTypes, FeatureTypes
<1>4. \A t \in Shards \ {s} : /\ page'[t] = page[t] /\ listed'[t] = listed[t]
                             /\ before'[t] = before[t] /\ disturbed'[t] = disturbed[t]
  BY <1>1 DEF ListInv, ListTypes
<1>5. QED BY <1>1, <1>2, <1>3, <1>4, OtherListingsStay

LEMMA ListBeginsStep ==
    ASSUME FeatureTypes, ListInv, NEW s \in Shards, ListBegins(s)
    PROVE  ListInv'
<1>1. /\ at[s] = "idle" /\ at' = [at EXCEPT ![s] = "counting"]
      /\ before' = [before EXCEPT ![s] = OfShard(rows, s)]
      /\ UNCHANGED <<rows, page, listed, disturbed>>
  BY DEF ListBegins, Goes
<1>2. PICK own \in Seq(RowId) : own = OfShard(rows, s)
  BY OfShardIsSequence DEF FeatureTypes
<1>3. ListTypes' /\ before'[s] = own
  BY <1>1, <1>2 DEF ListInv, ListTypes
<1>4. page[s] = 0 /\ listed[s] = << >>
  BY <1>1 DEF ListInv, PagesSoFar
<1>5. FirstOf(own, 0 * PerPage) = << >>
  <2>1. 0 * PerPage = 0 /\ (IF 0 < Len(own) THEN 0 ELSE Len(own)) = 0
    BY DriverAssumption
  <2>2. SubSeq(own, 1, 0) = << >>
    OBVIOUS
  <2>3. QED BY <2>1, <2>2 DEF FirstOf
<1>6. PagesSoFar(s)'
  BY <1>1, <1>2, <1>3, <1>4, <1>5, Zenon DEF PagesSoFar, FeatureTypes
<1>7. \A t \in Shards \ {s} : /\ page'[t] = page[t] /\ listed'[t] = listed[t]
                             /\ before'[t] = before[t] /\ disturbed'[t] = disturbed[t]
  BY <1>1 DEF ListInv, ListTypes
<1>8. QED BY <1>1, <1>3, <1>6, <1>7, OtherListingsStay

LEMMA ListCountsStep ==
    ASSUME FeatureTypes, ListInv, NEW s \in Shards, ListCounts(s)
    PROVE  ListInv'
<1>1. at[s] = "counting" /\ rows' = rows
  BY DEF ListCounts
<1>2. CASE ListEnds(s)
  BY <1>1, <1>2, ListEndsStep
<1>3. CASE at' = [at EXCEPT ![s] = "selecting"] /\ UNCHANGED listVars
  <2>1. ListTypes' /\ UNCHANGED <<page, listed, before, disturbed>>
    BY <1>3 DEF ListInv, ListTypes, listVars
  <2>2. PagesSoFar(s)'
    <3>1. at'[s] = "selecting" /\ PagesSoFar(s)
      BY <1>3 DEF FeatureTypes, ListInv
    <3>2. QED BY <1>1, <2>1, <3>1 DEF PagesSoFar
  <2>3. QED BY <1>1, <1>3, <2>1, <2>2, OtherListingsStay
<1>4. QED BY <1>2, <1>3 DEF ListCounts, Goes

LEMMA NextPageIsPage ==
    ASSUME FeatureTypes, ListTypes, NEW s \in Shards
    PROVE  /\ NextPage(s) \in Seq(RowId)
           /\ NextPage(s) = PageAt(OfShard(rows, s), page[s] * PerPage, PerPage)
<1>1. PICK own \in Seq(RowId) : own = OfShard(rows, s)
  BY OfShardIsSequence DEF FeatureTypes
<1>2. NextPage(s) = PageAt(own, page[s] * PerPage, PerPage)
  BY <1>1, Zenon DEF NextPage, Page, PageAt
<1>3. PICK m \in Nat : m = page[s] * PerPage
  BY DriverAssumption DEF ListTypes
<1>4. PageAt(own, m, PerPage) \in Seq(RowId)
  BY OnePageMore, DriverAssumption
<1>5. QED BY <1>1, <1>2, <1>3, <1>4

(* The pages of a listing that is not disturbed, and the next one.            *)
LEMMA PagesAndNext ==
    ASSUME FeatureTypes, ListInv, NEW s \in Shards, at[s] \in Listing, ~ disturbed[s]
    PROVE  /\ NextPage(s) \in Seq(RowId)
           /\ listed[s] \o NextPage(s) = FirstOf(before[s], (page[s] + 1) * PerPage)
           /\ Len(NextPage(s)) = 0 => listed[s] = before[s]
<1>1. /\ before[s] = OfShard(rows, s) /\ before[s] \in Seq(RowId) /\ page[s] \in Nat
      /\ listed[s] = FirstOf(before[s], page[s] * PerPage)
      /\ PerPage \in Nat \ {0}
  BY DriverAssumption DEF ListInv, ListTypes, PagesSoFar, Listing
<1>2. PICK m \in Nat : m = page[s] * PerPage
  BY <1>1
<1>3. (page[s] + 1) * PerPage = m + PerPage
  BY <1>1, <1>2
<1>4. NextPage(s) = PageAt(before[s], m, PerPage)
  BY <1>1, <1>2, NextPageIsPage DEF ListInv
<1>5. PICK b \in Seq(RowId) : b = before[s]
  BY <1>1
<1>6. b \in Seq(RowId) /\ m \in Nat /\ PerPage \in Nat \ {0}
  BY <1>1, <1>2, <1>5
<1>7. /\ PageAt(b, m, PerPage) \in Seq(RowId) /\ FirstOf(b, m) \in Seq(RowId)
      /\ FirstOf(b, m) \o PageAt(b, m, PerPage) = FirstOf(b, m + PerPage)
      /\ Len(PageAt(b, m, PerPage)) = 0 => FirstOf(b, m) = b
  BY <1>6, OnePageMore
<1>8. QED BY <1>1, <1>2, <1>3, <1>4, <1>5, <1>7

LEMMA ListSelectsStep ==
    ASSUME FeatureTypes, ListInv, NEW s \in Shards, ListSelects(s)
    PROVE  ListInv'
<1>1. PICK n \in 0..Len(NextPage(s)) :
        IF n = 0 THEN ListEnds(s)
        ELSE /\ listed' = [listed EXCEPT ![s] = @ \o SubSeq(NextPage(s), 1, n)]
             /\ page' = [page EXCEPT ![s] = @ + 1]
             /\ disturbed' = [disturbed EXCEPT ![s] = @ \/ n < Len(NextPage(s))]
             /\ before' = before
             /\ Goes(s, "counting")
  BY DEF ListSelects
<1>2. at[s] = "selecting" /\ rows' = rows
  BY DEF ListSelects
<1>3. CASE n = 0
  BY <1>1, <1>2, <1>3, ListEndsStep
<1>4. CASE n # 0
  <2>1. PICK next \in Seq(RowId) : next = NextPage(s)
    BY NextPageIsPage DEF ListInv
  <2>2. /\ listed' = [listed EXCEPT ![s] = @ \o SubSeq(next, 1, n)]
        /\ page' = [page EXCEPT ![s] = @ + 1]
        /\ disturbed' = [disturbed EXCEPT ![s] = @ \/ n < Len(next)]
        /\ before' = before /\ at' = [at EXCEPT ![s] = "counting"]
    BY <1>1, <1>4, <2>1 DEF Goes
  <2>3. n \in 1..Len(next)
    BY <1>4, <2>1
  <2>4. /\ listed[s] \in Seq(RowId) /\ SubSeq(next, 1, n) \in Seq(RowId)
        /\ page[s] \in Nat /\ disturbed[s] \in BOOLEAN
    BY <2>1, <2>3 DEF ListInv, ListTypes
  <2>5. ListTypes'
    <3>1. listed[s] \o SubSeq(next, 1, n) \in Seq(RowId)
      BY <2>4
    <3>2. listed' \in [Shards -> Seq(RowId)]
      BY <2>2, <3>1 DEF ListInv, ListTypes
    <3>3. page' \in [Shards -> Nat]
      BY <2>2, <2>4 DEF ListInv, ListTypes
    <3>4. disturbed' \in [Shards -> BOOLEAN]
      BY <2>2, <2>4 DEF ListInv, ListTypes
    <3>5. QED BY <2>2, <3>2, <3>3, <3>4 DEF ListInv, ListTypes
  <2>6. PagesSoFar(s)'
    <3>1. at'[s] = "counting" /\ page'[s] = page[s] + 1
      BY <2>2 DEF FeatureTypes, ListInv, ListTypes
    <3>2. ASSUME ~ disturbed'[s]
          PROVE  /\ before'[s] = OfShard(rows', s)
                 /\ listed'[s] = FirstOf(before'[s], page'[s] * PerPage)
      <4>1. ~ disturbed[s] /\ ~ n < Len(next)
        BY <2>2, <3>2 DEF ListInv, ListTypes
      <4>2. SubSeq(next, 1, n) = next
        BY <2>1, <2>3, <4>1
      <4>3. listed'[s] = listed[s] \o next
        BY <2>2, <4>2 DEF ListInv, ListTypes
      <4>4. /\ listed[s] \o next = FirstOf(before[s], (page[s] + 1) * PerPage)
            /\ before[s] = OfShard(rows, s)
        BY <1>2, <2>1, <4>1, PagesAndNext DEF Listing, ListInv, PagesSoFar
      <4>5. QED BY <1>2, <2>2, <3>1, <4>3, <4>4, Zenon
    <3>3. QED BY <3>1, <3>2 DEF PagesSoFar
  <2>7. \A t \in Shards \ {s} : /\ page'[t] = page[t] /\ listed'[t] = listed[t]
                               /\ before'[t] = before[t] /\ disturbed'[t] = disturbed[t]
    BY <2>2 DEF ListInv, ListTypes
  <2>8. QED BY <1>2, <2>2, <2>5, <2>6, <2>7, OtherListingsStay
<1>5. QED BY <1>3, <1>4

LEMMA ListingsStep == FeaturesInv /\ ListInv /\ [FeaturesNext]_featuresVars => ListInv'
<1> SUFFICES ASSUME FeaturesInv, ListInv, [FeaturesNext]_featuresVars PROVE ListInv'
  OBVIOUS
<1>1. FeatureTypes
  BY DEF FeaturesInv
<1>2. ASSUME UNCHANGED <<rows, at, listVars>> PROVE ListInv'
  BY <1>2, Zenon DEF ListInv, ListTypes, PagesSoFar, listVars
<1>3. CASE UNCHANGED featuresVars \/ InitTable
  BY <1>2, <1>3 DEF featuresVars, InitTable, callVars
<1>4. CASE DriverDies
  <2>1. /\ at' = [s \in Shards |-> "idle"] /\ page' = [s \in Shards |-> 0]
        /\ listed' = [s \in Shards |-> << >>] /\ before' = [s \in Shards |-> << >>]
        /\ disturbed' = [s \in Shards |-> FALSE]
    BY <1>4 DEF DriverDies
  <2>2. ListTypes'
    BY <2>1 DEF ListTypes
  <2>3. QED BY <2>1, <2>2 DEF ListInv, PagesSoFar
<1>5. ASSUME NEW s \in Shards, ListBegins(s) \/ ListCounts(s) \/ ListSelects(s)
      PROVE  ListInv'
  BY <1>1, <1>5, ListBeginsStep, ListCountsStep, ListSelectsStep
<1>6. ASSUME NEW s \in Shards, NEW place \in {"idle", "writing", "unlinking", "deleting"},
             at[s] \notin Listing, at' = [at EXCEPT ![s] = place],
             UNCHANGED <<rows, listVars>>
      PROVE  ListInv'
  <2>1. place \notin Listing
    BY DEF Listing
  <2>2. UNCHANGED <<page, listed, before, disturbed>>
    BY <1>6 DEF listVars
  <2>3. disturbed' \in [Shards -> BOOLEAN]
    BY <2>2 DEF ListInv, ListTypes
  <2>4. QED BY <1>1, <1>6, <2>1, <2>2, <2>3, ListingsStay
<1>7. ASSUME NEW s \in Shards, AddBegins(s) \/ RemoveBegins(s) \/ RemoveUnlinks(s)
      PROVE  ListInv'
  BY <1>6, <1>7 DEF AddBegins, RemoveBegins, RemoveUnlinks, Goes, Listing
<1>8. ASSUME NEW s \in Shards, AddWrites(s)
      PROVE  ListInv'
  BY <1>2, <1>8 DEF AddWrites
<1>9. ASSUME NEW s \in Shards, AddReturns(s)
      PROVE  ListInv'
  <2>1. at[s] \notin Listing /\ at' = [at EXCEPT ![s] = "idle"] /\ UNCHANGED listVars
    BY <1>9 DEF AddReturns, Goes, Listing
  <2>2. CASE rows' = rows
    BY <1>6, <2>1, <2>2
  <2>3. CASE rows' = rows \o NewRows(s)
    <3>1. \A t \in Shards \ {s} : OfShard(rows', t) = OfShard(rows, t)
      BY <1>1, <2>3, OthersAddElsewhere
    <3>2. UNCHANGED <<page, listed, before, disturbed>> /\ disturbed' \in [Shards -> BOOLEAN]
      BY <2>1 DEF listVars, ListInv, ListTypes
    <3>3. "idle" \notin Listing
      BY DEF Listing
    <3>4. QED BY <1>1, <2>1, <3>1, <3>2, <3>3, ListingsStay
  <2>4. QED BY <1>9, <2>2, <2>3 DEF AddReturns
<1>10. ASSUME NEW s \in Shards, RemoveDeletes(s)
      PROVE  ListInv'
  <2>1. /\ at[s] \notin Listing /\ at' = [at EXCEPT ![s] = "idle"]
        /\ UNCHANGED <<page, listed, before>>
    BY <1>10 DEF RemoveDeletes, Goes, Listing
  <2>2. CASE UNCHANGED <<rows, disturbed>>
    BY <1>6, <2>1, <2>2 DEF listVars
  <2>3. CASE disturbed' = [t \in Shards |->
                disturbed[t] \/ (at[t] \in {"counting", "selecting"}
                                 /\ OfShard(rows, t) # OfShard(rows', t))]
    <3>1. \A t \in Shards \ {s} : at[t] \in Listing /\ ~ disturbed'[t] =>
               ~ disturbed[t] /\ OfShard(rows', t) = OfShard(rows, t)
      BY <2>3, Zenon DEF Listing
    <3>2. disturbed' \in [Shards -> BOOLEAN]
      BY <2>3, Zenon DEF ListInv, ListTypes
    <3>3. "idle" \notin Listing
      BY DEF Listing
    <3>4. QED BY <1>1, <2>1, <3>1, <3>2, <3>3, ListingsStay
  <2>4. QED BY <1>10, <2>2, <2>3, Zenon DEF RemoveDeletes
<1>11. QED BY <1>3, <1>4, <1>5, <1>7, <1>8, <1>9, <1>10 DEF FeaturesNext

LEMMA ListingsInvariance == FeaturesSpec => []ListInv
<1>1. FeaturesInit => ListInv
  <2> SUFFICES ASSUME FeaturesInit PROVE ListInv
    OBVIOUS
  <2>1. ListTypes
    BY DEF FeaturesInit, ListTypes
  <2>2. QED BY <2>1 DEF FeaturesInit, ListInv, PagesSoFar
<1>2. QED BY <1>1, ListingsStep, FeaturesInvariance, PTL DEF FeaturesSpec

(* For any shards and pages of any size: a listing that ends by itself, and   *)
(* whose own shard has been left alone, has brought the shard as it was when  *)
(* it began, each row once and in order, whatever other shards have added to  *)
(* the table and removed from it between the pages.                           *)
THEOREM PagesAreTheShard == FeaturesSpec => PagesMakeTheShard
<1>1. ASSUME FeaturesInv, ListInv, [FeaturesNext]_featuresVars,
             NEW s \in Shards, at[s] \in Listing, at'[s] = "idle",
             ~ disturbed[s], faults' = faults
      PROVE  listed[s] = before[s]
  <2>1. FeatureTypes /\ faults \in Nat
    BY <1>1 DEF FeaturesInv, FeatureTypes
  <2>2. ~ Fails
    BY <1>1, <2>1 DEF Fails
  <2>3. ASSUME NEW t \in Shards, t # s, NEW place, at' = [at EXCEPT ![t] = place]
        PROVE  FALSE
    BY <1>1, <2>1, <2>3 DEF Listing, FeatureTypes
  <2>4. CASE ListCounts(s)
    <3>1. rows = << >>
      BY <1>1, <2>1, <2>2, <2>4 DEF ListCounts, Goes, FeatureTypes
    <3>2. before[s] = OfShard(<< >>, s) /\ listed[s] = FirstOf(before[s], page[s] * PerPage)
      BY <1>1, <3>1 DEF ListInv, PagesSoFar, Listing
    <3>3. before[s] = << >>
      <4>1. PICK e : e = << >>
        OBVIOUS
      <4>2. PICK I : I = {i \in DOMAIN e : e[i].shard = s}
        OBVIOUS
      <4>3. PICK ids : ids = [i \in DOMAIN e |-> e[i].id]
        OBVIOUS
      <4>4. OfShard(e, s) = Pick(ids, I)
        BY <4>2, <4>3, Zenon DEF OfShard
      <4>5. I = {}
        BY <4>1, <4>2
      <4>6. Cardinality(I) = 0
        BY <4>5, FS_EmptySet
      <4>7. Pick(ids, I) = << >>
        BY <4>6 DEF Pick
      <4>8. QED BY <3>2, <4>1, <4>4, <4>7
    <3>4. page[s] * PerPage \in Nat
      BY <1>1, DriverAssumption DEF ListInv, ListTypes
    <3>5. FirstOf(<< >>, page[s] * PerPage) = << >>
      BY <3>4 DEF FirstOf
    <3>6. QED BY <3>2, <3>3, <3>5
  <2>5. CASE ListSelects(s)
    <3>1. PICK n \in 0..Len(NextPage(s)) :
            /\ IF n = Len(NextPage(s)) THEN Succeeds ELSE Fails
            /\ n # 0 => Goes(s, "counting")
      BY <2>5 DEF ListSelects
    <3>2. n = 0
      BY <1>1, <2>1, <3>1 DEF Goes, FeatureTypes
    <3>3. Len(NextPage(s)) = 0
      BY <2>2, <3>1, <3>2
    <3>4. QED BY <1>1, <2>1, <3>3, PagesAndNext
  <2>6. CASE UNCHANGED at
    BY <1>1, <2>6 DEF Listing
  <2>7. ASSUME NEW t \in Shards,
               AddBegins(t) \/ AddReturns(t) \/ RemoveBegins(t) \/ RemoveUnlinks(t)
                 \/ RemoveDeletes(t) \/ ListBegins(t)
        PROVE  FALSE
    <3>1. at[t] \notin Listing /\ \E place : at' = [at EXCEPT ![t] = place]
      BY <2>7, Zenon DEF AddBegins, AddReturns, RemoveBegins, RemoveUnlinks, RemoveDeletes,
                         ListBegins, Goes, Listing
    <3>2. QED BY <1>1, <2>3, <3>1
  <2>8. ASSUME NEW t \in Shards, ListCounts(t) \/ ListSelects(t), t # s
        PROVE  FALSE
    <3>1. \E place : at' = [at EXCEPT ![t] = place]
      BY <2>8, Zenon DEF ListCounts, ListSelects, ListEnds, Goes
    <3>2. QED BY <2>3, <2>8, <3>1
  <2>9. ~ DriverDies
    BY <2>2 DEF DriverDies
  <2>10. (\E t \in Shards : AddWrites(t)) \/ InitTable \/ UNCHANGED featuresVars => UNCHANGED at
    BY DEF AddWrites, InitTable, featuresVars, callVars
  <2>11. QED BY <1>1, <2>4, <2>5, <2>6, <2>7, <2>8, <2>9, <2>10 DEF FeaturesNext
<1>2. FeaturesInv /\ ListInv /\ [FeaturesNext]_featuresVars =>
        [\A s \in Shards :
            at[s] \in {"counting", "selecting"} /\ at'[s] = "idle"
                /\ ~ disturbed[s] /\ faults' = faults
            => listed[s] = before[s]]_featuresVars
  BY <1>1 DEF Listing
<1>3. QED BY <1>2, FeaturesInvariance, ListingsInvariance, PTL DEF FeaturesSpec, PagesMakeTheShard

-------------------------------------------------------------------------------
(***************************************************************************)
(* Databases and the shards on top of them.                                *)
(***************************************************************************)
(* The record of a shard is never marked closed. *)
Shard == [used : Nat, is_closed : {FALSE}, open : BOOLEAN, worker : BOOLEAN]

Grant == [db : DOMAIN shards, shard : Nat, count : 1..MaxBatch, new_created : BOOLEAN]

(* What a caller holds is a shard of the list, and a batch. *)
Types ==
    /\ shards \in [DOMAIN shards -> Seq(Shard)]
    /\ held \in [Callers -> Grant \cup {Nothing}]
    /\ \A c \in Callers : held[c] # Nothing =>
           held[c] \in Grant /\ held[c].shard \in DOMAIN shards[held[c].db]

Inv == Types /\ ClosedIsFull

USE BatchAssumption, WidthAssumption

(* The first shard that is not closed is the first of the list. *)
LEMMA FirstIsFirst ==
    ASSUME NEW list \in Seq(Shard)
    PROVE  /\ NotClosed(list) = DOMAIN list
           /\ NotClosed(list) # {} => 1 \in DOMAIN list /\ Min(NotClosed(list)) = 1
<1>1. NotClosed(list) = DOMAIN list
  <2>1. \A sh \in Shard : sh.is_closed = FALSE
    BY DEF Shard
  <2>2. \A i \in DOMAIN list : ~ list[i].is_closed
    BY <2>1
  <2>3. QED BY <2>2, Zenon DEF NotClosed
<1>2. ASSUME NotClosed(list) # {} PROVE 1 \in DOMAIN list /\ Min(NotClosed(list)) = 1
  <2>1. 1 \in DOMAIN list /\ \A i \in DOMAIN list : i \in Nat /\ 1 <= i
    BY <1>1, <1>2
  <2>2. \E x \in NotClosed(list) : \A y \in NotClosed(list) : x <= y
    BY <1>1, <2>1
  <2>3. /\ Min(NotClosed(list)) \in NotClosed(list)
        /\ \A y \in NotClosed(list) : Min(NotClosed(list)) <= y
    BY <2>2, Zenon DEF Min
  <2>4. QED BY <1>1, <2>1, <2>3
<1>3. QED BY <1>1, <1>2

(* Below the capacity the unsigned subtraction is the true one. *)
LEMMA RoomIsWhatIsLeft ==
    ASSUME NEW shard \in Shard, shard.used <= Capacity
    PROVE  Room(shard) = Capacity - shard.used
<1>1. Capacity - shard.used \in 0..(2^Width - 1)
  BY DEF Shard
<1>2. \A m \in Nat : \A n \in 0..(m - 1) : n % m = n
  OBVIOUS
<1>3. QED BY <1>1, <1>2 DEF Room

(* A list of shards that is longer or has other contents, but whose closed    *)
(* shards are full, keeps the invariant as long as nobody's shard is lost.    *)
LEMMA ListReplaced ==
    ASSUME Inv, NEW db \in DOMAIN shards, NEW list \in Seq(Shard),
           Len(list) >= Len(shards[db]),
           \A i \in DOMAIN list : ~ list[i].open => list[i].used + MaxBatch >= Capacity,
           shards' = [shards EXCEPT ![db] = list],
           \A c \in Callers : \/ held'[c] \in {held[c], Nothing}
                              \/ held'[c] \in Grant /\ held'[c].db = db
                                                   /\ held'[c].shard \in DOMAIN list,
           held' \in [Callers -> Grant \cup {Nothing}]
    PROVE  Inv'
<1>1. DOMAIN shards' = DOMAIN shards /\ shards' \in [DOMAIN shards -> Seq(Shard)]
  BY DEF Inv, Types
<1>2. Grant' = Grant
  BY <1>1 DEF Grant
<1>3. \A d \in DOMAIN shards : DOMAIN shards[d] \subseteq DOMAIN shards'[d]
  <2> SUFFICES ASSUME NEW d \in DOMAIN shards PROVE DOMAIN shards[d] \subseteq DOMAIN shards'[d]
    OBVIOUS
  <2>1. shards[d] \in Seq(Shard) /\ shards[db] \in Seq(Shard)
    BY DEF Inv, Types
  <2>2. CASE d = db
    BY <2>1, <2>2
  <2>3. CASE d # db
    BY <2>1, <2>3
  <2>4. QED BY <2>2, <2>3
<1>4. ASSUME NEW c \in Callers, held'[c] # Nothing
      PROVE  held'[c] \in Grant /\ held'[c].shard \in DOMAIN shards'[held'[c].db]
  <2>1. CASE held'[c] = held[c]
    <3>1. held[c] \in Grant /\ held[c].shard \in DOMAIN shards[held[c].db]
      BY <1>4, <2>1 DEF Inv, Types
    <3>2. held[c].db \in DOMAIN shards
      BY <3>1 DEF Grant
    <3>3. QED BY <2>1, <3>1, <3>2, <1>3
  <2>2. CASE held'[c] \in Grant /\ held'[c].db = db /\ held'[c].shard \in DOMAIN list
    BY <2>2, <1>1
  <2>3. QED BY <1>4, <2>1, <2>2
<1>5. ClosedIsFull'
  BY <1>1 DEF Inv, ClosedIsFull
<1>6. QED BY <1>1, <1>2, <1>4, <1>5 DEF Inv, Types

(* The walk closes the first shard, which has no room for the batch.          *)
LEMMA WalkClosesTheFull ==
    ASSUME Inv, NEW db \in DOMAIN shards, NEW count \in 1..MaxBatch,
           NEW list, list = CloseFirst(shards[db]),
           ~ (NotClosed(shards[db]) # {} /\ Fits(shards[db][Min(NotClosed(shards[db]))], count))
    PROVE  /\ list \in Seq(Shard) /\ Len(list) = Len(shards[db])
           /\ \A i \in DOMAIN list : list[i].used = shards[db][i].used
           /\ \A i \in DOMAIN list : ~ list[i].open => list[i].used + MaxBatch >= Capacity
<1>1. /\ shards[db] \in Seq(Shard)
      /\ \A i \in DOMAIN shards[db] :
             ~ shards[db][i].open => shards[db][i].used + MaxBatch >= Capacity
  BY DEF Inv, Types, ClosedIsFull
<1>2. CASE NotClosed(shards[db]) = {}
  BY <1>1, <1>2 DEF CloseFirst
<1>3. CASE NotClosed(shards[db]) # {}
  <2>1. 1 \in DOMAIN shards[db] /\ Min(NotClosed(shards[db])) = 1
    BY <1>1, <1>3, FirstIsFirst
  <2>2. list = [shards[db] EXCEPT ![1].open = FALSE]
    BY <1>3, <2>1 DEF CloseFirst
  <2>3. shards[db][1] \in Shard /\ ~ Fits(shards[db][1], count)
    BY <1>1, <1>3, <2>1
  <2>4. shards[db][1].used + MaxBatch >= Capacity
    <3>1. shards[db][1].used \in Nat /\ ~ (Room(shards[db][1]) > count)
      BY <2>3 DEF Shard, Fits
    <3>2. CASE shards[db][1].used <= Capacity
      <4>1. Room(shards[db][1]) = Capacity - shards[db][1].used
        BY <2>3, <3>2, RoomIsWhatIsLeft
      <4>2. QED BY <3>1, <4>1
    <3>3. QED BY <3>1, <3>2
  <2>5. [shards[db][1] EXCEPT !.open = FALSE] \in Shard
    BY <2>3 DEF Shard
  <2>6. /\ list \in Seq(Shard) /\ Len(list) = Len(shards[db])
        /\ list[1] = [shards[db][1] EXCEPT !.open = FALSE]
        /\ \A i \in DOMAIN list : i # 1 => list[i] = shards[db][i]
    BY <1>1, <2>1, <2>2, <2>5
  <2>7. list[1].used = shards[db][1].used
    BY <2>3, <2>6 DEF Shard
  <2>8. DOMAIN list = DOMAIN shards[db]
    BY <1>1, <2>6
  <2>9. ASSUME NEW i \in DOMAIN list
        PROVE  /\ list[i].used = shards[db][i].used
               /\ ~ list[i].open => list[i].used + MaxBatch >= Capacity
    BY <1>1, <2>4, <2>6, <2>7, <2>8
  <2>10. QED BY <2>6, <2>9
<1>4. QED BY <1>2, <1>3

LEMMA FindStep ==
    ASSUME Inv, NEW c \in Callers, NEW db \in DBs, NEW count \in 1..MaxBatch,
           FindOrCreateWritableShard(c, db, count)
    PROVE  Inv'
<1> DEFINE list == shards[db]
           first == Min(NotClosed(list))
<1>1. db \in DOMAIN shards /\ list \in Seq(Shard)
  BY DEF FindOrCreateWritableShard, Inv, Types
<1>2. CASE NotClosed(list) # {} /\ Fits(list[first], count)
  <2>1. Found(c, db, first, count)
    BY <1>2 DEF FindOrCreateWritableShard
  <2>2. first \in DOMAIN list /\ first \in Nat
    BY <1>1, <1>2, FirstIsFirst
  <2>3. [db |-> db, shard |-> first, count |-> count, new_created |-> FALSE] \in Grant
    BY <1>1, <2>2 DEF Grant
  <2>4. QED BY <1>1, <2>1, <2>2, <2>3 DEF Found, Inv, Types, ClosedIsFull, Grant
<1>3. CASE ~ (NotClosed(list) # {} /\ Fits(list[first], count))
  <2> DEFINE walked == CloseFirst(list)
             longer == Append(walked, NewShard)
             grant  == [db |-> db, shard |-> Len(walked) + 1, count |-> count,
                        new_created |-> TRUE]
  <2>1. Created(c, db, walked, count)
    BY <1>3 DEF FindOrCreateWritableShard
  <2>2. /\ walked \in Seq(Shard) /\ Len(walked) = Len(list)
        /\ \A i \in DOMAIN walked :
               ~ walked[i].open => walked[i].used + MaxBatch >= Capacity
    BY <1>1, <1>3, WalkClosesTheFull
  <2>3. NewShard \in Shard /\ NewShard.open
    BY DEF NewShard, Shard
  <2> HIDE DEF walked
  <2>4. /\ longer \in Seq(Shard) /\ Len(longer) = Len(walked) + 1
        /\ \A i \in DOMAIN longer : \/ i \in DOMAIN walked /\ longer[i] = walked[i]
                                    \/ longer[i] = NewShard
        /\ Len(walked) + 1 \in DOMAIN longer
    BY <2>2, <2>3
  <2>5. grant \in Grant
    BY <1>1, <2>2 DEF Grant
  <2>6. shards' = [shards EXCEPT ![db] = longer] /\ held' = [held EXCEPT ![c] = grant]
    BY <2>1 DEF Created
  <2> HIDE DEF longer, list
  <2>7. /\ held' \in [Callers -> Grant \cup {Nothing}]
        /\ \A d \in Callers : held'[d] = held[d] \/ held'[d] = grant
    BY <2>5, <2>6 DEF Inv, Types
  <2>8. \A i \in DOMAIN longer : ~ longer[i].open => longer[i].used + MaxBatch >= Capacity
    BY <2>2, <2>3, <2>4
  <2>9. Len(longer) >= Len(shards[db])
    BY <1>1, <2>2, <2>4 DEF list
  <2>10. grant.db = db /\ grant.shard \in DOMAIN longer
    BY <2>4
  <2> HIDE DEF grant
  <2>11. QED BY <1>1, <2>4, <2>5, <2>6, <2>7, <2>8, <2>9, <2>10, ListReplaced
<1>4. QED BY <1>2, <1>3

LEMMA WorkerGiven ==
    ASSUME NEW sh \in Shard, NEW new, new = [sh EXCEPT !.worker = TRUE]
    PROVE  new \in Shard /\ new.used = sh.used /\ sh.used \in Nat /\ new.open = sh.open
<1>1. new \in Shard
  BY DEF Shard
<1>2. new.used = sh.used /\ sh.used \in Nat
  BY DEF Shard
<1>3. new.open = sh.open
  BY DEF Shard
<1>4. QED BY <1>1, <1>2, <1>3

LEMMA BatchAdded ==
    ASSUME NEW sh \in Shard, NEW count \in Nat, NEW new, new = [sh EXCEPT !.used = @ + count]
    PROVE  new \in Shard /\ new.used = sh.used + count /\ new.open = sh.open
<1>1. sh.used + count \in Nat
  BY DEF Shard
<1>2. new \in Shard
  BY <1>1 DEF Shard
<1>3. new.used = sh.used + count
  BY DEF Shard
<1>4. new.open = sh.open
  BY DEF Shard
<1>5. QED BY <1>2, <1>3, <1>4

(* A new worker or what has been added to the shard a caller holds.           *)
LEMMA HeldStep ==
    ASSUME Inv, NEW c \in Callers, AssignWorker(c) \/ AddFeatures(c)
    PROVE  Inv'
<1> DEFINE db == held[c].db
           i  == held[c].shard
<1>1. /\ held[c] # Nothing
      /\ db \in DOMAIN shards /\ shards[db] \in Seq(Shard) /\ i \in DOMAIN shards[db]
      /\ shards[db][i] \in Shard
      /\ held[c].count \in Nat
      /\ \A k \in DOMAIN shards[db] :
             ~ shards[db][k].open => shards[db][k].used + MaxBatch >= Capacity
  <2>1. held[c] # Nothing
    BY DEF AssignWorker, AddFeatures
  <2>2. held[c] \in Grant /\ i \in DOMAIN shards[db]
    BY <2>1 DEF Inv, Types
  <2>3. db \in DOMAIN shards /\ held[c].count \in Nat
    BY <2>2, BatchAssumption DEF Grant
  <2>4. shards[db] \in Seq(Shard)
    BY <2>3 DEF Inv, Types
  <2>5. shards[db][i] \in Shard
    BY <2>2, <2>4
  <2>6. \A k \in DOMAIN shards[db] :
            ~ shards[db][k].open => shards[db][k].used + MaxBatch >= Capacity
    BY <2>3 DEF Inv, ClosedIsFull
  <2>7. QED BY <2>1, <2>2, <2>3, <2>4, <2>5, <2>6
<1>2. /\ held' \in [Callers -> Grant \cup {Nothing}]
      /\ \A d \in Callers : held'[d] \in {held[d], Nothing}
  BY DEF AssignWorker, AddFeatures, Inv, Types
<1>3. CASE UNCHANGED shards
  BY <1>2, <1>3 DEF Inv, Types, ClosedIsFull, Grant
<1>4. ASSUME NEW sh \in Shard, sh.used >= shards[db][i].used, sh.open = shards[db][i].open,
             shards' = [shards EXCEPT ![db] = [shards[db] EXCEPT ![i] = sh]]
      PROVE  Inv'
  <2> DEFINE list == [shards[db] EXCEPT ![i] = sh]
  <2>1. /\ list \in Seq(Shard) /\ Len(list) = Len(shards[db]) /\ list[i] = sh
        /\ \A k \in DOMAIN list : k \in DOMAIN shards[db] /\ (k # i => list[k] = shards[db][k])
    <3>1. PICK l : l = shards[db]
      OBVIOUS
    <3>2. PICK k : k = i
      OBVIOUS
    <3>3. l \in Seq(Shard) /\ k \in DOMAIN l /\ list = [l EXCEPT ![k] = sh]
      BY <1>1, <3>1, <3>2
    <3> HIDE DEF list, db, i
    <3>4. list \in Seq(Shard) /\ Len(list) = Len(l) /\ DOMAIN list = DOMAIN l /\ list[k] = sh
      BY <1>4, <3>3
    <3>5. \A j \in DOMAIN l : j # k => list[j] = l[j]
      BY <3>3
    <3>6. QED BY <3>1, <3>2, <3>4, <3>5
  <2>2. shards[db][i].used \in Nat /\ sh.used \in Nat
    BY <1>1, <1>4 DEF Shard
  <2>3. shards' = [shards EXCEPT ![db] = list]
    BY <1>4
  <2> HIDE DEF list, db, i
  <2>4. ASSUME NEW k \in DOMAIN list, ~ list[k].open
        PROVE  list[k].used + MaxBatch >= Capacity
    <3>1. CASE k = i
      <4>1. ~ shards[db][i].open
        BY <1>4, <2>1, <2>4, <3>1
      <4>2. shards[db][i].used + MaxBatch >= Capacity
        BY <1>1, <4>1
      <4>3. list[k] = sh /\ sh.used >= shards[db][i].used
        BY <1>4, <2>1, <3>1
      <4>4. Capacity \in Nat /\ MaxBatch \in Nat
        BY BatchAssumption
      <4>5. QED BY <2>2, <4>2, <4>3, <4>4
    <3>2. CASE k # i
      BY <1>1, <2>1, <2>4, <3>2
    <3>3. QED BY <3>1, <3>2
  <2>5. Len(list) >= Len(shards[db])
    BY <1>1, <2>1
  <2>6. QED BY <1>1, <1>2, <2>1, <2>3, <2>4, <2>5, ListReplaced
<1>5. CASE AssignWorker(c)
  <2>1. PICK sh : sh = [shards[db][i] EXCEPT !.worker = TRUE]
    OBVIOUS
  <2>2. shards' = [shards EXCEPT ![db] = [shards[db] EXCEPT ![i] = sh]]
    BY <1>1, <1>5, <2>1 DEF AssignWorker
  <2> HIDE DEF db, i
  <2>3. /\ sh \in Shard /\ sh.open = shards[db][i].open
        /\ sh.used = shards[db][i].used /\ sh.used \in Nat
    BY <1>1, <2>1, WorkerGiven
  <2>4. sh.used >= shards[db][i].used
    BY <2>3
  <2>5. QED BY <1>4, <2>2, <2>3, <2>4
<1>6. CASE AddFeatures(c) /\ ~ UNCHANGED shards
  <2>1. PICK sh : sh = [shards[db][i] EXCEPT !.used = @ + held[c].count]
    OBVIOUS
  <2>2. shards' = [shards EXCEPT ![db] = [shards[db] EXCEPT ![i] = sh]]
    BY <1>1, <1>6, <2>1 DEF AddFeatures
  <2>3. shards[db][i].used \in Nat
    BY <1>1 DEF Shard
  <2> HIDE DEF db, i
  <2>4. sh \in Shard /\ sh.used = shards[db][i].used + held[c].count
                    /\ sh.open = shards[db][i].open
    BY <1>1, <2>1, BatchAdded
  <2>5. sh.used >= shards[db][i].used
    BY <1>1, <2>3, <2>4
  <2>6. QED BY <1>4, <2>2, <2>4, <2>5
<1>7. QED BY <1>3, <1>5, <1>6

LEMMA StepInv == Inv /\ [Next]_vars => Inv'
<1> SUFFICES ASSUME Inv, [Next]_vars PROVE Inv'
  OBVIOUS
<1>1. CASE UNCHANGED <<shards, held>>
  BY <1>1 DEF Inv, Types, ClosedIsFull, Grant
<1>2. ASSUME NEW db \in DBs, CreateDB(db) \/ DeleteDB(db)
      PROVE  Inv'
  BY <1>1, <1>2 DEF CreateDB, DeleteDB
<1>3. CASE ListDBs
  BY <1>1, <1>3 DEF ListDBs
<1>4. CASE load_db_shards \/ Die
  <2>1. PICK X : shards' = [db \in X |-> << >>]
    BY <1>4 DEF load_db_shards, Die
  <2>2. \A c \in Callers : held'[c] = Nothing
    BY <1>4 DEF load_db_shards, Die
  <2>3. held' \in [Callers -> {Nothing}]
    BY <1>4, <2>2 DEF load_db_shards, Die, Inv, Types
  <2>4. shards' \in [DOMAIN shards' -> Seq(Shard)]
    BY <2>1
  <2>5. \A db \in DOMAIN shards' : DOMAIN shards'[db] = {}
    BY <2>1
  <2>6. QED BY <2>2, <2>3, <2>4, <2>5 DEF Inv, Types, ClosedIsFull
<1>5. ASSUME NEW c \in Callers, AssignWorker(c) \/ AddFeatures(c)
      PROVE  Inv'
  BY <1>5, HeldStep
<1>6. ASSUME NEW c \in Callers,
             NEW db \in DBs, NEW count \in 1..MaxBatch, FindOrCreateWritableShard(c, db, count)
      PROVE  Inv'
  BY <1>6, FindStep
<1>7. QED BY <1>1, <1>2, <1>3, <1>4, <1>5, <1>6 DEF Next, vars

THEOREM Invariance == Spec => []Inv
<1>1. Init => Inv
  BY DEF Init, Inv, Types, ClosedIsFull, Grant
<1>2. QED BY <1>1, StepInv, PTL DEF Spec

(* A shard is closed for writing only when a batch does not fit any more, for *)
(* any number of callers that are given the same shard.                       *)
THEOREM ClosedShardsAreFull == Spec => []ClosedIsFull
<1>1. Inv => ClosedIsFull
  BY DEF Inv
<1>2. QED BY <1>1, Invariance, PTL

-------------------------------------------------------------------------------
(* One caller. *)

(* What a caller was given a shard for still fits into it: true as long as no *)
(* other caller can have been given the same.                                 *)
RoomIsKept ==
    /\ \A db \in DOMAIN shards : \A i \in DOMAIN shards[db] : shards[db][i].used <= Capacity
    /\ \A c \in Callers :
          held[c] # Nothing => HeldShard(c).used + held[c].count <= Capacity

LEMMA RoomStep ==
    ASSUME \A c, d \in Callers : c = d, MaxBatch <= Capacity, Inv, RoomIsKept, [Next]_vars
    PROVE  RoomIsKept'
<1>1. CASE UNCHANGED <<shards, held>>
  BY <1>1 DEF RoomIsKept, HeldShard
<1>2. ASSUME NEW db \in DBs, CreateDB(db) \/ DeleteDB(db)
      PROVE  RoomIsKept'
  BY <1>1, <1>2 DEF CreateDB, DeleteDB
<1>3. CASE ListDBs
  BY <1>1, <1>3 DEF ListDBs
<1>4. CASE load_db_shards \/ Die
  <2>1. PICK X : shards' = [db \in X |-> << >>]
    BY <1>4 DEF load_db_shards, Die
  <2>2. \A c \in Callers : held'[c] = Nothing
    BY <1>4 DEF load_db_shards, Die
  <2>3. \A db \in DOMAIN shards' : DOMAIN shards'[db] = {}
    BY <2>1
  <2>4. QED BY <2>2, <2>3 DEF RoomIsKept
<1>5. ASSUME NEW c \in Callers, AssignWorker(c) \/ AddFeatures(c)
      PROVE  RoomIsKept'
  <2> DEFINE db == held[c].db
             i  == held[c].shard
  <2>1. /\ held[c] # Nothing
        /\ db \in DOMAIN shards /\ shards[db] \in Seq(Shard) /\ i \in DOMAIN shards[db]
        /\ shards[db][i] \in Shard /\ held[c].count \in Nat
        /\ shards[db][i].used + held[c].count <= Capacity
    <3>1. held[c] # Nothing
      BY <1>5 DEF AssignWorker, AddFeatures
    <3>2. held[c] \in Grant /\ i \in DOMAIN shards[db]
      BY <3>1 DEF Inv, Types
    <3>3. db \in DOMAIN shards /\ held[c].count \in Nat
      BY <3>2, BatchAssumption DEF Grant
    <3>4. shards[db] \in Seq(Shard)
      BY <3>3 DEF Inv, Types
    <3>5. shards[db][i] \in Shard
      BY <3>2, <3>4
    <3>6. shards[db][i].used + held[c].count <= Capacity
      BY <3>1 DEF RoomIsKept, HeldShard
    <3>7. QED BY <3>1, <3>2, <3>3, <3>4, <3>5, <3>6
  <2>2. CASE UNCHANGED shards
    BY <1>5, <2>2 DEF AssignWorker, AddFeatures, RoomIsKept, HeldShard, Inv, Types
  <2>3. ASSUME NEW sh, sh.used <= Capacity,
               \/ held' = [held EXCEPT ![c] = Nothing]
               \/ UNCHANGED held /\ sh.used = shards[db][i].used,
               shards' = [shards EXCEPT ![db] = [shards[db] EXCEPT ![i] = sh]]
        PROVE  RoomIsKept'
    <3>1. /\ DOMAIN shards' = DOMAIN shards
          /\ \A d \in DOMAIN shards : DOMAIN shards'[d] = DOMAIN shards[d]
          /\ \A d \in DOMAIN shards : \A k \in DOMAIN shards[d] :
                 shards'[d][k] = IF d = db /\ k = i THEN sh ELSE shards[d][k]
      BY <2>1, <2>3 DEF Inv, Types
    <3>2. \A d \in DOMAIN shards' : \A k \in DOMAIN shards'[d] : shards'[d][k].used <= Capacity
      BY <2>3, <3>1 DEF RoomIsKept
    <3>3. ASSUME NEW d \in Callers, held'[d] # Nothing
          PROVE  HeldShard(d)'.used + held'[d].count <= Capacity
      <4>1. d = c /\ held' = held /\ sh.used = shards[db][i].used
        BY <2>3, <3>3 DEF Inv, Types
      <4>2. QED BY <2>1, <3>1, <4>1 DEF HeldShard
    <3>4. QED BY <3>2, <3>3 DEF RoomIsKept
  <2>4. CASE AssignWorker(c)
    <3>1. PICK sh : sh = [shards[db][i] EXCEPT !.worker = TRUE]
      OBVIOUS
    <3>2. /\ shards' = [shards EXCEPT ![db] = [shards[db] EXCEPT ![i] = sh]]
          /\ UNCHANGED held
      BY <2>1, <2>4, <3>1 DEF AssignWorker
    <3> HIDE DEF db, i
    <3>3. sh.used = shards[db][i].used /\ sh.used \in Nat
      BY <2>1, <3>1, WorkerGiven
    <3>4. sh.used <= Capacity
      BY <2>1, <3>3
    <3>5. QED BY <2>3, <3>2, <3>3, <3>4
  <2>5. CASE AddFeatures(c) /\ ~ UNCHANGED shards
    <3>1. PICK sh : sh = [shards[db][i] EXCEPT !.used = @ + held[c].count]
      OBVIOUS
    <3>2. /\ shards' = [shards EXCEPT ![db] = [shards[db] EXCEPT ![i] = sh]]
          /\ held' = [held EXCEPT ![c] = Nothing]
      BY <2>1, <2>5, <3>1 DEF AddFeatures
    <3> HIDE DEF db, i
    <3>3. sh.used = shards[db][i].used + held[c].count
      BY <2>1, <3>1, BatchAdded
    <3>4. sh.used <= Capacity
      BY <2>1, <3>3
    <3>5. \/ held' = [held EXCEPT ![c] = Nothing]
          \/ UNCHANGED held /\ sh.used = shards[db][i].used
      BY <3>2
    <3>6. QED BY <2>3, <3>2, <3>4, <3>5
  <2>6. QED BY <1>5, <2>2, <2>4, <2>5
<1>6. ASSUME NEW c \in Callers, NEW db \in DBs, NEW count \in 1..MaxBatch,
             FindOrCreateWritableShard(c, db, count)
      PROVE  RoomIsKept'
  <2> DEFINE list == shards[db]
             first == Min(NotClosed(list))
  <2>1. db \in DOMAIN shards /\ list \in Seq(Shard)
    BY <1>6 DEF FindOrCreateWritableShard, Inv, Types
  <2>2. CASE NotClosed(list) # {} /\ Fits(list[first], count)
    <3>1. Found(c, db, first, count)
      BY <1>6, <2>2 DEF FindOrCreateWritableShard
    <3>2. first \in DOMAIN list /\ list[first] \in Shard
      BY <2>1, <2>2, FirstIsFirst
    <3>3. list[first].used <= Capacity /\ list[first].used \in Nat
      BY <2>1, <3>2 DEF RoomIsKept, Shard
    <3>4. Capacity - list[first].used > count
      BY <2>2, <3>2, <3>3, RoomIsWhatIsLeft DEF Fits
    <3>5. \A d \in Callers : d = c /\ held'[d].db = db /\ held'[d].shard = first
                                   /\ held'[d].count = count
      BY <3>1 DEF Found, Inv, Types
    <3> HIDE DEF first
    <3>6. QED BY <3>1, <3>3, <3>4, <3>5 DEF Found, RoomIsKept, HeldShard
  <2>3. CASE ~ (NotClosed(list) # {} /\ Fits(list[first], count))
    <3>1. PICK walked : walked = CloseFirst(list)
      OBVIOUS
    <3>2. Created(c, db, walked, count)
      BY <1>6, <2>3, <3>1 DEF FindOrCreateWritableShard
    <3>3. /\ walked \in Seq(Shard) /\ Len(walked) = Len(list)
          /\ \A k \in DOMAIN walked : walked[k].used = list[k].used
      BY <2>1, <2>3, <3>1, WalkClosesTheFull
    <3>4. PICK longer : longer = Append(walked, NewShard)
      OBVIOUS
    <3>5. /\ longer[Len(walked) + 1] = NewShard
          /\ \A k \in DOMAIN longer : \/ k \in DOMAIN walked /\ longer[k] = walked[k]
                                      \/ longer[k] = NewShard
          /\ DOMAIN walked = DOMAIN list
      BY <2>1, <3>3, <3>4
    <3>6. NewShard.used = 0
      BY DEF NewShard
    <3>7. \A k \in DOMAIN longer : longer[k].used <= Capacity
      BY <2>1, <3>3, <3>5, <3>6 DEF RoomIsKept
    <3>8. shards' = [shards EXCEPT ![db] = longer]
      BY <3>2, <3>4 DEF Created
    <3>9. \A d \in Callers : d = c /\ held'[d].db = db /\ held'[d].shard = Len(walked) + 1
                                   /\ held'[d].count = count
      BY <3>2 DEF Created, Inv, Types
    <3>10. /\ DOMAIN shards' = DOMAIN shards /\ shards'[db] = longer
           /\ \A d \in DOMAIN shards : d # db => shards'[d] = shards[d]
      BY <2>1, <3>8 DEF Inv, Types
    <3>11. \A d \in Callers : HeldShard(d)'.used + held'[d].count <= Capacity
      BY <3>5, <3>6, <3>9, <3>10 DEF HeldShard
    <3>12. QED BY <3>7, <3>10, <3>11 DEF RoomIsKept
  <2>4. QED BY <2>2, <2>3
<1>7. QED BY <1>1, <1>2, <1>3, <1>4, <1>5, <1>6 DEF Next, vars

(* A single caller does not fill a shard beyond its capacity, however its     *)
(* batches, failed adds, reloads and restarts follow one another, if none of  *)
(* its batches is larger than a shard: a new shard is given to it unchecked.  *)
THEOREM OneCallerHandlesFull ==
    ASSUME IsFiniteSet(Callers), Cardinality(Callers) = 1, MaxBatch <= Capacity
    PROVE  Spec => []FullIsHandled
<1>1. \A c, d \in Callers : c = d
  BY FS_Singleton
<1>2. Init => RoomIsKept
  BY DEF Init, RoomIsKept
<1>3. Inv /\ RoomIsKept /\ [Next]_vars => RoomIsKept'
  BY <1>1, RoomStep
<1>4. RoomIsKept => FullIsHandled
  BY DEF RoomIsKept, FullIsHandled
<1>5. QED BY <1>2, <1>3, <1>4, Invariance, PTL DEF Spec

-------------------------------------------------------------------------------
(* The cache of the driver. *)

TableIsSequence == Len(dbs) \in Nat /\ DOMAIN dbs = 1..Len(dbs)

CacheInv == TableIsSequence /\ CachedAreLive

(* What a select that fails half way has read is a prefix of what there is.   *)
LEMMA PrefixesArePrefix ==
    ASSUME NEW S, NEW t \in Seq(S), NEW s \in Prefixes(t)
    PROVE  IsPrefix(s, t)
<1>1. PICK l \in 0..Len(t) : s = SubSeq(t, 1, l)
  BY DEF Prefixes
<1>2. l \in Nat /\ l <= Len(t) /\ Len(t) \in Nat
  BY <1>1
<1>3. s \in Seq(S) /\ Len(s) = l
  BY <1>1, <1>2, SubSeqProperties
<1>4. SubSeq(s, 1, Len(s)) = s
  BY <1>3
<1>5. QED BY <1>1, <1>2, <1>3, <1>4 DEF IsPrefix

LEMMA LiveIsSequence == TableIsSequence => \E S : LiveDBs \in Seq(S)
<1> SUFFICES ASSUME TableIsSequence PROVE \E S : LiveDBs \in Seq(S)
  OBVIOUS
<1> DEFINE ids  == [i \in DOMAIN dbs |-> dbs[i].db_id]
           live == {i \in DOMAIN dbs : ~ dbs[i].is_deleted}
           n    == Cardinality(live)
           S    == {ids[Nth(live, k)] : k \in 1..n}
<1>1. n \in Nat
  BY PlacesAreFinite DEF TableIsSequence
<1>2. LiveDBs = [k \in 1..n |-> ids[Nth(live, k)]]
  BY DEF LiveDBs, Pick
<1> HIDE DEF ids, n
<1>3. LiveDBs \in [1..n -> S]
  BY <1>2
<1> HIDE DEF S
<1>4. LiveDBs \in Seq(S)
  BY <1>1, <1>3
<1>5. QED BY <1>4

(* Everything that changes the table forgets the cache; what fills it again   *)
(* is read from the table as it is.                                           *)
LEMMA CacheStep == CacheInv /\ [Next]_vars => CacheInv'
<1> SUFFICES ASSUME CacheInv, [Next]_vars PROVE CacheInv'
  OBVIOUS
<1>1. ASSUME UNCHANGED dbs, cached' \in Listed \cup {cached} PROVE CacheInv'
  <2>1. TableIsSequence' /\ LiveDBs' = LiveDBs
    BY <1>1 DEF CacheInv, TableIsSequence, LiveDBs
  <2>2. CASE cached' = cached
    BY <2>1, <2>2 DEF CacheInv, CachedAreLive
  <2>3. CASE cached' \in Prefixes(LiveDBs)
    <3>1. PICK S : LiveDBs \in Seq(S)
      BY LiveIsSequence DEF CacheInv
    <3>2. IsPrefix(cached', LiveDBs)
      BY <2>3, <3>1, PrefixesArePrefix
    <3>3. QED BY <2>1, <3>2 DEF CacheInv, CachedAreLive
  <2>4. QED BY <1>1, <2>2, <2>3 DEF Listed, list_user_dbs
<1>2. ASSUME TableIsSequence', cached' = << >> PROVE CacheInv'
  <2>1. (\E S : LiveDBs \in Seq(S))'
    BY <1>2, LiveIsSequence, PTL
  <2>2. PICK S : LiveDBs' \in Seq(S)
    BY <2>1
  <2>3. << >> \in Prefixes(LiveDBs')
    <3>1. SubSeq(LiveDBs', 1, 0) = << >> /\ 0 \in 0..Len(LiveDBs')
      BY <2>2
    <3>2. QED BY <3>1, Zenon DEF Prefixes
  <2>4. QED BY <1>2, <2>2, <2>3, PrefixesArePrefix DEF CacheInv, CachedAreLive
<1>3. ASSUME NEW db \in DBs, CreateDB(db) PROVE CacheInv'
  <2>1. dbs' = dbs \/ dbs' = Append(dbs, [db_id |-> db, is_deleted |-> FALSE])
    BY <1>3 DEF CreateDB, insert_into_user_dbs
  <2>2. TableIsSequence'
    BY <2>1 DEF CacheInv, TableIsSequence
  <2>3. QED BY <1>2, <1>3, <2>2 DEF CreateDB
<1>4. ASSUME NEW db \in DBs, DeleteDB(db) PROVE CacheInv'
  <2>1. dbs' = dbs \/ DOMAIN dbs' = DOMAIN dbs
    BY <1>4 DEF DeleteDB, delete_user_db
  <2>2. TableIsSequence'
    BY <2>1 DEF CacheInv, TableIsSequence
  <2>3. QED BY <1>2, <1>4, <2>2 DEF DeleteDB
<1>5. CASE ListDBs \/ load_db_shards
  BY <1>1, <1>5 DEF ListDBs, load_db_shards
<1>6. CASE Die
  BY <1>2, <1>6 DEF Die, CacheInv, TableIsSequence
<1>7. ASSUME NEW c \in Callers,
             \/ \E db \in DBs, count \in 1..MaxBatch : FindOrCreateWritableShard(c, db, count)
             \/ AssignWorker(c) \/ AddFeatures(c)
      PROVE  CacheInv'
  <2>1. UNCHANGED <<dbs, cached>>
    BY <1>7 DEF FindOrCreateWritableShard, AssignWorker, AddFeatures
  <2>2. QED BY <1>1, <2>1
<1>8. CASE UNCHANGED vars
  BY <1>1, <1>8 DEF vars
<1>9. QED BY <1>3, <1>4, <1>5, <1>6, <1>7, <1>8 DEF Next

(* What the driver answers from its cache are databases that exist, in the    *)
(* order of the table, for any callers and databases, whatever was created,   *)
(* deleted, failed or restarted since the cache was filled.                   *)
THEOREM CacheIsLive == Spec => []CachedAreLive
<1>1. Init => CacheInv
  <2> SUFFICES ASSUME Init PROVE CacheInv
    OBVIOUS
  <2>1. TableIsSequence
    BY DEF Init, TableIsSequence
  <2>2. PICK S : LiveDBs \in Seq(S)
    BY <2>1, LiveIsSequence
  <2>3. cached \in Prefixes(LiveDBs)
    <3>1. SubSeq(LiveDBs, 1, 0) = << >> /\ 0 \in 0..Len(LiveDBs)
      BY <2>2
    <3>2. QED BY <3>1, Zenon DEF Prefixes, Init
  <2>4. QED BY <2>1, <2>2, <2>3, PrefixesArePrefix DEF CacheInv, CachedAreLive
<1>2. CacheInv => CachedAreLive
  BY DEF CacheInv
<1>3. QED BY <1>1, <1>2, CacheStep, PTL DEF Spec
===============================================================================
