-------------------------- MODULE SearchWorkerProofs --------------------------
(***************************************************************************)
(* For any databases, shards and batches: what the worker holds is in the  *)
(* first shard of its database that is open for writing, the one that      *)
(* RemoveFeatures reaches.  It rests on shards being listed in the order   *)
(* they were first served in and never opened, closed or dropped after.    *)
(*                                                                         *)
(* And what a search of any shards returns are the best of all they hold,  *)
(* best first: a heap has the best of what it has been fed, step by step,  *)
(* and the merge of the lists of the shards the best of their best.        *)
(***************************************************************************)
EXTENDS SearchWorker, SequenceLemmas, TLAPS

Caches == UNION {[D -> Scores] : D \in SUBSET FeatureIds}
Shard == [shard_id : ShardIds, is_closed : BOOLEAN, loaded : BOOLEAN, cached : Caches]

Types == shards \in [DBs -> Seq(Shard)]

(* Where the features are; FindShard without the choice. *)
IsFirst(i, S) == i \in S /\ \A j \in S : i <= j

OnlyFirstHolds ==
    \A db \in DBs : \A i \in DOMAIN shards[db] :
        DOMAIN shards[db][i].cached # {} => IsFirst(i, Writable(db))

Inv == Types /\ OnlyFirstHolds

(* A set of numbers up to n has a greatest one. *)
LEMMA MaxIsThere ==
    ASSUME NEW n \in Nat, NEW S \in SUBSET (0..n), S # {}
    PROVE  Max(S) \in S /\ \A y \in S : Max(S) >= y
<1> DEFINE T == {n - x : x \in S}
<1>1. T \in SUBSET Nat /\ T # {}
  <2>1. \A x \in S : n - x \in Nat
    OBVIOUS
  <2>2. QED BY <2>1
<1>2. PICK t \in T : \A y \in T : t <= y
  BY <1>1, LeastIsThere
<1>3. PICK x \in S : t = n - x
  OBVIOUS
<1>4. \A y \in S : n - x <= n - y
  BY <1>2, <1>3
<1>5. \A y \in S : x >= y
  BY <1>4
<1>6. QED BY <1>5, Zenon DEF Max

LEMMA FirstIsFound ==
    ASSUME NEW S \in SUBSET Nat
    PROVE  /\ S # {} => IsFirst(Min(S), S)
           /\ \A i : IsFirst(i, S) => i = Min(S)
<1>1. S # {} => IsFirst(Min(S), S)
  <2> SUFFICES ASSUME S # {} PROVE IsFirst(Min(S), S)
    OBVIOUS
  <2>1. \E x \in S : \A y \in S : x <= y
    BY LeastIsThere
  <2>2. Min(S) \in S /\ \A y \in S : Min(S) <= y
    BY <2>1, Zenon DEF Min
  <2>3. QED BY <2>2 DEF IsFirst
<1>2. ASSUME NEW i, IsFirst(i, S) PROVE i = Min(S)
  <2>1. IsFirst(Min(S), S)
    BY <1>1, <1>2 DEF IsFirst
  <2>2. i \in Nat /\ Min(S) \in Nat /\ i <= Min(S) /\ Min(S) <= i
    BY <1>2, <2>1 DEF IsFirst
  <2>3. QED BY <2>2
<1>3. QED BY <1>1, <1>2

(* What a batch makes of a cache is a cache. *)
LEMMA CacheIsCache ==
    ASSUME NEW cached \in Caches, NEW fts \in Batches
    PROVE  Cache(cached, fts) \in Caches
<1>1. PICK n \in 1..MaxBatch : fts \in [1..n -> Items]
  BY DEF Batches
<1>2. PICK D \in SUBSET FeatureIds : cached \in [D -> Scores]
  BY DEF Caches
<1>3. /\ n \in Nat /\ DOMAIN fts = 1..n /\ Len(fts) = n
      /\ \A k \in 1..n : fts[k].feature_id \in FeatureIds /\ fts[k].score \in Scores
  BY <1>1, BoundsAssumption DEF Items
<1> DEFINE E == D \cup {fts[k].feature_id : k \in DOMAIN fts}
           LastOf(id) == SelectLastInSeq(fts, LAMBDA ft : ft.feature_id = id)
           Value(id) == IF LastOf(id) = 0 THEN cached[id] ELSE fts[LastOf(id)].score
<1>4. Cache(cached, fts) = [id \in E |-> Value(id)]
  BY <1>2 DEF Cache
<1>5. E \in SUBSET FeatureIds
  BY <1>3
<1>6. ASSUME NEW id \in E PROVE Value(id) \in Scores
  <2> DEFINE I == {k \in 1..Len(fts) : fts[k].feature_id = id}
  <2>1. LastOf(id) = IF I # {} THEN Max(I) ELSE 0
    BY DEF SelectLastInSeq
  <2>2. CASE I # {}
    <3>1. I \in SUBSET (0..n)
      BY <1>3
    <3>2. Max(I) \in I /\ I \in SUBSET (1..n)
      BY <1>3, <2>2, <3>1, MaxIsThere
    <3>3. LastOf(id) \in 1..n
      BY <2>1, <2>2, <3>2
    <3>4. QED BY <1>3, <3>3
  <2>3. CASE I = {}
    <3>1. LastOf(id) = 0 /\ id \in D
      BY <1>3, <1>6, <2>1, <2>3
    <3>2. QED BY <1>2, <3>1
  <2>4. QED BY <2>2, <2>3
<1> HIDE DEF E, Value
<1>7. [id \in E |-> Value(id)] \in [E -> Scores]
  BY <1>6
<1>8. QED BY <1>4, <1>5, <1>7 DEF Caches

(* A shard is served at the end of the list, and the first open one stays. *)
LEMMA ServeStep ==
    ASSUME Inv, NEW db \in DBs, NEW id \in ShardIds, NEW closed \in BOOLEAN,
           ServeShards(db, id, closed)
    PROVE  Inv'
<1>1. PICK shard \in NewShards(db, id, closed) : ManageShard(db, shard)
  BY DEF ServeShards
<1>2. shard \in Shard /\ shard.cached = << >>
  <2>1. << >> \in Caches
    <3>1. << >> \in [{} -> Scores]
      OBVIOUS
    <3>2. QED BY <3>1 DEF Caches
  <2>2. QED BY <2>1 DEF NewShards, Shard
<1>3. CASE UNCHANGED shards
  BY <1>3 DEF Inv, Types, OnlyFirstHolds, Writable
<1>4. CASE shards' = [shards EXCEPT ![db] = Append(@, shard)]
  <2>1. shards[db] \in Seq(Shard)
    BY DEF Inv, Types
  <2>2. Append(shards[db], shard) \in Seq(Shard)
    BY <1>2, <2>1
  <2>3. Types'
    BY <1>4, <2>2 DEF Inv, Types
  <2>4. ASSUME NEW d \in DBs, NEW i \in DOMAIN shards'[d], DOMAIN shards'[d][i].cached # {}
        PROVE  IsFirst(i, Writable(d)')
    <3>1. CASE d = db
      <4>1. shards'[d] = Append(shards[db], shard)
        BY <1>4, <3>1 DEF Inv, Types
      <4>2. /\ Len(shards[db]) \in Nat /\ DOMAIN shards[db] = 1..Len(shards[db])
            /\ DOMAIN shards'[d] = 1..(Len(shards[db]) + 1)
            /\ \A j \in 1..Len(shards[db]) : shards'[d][j] = shards[db][j]
            /\ shards'[d][Len(shards[db]) + 1] = shard
        BY <1>2, <2>1, <4>1
      <4>3. DOMAIN shard.cached = {}
        BY <1>2
      <4>4. i \in 1..Len(shards[db]) /\ shards'[d][i] = shards[db][i]
        BY <2>4, <4>2, <4>3
      <4>5. IsFirst(i, Writable(db))
        BY <2>4, <4>2, <4>4 DEF Inv, OnlyFirstHolds
      <4>6. i \in Writable(d)'
        BY <4>2, <4>4, <4>5 DEF IsFirst, Writable
      <4>7. ASSUME NEW j \in Writable(d)' PROVE i <= j
        <5>1. j \in Writable(db) \/ j = Len(shards[db]) + 1
          BY <4>2, <4>7 DEF Writable
        <5>2. QED BY <4>2, <4>4, <4>5, <5>1 DEF IsFirst
      <4>8. QED BY <4>6, <4>7 DEF IsFirst
    <3>2. CASE d # db
      <4>1. shards'[d] = shards[d]
        BY <1>4, <3>2 DEF Inv, Types
      <4>2. QED BY <2>4, <4>1 DEF Inv, OnlyFirstHolds, Writable
    <3>3. QED BY <3>1, <3>2
  <2>5. QED BY <2>3, <2>4 DEF Inv, OnlyFirstHolds
<1>5. QED BY <1>1, <1>3, <1>4 DEF ManageShard

(* A step that changes the cache of the first open shard only. *)
LEMMA FirstStep ==
    ASSUME Inv, NEW db \in DBs, Writable(db) # {}, NEW cached \in Caches,
           shards' = [shards EXCEPT ![db][FindShard(db)].cached = cached]
    PROVE  Inv'
<1> DEFINE first == FindShard(db)
<1>1. shards[db] \in Seq(Shard) /\ Len(shards[db]) \in Nat
      /\ DOMAIN shards[db] = 1..Len(shards[db])
  BY DEF Inv, Types
<1>2. first \in 1..Len(shards[db]) /\ IsFirst(first, Writable(db))
  <2>1. Writable(db) \in SUBSET Nat /\ Writable(db) \subseteq DOMAIN shards[db]
    BY <1>1 DEF Writable
  <2>2. QED BY <1>1, <2>1, FirstIsFound DEF FindShard, IsFirst
<1> HIDE DEF first
<1> DEFINE new == [shards[db] EXCEPT ![first].cached = cached]
<1>3. /\ new \in Seq(Shard) /\ DOMAIN new = DOMAIN shards[db]
      /\ \A i \in DOMAIN shards[db] :
            /\ new[i].is_closed = shards[db][i].is_closed
            /\ i # first => new[i] = shards[db][i]
  <2>1. shards[db][first] \in Shard
    BY <1>1, <1>2
  <2>2. [shards[db][first] EXCEPT !.cached = cached] \in Shard
    BY <2>1 DEF Shard
  <2>3. [shards[db][first] EXCEPT !.cached = cached].is_closed = shards[db][first].is_closed
    BY <2>1 DEF Shard
  <2>4. new = [shards[db] EXCEPT ![first] = [shards[db][first] EXCEPT !.cached = cached]]
    BY <1>1, <1>2
  <2>5. QED BY <1>1, <1>2, <2>2, <2>3, <2>4
<1>4. shards' = [shards EXCEPT ![db] = new]
  BY DEF first
<1> HIDE DEF new
<1>5. Types'
  BY <1>3, <1>4 DEF Inv, Types
<1>6. ASSUME NEW d \in DBs PROVE Writable(d)' = Writable(d)
  <2>1. shards'[d] = IF d = db THEN new ELSE shards[d]
    BY <1>4 DEF Inv, Types
  <2>2. QED BY <1>3, <2>1 DEF Writable
<1>7. ASSUME NEW d \in DBs, NEW i \in DOMAIN shards'[d], DOMAIN shards'[d][i].cached # {}
      PROVE  IsFirst(i, Writable(d)')
  <2>1. shards'[d] = IF d = db THEN new ELSE shards[d]
    BY <1>4 DEF Inv, Types
  <2>2. CASE d = db /\ i = first
    BY <1>2, <1>6, <2>2
  <2>3. CASE ~ (d = db /\ i = first)
    <3>1. i \in DOMAIN shards[d] /\ shards'[d][i] = shards[d][i]
      BY <1>3, <1>7, <2>1, <2>3
    <3>2. QED BY <1>6, <1>7, <3>1 DEF Inv, OnlyFirstHolds
  <2>4. QED BY <2>2, <2>3
<1>8. QED BY <1>5, <1>7 DEF Inv, OnlyFirstHolds

LEMMA AddStep ==
    ASSUME Inv, NEW db \in DBs, NEW fts \in Batches, AddFeatures(db, fts)
    PROVE  Inv'
<1>1. CASE UNCHANGED shards
  BY <1>1 DEF Inv, Types, OnlyFirstHolds, Writable
<1>2. CASE ~ UNCHANGED shards
  <2> DEFINE i == FindShard(db)
  <2>1. /\ Writable(db) # {}
        /\ shards' = [shards EXCEPT ![db][i].cached = Cache(@, fts)]
    BY <1>2 DEF AddFeatures
  <2>2. Writable(db) \in SUBSET Nat /\ Writable(db) \subseteq DOMAIN shards[db]
        /\ shards[db] \in Seq(Shard)
    BY DEF Inv, Types, Writable
  <2>3. i \in DOMAIN shards[db]
    BY <2>1, <2>2, FirstIsFound DEF FindShard, IsFirst
  <2>4. shards[db][i].cached \in Caches
    <3>1. shards[db][i] \in Shard
      BY <2>2, <2>3
    <3>2. QED BY <3>1 DEF Shard
  <2>5. Cache(shards[db][i].cached, fts) \in Caches
    BY <2>4, CacheIsCache
  <2>6. shards' = [shards EXCEPT ![db][i].cached = Cache(shards[db][i].cached, fts)]
    BY <2>1, <2>2, <2>3 DEF Inv, Types
  <2>7. QED BY <2>1, <2>5, <2>6, FirstStep
<1>3. QED BY <1>1, <1>2

LEMMA RemoveStep ==
    ASSUME Inv, NEW db \in DBs, NEW ids \in SUBSET FeatureIds, RemoveFeatures(db, ids)
    PROVE  Inv'
<1>1. CASE UNCHANGED shards
  BY <1>1 DEF Inv, Types, OnlyFirstHolds, Writable
<1>2. CASE ~ UNCHANGED shards
  <2> DEFINE i == FindShard(db)
             left == Restrict(shards[db][i].cached, DOMAIN shards[db][i].cached \ ids)
  <2>1. /\ Writable(db) # {}
        /\ shards' = [shards EXCEPT ![db][i].cached = Restrict(@, DOMAIN @ \ ids)]
    BY <1>2 DEF RemoveFeatures
  <2>2. Writable(db) \in SUBSET Nat /\ Writable(db) \subseteq DOMAIN shards[db]
        /\ shards[db] \in Seq(Shard)
    BY DEF Inv, Types, Writable
  <2>3. i \in DOMAIN shards[db]
    BY <2>1, <2>2, FirstIsFound DEF FindShard, IsFirst
  <2>4. PICK D \in SUBSET FeatureIds : shards[db][i].cached \in [D -> Scores]
    <3>1. shards[db][i] \in Shard
      BY <2>2, <2>3
    <3>2. shards[db][i].cached \in Caches
      BY <3>1 DEF Shard
    <3>3. QED BY <3>2 DEF Caches
  <2>5. left \in [D \ ids -> Scores]
    BY <2>4 DEF Restrict
  <2>6. left \in Caches
    BY <2>5 DEF Caches
  <2>7. shards' = [shards EXCEPT ![db][i].cached = left]
    BY <2>1, <2>2, <2>3 DEF Inv, Types
  <2> HIDE DEF left
  <2>8. QED BY <2>1, <2>6, <2>7, FirstStep
<1>3. QED BY <1>1, <1>2

LEMMA Invariance == Spec => []Inv
<1>1. Init => Inv
  BY DEF Init, Inv, Types, OnlyFirstHolds
<1>2. Inv /\ [Next]_vars => Inv'
  <2> SUFFICES ASSUME Inv, [Next]_vars PROVE Inv'
    OBVIOUS
  <2>1. CASE UNCHANGED shards
    BY <2>1 DEF Inv, Types, OnlyFirstHolds, Writable
  <2>2. CASE Die
    BY <2>2 DEF Die, Inv, Types, OnlyFirstHolds
  <2>3. QED
    BY <2>1, <2>2, ServeStep, AddStep, RemoveStep DEF Next, vars, CloseShards, SearchFeature
<1>3. QED BY <1>1, <1>2, PTL DEF Spec

(* What can be found can be removed, for any databases, shards and batches.  *)
THEOREM HeldIsRemovable == Spec => []HeldCanBeRemoved
<1>1. Inv => HeldCanBeRemoved
  <2> SUFFICES ASSUME Inv, NEW db \in DBs, NEW h \in Held(db)
               PROVE  Writable(db) # {} /\ h[1] = FindShard(db)
    BY DEF HeldCanBeRemoved
  <2>1. h[1] \in DOMAIN shards[db] /\ h[2] \in DOMAIN shards[db][h[1]].cached
    BY DEF Held
  <2>2. IsFirst(h[1], Writable(db))
    BY <2>1 DEF Inv, OnlyFirstHolds
  <2>3. Writable(db) \in SUBSET Nat
    BY DEF Inv, Types, Writable
  <2>4. QED BY <2>2, <2>3, FirstIsFound DEF IsFirst, FindShard
<1>2. QED BY <1>1, Invariance, PTL

-------------------------------------------------------------------------------
(* The ranking. *)

(* _min_heap: a sequence in ascending order.                                  *)
Heaps ==
    {h \in Seq(Int) : \A i, j \in 1..Len(h) : i <= j => h[i] <= h[j]}

IsAmong(x, s) == \E i \in 1..Len(s) : s[i] = x

(* h with a score put in, at its place. *)
LEMMA EmplacePuts ==
    ASSUME NEW h \in Heaps, NEW score \in Int, NEW g, g = emplace(h, score)
    PROVE  /\ g \in Heaps /\ Len(g) = Len(h) + 1
           /\ \A i \in 1..Len(g) : g[i] = score \/ IsAmong(g[i], h)
           /\ score <= g[Len(g)]
           /\ \A i \in 1..Len(h) : h[i] <= g[Len(g)]
<1> DEFINE S == {0} \cup {i \in DOMAIN h : h[i] <= score}
           p == Max(S)
<1>1. /\ h \in Seq(Int) /\ Len(h) \in Nat /\ DOMAIN h = 1..Len(h)
      /\ \A i \in 1..Len(h) : h[i] \in Int
      /\ \A i, j \in 1..Len(h) : i <= j => h[i] <= h[j]
  BY DEF Heaps
<1>2. p \in S /\ \A i \in S : i <= p
  <2>1. S \subseteq 0..Len(h) /\ S # {}
    BY <1>1
  <2> HIDE DEF S
  <2>2. Max(S) \in S /\ \A i \in S : Max(S) >= i
    BY <1>1, <2>1, MaxIsThere
  <2>3. QED BY <1>1, <2>1, <2>2
<1> HIDE DEF p
<1>3. p \in 0..Len(h)
  BY <1>1, <1>2
<1>4. /\ \A i \in 1..Len(h) : i <= p => h[i] <= score
      /\ \A i \in 1..Len(h) : i > p => score <= h[i]
  <2>1. p = 0 \/ (p \in 1..Len(h) /\ h[p] <= score)
    BY <1>1, <1>2
  <2>2. \A i \in 1..Len(h) : h[i] <= score => i <= p
    BY <1>1, <1>2
  <2>3. ASSUME NEW i \in 1..Len(h), i <= p PROVE h[i] <= score
    <3>1. p \in 1..Len(h) /\ h[p] <= score /\ h[i] <= h[p]
      BY <1>1, <1>3, <2>1, <2>3
    <3>2. QED BY <1>1, <3>1
  <2>4. ASSUME NEW i \in 1..Len(h), i > p PROVE score <= h[i]
    BY <1>1, <1>3, <2>2, <2>4
  <2>5. QED BY <2>3, <2>4
<1>5. g = InsertAt(h, p + 1, score)
  BY DEF emplace, p
<1>6. /\ g \in Seq(Int) /\ Len(g) = Len(h) + 1 /\ g[p + 1] = score
      /\ \A k \in 1..p : g[k] = h[k]
      /\ \A k \in (p + 2)..(Len(h) + 1) : g[k] = h[k - 1]
  <2>1. PICK q : q = p + 1
    OBVIOUS
  <2>2. q \in 1..(Len(h) + 1) /\ q - 1 = p /\ q + 1 = p + 2
    BY <1>1, <1>3, <2>1
  <2>3. PICK Z : Z = Int
    OBVIOUS
  <2>4. h \in Seq(Z) /\ score \in Z
    BY <1>1, <2>3
  <2>5. /\ InsertAt(h, q, score) \in Seq(Z)
        /\ Len(InsertAt(h, q, score)) = Len(h) + 1
        /\ InsertAt(h, q, score)[q] = score
        /\ \A k \in 1..(q - 1) : InsertAt(h, q, score)[k] = h[k]
        /\ \A k \in (q + 1)..(Len(h) + 1) : InsertAt(h, q, score)[k] = h[k - 1]
    BY <2>2, <2>4, InsertedAt
  <2>6. QED BY <1>5, <2>1, <2>2, <2>3, <2>5
<1>7. \A i \in 1..Len(g) : \/ i \in 1..p /\ i \in 1..Len(h) /\ g[i] = h[i]
                           \/ i = p + 1 /\ g[i] = score
                           \/ i - 1 \in 1..Len(h) /\ i - 1 > p /\ g[i] = h[i - 1]
  <2> TAKE i \in 1..Len(g)
  <2>1. i \in 1..p \/ i = p + 1 \/ i \in (p + 2)..(Len(h) + 1)
    BY <1>1, <1>3, <1>6
  <2>2. QED BY <1>1, <1>3, <1>6, <2>1
<1>8. \A i, j \in 1..Len(g) : i <= j => g[i] <= g[j]
  <2> TAKE i, j \in 1..Len(g)
  <2> HAVE i <= j
  <2>1. CASE i \in 1..p
    <3>1. i \in 1..Len(h) /\ i <= p /\ g[i] = h[i] /\ h[i] <= score /\ h[i] \in Int
      BY <1>1, <1>3, <1>4, <1>6, <2>1
    <3>2. CASE j \in 1..p /\ j \in 1..Len(h) /\ g[j] = h[j]
      BY <1>1, <3>1, <3>2
    <3>3. CASE j = p + 1 /\ g[j] = score
      BY <3>1, <3>3
    <3>4. CASE j - 1 \in 1..Len(h) /\ j - 1 > p /\ g[j] = h[j - 1]
      <4>1. score <= h[j - 1] /\ h[j - 1] \in Int
        BY <1>1, <1>4, <3>4
      <4>2. QED BY <3>1, <3>4, <4>1
    <3>5. QED BY <1>7, <3>2, <3>3, <3>4
  <2>2. CASE i = p + 1
    BY <1>1, <1>3, <1>4, <1>7, <2>2
  <2>3. CASE i - 1 \in 1..Len(h) /\ i - 1 > p
    <3>1. j - 1 \in 1..Len(h) /\ j - 1 > p
      BY <1>1, <1>3, <1>6, <2>3
    <3>2. g[i] = h[i - 1] /\ g[j] = h[j - 1]
      BY <1>3, <1>7, <2>3, <3>1
    <3>3. i - 1 <= j - 1
      BY <1>6
    <3>4. QED BY <1>1, <2>3, <3>1, <3>2, <3>3
  <2>4. QED BY <1>7, <2>1, <2>2, <2>3
<1>9. \A i \in 1..Len(g) : g[i] = score \/ IsAmong(g[i], h)
  <2> TAKE i \in 1..Len(g)
  <2>1. g[i] = score \/ \E k \in 1..Len(h) : h[k] = g[i]
    BY <1>7
  <2>2. QED BY <2>1 DEF IsAmong
<1>10. score <= g[Len(g)]
  <2>1. p + 1 \in 1..Len(g) /\ Len(g) \in 1..Len(g) /\ p + 1 <= Len(g)
    BY <1>1, <1>3, <1>6
  <2>2. g[p + 1] <= g[Len(g)]
    BY <1>8, <2>1
  <2>3. QED BY <1>6, <2>2
<1>11. \A i \in 1..Len(h) : h[i] <= g[Len(g)]
  <2> TAKE i \in 1..Len(h)
  <2>1. CASE i <= p
    BY <1>1, <1>3, <1>6, <1>8, <2>1
  <2>2. CASE i > p
    <3>1. i + 1 \in (p + 2)..(Len(h) + 1) /\ i + 1 - 1 = i
      BY <1>1, <1>3, <2>2
    <3>2. g[i + 1] = h[i]
      BY <1>6, <3>1
    <3>3. i + 1 \in 1..Len(g) /\ Len(g) \in 1..Len(g) /\ i + 1 <= Len(g)
      BY <1>1, <1>6
    <3>4. g[i + 1] <= g[Len(g)]
      BY <1>8, <3>3
    <3>5. QED BY <3>2, <3>4
  <2>3. QED BY <1>1, <1>3, <2>1, <2>2
<1>12. QED BY <1>6, <1>8, <1>9, <1>10, <1>11 DEF Heaps

(* What a heap is after one more score: as long as there is room it grows, it *)
(* holds nothing that was not fed in, and its last one is the best of all.    *)
Takes(h, score, g, topk) ==
    /\ g \in Heaps
    /\ Len(g) = IF Len(h) < topk THEN Len(h) + 1 ELSE Len(h)
    /\ \A i \in 1..Len(g) : g[i] = score \/ IsAmong(g[i], h)
    /\ Len(g) > 0 /\ score <= g[Len(g)]
    /\ \A i \in 1..Len(h) : h[i] <= g[Len(g)]

(* The score takes the place of the top if it is better than that. *)
LEMMA ReplaceKeeps ==
    ASSUME NEW h \in Heaps, Len(h) > 0, NEW score \in Int
    PROVE  Takes(h, score, Replace(h, score), 0)
<1>1. /\ h \in Seq(Int) /\ Len(h) \in Nat /\ h # << >> /\ Head(h) = h[1]
      /\ \A i \in 1..Len(h) : h[i] \in Int
      /\ \A i, j \in 1..Len(h) : i <= j => h[i] <= h[j]
  BY DEF Heaps
<1>2. CASE Head(h) < score
  <2> DEFINE t == Tail(h)
  <2>1. /\ t \in Seq(Int) /\ Len(t) = Len(h) - 1
        /\ \A i \in 1..Len(t) : t[i] = h[i + 1]
    BY <1>1
  <2> HIDE DEF t
  <2>2. t \in Heaps
    <3>1. ASSUME NEW i \in 1..Len(t), NEW j \in 1..Len(t), i <= j PROVE t[i] <= t[j]
      <4>1. i + 1 \in 1..Len(h) /\ j + 1 \in 1..Len(h) /\ i + 1 <= j + 1
        BY <1>1, <2>1, <3>1
      <4>2. QED BY <1>1, <2>1, <4>1
    <3>2. QED BY <2>1, <3>1 DEF Heaps
  <2>3. PICK g : g = emplace(t, score)
    OBVIOUS
  <2>4. /\ g \in Heaps /\ Len(g) = Len(t) + 1
        /\ \A i \in 1..Len(g) : g[i] = score \/ IsAmong(g[i], t)
        /\ score <= g[Len(g)]
        /\ \A i \in 1..Len(t) : t[i] <= g[Len(g)]
    BY <2>2, <2>3, EmplacePuts
  <2>5. g[Len(g)] \in Int /\ Len(g) = Len(h)
    BY <1>1, <2>1, <2>4 DEF Heaps
  <2>6. \A i \in 1..Len(h) : h[i] <= g[Len(g)]
    <3> TAKE i \in 1..Len(h)
    <3>1. CASE i = 1
      BY <1>1, <1>2, <2>4, <2>5, <3>1
    <3>2. CASE i # 1
      <4>1. i - 1 \in 1..Len(t) /\ i - 1 + 1 = i
        BY <1>1, <2>1, <3>2
      <4>2. t[i - 1] = h[i]
        BY <2>1, <4>1
      <4>3. QED BY <2>4, <4>1, <4>2
    <3>3. QED BY <3>1, <3>2
  <2>7. \A i \in 1..Len(g) : g[i] = score \/ IsAmong(g[i], h)
    <3> TAKE i \in 1..Len(g)
    <3>1. ASSUME NEW k \in 1..Len(t), t[k] = g[i] PROVE IsAmong(g[i], h)
      <4>1. k + 1 \in 1..Len(h) /\ h[k + 1] = g[i]
        BY <1>1, <2>1, <3>1
      <4>2. QED BY <4>1 DEF IsAmong
    <3>2. QED BY <2>4, <3>1 DEF IsAmong
  <2>8. Replace(h, score) = g
    BY <1>2, <2>3 DEF Replace, t
  <2>9. QED BY <1>1, <2>4, <2>5, <2>6, <2>7, <2>8 DEF Takes
<1>3. CASE ~ Head(h) < score
  <2>1. Replace(h, score) = h
    BY <1>3 DEF Replace
  <2>2. \A i \in 1..Len(h) : IsAmong(h[i], h)
    BY DEF IsAmong
  <2>3. \A i \in 1..Len(h) : h[i] <= h[Len(h)]
    BY <1>1
  <2>4. score <= h[Len(h)]
    <3>1. score <= h[1] /\ h[1] <= h[Len(h)] /\ h[1] \in Int /\ h[Len(h)] \in Int
      BY <1>1, <1>3
    <3>2. QED BY <3>1
  <2>5. ~ Len(h) < 0
    BY <1>1
  <2>6. QED BY <2>1, <2>2, <2>3, <2>4, <2>5 DEF Takes
<1>4. QED BY <1>2, <1>3

(* Both ways of feeding take a score in so, the one that goes on to compare   *)
(* the score with the top of the heap it is in already too.                   *)
LEMMA FeedTakes ==
    ASSUME NEW h \in Heaps, NEW score \in Int, NEW topk \in Nat \ {0}
    PROVE  /\ Takes(h, score, FeedFeature(h, score, topk), topk)
           /\ Takes(h, score, FeedItem(h, score, topk), topk)
<1>1. Len(h) \in Nat /\ \A i \in 1..Len(h) : h[i] \in Int
  BY DEF Heaps
<1>2. CASE Len(h) < topk
  <2>1. PICK g : g = emplace(h, score)
    OBVIOUS
  <2>2. /\ g \in Heaps /\ Len(g) = Len(h) + 1
        /\ \A i \in 1..Len(g) : g[i] = score \/ IsAmong(g[i], h)
        /\ score <= g[Len(g)]
        /\ \A i \in 1..Len(h) : h[i] <= g[Len(g)]
    BY <2>1, EmplacePuts
  <2>3. Len(g) > 0 /\ Len(g) \in 1..Len(g) /\ g[Len(g)] \in Int
    BY <1>1, <2>2 DEF Heaps
  <2>4. Takes(h, score, g, topk)
    BY <1>2, <2>2, <2>3 DEF Takes
  <2>5. PICK f : f = Replace(g, score)
    OBVIOUS
  <2>6. Takes(g, score, f, 0)
    BY <2>2, <2>3, <2>5, ReplaceKeeps
  <2>7. Takes(h, score, f, topk)
    <3>1. f \in Heaps /\ Len(f) = Len(g) /\ score <= f[Len(f)] /\ Len(f) > 0
      BY <1>1, <2>2, <2>6 DEF Takes
    <3>2. \A i \in 1..Len(f) : f[i] = score \/ IsAmong(f[i], h)
      <4> TAKE i \in 1..Len(f)
      <4>1. ASSUME NEW k \in 1..Len(g), g[k] = f[i] PROVE f[i] = score \/ IsAmong(f[i], h)
        BY <2>2, <4>1
      <4>2. QED BY <2>6, <4>1 DEF Takes, IsAmong
    <3>3. \A i \in 1..Len(h) : h[i] <= f[Len(f)]
      <4> TAKE i \in 1..Len(h)
      <4>1. h[i] <= g[Len(g)] /\ g[Len(g)] <= f[Len(f)]
        BY <2>2, <2>3, <2>6 DEF Takes
      <4>2. f[Len(f)] \in Int /\ g[Len(g)] \in Int /\ h[i] \in Int
        BY <1>1, <2>3, <3>1 DEF Heaps
      <4>3. QED BY <4>1, <4>2
    <3>4. QED BY <1>2, <2>2, <3>1, <3>2, <3>3 DEF Takes
  <2>8. FeedFeature(h, score, topk) = f /\ FeedItem(h, score, topk) = g
    BY <1>2, <2>1, <2>5 DEF FeedFeature, FeedItem
  <2>9. QED BY <2>4, <2>7, <2>8
<1>3. CASE ~ Len(h) < topk
  <2>1. PICK f : f = Replace(h, score)
    OBVIOUS
  <2>2. Takes(h, score, f, 0)
    BY <1>1, <1>3, <2>1, ReplaceKeeps
  <2>3. Takes(h, score, f, topk)
    BY <1>1, <1>3, <2>2 DEF Takes
  <2>4. FeedFeature(h, score, topk) = f /\ FeedItem(h, score, topk) = f
    BY <1>3, <2>1 DEF FeedFeature, FeedItem
  <2>5. QED BY <2>3, <2>4
<1>4. QED BY <1>2, <1>3

Lesser(a, b) == IF a < b THEN a ELSE b

(* The heap after the first n of the scores have been fed into an empty one.  *)
Ranking(h, scores, n, topk) ==
    /\ Len(h) = Lesser(topk, n)
    /\ \A i \in 1..Len(h) : \E k \in 1..n : h[i] = scores[k]
    /\ \A k \in 1..n : scores[k] <= h[Len(h)]

LEMMA FedRanks ==
    ASSUME NEW topk \in Nat \ {0}, NEW scores \in Seq(Int), NEW g, g[0] \in Heaps,
           \A n \in 1..Len(scores) :
               g[n - 1] \in Heaps => Takes(g[n - 1], scores[n], g[n], topk)
    PROVE  /\ g[Len(scores)] \in Heaps
           /\ g[0] = << >> => Ranking(g[Len(scores)], scores, Len(scores), topk)
<1> DEFINE S == {n \in 0..Len(scores) :
                    g[n] \in Heaps /\ (g[0] = << >> => Ranking(g[n], scores, n, topk))}
<1>1. Len(scores) \in Nat /\ \A n \in 1..Len(scores) : scores[n] \in Int
  OBVIOUS
<1>2. 0 \in S
  BY DEF Ranking, Lesser
<1>3. ASSUME NEW n \in 1..Len(scores), n - 1 \in S PROVE n \in S
  <2> DEFINE h == g[n - 1]
             f == g[n]
  <2>1. h \in Heaps /\ Takes(h, scores[n], f, topk)
    BY <1>3
  <2>2. f \in Heaps /\ Len(h) \in Nat /\ n \in 0..Len(scores)
    BY <2>1 DEF Takes, Heaps
  <2>3. ASSUME g[0] = << >> PROVE Ranking(f, scores, n, topk)
    <3>1. Ranking(h, scores, n - 1, topk)
      BY <1>3, <2>3
    <3> HIDE DEF h, f
    <3>2. Len(f) = Lesser(topk, n)
      BY <1>1, <2>1, <3>1 DEF Takes, Ranking, Lesser
    <3>3. \A i \in 1..Len(f) : \E k \in 1..n : f[i] = scores[k]
      <4> TAKE i \in 1..Len(f)
      <4>1. CASE f[i] = scores[n]
        BY <4>1
      <4>2. ASSUME NEW j \in 1..Len(h), h[j] = f[i] PROVE \E k \in 1..n : f[i] = scores[k]
        <5>1. PICK k \in 1..(n - 1) : h[j] = scores[k]
          BY <3>1 DEF Ranking
        <5>2. QED BY <4>2, <5>1
      <4>3. QED BY <2>1, <4>1, <4>2 DEF Takes, IsAmong
    <3>4. \A k \in 1..n : scores[k] <= f[Len(f)]
      <4> TAKE k \in 1..n
      <4>1. CASE k = n
        BY <2>1, <4>1 DEF Takes
      <4>2. CASE k # n
        <5>1. k \in 1..(n - 1) /\ scores[k] <= h[Len(h)] /\ scores[k] \in Int
          BY <1>1, <3>1, <4>2 DEF Ranking
        <5>2. Len(h) > 0
          BY <3>1, <5>1 DEF Ranking, Lesser
        <5>3. Len(h) \in 1..Len(h) /\ Len(f) \in 1..Len(f)
          <6>1. Len(f) > 0 /\ Len(f) \in Nat
            BY <2>1, <2>2 DEF Takes, Heaps
          <6>2. QED BY <2>2, <5>2, <6>1
        <5>4. h[Len(h)] <= f[Len(f)]
          BY <2>1, <5>3 DEF Takes
        <5>5. h \in Seq(Int) /\ f \in Seq(Int)
          BY <2>1, <2>2 DEF Heaps
        <5>6. h[Len(h)] \in Int /\ f[Len(f)] \in Int
          BY <5>3, <5>5
        <5>7. QED BY <5>1, <5>4, <5>6
      <4>3. QED BY <4>1, <4>2
    <3>5. QED BY <3>2, <3>3, <3>4 DEF Ranking
  <2>4. QED BY <2>2, <2>3
<1> HIDE DEF S
<1>4. \A n \in 0..Len(scores) : n \in S
  BY <1>1, <1>2, <1>3, CountingUp
<1>5. Len(scores) \in S
  BY <1>1, <1>4
<1>6. QED BY <1>5 DEF S

(* What a shard makes of the features in its cache, and the merge of what the *)
(* shards have found.                                                         *)
LEMMA FeaturesRank ==
    ASSUME NEW topk \in Nat \ {0}, NEW scores \in Seq(Int)
    PROVE  /\ FeedFeatures(scores, topk) \in Heaps
           /\ Ranking(FeedFeatures(scores, topk), scores, Len(scores), topk)
<1> DEFINE N == Len(scores)
           Is(f) == f = [n \in 0..N |->
                            IF n = 0 THEN << >> ELSE FeedFeature(f[n - 1], scores[n], topk)]
           g == CHOOSE f : Is(f)
           step == [x \in Heaps \X (1..N) |-> FeedFeature(x[1], scores[x[2]], topk)]
<1>1. N \in Nat /\ << >> \in Heaps /\ \A n \in 1..N : scores[n] \in Int
  BY DEF Heaps
<1>2. \A h \in Heaps, n \in 1..N : /\ Takes(h, scores[n], FeedFeature(h, scores[n], topk), topk)
                                   /\ FeedFeature(h, scores[n], topk) \in Heaps
  BY <1>1, FeedTakes DEF Takes
<1>3. step \in [Heaps \X (1..N) -> Heaps]
  BY <1>2
<1>4. \A h \in Heaps, n \in 1..N : step[<<h, n>>] = FeedFeature(h, scores[n], topk)
  OBVIOUS
<1> HIDE DEF step, N
<1>5. \E f : Is(f)
  <2>1. PICK f : Recursion(f, N, Heaps, << >>, step)
    BY <1>1, <1>3, StepByStep
  <2>2. /\ f \in [0..N -> Heaps] /\ f[0] = << >>
        /\ \A n \in 1..N : f[n] = step[<<f[n - 1], n>>]
    BY <2>1 DEF Recursion
  <2>3. \A n \in 1..N : f[n - 1] \in Heaps
    BY <1>1, <2>2
  <2>4. \A n \in 1..N : f[n] = FeedFeature(f[n - 1], scores[n], topk)
    BY <1>4, <2>2, <2>3
  <2>5. \A n \in 0..N : n = 0 \/ n \in 1..N
    BY <1>1
  <2>6. Is(f)
    BY <2>2, <2>4, <2>5
  <2>7. QED BY <2>6
<1>6. Is(g)
  BY <1>5
<1>7. FeedFeatures(scores, topk) = g[N]
  BY DEF FeedFeatures, N
<1> HIDE DEF g
<1>8. g[0] = << >>
  BY <1>1, <1>6
<1>9. ASSUME NEW n \in 1..N, g[n - 1] \in Heaps PROVE Takes(g[n - 1], scores[n], g[n], topk)
  <2>1. g[n] = FeedFeature(g[n - 1], scores[n], topk)
    BY <1>1, <1>6
  <2>2. QED BY <1>2, <1>9, <2>1
<1> HIDE DEF Is
<1>10. QED BY <1>1, <1>7, <1>8, <1>9, FedRanks DEF N

LEMMA ItemsRank ==
    ASSUME NEW topk \in Nat \ {0}, NEW heap \in Heaps, NEW scores \in Seq(Int)
    PROVE  /\ FeedItems(heap, scores, topk) \in Heaps
           /\ heap = << >> =>
                  Ranking(FeedItems(heap, scores, topk), scores, Len(scores), topk)
           /\ scores = << >> => FeedItems(heap, scores, topk) = heap
<1> DEFINE N == Len(scores)
           Is(f) == f = [n \in 0..N |->
                            IF n = 0 THEN heap ELSE FeedItem(f[n - 1], scores[n], topk)]
           g == CHOOSE f : Is(f)
           step == [x \in Heaps \X (1..N) |-> FeedItem(x[1], scores[x[2]], topk)]
<1>1. N \in Nat /\ \A n \in 1..N : scores[n] \in Int
  OBVIOUS
<1>2. \A h \in Heaps, n \in 1..N : /\ Takes(h, scores[n], FeedItem(h, scores[n], topk), topk)
                                   /\ FeedItem(h, scores[n], topk) \in Heaps
  BY <1>1, FeedTakes DEF Takes
<1>3. step \in [Heaps \X (1..N) -> Heaps]
  BY <1>2
<1>4. \A h \in Heaps, n \in 1..N : step[<<h, n>>] = FeedItem(h, scores[n], topk)
  OBVIOUS
<1> HIDE DEF step, N
<1>5. \E f : Is(f)
  <2>1. PICK f : Recursion(f, N, Heaps, heap, step)
    BY <1>1, <1>3, StepByStep
  <2>2. /\ f \in [0..N -> Heaps] /\ f[0] = heap
        /\ \A n \in 1..N : f[n] = step[<<f[n - 1], n>>]
    BY <2>1 DEF Recursion
  <2>3. \A n \in 1..N : f[n - 1] \in Heaps
    BY <1>1, <2>2
  <2>4. \A n \in 1..N : f[n] = FeedItem(f[n - 1], scores[n], topk)
    BY <1>4, <2>2, <2>3
  <2>5. \A n \in 0..N : n = 0 \/ n \in 1..N
    BY <1>1
  <2>6. Is(f)
    BY <2>2, <2>4, <2>5
  <2>7. QED BY <2>6
<1>6. Is(g)
  BY <1>5
<1>7. FeedItems(heap, scores, topk) = g[N]
  BY DEF FeedItems, N
<1> HIDE DEF g
<1>8. g[0] = heap
  BY <1>1, <1>6
<1>9. ASSUME NEW n \in 1..N, g[n - 1] \in Heaps PROVE Takes(g[n - 1], scores[n], g[n], topk)
  <2>1. g[n] = FeedItem(g[n - 1], scores[n], topk)
    BY <1>1, <1>6
  <2>2. QED BY <1>2, <1>9, <2>1
<1> HIDE DEF Is
<1>10. /\ g[N] \in Heaps
       /\ g[0] = << >> => Ranking(g[N], scores, N, topk)
  BY <1>1, <1>8, <1>9, FedRanks DEF N
<1>11. scores = << >> => N = 0
  BY DEF N
<1>12. QED BY <1>7, <1>8, <1>10, <1>11 DEF N

-------------------------------------------------------------------------------
(* A search. *)

(* What a heap, and what a list of results, owes to a cache: as many as it is *)
(* asked for or as there are, and the best of them as the last, as the first. *)
HeapOf(h, cache, topk) ==
    /\ h \in Heaps
    /\ Len(h) = Lesser(topk, Cardinality(DOMAIN cache))
    /\ \A i \in 1..Len(h) : \E id \in DOMAIN cache : h[i] = cache[id]
    /\ \A id \in DOMAIN cache : cache[id] <= h[Len(h)]

ListOf(r, cache, topk) ==
    /\ r \in Seq(Int)
    /\ Len(r) = Lesser(topk, Cardinality(DOMAIN cache))
    /\ \A i \in 1..Len(r) : \E id \in DOMAIN cache : r[i] = cache[id]
    /\ \A i \in 2..Len(r) : r[i] <= r[i - 1]
    /\ \A id \in DOMAIN cache : cache[id] <= r[1]

(* SortOut brings the best first, and all but the worst otherwise.            *)
LEMMA SortedOut ==
    ASSUME NEW h \in Heaps
    PROVE  /\ SortOut(h) \in Seq(Int) /\ Len(SortOut(h)) = Len(h)
           /\ \A i \in 1..Len(h) : \E j \in 1..Len(h) : SortOut(h)[i] = h[j]
           /\ \A i \in 2..Len(h) : SortOut(h)[i] <= SortOut(h)[i - 1]
           /\ Len(h) > 0 => SortOut(h)[1] = h[Len(h)]
<1>1. /\ h \in Seq(Int) /\ Len(h) \in Nat
      /\ \A i \in 1..Len(h) : h[i] \in Int
      /\ \A i, j \in 1..Len(h) : i <= j => h[i] <= h[j]
  BY DEF Heaps
<1>2. CASE h = << >>
  BY <1>2 DEF SortOut
<1>3. CASE h # << >>
  <2> DEFINE n == Len(h)
             a == Append(Tail(h), Last(h))
             r == Reverse(a)
  <2>1. n > 0 /\ Tail(h) \in Seq(Int) /\ Len(Tail(h)) = n - 1 /\ Last(h) = h[n]
        /\ Last(h) \in Int
        /\ \A k \in 1..(n - 1) : Tail(h)[k] = h[k + 1]
    BY <1>1, <1>3 DEF Last
  <2>2. /\ a \in Seq(Int) /\ Len(a) = n /\ a[n] = h[n]
        /\ \A k \in 1..(n - 1) : a[k] = h[k + 1]
    BY <1>1, <2>1
  <2> HIDE DEF a
  <2>3. r = [i \in 1..n |-> a[(n - i) + 1]]
    BY <2>2 DEF Reverse
  <2>4. \A i \in 1..n : r[i] = IF i = 1 THEN h[n] ELSE h[n - i + 2]
    <3> TAKE i \in 1..n
    <3>1. r[i] = a[(n - i) + 1]
      BY <2>3
    <3>2. CASE i = 1
      <4>1. (n - i) + 1 = n
        BY <1>1, <3>2
      <4>2. QED BY <2>2, <3>1, <3>2, <4>1
    <3>3. CASE i # 1
      <4>1. (n - i) + 1 \in 1..(n - 1) /\ (n - i) + 1 + 1 = n - i + 2
        BY <1>1, <3>3
      <4>2. a[(n - i) + 1] = h[(n - i) + 1 + 1]
        BY <2>2, <4>1
      <4>3. QED BY <3>1, <3>3, <4>1, <4>2
    <3>4. QED BY <3>2, <3>3
  <2>5. \A i \in 1..n : n \in 1..n /\ (i # 1 => n - i + 2 \in 1..n)
    BY <1>1
  <2>6. \A i \in 1..n : \E j \in 1..n : r[i] = h[j]
    BY <2>4, <2>5
  <2>7. r \in Seq(Int) /\ Len(r) = n
    BY <1>1, <2>2, <2>3, <2>6
  <2>8. ASSUME NEW i \in 2..n PROVE r[i] <= r[i - 1]
    <3>1. i \in 1..n /\ i - 1 \in 1..n /\ i # 1
      BY <1>1
    <3>2. r[i] = h[n - i + 2] /\ n - i + 2 \in 1..n
      BY <2>4, <2>5, <3>1
    <3>3. r[i - 1] = IF i - 1 = 1 THEN h[n] ELSE h[n - (i - 1) + 2]
      BY <2>4, <3>1
    <3>4. CASE i - 1 = 1
      BY <1>1, <2>5, <3>2, <3>3, <3>4
    <3>5. CASE i - 1 # 1
      <4>1. n - (i - 1) + 2 \in 1..n /\ n - i + 2 <= n - (i - 1) + 2
        BY <1>1, <3>5
      <4>2. h[n - i + 2] <= h[n - (i - 1) + 2]
        BY <1>1, <3>2, <4>1
      <4>3. QED BY <3>2, <3>3, <3>5, <4>2
    <3>6. QED BY <3>4, <3>5
  <2>9. r[1] = h[n]
    BY <1>1, <2>1, <2>4
  <2>10. SortOut(h) = r
    BY <1>3 DEF SortOut, a
  <2> HIDE DEF r
  <2>11. QED BY <2>6, <2>7, <2>8, <2>9, <2>10
<1>4. QED BY <1>2, <1>3

LEMMA HeapOut ==
    ASSUME NEW h, NEW cache, NEW topk, HeapOf(h, cache, topk),
           \A id \in DOMAIN cache : Len(h) > 0
    PROVE  ListOf(SortOut(h), cache, topk)
<1> DEFINE r == SortOut(h)
<1>1. /\ r \in Seq(Int) /\ Len(r) = Len(h)
      /\ \A i \in 1..Len(h) : \E j \in 1..Len(h) : r[i] = h[j]
      /\ \A i \in 2..Len(h) : r[i] <= r[i - 1]
      /\ Len(h) > 0 => r[1] = h[Len(h)]
  BY SortedOut DEF HeapOf
<1> HIDE DEF r
<1>2. \A i \in 1..Len(r) : \E id \in DOMAIN cache : r[i] = cache[id]
  BY <1>1 DEF HeapOf
<1>3. \A id \in DOMAIN cache : cache[id] <= r[1]
  BY <1>1 DEF HeapOf
<1>4. ListOf(r, cache, topk)
  BY <1>1, <1>2, <1>3 DEF HeapOf, ListOf
<1>5. QED BY <1>4 DEF r

(* do_search_feature of a shard, in whatever order it goes through its cache. *)
LEMMA ShardLists ==
    ASSUME NEW shard \in Shard, NEW topk \in Nat \ {0},
           IsFiniteSet(DOMAIN shard.cached),
           ~ shard.loaded => DOMAIN shard.cached = {},
           NEW items \in ShardFinds(shard, topk)
    PROVE  ListOf(items, shard.cached, topk)
<1> DEFINE cache == shard.cached
           D == DOMAIN cache
           N == Cardinality(D)
<1>1. N \in Nat /\ \A id \in D : cache[id] \in Int
  <2>1. cache \in Caches
    BY DEF Shard
  <2>2. PICK E : cache \in [E -> Scores]
    BY <2>1 DEF Caches
  <2>3. QED BY <2>2, FS_CardinalityType, ScoresAssumption
<1>2. CASE ~ shard.loaded
  <2>1. items = << >> /\ D = {}
    BY <1>2 DEF ShardFinds
  <2>2. N = 0
    BY <2>1, FS_EmptySet
  <2>3. QED BY <2>1, <2>2 DEF ListOf, Lesser
<1>3. CASE shard.loaded
  <2>1. PICK ids \in SetToSeqs(D) :
            items = SortOut(FeedFeatures([n \in DOMAIN ids |-> cache[ids[n]]], topk))
    BY <1>3 DEF ShardFinds
  <2>2. /\ ids \in [1..N -> D]
        /\ \A i, j \in 1..N : i # j => ids[i] # ids[j]
    BY DEF SetToSeqs
  <2>3. \A id \in D : \E n \in 1..N : ids[n] = id
    <3>1. ids \in Injection(1..N, D)
      BY <2>2 DEF Injection, IsInjective
    <3>2. IsFiniteSet(1..N) /\ Cardinality(1..N) = N
      BY <1>1, FS_Interval
    <3>3. ids \in Surjection(1..N, D)
      BY <3>1, <3>2, FS_Injection
    <3>4. QED BY <3>3 DEF Surjection
  <2> DEFINE scores == [n \in DOMAIN ids |-> cache[ids[n]]]
             h == FeedFeatures(scores, topk)
  <2>4. scores = [n \in 1..N |-> cache[ids[n]]]
    BY <2>2
  <2>5. scores \in Seq(Int) /\ Len(scores) = N /\ \A n \in 1..N : scores[n] = cache[ids[n]]
    BY <1>1, <2>2, <2>4
  <2> HIDE DEF scores
  <2>6. h \in Heaps /\ Ranking(h, scores, N, topk)
    BY <2>5, FeaturesRank
  <2>7. items = SortOut(h)
    BY <2>1 DEF scores
  <2> HIDE DEF h, N
  <2>8. \A i \in 1..Len(h) : \E id \in D : h[i] = cache[id]
    <3> TAKE i \in 1..Len(h)
    <3>1. PICK k \in 1..N : h[i] = scores[k]
      BY <2>6 DEF Ranking
    <3>2. h[i] = cache[ids[k]] /\ ids[k] \in D
      BY <2>2, <2>5, <3>1
    <3>3. QED BY <3>2
  <2>9. \A id \in D : cache[id] <= h[Len(h)]
    <3> TAKE id \in D
    <3>1. PICK n \in 1..N : ids[n] = id
      BY <2>3
    <3>2. scores[n] <= h[Len(h)]
      BY <2>6 DEF Ranking
    <3>3. QED BY <2>5, <3>1, <3>2
  <2>10. \A id \in D : Len(h) > 0
    <3> TAKE id \in D
    <3>1. PICK n \in 1..N : ids[n] = id
      BY <2>3
    <3>2. QED BY <1>1, <2>6, <3>1 DEF Ranking, Lesser
  <2>11. Len(h) = Lesser(topk, Cardinality(D))
    BY <2>6 DEF Ranking, N
  <2>12. HeapOf(h, cache, topk)
    BY <2>6, <2>8, <2>9, <2>11 DEF HeapOf
  <2>13. QED BY <2>7, <2>10, <2>12, HeapOut
<1>4. QED BY <1>2, <1>3

(* The merge of one shard's results into an empty heap. *)
LEMMA MergeOne ==
    ASSUME NEW topk \in Nat \ {0}, NEW cache, IsFiniteSet(DOMAIN cache),
           \A id \in DOMAIN cache : cache[id] \in Int,
           NEW items, ListOf(items, cache, topk)
    PROVE  HeapOf(FeedItems(<< >>, items, topk), cache, topk)
<1> DEFINE D == DOMAIN cache
           h == FeedItems(<< >>, items, topk)
<1>1. /\ items \in Seq(Int) /\ Len(items) \in Nat /\ \A n \in 1..Len(items) : items[n] \in Int
      /\ << >> \in Heaps /\ Cardinality(D) \in Nat
  BY FS_CardinalityType DEF ListOf, Heaps
<1>2. h \in Heaps /\ Ranking(h, items, Len(items), topk)
  BY <1>1, ItemsRank
<1> HIDE DEF h
<1>3. Len(h) = Lesser(topk, Cardinality(D))
  BY <1>1, <1>2 DEF Ranking, ListOf, Lesser
<1>4. \A i \in 1..Len(h) : \E id \in D : h[i] = cache[id]
  <2> TAKE i \in 1..Len(h)
  <2>1. PICK k \in 1..Len(items) : h[i] = items[k]
    BY <1>2 DEF Ranking
  <2>2. QED BY <2>1 DEF ListOf
<1>5. \A id \in D : cache[id] <= h[Len(h)]
  <2> TAKE id \in D
  <2>1. Cardinality(D) # 0
    BY FS_EmptySet
  <2>2. Len(items) > 0 /\ Len(h) > 0
    BY <1>1, <1>3, <2>1 DEF ListOf, Lesser
  <2>3. cache[id] <= items[1] /\ items[1] <= h[Len(h)]
    BY <1>1, <1>2, <2>2 DEF ListOf, Ranking
  <2>4. cache[id] \in Int /\ items[1] \in Int /\ h[Len(h)] \in Int
    BY <1>1, <1>2, <2>2 DEF Heaps
  <2>5. QED BY <2>3, <2>4
<1>6. QED BY <1>2, <1>3, <1>4, <1>5 DEF HeapOf, h

(* Caches are finite, and a shard that is not loaded has nothing in its own.  *)
Contents ==
    \A db \in DBs : \A i \in DOMAIN shards[db] :
        /\ IsFiniteSet(DOMAIN shards[db][i].cached)
        /\ ~ shards[db][i].loaded => DOMAIN shards[db][i].cached = {}

(* Only one shard has something to find, so the merge over all of them is     *)
(* what it has found; without one (place 0) it is empty.                      *)
LEMMA MergeOfAll ==
    ASSUME Inv, Contents, NEW db \in DBs, NEW topk \in Nat \ {0},
           NEW place \in 0..Len(shards[db]), NEW cache,
           IF place = 0 THEN DOMAIN cache = {} ELSE cache = shards[db][place].cached,
           \A i \in 1..Len(shards[db]) : i # place => DOMAIN shards[db][i].cached = {},
           NEW heap \in Merged(db, topk)
    PROVE  HeapOf(heap, cache, topk)
<1> DEFINE L == Len(shards[db])
           Finds(n) == ShardFinds(shards[db][n], topk)
           Merge(H, n) == {FeedItems(x, items, topk) : x \in H, items \in Finds(n)}
           Is(f) == f = [n \in 0..L |-> IF n = 0 THEN {<< >>} ELSE Merge(f[n - 1], n)]
           g == CHOOSE f : Is(f)
           step == [y \in (SUBSET Heaps) \X (1..L) |-> Merge(y[1], y[2])]
<1>1. /\ L \in Nat /\ << >> \in Heaps
      /\ \A n \in 1..L : shards[db][n] \in Shard /\ n \in DOMAIN shards[db]
  BY DEF Heaps, Inv, Types
<1>2. \A n \in 1..L : \A items \in Finds(n) : ListOf(items, shards[db][n].cached, topk)
  BY <1>1, ShardLists DEF Contents
<1>3. \A n \in 1..L : \A x \in Heaps, items \in Finds(n) : FeedItems(x, items, topk) \in Heaps
  BY <1>2, ItemsRank DEF ListOf
<1>4. \A H, n : \A y \in Merge(H, n) :
          \E x \in H, items \in Finds(n) : y = FeedItems(x, items, topk)
  OBVIOUS
<1>5. \A n \in 1..L, H \in SUBSET Heaps : Merge(H, n) \in SUBSET Heaps
  BY <1>3
<1> HIDE DEF Finds, Merge
<1>6. step \in [(SUBSET Heaps) \X (1..L) -> SUBSET Heaps]
  BY <1>5
<1>7. \A H \in SUBSET Heaps, n \in 1..L : step[<<H, n>>] = Merge(H, n)
  OBVIOUS
<1> HIDE DEF step, L
<1>8. \E f : Is(f)
  <2>1. PICK f : Recursion(f, L, SUBSET Heaps, {<< >>}, step)
    BY <1>1, <1>6, StepByStep
  <2>2. /\ f \in [0..L -> SUBSET Heaps] /\ f[0] = {<< >>}
        /\ \A n \in 1..L : f[n] = step[<<f[n - 1], n>>]
    BY <2>1 DEF Recursion
  <2>3. \A n \in 1..L : f[n - 1] \in SUBSET Heaps
    BY <1>1, <2>2
  <2>4. \A n \in 1..L : f[n] = Merge(f[n - 1], n)
    BY <1>7, <2>2, <2>3
  <2>5. \A n \in 0..L : n = 0 \/ n \in 1..L
    BY <1>1
  <2>6. Is(f)
    BY <2>2, <2>4, <2>5
  <2>7. QED BY <2>6
<1>9. Is(g)
  BY <1>8
<1>10. heap \in g[L]
  BY DEF Merged, L, Finds, Merge
<1> HIDE DEF g
<1>11. g[0] = {<< >>} /\ \A n \in 1..L : g[n] = Merge(g[n - 1], n)
  <2>1. \A n \in 0..L : g[n] = IF n = 0 THEN {<< >>} ELSE Merge(g[n - 1], n)
    BY <1>9
  <2>2. 0 \in 0..L /\ \A n \in 1..L : n \in 0..L /\ n # 0
    BY <1>1
  <2>3. QED BY <2>1, <2>2
<1> HIDE DEF Is
<1> DEFINE S == {n \in 0..L : \A x \in g[n] :
                    /\ x \in Heaps
                    /\ IF place <= n THEN HeapOf(x, cache, topk) ELSE x = << >>}
<1>12. 0 \in S
  <2>1. ASSUME place <= 0 PROVE HeapOf(<< >>, cache, topk)
    <3>1. DOMAIN cache = {} /\ Cardinality(DOMAIN cache) = 0
      BY <1>1, <2>1, FS_EmptySet DEF L
    <3>2. QED BY <1>1, <3>1 DEF HeapOf, Lesser
  <2>2. QED BY <1>1, <1>11, <2>1
<1>13. ASSUME NEW n \in 1..L, n - 1 \in S PROVE n \in S
  <2>1. ASSUME NEW x \in g[n - 1], NEW items \in Finds(n)
        PROVE  /\ FeedItems(x, items, topk) \in Heaps
               /\ IF place <= n THEN HeapOf(FeedItems(x, items, topk), cache, topk)
                  ELSE FeedItems(x, items, topk) = << >>
    <3>1. /\ x \in Heaps
          /\ IF place <= n - 1 THEN HeapOf(x, cache, topk) ELSE x = << >>
      BY <1>13, <2>1
    <3>2. ListOf(items, shards[db][n].cached, topk)
      BY <1>2, <2>1
    <3>3. CASE place = n
      <4>1. x = << >> /\ cache = shards[db][n].cached /\ place <= n
        BY <1>1, <1>13, <3>1, <3>3
      <4>2. IsFiniteSet(DOMAIN cache) /\ \A id \in DOMAIN cache : cache[id] \in Int
        <5>1. cache \in Caches /\ IsFiniteSet(DOMAIN cache)
          BY <1>1, <4>1 DEF Shard, Contents
        <5>2. PICK E : cache \in [E -> Scores]
          BY <5>1 DEF Caches
        <5>3. QED BY <5>1, <5>2, ScoresAssumption
      <4>3. HeapOf(FeedItems(x, items, topk), cache, topk)
        BY <3>2, <4>1, <4>2, MergeOne
      <4>4. QED BY <4>1, <4>3 DEF HeapOf
    <3>4. CASE place # n
      <4>1. DOMAIN shards[db][n].cached = {}
        BY <3>4 DEF L
      <4>2. Cardinality(DOMAIN shards[db][n].cached) = 0
        BY <4>1, FS_EmptySet
      <4>3. items \in Seq(Int) /\ Len(items) = 0
        BY <3>2, <4>2 DEF ListOf, Lesser
      <4>4. items = << >>
        BY <4>3
      <4>5. FeedItems(x, items, topk) = x
        BY <3>1, <4>3, <4>4, ItemsRank
      <4>6. place <= n <=> place <= n - 1
        BY <1>1, <1>13, <3>4 DEF L
      <4>7. QED BY <3>1, <4>5, <4>6
    <3>5. QED BY <3>3, <3>4
  <2>2. \A y \in g[n] : \E x \in g[n - 1], items \in Finds(n) : y = FeedItems(x, items, topk)
    BY <1>11, <1>4
  <2>3. n \in 0..L
    BY <1>1
  <2>4. QED BY <2>1, <2>2, <2>3
<1> HIDE DEF S
<1>14. \A n \in 0..L : n \in S
  BY <1>1, <1>12, <1>13, CountingUp
<1>15. L \in S /\ place <= L
  BY <1>1, <1>14 DEF L
<1>16. QED BY <1>10, <1>15 DEF S

(* Only a loaded shard gets features, finitely many at a time.                *)
LEMMA ContentsStep == Inv /\ Contents /\ [Next]_vars => Contents'
<1> SUFFICES ASSUME Inv, Contents, [Next]_vars PROVE Contents'
  OBVIOUS
<1>1. CASE UNCHANGED shards
  BY <1>1 DEF Contents
<1>2. ASSUME NEW db \in DBs, NEW id \in ShardIds, NEW closed \in BOOLEAN,
             ServeShards(db, id, closed), ~ UNCHANGED shards
      PROVE  Contents'
  <2>1. PICK shard \in NewShards(db, id, closed) :
            shards' = [shards EXCEPT ![db] = Append(@, shard)]
    BY <1>2 DEF ServeShards, ManageShard
  <2>2. DOMAIN shard.cached = {} /\ IsFiniteSet({})
    BY FS_EmptySet DEF NewShards
  <2>3. shards[db] \in Seq(Shard) /\ shards \in [DBs -> Seq(Shard)]
    BY DEF Inv, Types
  <2>4. ASSUME NEW d \in DBs, NEW i \in DOMAIN shards'[d]
        PROVE  \/ shards'[d][i] = shard
               \/ i \in DOMAIN shards[d] /\ shards'[d][i] = shards[d][i]
    <3>1. CASE d = db
      <4>1. shards'[d] = Append(shards[db], shard)
        BY <2>1, <2>3, <3>1
      <4>2. QED BY <2>3, <2>4, <3>1, <4>1
    <3>2. CASE d # db
      BY <2>1, <2>3, <2>4, <3>2
    <3>3. QED BY <3>1, <3>2
  <2>5. IsFiniteSet(DOMAIN shard.cached)
    BY <2>2
  <2>6. ASSUME NEW d \in DBs, NEW i \in DOMAIN shards'[d]
        PROVE  /\ IsFiniteSet(DOMAIN shards'[d][i].cached)
               /\ ~ shards'[d][i].loaded => DOMAIN shards'[d][i].cached = {}
    <3>1. CASE shards'[d][i] = shard
      BY <2>2, <2>5, <3>1
    <3>2. CASE i \in DOMAIN shards[d] /\ shards'[d][i] = shards[d][i]
      BY <3>2 DEF Contents
    <3>3. QED BY <2>4, <2>6, <3>1, <3>2
  <2>7. QED BY <2>6 DEF Contents
<1>3. ASSUME NEW db \in DBs, Writable(db) # {}, shards[db][FindShard(db)].loaded,
             NEW cached, IsFiniteSet(DOMAIN cached),
             shards' = [shards EXCEPT ![db][FindShard(db)].cached = cached]
      PROVE  Contents'
  <2>1. /\ Writable(db) \in SUBSET Nat /\ Writable(db) \subseteq DOMAIN shards[db]
        /\ shards[db] \in Seq(Shard) /\ shards \in [DBs -> Seq(Shard)]
    BY DEF Inv, Types, Writable
  <2>2. PICK f : f = FindShard(db)
    OBVIOUS
  <2>3. f \in DOMAIN shards[db] /\ shards[db][f] \in Shard
    BY <1>3, <2>1, <2>2, FirstIsFound DEF FindShard, IsFirst
  <2>4. PICK new : new = [shards[db][f] EXCEPT !.cached = cached]
    OBVIOUS
  <2>5. new.cached = cached /\ new.loaded
    BY <1>3, <2>2, <2>3, <2>4 DEF Shard
  <2>6. shards' = [shards EXCEPT ![db] = [shards[db] EXCEPT ![f] = new]]
    BY <1>3, <2>1, <2>2, <2>3, <2>4
  <2>7. ASSUME NEW d \in DBs, NEW i \in DOMAIN shards'[d]
        PROVE  shards'[d][i] = new \/ (i \in DOMAIN shards[d] /\ shards'[d][i] = shards[d][i])
    <3>1. CASE d = db
      BY <2>1, <2>3, <2>6, <2>7, <3>1
    <3>2. CASE d # db
      BY <2>1, <2>6, <2>7, <3>2
    <3>3. QED BY <3>1, <3>2
  <2>8. QED BY <1>3, <2>5, <2>7 DEF Contents
<1>4. ASSUME NEW db \in DBs, NEW fts \in Batches, AddFeatures(db, fts), ~ UNCHANGED shards
      PROVE  Contents'
  <2> DEFINE i == FindShard(db)
             old == shards[db][i].cached
  <2>1. /\ Writable(db) # {} /\ shards[db][i].loaded
        /\ shards' = [shards EXCEPT ![db][i].cached = Cache(@, fts)]
    BY <1>4 DEF AddFeatures
  <2>2. /\ Writable(db) \in SUBSET Nat /\ Writable(db) \subseteq DOMAIN shards[db]
        /\ shards[db] \in Seq(Shard) /\ shards \in [DBs -> Seq(Shard)]
    BY DEF Inv, Types, Writable
  <2>3. i \in DOMAIN shards[db]
    BY <2>1, <2>2, FirstIsFound DEF FindShard, IsFirst
  <2>4. IsFiniteSet(DOMAIN old)
    BY <2>3 DEF Contents
  <2>5. PICK n \in 1..MaxBatch : fts \in [1..n -> Items]
    BY DEF Batches
  <2>6. IsFiniteSet(1..n) /\ n \in Nat
    BY <2>5, BoundsAssumption, FS_Interval
  <2>7. IsFiniteSet({fts[k].feature_id : k \in DOMAIN fts})
    <3> DEFINE id(k) == fts[k].feature_id
    <3>1. PICK ids : ids = [k \in 1..n |-> fts[k].feature_id]
      OBVIOUS
    <3>2. {fts[k].feature_id : k \in DOMAIN fts} = {ids[k] : k \in 1..n}
      BY <2>5, <3>1
    <3>3. ids \in Surjection(1..n, {ids[k] : k \in 1..n})
      BY <3>1 DEF Surjection
    <3>4. IsFiniteSet({ids[k] : k \in 1..n})
      BY <2>6, <3>3, FS_Surjection
    <3>5. QED BY <3>2, <3>4
  <2>8. DOMAIN Cache(old, fts) = DOMAIN old \cup {fts[k].feature_id : k \in DOMAIN fts}
    BY DEF Cache
  <2>9. IsFiniteSet(DOMAIN Cache(old, fts))
    <3>1. IsFiniteSet(DOMAIN old \cup {fts[k].feature_id : k \in DOMAIN fts})
      BY <2>4, <2>7, FS_Union
    <3>2. QED BY <2>8, <3>1, Zenon
  <2>10. shards' = [shards EXCEPT ![db][i].cached = Cache(old, fts)]
    BY <2>1, <2>2, <2>3
  <2>11. QED BY <1>3, <2>1, <2>9, <2>10
<1>5. ASSUME NEW db \in DBs, NEW ids \in SUBSET FeatureIds, RemoveFeatures(db, ids),
             ~ UNCHANGED shards
      PROVE  Contents'
  <2> DEFINE i == FindShard(db)
             old == shards[db][i].cached
             left == Restrict(old, DOMAIN old \ ids)
  <2>1. /\ Writable(db) # {} /\ shards[db][i].loaded
        /\ shards' = [shards EXCEPT ![db][i].cached = Restrict(@, DOMAIN @ \ ids)]
    BY <1>5 DEF RemoveFeatures
  <2>2. /\ Writable(db) \in SUBSET Nat /\ Writable(db) \subseteq DOMAIN shards[db]
        /\ shards[db] \in Seq(Shard) /\ shards \in [DBs -> Seq(Shard)]
    BY DEF Inv, Types, Writable
  <2>3. i \in DOMAIN shards[db]
    BY <2>1, <2>2, FirstIsFound DEF FindShard, IsFirst
  <2>4. IsFiniteSet(DOMAIN old)
    BY <2>3 DEF Contents
  <2>5. DOMAIN left = DOMAIN old \ ids
    BY DEF Restrict
  <2>6. IsFiniteSet(DOMAIN left)
    BY <2>4, <2>5, FS_Subset
  <2>7. shards' = [shards EXCEPT ![db][i].cached = left]
    BY <2>1, <2>2, <2>3
  <2> HIDE DEF left
  <2>8. QED BY <1>3, <2>1, <2>6, <2>7
<1>6. CASE Die
  BY <1>6 DEF Die, Contents
<1>7. QED
  BY <1>1, <1>2, <1>4, <1>5, <1>6 DEF Next, vars, CloseShards, SearchFeature

(* What one search finds. *)
LEMMA SearchStep ==
    ASSUME Inv, Contents, NEW db \in DBs, NEW topk \in 1..MaxTopk, SearchFeature(db, topk)
    PROVE  SearchRanks'
<1>1. topk \in Nat \ {0}
  BY BoundsAssumption
<1>2. /\ shards[db] \in Seq(Shard) /\ Len(shards[db]) \in Nat
      /\ DOMAIN shards[db] = 1..Len(shards[db])
  BY DEF Inv, Types
<1> DEFINE Only(place, cache) ==
               /\ IF place = 0 THEN DOMAIN cache = {} ELSE cache = shards[db][place].cached
               /\ \A i \in 1..Len(shards[db]) : i # place => DOMAIN shards[db][i].cached = {}
           holds(i) == DOMAIN shards[db][i].cached # {}
<1>3. \E place \in 0..Len(shards[db]) : \E cache : Only(place, cache)
  <2>1. CASE \E i \in 1..Len(shards[db]) : holds(i)
    <3>1. PICK p \in 1..Len(shards[db]) : holds(p)
      BY <2>1
    <3>2. \A i \in 1..Len(shards[db]) : holds(i) => i = p
      <4>1. Writable(db) \in SUBSET Nat
        BY <1>2 DEF Writable
      <4>2. \A i \in 1..Len(shards[db]) : holds(i) => i = Min(Writable(db))
        BY <1>2, <4>1, FirstIsFound DEF Inv, OnlyFirstHolds
      <4>3. QED BY <3>1, <4>2
    <3>3. p \in 0..Len(shards[db]) /\ p # 0
      OBVIOUS
    <3>4. QED BY <3>2, <3>3
  <2>2. CASE ~ \E i \in 1..Len(shards[db]) : holds(i)
    <3>1. DOMAIN << >> = {} /\ 0 \in 0..Len(shards[db])
      BY <1>2
    <3>2. QED BY <2>2, <3>1
  <2>3. QED BY <2>1, <2>2
<1>4. PICK place \in 0..Len(shards[db]) : \E cache : Only(place, cache)
  BY <1>3
<1>5. PICK cache : Only(place, cache)
  BY <1>4
<1> DEFINE D == DOMAIN cache
<1>6. PICK heap \in Merged(db, topk) :
          found' = [db |-> db, topk |-> topk, scores |-> SortOut(heap)]
  BY DEF SearchFeature
<1>7. HeapOf(heap, cache, topk)
  BY <1>1, <1>5, MergeOfAll
<1>8. IsFiniteSet(D) /\ Cardinality(D) \in Nat /\ D \in SUBSET FeatureIds
  <2>1. CASE place = 0
    BY <1>5, <2>1, FS_EmptySet
  <2>2. CASE place # 0
    <3>1. cache = shards[db][place].cached /\ place \in DOMAIN shards[db]
      BY <1>2, <1>5, <2>2
    <3>2. shards[db][place] \in Shard /\ IsFiniteSet(D)
      BY <1>2, <3>1 DEF Contents
    <3>3. cache \in Caches
      BY <3>1, <3>2 DEF Shard
    <3>4. QED BY <3>2, <3>3, FS_CardinalityType DEF Caches
  <2>3. QED BY <2>1, <2>2
<1>9. \A id \in D : Len(heap) > 0
  <2> TAKE id \in D
  <2>1. Cardinality(D) # 0
    BY <1>8, FS_EmptySet
  <2>2. QED BY <1>1, <1>7, <1>8, <2>1 DEF HeapOf, Lesser
<1>10. PICK scores : scores = SortOut(heap)
  OBVIOUS
<1>11. ListOf(scores, cache, topk)
  BY <1>7, <1>9, <1>10, HeapOut
<1>12. found'.db = db /\ found'.topk = topk /\ found'.scores = scores /\ shards' = shards
  BY <1>6, <1>10 DEF SearchFeature
<1>13. Held(db) = {place} \X D
  <2>1. \A i \in DOMAIN shards[db] : \A id : id \in DOMAIN shards[db][i].cached =>
            i = place /\ id \in D
    <3> TAKE i \in DOMAIN shards[db]
    <3> TAKE id
    <3> HAVE id \in DOMAIN shards[db][i].cached
    <3>1. i = place /\ i # 0
      BY <1>2, <1>5
    <3>2. QED BY <1>5, <3>1
  <2>2. \A id \in D : place \in DOMAIN shards[db] /\ id \in DOMAIN shards[db][place].cached
    BY <1>2, <1>5
  <2>3. \A id \in D : id \in FeatureIds
    BY <1>8
  <2>4. ASSUME NEW h \in Held(db) PROVE h \in {place} \X D
    <3>1. /\ h \in (DOMAIN shards[db]) \X FeatureIds
          /\ h[2] \in DOMAIN shards[db][h[1]].cached
      BY DEF Held
    <3>2. h[1] = place /\ h[2] \in D /\ h = <<h[1], h[2]>>
      BY <2>1, <3>1
    <3>3. QED BY <3>2
  <2>5. ASSUME NEW h \in {place} \X D PROVE h \in Held(db)
    <3>1. h = <<place, h[2]>> /\ h[2] \in D /\ h[1] = place
      OBVIOUS
    <3>2. h \in (DOMAIN shards[db]) \X FeatureIds
      BY <2>2, <2>3, <3>1
    <3>3. QED BY <2>2, <3>1, <3>2 DEF Held
  <2>6. QED BY <2>4, <2>5
<1>14. \A h \in Held(db) : h[2] \in D /\ HeldScore(db, h) = cache[h[2]]
  <2> TAKE h \in Held(db)
  <2>1. h[1] = place /\ h[2] \in D
    BY <1>13
  <2>2. cache = shards[db][place].cached
    BY <1>5, <2>1
  <2>3. QED BY <2>1, <2>2 DEF HeldScore
<1>15. \A id \in D : <<place, id>> \in Held(db) /\ HeldScore(db, <<place, id>>) = cache[id]
  <2> TAKE id \in D
  <2>1. <<place, id>> \in Held(db)
    BY <1>13
  <2>2. QED BY <2>1, <1>14
<1>16. Cardinality(Held(db)) = Cardinality(D)
  <2>1. IsFiniteSet({place}) /\ Cardinality({place}) = 1
    BY FS_Singleton
  <2>2. Cardinality({place} \X D) = 1 * Cardinality(D)
    BY <1>8, <2>1, FS_Product
  <2>3. QED BY <1>8, <1>13, <2>2
<1>17. Len(scores) = Min({topk, Cardinality(Held(db))})
  <2>1. Len(scores) = Lesser(topk, Cardinality(D))
    BY <1>11 DEF ListOf
  <2>2. \A a, b \in Nat : Min({a, b}) = Lesser(a, b)
    <3> TAKE a, b \in Nat
    <3> DEFINE l == Lesser(a, b)
    <3>1. l \in {a, b} /\ \A y \in {a, b} : l <= y
      BY DEF Lesser
    <3>2. \A x \in {a, b} : (\A y \in {a, b} : x <= y) => x = l
      BY DEF Lesser
    <3> HIDE DEF l
    <3>3. QED BY <3>1, <3>2 DEF Min, l
  <2>3. QED BY <1>1, <1>8, <1>16, <2>1, <2>2
<1>18. ToSet(scores) \subseteq {HeldScore(db, h) : h \in Held(db)}
  <2>1. \A i \in 1..Len(scores) : \E h \in Held(db) : scores[i] = HeldScore(db, h)
    <3> TAKE i \in 1..Len(scores)
    <3>1. PICK id \in D : scores[i] = cache[id]
      BY <1>11 DEF ListOf
    <3>2. QED BY <1>15, <3>1
  <2>2. DOMAIN scores = 1..Len(scores)
    BY <1>11 DEF ListOf
  <2>3. QED BY <2>1, <2>2 DEF ToSet
<1>19. \A h \in Held(db) : HeldScore(db, h) <= scores[1]
  BY <1>11, <1>14 DEF ListOf
<1>20. \A n \in 2..Len(scores) : scores[n] <= scores[n - 1]
  BY <1>11 DEF ListOf
<1>21. Held(db)' = Held(db) /\ \A h : HeldScore(db, h)' = HeldScore(db, h)
  BY <1>12 DEF Held, HeldScore
<1>22. found'.db = db /\ found'.topk = topk /\ found'.scores = scores
  BY <1>12
<1>23. Held(found.db)' = Held(db) /\ \A h : HeldScore(found.db, h)' = HeldScore(db, h)
  BY <1>21, <1>22
<1>24. Len(found'.scores) = Min({found'.topk, Cardinality(Held(found.db)')})
  BY <1>17, <1>22, <1>23
<1>25. ToSet(found'.scores) \subseteq {HeldScore(found.db, h)' : h \in Held(found.db)'}
  BY <1>18, <1>22, <1>23
<1>26. \A h \in Held(found.db)' : HeldScore(found.db, h)' <= found'.scores[1]
  BY <1>19, <1>22, <1>23
<1>27. \A n \in 2..Len(found'.scores) : found'.scores[n] <= found'.scores[n - 1]
  BY <1>20, <1>22
<1>28. QED
  BY <1>24, <1>25, <1>26, <1>27 DEF SearchRanks

(* A search over all shards of a database brings as many results as it is     *)
(* asked for or as there are, in descending order and the best first, for any *)
(* databases, shards, features, scores and topk.                              *)
THEOREM SearchIsRanked == Spec => []SearchRanks
<1>1. Init => Contents /\ SearchRanks
  BY DEF Init, Contents, SearchRanks
<1>2. Inv /\ Contents /\ SearchRanks /\ [Next]_vars => SearchRanks'
  <2> SUFFICES ASSUME Inv, Contents, SearchRanks, [Next]_vars PROVE SearchRanks'
    OBVIOUS
  <2>1. CASE UNCHANGED vars
    <3>1. found' = found /\ shards' = shards
      BY <2>1 DEF vars
    <3>2. \A db : Held(db)' = Held(db)
      BY <3>1 DEF Held
    <3>3. \A db, h : HeldScore(db, h)' = HeldScore(db, h)
      BY <3>1 DEF HeldScore
    <3>4. QED BY <3>1, <3>2, <3>3 DEF SearchRanks
  <2>2. CASE found' = NothingFound
    BY <2>2 DEF SearchRanks
  <2>3. ASSUME NEW db \in DBs, NEW topk \in 1..MaxTopk, SearchFeature(db, topk)
        PROVE  SearchRanks'
    BY <2>3, SearchStep
  <2>4. QED
    BY <2>1, <2>2, <2>3 DEF Next, CloseShards, ServeShards, AddFeatures, RemoveFeatures, Die
<1>3. QED BY <1>1, <1>2, ContentsStep, Invariance, PTL DEF Spec
===============================================================================
