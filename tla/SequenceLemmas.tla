---------------------------- MODULE SequenceLemmas -----------------------------
(***************************************************************************)
(* Queues as sets: what Append and Tail do to the members of a sequence    *)
(* without repetitions.  Selections as sequences: Pick keeps what is at    *)
(* the places it is given, each once and in order.  And that a set of      *)
(* numbers has a least one, in place of induction.                         *)
(***************************************************************************)
EXTENDS Naturals, Sequences, SequencesExt, Subsequences, FiniteSetTheorems, TLAPS

(* Append adds one member and keeps a queue free of repetitions if the new    *)
(* member is not in it: what an enqueue does to the channel.                  *)
LEMMA AppendMembers ==
    ASSUME NEW S, NEW q \in Seq(S), NEW m \in S
    PROVE  /\ \A x : Contains(Append(q, m), x) <=> Contains(q, x) \/ x = m
           /\ IsInjective(q) /\ ~ Contains(q, m) => IsInjective(Append(q, m))
<1>1. /\ Append(q, m) \in Seq(S)
      /\ Len(Append(q, m)) = Len(q) + 1
      /\ \A i \in 1..Len(q) : Append(q, m)[i] = q[i]
      /\ Append(q, m)[Len(q) + 1] = m
      /\ Len(q) \in Nat
  OBVIOUS
<1>2. ASSUME NEW x PROVE Contains(Append(q, m), x) <=> Contains(q, x) \/ x = m
  BY <1>1 DEF Contains
<1>3. ASSUME IsInjective(q), ~ Contains(q, m) PROVE IsInjective(Append(q, m))
  <2>1. DOMAIN q = 1..Len(q) /\ DOMAIN Append(q, m) = 1..(Len(q) + 1)
    BY <1>1
  <2>2. \A i \in 1..(Len(q) + 1) : i \in 1..Len(q) \/ i = Len(q) + 1
    BY <1>1
  <2>3. QED BY <1>1, <1>3, <2>1, <2>2 DEF IsInjective, Contains
<1>4. QED BY <1>2, <1>3

(* Tail takes the head, and only the head, out of a queue without             *)
(* repetitions: what a dequeue or a handover does to the channel.             *)
LEMMA TailMembers ==
    ASSUME NEW S, NEW q \in Seq(S), q # << >>, IsInjective(q)
    PROVE  /\ Head(q) \in S /\ Contains(q, Head(q))
           /\ Tail(q) \in Seq(S) /\ IsInjective(Tail(q))
           /\ \A x : Contains(Tail(q), x) <=> Contains(q, x) /\ x # Head(q)
<1>1. /\ Head(q) = q[1] /\ 1 \in 1..Len(q) /\ Len(q) \in Nat
      /\ DOMAIN q = 1..Len(q)
      /\ Tail(q) \in Seq(S) /\ Len(Tail(q)) = Len(q) - 1
      /\ DOMAIN Tail(q) = 1..(Len(q) - 1)
      /\ \A i \in 1..(Len(q) - 1) : Tail(q)[i] = q[i + 1]
  OBVIOUS
<1>2. IsInjective(Tail(q))
  BY <1>1 DEF IsInjective
<1>3. ASSUME NEW x PROVE Contains(Tail(q), x) <=> Contains(q, x) /\ x # Head(q)
  <2>1. ASSUME Contains(q, x), x # Head(q) PROVE Contains(Tail(q), x)
    <3>1. PICK i \in 1..Len(q) : q[i] = x
      BY <2>1 DEF Contains
    <3>2. i # 1
      BY <1>1, <2>1, <3>1
    <3>3. i - 1 \in 1..(Len(q) - 1) /\ Tail(q)[i - 1] = x
      BY <1>1, <3>1, <3>2
    <3>4. QED BY <1>1, <3>3 DEF Contains
  <2>2. ASSUME Contains(Tail(q), x) PROVE Contains(q, x) /\ x # Head(q)
    <3>1. PICK i \in 1..(Len(q) - 1) : Tail(q)[i] = x
      BY <1>1, <2>2 DEF Contains
    <3>2. i + 1 \in 1..Len(q) /\ q[i + 1] = x /\ i + 1 # 1
      BY <1>1, <3>1
    <3>3. q[i + 1] # q[1]
      BY <1>1, <3>2 DEF IsInjective
    <3>4. QED BY <1>1, <3>2, <3>3 DEF Contains
  <2>3. QED BY <2>1, <2>2
<1>4. QED BY <1>1, <1>2, <1>3 DEF Contains

(* The empty queue has no members: the channel before its first use.          *)
LEMMA EmptyHasNoMembers ==
    ASSUME NEW S, NEW q \in Seq(S)
    PROVE  (q = << >>) <=> \A x : ~ Contains(q, x)
BY DEF Contains

(* A set of numbers has a least one. *)
LEMMA LeastIsThere ==
    ASSUME NEW S \in SUBSET Nat, S # {}
    PROVE  \E x \in S : \A y \in S : x <= y
<1>1. PICK x \in S : \A y \in S : ~ (<<y, x>> \in OpToRel(<, Nat))
  BY WFMin, NatLessThanWellFounded
<1>2. \A y \in S : ~ y < x
  BY <1>1 DEF OpToRel
<1>3. QED BY <1>2

(* A selection is a sequence, no longer than what it is taken from.           *)
LEMMA PlacesAreFinite ==
    ASSUME NEW n \in Nat, NEW I \in SUBSET (1..n)
    PROVE  /\ IsFiniteSet(I) /\ Cardinality(I) \in Nat /\ Cardinality(I) <= n
           /\ \A i \in I : i \in Int
<1>1. IsFiniteSet(1..n) /\ Cardinality(1..n) = n
  BY FS_Interval
<1>2. IsFiniteSet(I) /\ Cardinality(I) <= n /\ Cardinality(I) \in Nat
  BY <1>1, FS_Subset, FS_CardinalityType
<1>3. QED BY <1>2

LEMMA PickLength ==
    ASSUME NEW s, NEW n \in Nat, NEW I \in SUBSET (1..n)
    PROVE  /\ DOMAIN Pick(s, I) = 1..Cardinality(I)
           /\ Len(Pick(s, I)) = Cardinality(I)
BY PlacesAreFinite DEF Pick

(* The place a member of I comes to.                                          *)
Rank(I, i) == Cardinality({j \in I : j <= i})

(* Every member of I has a place of its own in the selection, and keeps the   *)
(* order.                                                                    *)
LEMMA RankGrows ==
    ASSUME NEW n \in Nat, NEW I \in SUBSET (1..n)
    PROVE  /\ \A i \in I : Rank(I, i) \in 1..Cardinality(I)
           /\ \A i, j \in I : i < j => Rank(I, i) < Rank(I, j)
<1>1. IsFiniteSet(I) /\ Cardinality(I) \in Nat /\ \A i \in I : i \in Int
  BY PlacesAreFinite
<1>2. ASSUME NEW i \in I PROVE Rank(I, i) \in 1..Cardinality(I)
  <2> DEFINE B == {j \in I : j <= i}
  <2>1. IsFiniteSet(B) /\ Cardinality(B) <= Cardinality(I) /\ Cardinality(B) \in Nat
    BY <1>1, FS_Subset, FS_CardinalityType
  <2>2. B # {}
    OBVIOUS
  <2>3. Cardinality(B) # 0
    BY <2>1, <2>2, FS_EmptySet
  <2>4. QED BY <1>1, <2>1, <2>3 DEF Rank
<1>3. ASSUME NEW i \in I, NEW j \in I, i < j PROVE Rank(I, i) < Rank(I, j)
  <2> DEFINE B == {k \in I : k <= i}
             C == {k \in I : k <= j}
  <2>1. i \in Int /\ j \in Int /\ \A k \in I : k <= i => k <= j
    BY <1>1, <1>3
  <2>2. B \in SUBSET C /\ j \in C /\ j \notin B /\ C \in SUBSET I
    <3>1. j <= j /\ ~ j <= i
      BY <2>1, <1>3
    <3>2. QED BY <2>1, <3>1
  <2>3. IsFiniteSet(C) /\ IsFiniteSet(B)
    BY <1>1, <2>2, FS_Subset
  <2>4. Cardinality(B) <= Cardinality(C) /\ Cardinality(B) # Cardinality(C)
    BY <2>2, <2>3, FS_Subset
  <2>5. Cardinality(B) \in Nat /\ Cardinality(C) \in Nat
    BY <2>3, FS_CardinalityType
  <2>6. QED BY <2>4, <2>5 DEF Rank
<1>4. QED BY <1>2, <1>3

(* Every place of the selection has a member of I. *)
LEMMA RankIsOnto ==
    ASSUME NEW n \in Nat, NEW I \in SUBSET (1..n), NEW k \in 1..Cardinality(I)
    PROVE  \E i \in I : Rank(I, i) = k
<1>1. IsFiniteSet(I) /\ Cardinality(I) \in Nat /\ \A i \in I : i \in Int
  BY PlacesAreFinite
<1> DEFINE C == 1..Cardinality(I)
           f == [i \in I |-> Rank(I, i)]
<1>2. IsFiniteSet(C) /\ Cardinality(C) = Cardinality(I)
  BY <1>1, FS_Interval
<1>3. f \in [I -> C] /\ \A i, j \in I : f[i] = f[j] => i = j
  <2>1. ASSUME NEW i \in I, NEW j \in I, f[i] = f[j] PROVE i = j
    <3>1. ~ i < j /\ ~ j < i
      <4>1. f[i] \in C /\ f[j] \in C
        BY RankGrows
      <4>2. (i < j => f[i] < f[j]) /\ (j < i => f[j] < f[i])
        BY RankGrows
      <4>3. QED BY <1>1, <2>1, <4>1, <4>2
    <3>2. QED BY <1>1, <3>1
  <2>2. QED BY <2>1, RankGrows
<1>4. f \in Injection(I, C)
  BY <1>3 DEF Injection, IsInjective
<1> HIDE DEF f
<1>5. f \in Surjection(I, C)
  BY <1>1, <1>2, <1>4, FS_Injection
<1>6. PICK i \in I : f[i] = k
  BY <1>5 DEF Surjection
<1>7. QED BY <1>6 DEF f

(* The k-th member comes to place k, so the selection is what is at the       *)
(* places, each once, in order.                                              *)
LEMMA NthHasRank ==
    ASSUME NEW n \in Nat, NEW I \in SUBSET (1..n)
    PROVE  /\ \A k \in 1..Cardinality(I) : Nth(I, k) \in I /\ Rank(I, Nth(I, k)) = k
           /\ \A i \in I : Nth(I, Rank(I, i)) = i
<1>1. ASSUME NEW k \in 1..Cardinality(I) PROVE Nth(I, k) \in I /\ Rank(I, Nth(I, k)) = k
  <2>1. \E i \in I : Cardinality({j \in I : j <= i}) = k
    BY <1>1, RankIsOnto DEF Rank
  <2>2. QED BY <2>1 DEF Nth, Rank
<1>2. ASSUME NEW i \in I PROVE Nth(I, Rank(I, i)) = i
  <2> DEFINE k == Rank(I, i)
             m == Nth(I, k)
  <2>1. k \in 1..Cardinality(I)
    BY RankGrows
  <2>2. m \in I /\ Rank(I, m) = k
    BY <1>1, <2>1
  <2>3. /\ m < i => Rank(I, m) < Rank(I, i)
        /\ i < m => Rank(I, i) < Rank(I, m)
        /\ k \in Int /\ m \in Int /\ i \in Int
    BY <2>1, <2>2, RankGrows, PlacesAreFinite
  <2> HIDE DEF k, m
  <2>4. ~ m < i /\ ~ i < m
    BY <2>2, <2>3 DEF k
  <2>5. QED BY <2>3, <2>4 DEF k, m
<1>3. QED BY <1>1, <1>2

(* What is in a selection of s, and where it comes from.                      *)
LEMMA PickMembers ==
    ASSUME NEW S, NEW s \in Seq(S), NEW I \in SUBSET (1..Len(s))
    PROVE  /\ \A k \in 1..Cardinality(I) : Nth(I, k) \in I /\ Pick(s, I)[k] = s[Nth(I, k)]
           /\ \A k, l \in 1..Cardinality(I) : Nth(I, k) = Nth(I, l) => k = l
           /\ \A i \in I : Rank(I, i) \in 1..Cardinality(I) /\ Pick(s, I)[Rank(I, i)] = s[i]
<1>1. PICK n \in Nat : n = Len(s)
  OBVIOUS
<1>2. I \in SUBSET (1..n)
  BY <1>1
<1>3. \A k \in 1..Cardinality(I) : Pick(s, I)[k] = s[Nth(I, k)]
  BY DEF Pick
<1>4. ASSUME NEW k \in 1..Cardinality(I), NEW l \in 1..Cardinality(I), Nth(I, k) = Nth(I, l)
      PROVE  k = l
  <2>1. Rank(I, Nth(I, k)) = k /\ Rank(I, Nth(I, l)) = l
    BY <1>2, NthHasRank
  <2>2. QED BY <1>4, <2>1
<1>5. ASSUME NEW i \in I PROVE Rank(I, i) \in 1..Cardinality(I) /\ Pick(s, I)[Rank(I, i)] = s[i]
  <2>1. Rank(I, i) \in 1..Cardinality(I) /\ Nth(I, Rank(I, i)) = i
    BY <1>2, RankGrows, NthHasRank
  <2>2. QED BY <1>3, <2>1
<1>6. QED BY <1>2, <1>3, <1>4, <1>5, NthHasRank

(* What is so at 0 and stays so from each number to the next is so up to n.   *)
LEMMA CountingUp ==
    ASSUME NEW n \in Nat, NEW S, 0 \in S, \A k \in 1..n : k - 1 \in S => k \in S
    PROVE  \A k \in 0..n : k \in S
<1> SUFFICES ASSUME NEW l \in 0..n, l \notin S PROVE FALSE
  OBVIOUS
<1> DEFINE T == {k \in 0..n : k \notin S}
<1>1. T \in SUBSET Nat /\ T # {}
  OBVIOUS
<1>2. PICK k \in T : \A j \in T : k <= j
  BY <1>1, LeastIsThere
<1>3. k \in 0..n /\ k # 0 /\ k \notin S
  OBVIOUS
<1>4. k \in 1..n /\ k - 1 \in 0..n /\ ~ k <= k - 1
  BY <1>3
<1>5. k - 1 \in S
  BY <1>2, <1>4
<1>6. QED BY <1>3, <1>4, <1>5

(* A recursive function on 0..n exists: the value before a number determines  *)
(* the one at it.                                                             *)
Recursion(f, n, X, base, step) ==
    /\ f \in [0..n -> X]
    /\ f[0] = base
    /\ \A k \in 1..n : f[k] = step[<<f[k - 1], k>>]

LEMMA StepByStep ==
    ASSUME NEW n \in Nat, NEW X, NEW base \in X, NEW step \in [X \X (1..n) -> X]
    PROVE  \E f : Recursion(f, n, X, base, step)
<1> USE DEF Recursion
<1> DEFINE Steps(f, m) == Recursion(f, m, X, base, step)
           S == {m \in 0..n : \E f : Steps(f, m)}
<1>1. 0 \in S
  <2>1. PICK f : f = [k \in 0..0 |-> base]
    OBVIOUS
  <2>2. f \in [0..0 -> X] /\ f[0] = base
    BY <2>1
  <2>3. Steps(f, 0)
    BY <2>2
  <2>4. QED BY <2>3
<1>2. ASSUME NEW m \in 1..n, m - 1 \in S PROVE m \in S
  <2>1. PICK f : Steps(f, m - 1)
    BY <1>2
  <2> DEFINE g == [k \in 0..m |-> IF k = m THEN step[<<f[m - 1], m>>] ELSE f[k]]
  <2>2. step[<<f[m - 1], m>>] \in X
    BY <1>2, <2>1
  <2>3. g \in [0..m -> X] /\ g[0] = base
    BY <1>2, <2>1, <2>2
  <2>4. \A k \in 0..m : g[k] = IF k = m THEN step[<<f[m - 1], m>>] ELSE f[k]
    OBVIOUS
  <2> HIDE DEF g
  <2>5. ASSUME NEW k \in 1..m PROVE g[k] = step[<<g[k - 1], k>>]
    <3>1. g[k - 1] = f[k - 1]
      <4>1. k - 1 \in 0..m /\ k - 1 # m
        BY <1>2, <2>5
      <4>2. QED BY <2>4, <4>1
    <3>2. CASE k = m
      <4>1. k \in 0..m /\ g[k] = step[<<f[m - 1], m>>]
        BY <1>2, <2>4, <3>2
      <4>2. <<g[k - 1], k>> = <<f[m - 1], m>>
        BY <3>1, <3>2
      <4>3. QED BY <4>1, <4>2
    <3>3. CASE k # m
      <4>1. k \in 1..(m - 1) /\ k \in 0..m
        BY <1>2, <2>5, <3>3
      <4>2. g[k] = f[k]
        BY <2>4, <3>3, <4>1
      <4>3. QED BY <2>1, <3>1, <4>1, <4>2
    <3>4. QED BY <3>2, <3>3
  <2>6. Steps(g, m)
    BY <2>3, <2>5
  <2>7. QED BY <2>6
<1> HIDE DEF S
<1>3. n \in S
  <2>1. \A k \in 0..n : k \in S
    BY <1>1, <1>2, CountingUp
  <2>2. QED BY <2>1
<1>4. QED BY <1>3 DEF S

(* A sequence into which e has been inserted at i.                            *)
LEMMA InsertedAt ==
    ASSUME NEW S, NEW s \in Seq(S), NEW i \in 1..(Len(s) + 1), NEW e \in S
    PROVE  /\ InsertAt(s, i, e) \in Seq(S)
           /\ Len(InsertAt(s, i, e)) = Len(s) + 1
           /\ InsertAt(s, i, e)[i] = e
           /\ \A k \in 1..(i - 1) : InsertAt(s, i, e)[k] = s[k]
           /\ \A k \in (i + 1)..(Len(s) + 1) : InsertAt(s, i, e)[k] = s[k - 1]
<1> DEFINE a == SubSeq(s, 1, i - 1)
           b == SubSeq(s, i, Len(s))
<1>1. Len(s) \in Nat /\ i \in Nat /\ DOMAIN s = 1..Len(s)
  OBVIOUS
<1>2. /\ a \in Seq(S) /\ Len(a) = i - 1
      /\ \A k \in 1..(i - 1) : a[k] = s[k]
  BY <1>1
<1>3. /\ b \in Seq(S) /\ Len(b) = Len(s) + 1 - i
      /\ \A k \in 1..(Len(s) + 1 - i) : b[k] = s[i + k - 1]
  BY <1>1
<1> HIDE DEF a, b
<1> DEFINE c == a \o <<e>>
<1>4. /\ c \in Seq(S) /\ Len(c) = i /\ c[i] = e
      /\ \A k \in 1..(i - 1) : c[k] = s[k]
  <2>1. /\ c \in Seq(S) /\ Len(c) = i
        /\ \A k \in 1..i : c[k] = IF k <= i - 1 THEN a[k] ELSE e
    BY <1>1, <1>2
  <2> HIDE DEF c
  <2>2. QED BY <1>1, <1>2, <2>1
<1> HIDE DEF c
<1>5. /\ c \o b \in Seq(S) /\ Len(c \o b) = Len(s) + 1
      /\ \A k \in 1..i : (c \o b)[k] = c[k]
      /\ \A k \in (i + 1)..(Len(s) + 1) : (c \o b)[k] = b[k - i]
  BY <1>1, <1>3, <1>4
<1>6. \A k \in (i + 1)..(Len(s) + 1) : (c \o b)[k] = s[k - 1]
  <2> TAKE k \in (i + 1)..(Len(s) + 1)
  <2>1. k - i \in 1..(Len(s) + 1 - i) /\ i + (k - i) - 1 = k - 1
    BY <1>1
  <2>2. b[k - i] = s[i + (k - i) - 1]
    BY <1>3, <2>1
  <2>3. QED BY <1>5, <2>1, <2>2
<1>7. InsertAt(s, i, e) = c \o b
  BY DEF InsertAt, a, b, c
<1>8. QED BY <1>1, <1>4, <1>5, <1>6, <1>7
===============================================================================
