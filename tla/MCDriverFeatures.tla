---------------------------- MODULE MCDriverFeatures -----------------------------
(* DriverFeatures with the symmetry of its features and of its shards. *)
EXTENDS DriverFeatures

Symmetry == Permutations(Ids) \cup Permutations(Shards)

(* Picking the places that pass a test is selecting by the test. *)
ASSUME PickSelects ==
    \A n \in 0..4 : \A passes \in [1..n -> BOOLEAN] :
        LET s == [i \in 1..n |-> i]
        IN  Pick(s, {i \in 1..n : passes[i]}) = SelectSeq(s, LAMBDA i : passes[i])

===============================================================================
