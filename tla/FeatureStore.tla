----------------------------- MODULE FeatureStore -----------------------------
(***************************************************************************)
(* What a shard of a search worker promises the threads that share it: a   *)
(* set of feature ids with linearizable operations.  Between its call and  *)
(* its return each operation takes effect once, in one step, and a search  *)
(* ranks exactly what the set holds at that step.  How the ranking picks   *)
(* its results is not this module's matter.                                *)
(***************************************************************************)
EXTENDS Sequences, SequencesExt

CONSTANTS
    Callers,
    Ids,
    Requests,     \* records with fields op and ids, a sequence over Ids
    NoValue

VARIABLES
    store,        \* the ids the shard holds
    phase,        \* of each caller: "idle", "pending", "answered"
    request,      \* its last request
    result        \* the ids in the answer

vars == <<store, phase, request, result>>

Init ==
    /\ store = {}
    /\ phase = [c \in Callers |-> "idle"]
    /\ request = [c \in Callers |-> NoValue]
    /\ result = [c \in Callers |-> {}]

Call(c, r) ==
    /\ phase[c] = "idle"
    /\ phase' = [phase EXCEPT ![c] = "pending"]
    /\ request' = [request EXCEPT ![c] = r]
    /\ result' = [result EXCEPT ![c] = {}]
    /\ UNCHANGED store

(* What an operation makes of the store; a load brings what the driver has,  *)
(* or nothing when it fails.                                                 *)
Effect(r) ==
    CASE r.op = "add"    -> {store \cup ToSet(r.ids)}
      [] r.op = "remove" -> {store \ ToSet(r.ids)}
      [] r.op = "load"   -> SUBSET Ids
      [] OTHER           -> {store}

Apply(c) ==
    /\ phase[c] = "pending"
    /\ phase' = [phase EXCEPT ![c] = "answered"]
    /\ store' \in Effect(request[c])
    /\ result' = [result EXCEPT ![c] = IF request[c].op = "search" THEN store ELSE {}]
    /\ UNCHANGED request

Return(c) ==
    /\ phase[c] = "answered"
    /\ phase' = [phase EXCEPT ![c] = "idle"]
    /\ UNCHANGED <<store, request, result>>

Next ==
    \E c \in Callers :
        \/ \E r \in Requests : Call(c, r)
        \/ Apply(c)
        \/ Return(c)

Spec == Init /\ [][Next]_vars

===============================================================================
