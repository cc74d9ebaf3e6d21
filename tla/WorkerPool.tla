------------------------------ MODULE WorkerPool ------------------------------
(***************************************************************************)
(* What a processor promises those who call it, and the pipeline relies    *)
(* on: it starts with as many workers as it was configured for, and until  *)
(* it is off again each of them is there but for those an exception has    *)
(* ended, one for each call that cannot be processed.  A call is answered  *)
(* by a worker that is there, with the answer to that call, or lost for    *)
(* good: because it is not of the kind the workers take, or with the       *)
(* worker that could not process it.                                       *)
(***************************************************************************)
EXTENDS Naturals

CONSTANTS
    Callers,
    Requests,
    Accepted,      \* the requests the workers answer ...
    Fatal,         \* ... and those that end the worker; the others are dropped
    Concurrent,    \* the workers asked for
    NoValue        \* no request yet, no reply yet

VARIABLES
    state,         \* "off", "serving", "stopping"
    alive,         \* the workers that are there; none when it is off
    phase,         \* of each caller: "idle", "pending", "answered", "lost"
    request,       \* its last request
    reply          \* the answer in the message, named by the request it answers

vars == <<state, alive, phase, request, reply>>
poolVars == <<state, alive>>

Init ==
    /\ state = "off"
    /\ alive = 0
    /\ phase = [c \in Callers |-> "idle"]
    /\ request = [c \in Callers |-> NoValue]
    /\ reply = [c \in Callers |-> NoValue]

TurnsOff == state' = "off" /\ alive' = 0

(* With the workers asked for, and those an Init that failed has left behind. *)
Starts ==
    /\ state = "off"
    /\ state' = "serving"
    /\ alive' \in Nat /\ alive' >= Concurrent
    /\ UNCHANGED <<phase, request, reply>>

Wakes ==
    /\ state = "serving"
    /\ state' = "stopping"
    /\ UNCHANGED <<alive, phase, request, reply>>

(* The last worker has gone, or all of them had been lost before. *)
Stops ==
    /\ state = "stopping" \/ (state = "serving" /\ alive = 0)
    /\ TurnsOff
    /\ UNCHANGED <<phase, request, reply>>

Call(c, r) ==
    /\ phase[c] = "idle"
    /\ phase' = [phase EXCEPT ![c] = "pending"]
    /\ request' = [request EXCEPT ![c] = r]
    /\ reply' = [reply EXCEPT ![c] = NoValue]
    /\ UNCHANGED poolVars

(* Busy workers go on when they are to stop. *)
IsServed(c) == phase[c] = "pending" /\ state \in {"serving", "stopping"} /\ alive > 0

Answer(c) ==
    /\ IsServed(c)
    /\ request[c] \in Accepted
    /\ phase' = [phase EXCEPT ![c] = "answered"]
    /\ reply' = [reply EXCEPT ![c] = request[c]]
    /\ UNCHANGED <<poolVars, request>>

Drop(c) ==
    /\ IsServed(c)
    /\ request[c] \notin Accepted \cup Fatal
    /\ phase' = [phase EXCEPT ![c] = "lost"]
    /\ UNCHANGED <<poolVars, request, reply>>

(* When it is to stop, this may have been the last one to go. *)
Throw(c) ==
    /\ IsServed(c)
    /\ request[c] \in Fatal
    /\ phase' = [phase EXCEPT ![c] = "lost"]
    /\ \/ alive' = alive - 1 /\ UNCHANGED state
       \/ state = "stopping" /\ TurnsOff
    /\ UNCHANGED <<request, reply>>

Return(c) ==
    /\ phase[c] = "answered"
    /\ phase' = [phase EXCEPT ![c] = "idle"]
    /\ UNCHANGED <<poolVars, request, reply>>

Next ==
    \/ Starts \/ Wakes \/ Stops
    \/ \E c \in Callers :
          \/ \E r \in Requests : Call(c, r)
          \/ Answer(c) \/ Drop(c) \/ Throw(c) \/ Return(c)

Spec == Init /\ [][Next]_vars

===============================================================================
