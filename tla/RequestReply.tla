----------------------------- MODULE RequestReply -----------------------------
(***************************************************************************)
(* What a component that serves calls through a channel promises its       *)
(* callers, whatever threads and queues it is made of: a caller has at     *)
(* most one call outstanding, a call the service accepts may be answered   *)
(* once, with the answer to that call and no other, and a caller leaves    *)
(* only with an answer.  The interface is WorkMessage of message.h: the    *)
(* caller blocks in waitResponse, the service calls setResponse.           *)
(***************************************************************************)
CONSTANTS
    Callers,
    Requests,
    Accepted,      \* the requests the service answers
    NoValue        \* no request yet, no reply yet

VARIABLES
    phase,         \* of each caller: "idle", "pending", "answered"
    request,       \* its last request
    reply          \* the answer in the message, named by the request it answers

vars == <<phase, request, reply>>

Init ==
    /\ phase = [c \in Callers |-> "idle"]
    /\ request = [c \in Callers |-> NoValue]
    /\ reply = [c \in Callers |-> NoValue]

Call(c, r) ==
    /\ phase[c] = "idle"
    /\ phase' = [phase EXCEPT ![c] = "pending"]
    /\ request' = [request EXCEPT ![c] = r]
    /\ reply' = [reply EXCEPT ![c] = NoValue]

Answer(c) ==
    /\ phase[c] = "pending"
    /\ request[c] \in Accepted
    /\ phase' = [phase EXCEPT ![c] = "answered"]
    /\ reply' = [reply EXCEPT ![c] = request[c]]
    /\ UNCHANGED request

Return(c) ==
    /\ phase[c] = "answered"
    /\ phase' = [phase EXCEPT ![c] = "idle"]
    /\ UNCHANGED <<request, reply>>

Next ==
    \E c \in Callers :
        \/ \E r \in Requests : Call(c, r)
        \/ Answer(c)
        \/ Return(c)

Spec == Init /\ [][Next]_vars

===============================================================================
