------------------------------ MODULE MsgChannel ------------------------------
(***************************************************************************)
(* The channel between the callers of a component and its service threads: *)
(* `using MsgChannel = NotificationQueue' of common/donde/message.h.  The  *)
(* queue itself is Poco's and is not part of the repository; it is         *)
(* modelled by what its users in modules/ rely on.  Each operation holds   *)
(* the queue's mutex, so it is one step.                                   *)
(*                                                                         *)
(* A consumer that finds the queue empty leaves a record in waitQueue and  *)
(* blocks.  Taking its record out of waitQueue is what wakes it: with a    *)
(* message (enqueueNotification) or without one (wakeUpAll).               *)
(***************************************************************************)
EXTENDS Naturals, Sequences, SequencesExt

CONSTANTS
    Threads,    \* the consumer threads
    Messages,   \* what is enqueued
    NoMessage   \* the null Notification::Ptr

VARIABLES
    nfQueue,    \* messages nobody has taken yet, oldest first
    waitQueue,  \* the consumers blocked in waitDequeueNotification, oldest first
    handedOver  \* the message a producer has put into a consumer's wait record

ChannelInit ==
    /\ nfQueue = << >>
    /\ waitQueue = << >>
    /\ handedOver = [t \in Threads |-> NoMessage]

ChannelTypeOK ==
    /\ nfQueue \in Seq(Messages)
    /\ waitQueue \in Seq(Threads)
    /\ handedOver \in [Threads -> Messages \cup {NoMessage}]

(* A queue just made. *)
NewChannel ==
    /\ nfQueue' = << >>
    /\ waitQueue' = << >>
    /\ handedOver' = [t \in Threads |-> NoMessage]

Queued(m)  == Contains(nfQueue, m)
Blocked(t) == Contains(waitQueue, t)

(* A producer that overlooks the waiting consumers. *)
EnqueueWithoutHandover(m) ==
    /\ nfQueue' = Append(nfQueue, m)
    /\ UNCHANGED <<waitQueue, handedOver>>

enqueueNotification(m) ==
    \/ /\ waitQueue = << >>
       /\ nfQueue' = Append(nfQueue, m)
       /\ UNCHANGED <<waitQueue, handedOver>>
    \/ /\ waitQueue # << >>
       /\ handedOver' = [handedOver EXCEPT ![Head(waitQueue)] = m]
       /\ waitQueue' = Tail(waitQueue)
       /\ UNCHANGED nfQueue

(* waitDequeueNotification, first half: take the oldest message ... *)
TakeQueued(m) ==
    /\ nfQueue # << >>
    /\ m = Head(nfQueue)
    /\ nfQueue' = Tail(nfQueue)
    /\ UNCHANGED <<waitQueue, handedOver>>

(* ... or, when there is none, start to wait. *)
StartWaiting(t) ==
    /\ nfQueue = << >>
    /\ waitQueue' = Append(waitQueue, t)
    /\ UNCHANGED <<nfQueue, handedOver>>

(* waitDequeueNotification, second half: the wait has been ended by a       *)
(* producer (m is its message) or by wakeUpAll (m is null).                 *)
StopWaiting(t, m) ==
    /\ ~ Blocked(t)
    /\ m = handedOver[t]
    /\ handedOver' = [handedOver EXCEPT ![t] = NoMessage]
    /\ UNCHANGED <<nfQueue, waitQueue>>

(* waitDequeueNotification(milliseconds): the time is up and nobody has     *)
(* taken the record out of the queue; the consumer does it itself.          *)
WaitTimesOut(t) ==
    /\ \E i \in DOMAIN waitQueue :
          waitQueue[i] = t /\ waitQueue' = RemoveAt(waitQueue, i)
    /\ UNCHANGED <<nfQueue, handedOver>>

(* Wakes the consumers that are blocked now; one that is busy never notices. *)
wakeUpAll ==
    /\ waitQueue' = << >>
    /\ UNCHANGED <<nfQueue, handedOver>>

===============================================================================
