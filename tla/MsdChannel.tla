------------------------------ MODULE MsdChannel ------------------------------
(***************************************************************************)
(* msd::channel of video_process/include/msd: a buffer, one mutex and one  *)
(* condition variable for readers and writers alike.  A write or a read    *)
(* that has to wait evaluates its predicate under the mutex and goes to    *)
(* sleep, which gives the mutex up; afterwards it notifies one sleeper.    *)
(* close() sets a flag and notifies all, without the mutex.                *)
(*                                                                         *)
(* Begin... and End... are for the threads that use the channel; what is   *)
(* between them is the channel's own code.  A condition variable may also  *)
(* wake spuriously; nothing relies on that, and it is left out.            *)
(***************************************************************************)
EXTENDS Naturals, Sequences, FiniteSets

CONSTANTS
    Writers, Readers,   \* the threads that use the channel
    Values,             \* what they send through it
    Capacity,           \* cap_; zero means unbounded
    NoValue             \* a read that has left its variable as it was

Threads == Writers \cup Readers

VARIABLES
    queue,      \* queue_, and size_ its length
    closed,     \* is_closed_
    asleep,     \* the threads waiting in cnd_
    op,         \* where each thread is in an operation: see OpStates
    item        \* what a thread is to write, or has read

OpStates ==
    {"none",                     \* not inside the channel
     "read", "write",            \* needs the mutex
     "readWaits", "writeWaits",  \* predicate false, about to sleep: holds the mutex
     "notify",                   \* mutex given back, cnd_.notify_one() to come
     "notifyAll",                \* in close(), the flag is set
     "returned", "threw"}

MutexFree == \A t \in Threads : op[t] \notin {"readWaits", "writeWaits"}
Full      == Capacity > 0 /\ Len(queue) = Capacity
Awake(t)  == t \notin asleep

ChannelInit ==
    /\ queue = << >>
    /\ closed = FALSE
    /\ asleep = {}
    /\ op = [t \in Threads |-> "none"]
    /\ item = [t \in Threads |-> NoValue]

Goes(t, state) == op' = [op EXCEPT ![t] = state]

(* operator<<. *)
BeginWrite(t, v) ==
    /\ op[t] = "none"
    /\ Goes(t, IF closed THEN "threw" ELSE "write")
    /\ item' = [item EXCEPT ![t] = v]
    /\ UNCHANGED <<queue, closed, asleep>>

(* A woken writer that does not look again. *)
WriteUnchecked(t) ==
    /\ op[t] = "write" /\ Awake(t) /\ MutexFree
    /\ queue' = Append(queue, item[t])
    /\ Goes(t, "notify")
    /\ UNCHANGED <<closed, asleep, item>>

Write(t) ==
    /\ op[t] = "write" /\ Awake(t) /\ MutexFree
    /\ ~ Full
    /\ queue' = Append(queue, item[t])
    /\ Goes(t, "notify")
    /\ UNCHANGED <<closed, asleep, item>>

WriteWaits(t) ==
    /\ op[t] = "write" /\ Awake(t) /\ MutexFree
    /\ Full
    /\ Goes(t, "writeWaits")
    /\ UNCHANGED <<queue, closed, asleep, item>>

(* operator>>: a closed and empty channel is left at once, and so is one that *)
(* is closed while the read waits.                                           *)
BeginRead(t) ==
    /\ op[t] = "none"
    /\ Goes(t, IF closed /\ queue = << >> THEN "returned" ELSE "read")
    /\ item' = [item EXCEPT ![t] = NoValue]
    /\ UNCHANGED <<queue, closed, asleep>>

(* A read that leaves the value in the buffer. *)
ReadWithoutPop(t) ==
    /\ op[t] = "read" /\ Awake(t) /\ MutexFree
    /\ queue # << >>
    /\ item' = [item EXCEPT ![t] = Head(queue)]
    /\ Goes(t, "notify")
    /\ UNCHANGED <<queue, closed, asleep>>

Read(t) ==
    /\ op[t] = "read" /\ Awake(t) /\ MutexFree
    /\ queue # << >>
    /\ item' = [item EXCEPT ![t] = Head(queue)]
    /\ queue' = Tail(queue)
    /\ Goes(t, "notify")
    /\ UNCHANGED <<closed, asleep>>

(* A read that does not wait again when it was woken for nothing. *)
ReadGivesUp(t) ==
    /\ op[t] = "read" /\ Awake(t) /\ MutexFree
    /\ queue = << >>
    /\ Goes(t, "notify")
    /\ UNCHANGED <<queue, closed, asleep, item>>

ReadFindsClosed(t) ==
    /\ op[t] = "read" /\ Awake(t) /\ MutexFree
    /\ queue = << >> /\ closed
    /\ Goes(t, "notify")
    /\ UNCHANGED <<queue, closed, asleep, item>>

ReadWaits(t) ==
    /\ op[t] = "read" /\ Awake(t) /\ MutexFree
    /\ queue = << >> /\ ~ closed
    /\ Goes(t, "readWaits")
    /\ UNCHANGED <<queue, closed, asleep, item>>

(* cnd_.wait: asleep and without the mutex in one step.  A woken thread      *)
(* evaluates its predicate again.                                            *)
FallAsleep(t) ==
    /\ op[t] \in {"readWaits", "writeWaits"}
    /\ asleep' = asleep \cup {t}
    /\ Goes(t, IF op[t] = "readWaits" THEN "read" ELSE "write")
    /\ UNCHANGED <<queue, closed, item>>

(* A read or write that notifies nobody. *)
ForgetToNotify(t) ==
    /\ op[t] = "notify"
    /\ Goes(t, "returned")
    /\ UNCHANGED <<queue, closed, asleep, item>>

Notify(t) ==
    /\ op[t] = "notify"
    /\ IF asleep = {} THEN UNCHANGED asleep
       ELSE \E u \in asleep : asleep' = asleep \ {u}
    /\ Goes(t, "returned")
    /\ UNCHANGED <<queue, closed, item>>

(* close(). *)
BeginClose(t) ==
    /\ op[t] = "none"
    /\ closed' = TRUE
    /\ Goes(t, "notifyAll")
    /\ UNCHANGED <<queue, asleep, item>>

NotifyAll(t) ==
    /\ op[t] = "notifyAll"
    /\ asleep' = {}
    /\ Goes(t, "returned")
    /\ UNCHANGED <<queue, closed, item>>

(* The thread has what it wanted and goes on. *)
End(t) ==
    /\ op[t] = "returned"
    /\ Goes(t, "none")
    /\ UNCHANGED <<queue, closed, asleep, item>>

Step(t) ==
    \/ Write(t) \/ WriteWaits(t) \/ Read(t) \/ ReadFindsClosed(t) \/ ReadWaits(t)
    \/ FallAsleep(t) \/ Notify(t) \/ NotifyAll(t)

-------------------------------------------------------------------------------
(* Type invariant. *)
TypeOK ==
    /\ queue \in Seq(Values)
    /\ Capacity > 0 => Len(queue) <= Capacity
    /\ closed \in BOOLEAN
    /\ asleep \subseteq Threads
    /\ op \in [Threads -> OpStates]
    /\ item \in [Threads -> Values \cup {NoValue}]

(* What a sleeping thread waits for. *)
Ready(t) == IF op[t] = "read" THEN queue # << >> ELSE ~ Full

(* As long as the channel is open, a thread that sleeps although it could go  *)
(* on is woken by a notification still to come, or by a thread that is awake  *)
(* and will notify in its turn.                                              *)
NoMissedWake ==
    ~ closed => \A t \in asleep :
        Ready(t) => \E u \in Threads : Awake(u) /\ op[u] \in {"notify", "read", "write"}
===============================================================================
