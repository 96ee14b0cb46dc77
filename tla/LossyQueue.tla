------------------------------ MODULE LossyQueue ------------------------------
(***************************************************************************)
(* What src/src/libmqtt/queue.c promises its callers, without its locks,   *)
(* its ring buffer or its condition variable: a bounded FIFO queue that    *)
(* never refuses a message, because a message put into a full queue pushes *)
(* the oldest one out.  A blocking receive comes back without a message    *)
(* only after the queue has been shut and emptied; a timed one may always  *)
(* come back without one.  Nothing is put or taken once it is closed.      *)
(***************************************************************************)
EXTENDS Naturals, Sequences

CONSTANTS
    nCapacity,          \* the length given to CreateMessageQueue
    Messages,           \* the messages a sender may hand over
    NoMessage,          \* the NULL a receiver gets when there is no message
    TimedReceivers,     \* threads that call ReceiveMessageTimeout
    BlockingReceivers   \* threads that call ReceiveMessage

Receivers == TimedReceivers \cup BlockingReceivers

VARIABLES
    items,      \* the messages in the queue, oldest first
    shut,       \* DestroyMessageQueue has announced the end
    closed,     \* the storage is gone
    result      \* what each receiver got from its last call

vars == <<items, shut, closed, result>>

Init ==
    /\ items = <<>>
    /\ shut = FALSE
    /\ closed = FALSE
    /\ result = [r \in Receivers |-> NoMessage]

Put(m) ==
    /\ ~closed
    /\ items' = IF Len(items) < nCapacity
                THEN Append(items, m)
                ELSE Append(Tail(items), m)
    /\ UNCHANGED <<shut, closed, result>>

Take(r) ==
    /\ ~closed
    /\ items # <<>>
    /\ result' = [result EXCEPT ![r] = Head(items)]
    /\ items' = Tail(items)
    /\ UNCHANGED <<shut, closed>>

TakeNothing(r) ==
    /\ r \in BlockingReceivers => shut /\ items = <<>>
    /\ result' = [result EXCEPT ![r] = NoMessage]
    /\ UNCHANGED <<items, shut, closed>>

Shut ==
    /\ ~closed
    /\ shut' = TRUE
    /\ UNCHANGED <<items, closed, result>>

Close ==
    /\ shut
    /\ closed' = TRUE
    /\ items' = <<>>
    /\ UNCHANGED <<shut, result>>

Reopen ==
    /\ closed
    /\ closed' = FALSE
    /\ shut' = FALSE
    /\ UNCHANGED <<items, result>>

Next ==
    \/ \E m \in Messages : Put(m)
    \/ \E r \in Receivers : Take(r) \/ TakeNothing(r)
    \/ Shut
    \/ Close
    \/ Reopen

Spec == Init /\ [][Next]_vars
===============================================================================
