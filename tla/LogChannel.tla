------------------------------- MODULE LogChannel -------------------------------
(***************************************************************************)
(* The log channel of src/src/libmqtt/control.c: LinkInitLog starts a      *)
(* thread that publishes what any thread hands to LinkSendLog, until       *)
(* LinkDinitLog.  In between is a message queue, which behaves as          *)
(* LossyQueue says (what MessageQueue was shown to implement).             *)
(*                                                                         *)
(* LinkSendLog would rather refuse a message than push an older one out;   *)
(* it looks at nSize first, without the queue's lock, and may see it while *)
(* another sender has it one above the capacity (queue.c:84-90).  It looks *)
(* neither at isUsed nor at pQueue.                                        *)
(*                                                                         *)
(* One thread calls LinkInitLog and LinkDinitLog, in turn.  A message is   *)
(* its number.                                                             *)
(***************************************************************************)
EXTENDS Integers, Sequences

CONSTANTS
    nCapacity,      \* MESSAGE_QUEUE_MAX
    Senders,        \* the threads that log
    MaxMessages,    \* bound on the messages ever made
    MaxInits        \* bound on the calls of LinkInitLog

ASSUME BoundAssumption ==
    /\ nCapacity \in Nat \ {0}
    /\ MaxMessages \in Nat /\ MaxInits \in Nat

Messages == 1 .. MaxMessages
NoMessage == 0
LogThread == "LinkLogThread"

VARIABLES
    isUsed,         \* LogSession.isUsed
    items, shut, closed, result,    \* LogSession.pQueue; closed is NULL or freed
    owner, log,     \* where the owner and LinkLogThread are
    sender, message,    \* where each sender is, with which message
    made, inits,    \* history: the two bounded counters
    raced           \* history: senders beside whose look, or since it, another has stored

queue == <<items, shut, closed, result>>
threads == <<owner, log, sender, message>>
history == <<made, inits, raced>>
vars == <<isUsed, queue, threads, history>>

\* A sender that holds the queue's mutex, with nSize one above nCapacity.
Storing == {u \in Senders : sender[u] = "storing"}

Queue == INSTANCE LossyQueue
    WITH TimedReceivers <- {LogThread}, BlockingReceivers <- {}

Init ==
    /\ isUsed = FALSE
    /\ items = <<>> /\ shut = TRUE /\ closed = TRUE
    /\ result = [r \in {LogThread} |-> NoMessage]
    /\ owner = "idle" /\ log = "none"
    /\ sender = [s \in Senders |-> "idle"]
    /\ message = [s \in Senders |-> NoMessage]
    /\ made = 0 /\ inits = 0
    /\ raced = {}

-------------------------------------------------------------------------------
\* The owner.
\* LinkInitLog, unless the queue cannot be had.
LinkInitLog ==
    /\ owner = "idle" /\ ~isUsed
    /\ inits < MaxInits /\ inits' = inits + 1
    /\ Queue!Reopen
    /\ isUsed' = TRUE
    /\ log' = "receive"
    /\ UNCHANGED <<owner, sender, message, made, raced>>

\* Mutant: the queue goes before the thread.
LinkDinitLogUnjoined ==
    /\ owner = "idle" /\ isUsed
    /\ isUsed' = FALSE
    /\ owner' = "destroy"
    /\ UNCHANGED <<queue, log, sender, message, history>>

\* LinkDinitLog up to pthread_join.
LinkDinitLog ==
    /\ owner = "idle" /\ isUsed
    /\ isUsed' = FALSE
    /\ owner' = "join"
    /\ UNCHANGED <<queue, log, sender, message, history>>

Join ==
    /\ owner = "join" /\ log = "ended"
    /\ owner' = "destroy"
    /\ UNCHANGED <<isUsed, queue, log, sender, message, history>>

\* DestroyMessageQueue: what is in the queue is lost.
DestroyShut ==
    /\ owner = "destroy" /\ ~shut /\ Storing = {}
    /\ Queue!Shut
    /\ UNCHANGED <<isUsed, threads, history>>

\* A sender that has locked mutex since is left with freed memory.
DestroyClose ==
    /\ owner = "destroy" /\ shut
    /\ Queue!Close
    /\ owner' = "idle"
    /\ sender' = [s \in Senders |-> IF s \in Storing THEN "fault" ELSE sender[s]]
    /\ UNCHANGED <<isUsed, log, message, history>>

-------------------------------------------------------------------------------
\* LinkLogThread.
\* ReceiveMessageTimeout, for a second: it takes a message that is there ...
Receive ==
    /\ log = "receive" /\ ~closed /\ Storing = {}
    /\ Queue!Take(LogThread)
    /\ log' = "received"
    /\ UNCHANGED <<isUsed, owner, sender, message, history>>

\* ... and else waits for one, which may come with the timeout and be left there.
Wait ==
    /\ log = "receive" /\ ~closed /\ Storing = {} /\ items = <<>>
    /\ log' = "waiting"
    /\ UNCHANGED <<isUsed, queue, owner, sender, message, history>>

\* Mutant: ReceiveMessage, which waits for a message however long it takes.
ResumeWithMessage ==
    /\ log = "waiting" /\ ~closed /\ Storing = {}
    /\ Queue!Take(LogThread)
    /\ log' = "received"
    /\ UNCHANGED <<isUsed, owner, sender, message, history>>

Resume ==
    /\ log = "waiting" /\ ~closed /\ Storing = {}
    /\ Queue!Take(LogThread) \/ Queue!TakeNothing(LogThread)
    /\ log' = "received"
    /\ UNCHANGED <<isUsed, owner, sender, message, history>>

\* LinkMqttPublish, if there is a message; its result is not looked at.  Then another
\* round, while isUsed.
Publish ==
    /\ log = "received"
    /\ log' = IF isUsed THEN "receive" ELSE "ended"
    /\ UNCHANGED <<isUsed, queue, owner, sender, message, history>>

-------------------------------------------------------------------------------
\* LinkSendLog.

Look(s, to) ==
    /\ sender[s] = "idle"
    /\ made < MaxMessages /\ made' = made + 1
    /\ sender' = [sender EXCEPT ![s] = to]
    /\ message' = [message EXCEPT ![s] = made']
    /\ raced' = IF Storing = {} THEN raced \ {s} ELSE raced \cup {s}
    /\ UNCHANGED <<isUsed, queue, owner, log, inits>>

\* The queue is full: MQTT_QUEUE_FULL.  The copy of the message is not freed.
Refuse(s) == ~closed /\ Len(items) = nCapacity /\ Look(s, "idle")

\* Mutant: one too many.
AcceptOneMore(s) == ~closed /\ Len(items) <= nCapacity /\ Look(s, "looked")

\* It is not, or is more than full for the moment: the message is to be sent.
Accept(s) ==
    /\ ~closed
    /\ Len(items) # nCapacity \/ Storing # {}
    /\ Look(s, "looked")

\* There is no queue to look at.
LookAtNothing(s) == closed /\ Look(s, "fault")

Put(s) ==
    /\ Queue!Put(message[s])
    /\ raced' = (raced \cup {u \in Senders : sender[u] = "looked"}) \ {s}
    /\ sender' = [sender EXCEPT ![s] = "idle"]
    /\ UNCHANGED <<isUsed, owner, log, message, made, inits>>

\* SendMessage, where there is a place ...
Send(s) ==
    /\ sender[s] = "looked" /\ Storing = {}
    /\ Len(items) < nCapacity
    /\ Put(s)

\* ... and where there is none: nSize goes beyond nCapacity ...
Overfill(s) ==
    /\ sender[s] = "looked" /\ Storing = {}
    /\ ~closed /\ Len(items) = nCapacity
    /\ sender' = [sender EXCEPT ![s] = "storing"]
    /\ UNCHANGED <<isUsed, queue, owner, log, message, history>>

\* ... and comes back.  What is pushed out is not freed.
PushOut(s) == sender[s] = "storing" /\ Put(s)

\* The queue has gone meanwhile: SendMessage of NULL does nothing, and LinkSendLog says
\* 1 as ever; or pQueue was read before it was set to NULL, and what it points to has
\* been freed.
SendNowhere(s) ==
    /\ sender[s] = "looked" /\ closed
    /\ \E to \in {"idle", "fault"} : sender' = [sender EXCEPT ![s] = to]
    /\ UNCHANGED <<isUsed, queue, owner, log, message, history>>

-------------------------------------------------------------------------------
Owner == LinkInitLog \/ LinkDinitLog \/ Join \/ DestroyShut \/ DestroyClose
Log == Receive \/ Wait \/ Resume \/ Publish
Sender(s) ==
    \/ Refuse(s) \/ Accept(s) \/ LookAtNothing(s)
    \/ Send(s) \/ Overfill(s) \/ PushOut(s) \/ SendNowhere(s)

Next == Owner \/ Log \/ \E s \in Senders : Sender(s)

Spec == Init /\ [][Next]_vars

\* LinkLogThread runs, as a timed receive and a publish come back; so does
\* LinkDinitLog, once it is called, and a sender that holds the queue's mutex.
FairSpec ==
    /\ Spec
    /\ WF_vars(Log)
    /\ \A s \in Senders : WF_vars(PushOut(s))
    /\ WF_vars(Join) /\ WF_vars(DestroyShut) /\ WF_vars(DestroyClose)

-------------------------------------------------------------------------------
TypeOK ==
    /\ isUsed \in BOOLEAN
    /\ items \in Seq(Messages) /\ Len(items) <= nCapacity
    /\ shut \in BOOLEAN /\ closed \in BOOLEAN
    /\ result \in [{LogThread} -> Messages \cup {NoMessage}]
    /\ owner \in {"idle", "join", "destroy"}
    /\ log \in {"none", "receive", "waiting", "received", "ended"}
    /\ sender \in [Senders -> {"idle", "looked", "storing", "fault"}]
    /\ message \in [Senders -> Messages \cup {NoMessage}]
    /\ made \in 0 .. MaxMessages /\ inits \in 0 .. MaxInits
    /\ raced \subseteq Senders

\* LinkLogThread never finds its queue gone, not even shut: LinkDinitLog joins it
\* before it destroys the queue (control.c:254).
ThreadHasItsQueue == log \in {"receive", "waiting", "received"} => ~closed /\ ~shut

\* A message pushes an older one out only if another sender was in SendMessage on a full
\* queue when this one looked at nSize (control.c:244, queue.c:84), or has put its own
\* since: a sender that is alone with LinkLogThread is refused, but pushes out nothing
\* that was accepted, while the channel is open.
DropsAreRaces ==
    \A s \in Senders :
        sender[s] \in {"looked", "storing"} /\ s \notin raced /\ ~closed =>
            Len(items) < nCapacity

\* LinkDinitLog returns, however many messages are in the queue and though none may
\* come, and the log thread has ended.
DinitReturns == owner # "idle" ~> owner = "idle" /\ log = "ended"
================================================================================
