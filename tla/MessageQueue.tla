----------------------------- MODULE MessageQueue -----------------------------
(***************************************************************************)
(* The message queue of src/src/libmqtt/queue.c: a ring of nCapacity slots *)
(* guarded by `mutex`, a condition variable `consumerCond`, and a second   *)
(* lock, `destroyMutex`, that a receiver holds for the whole of its call   *)
(* (its wait included) so that DestroyMessageQueue frees nothing under it. *)
(*                                                                         *)
(* A thread is between two lock operations at each value of its pc.  The   *)
(* critical sections that nothing can enter are single steps; SendMessage  *)
(* has two, because DestroyMessageQueue frees the slots WITHOUT `mutex`,   *)
(* hence possibly while a sender holds it.                                 *)
(*                                                                         *)
(* A thread that touches freed memory goes to pc "fault" and does no more: *)
(* what the C program does from there on is undefined.                     *)
(***************************************************************************)
EXTENDS Integers, FiniteSets, Sequences

CONSTANTS
    nCapacity,          \* the length given to CreateMessageQueue
    Messages,           \* the messages, by identity
    NoMessage,          \* NULL
    Senders,            \* threads that call SendMessage
    TimedReceivers,     \* threads that call ReceiveMessageTimeout
    BlockingReceivers,  \* threads that call ReceiveMessage
    Destroyer,          \* the thread that calls DestroyMessageQueue
    NoThread,           \* the owner of a free mutex
    LateCallers,        \* callers the owner of the queue does not hold back
                        \* when it destroys it (see DestroyCall)
    SpuriousWakeups     \* whether pthread_cond_wait may return unsignalled

Receivers == TimedReceivers \cup BlockingReceivers
Threads == Senders \cup Receivers \cup {Destroyer}
Slots == 0 .. nCapacity - 1

ASSUME CapacityAssumption == nCapacity \in Nat \ {0}
ASSUME MessageAssumption == NoMessage \notin Messages
ASSUME ThreadAssumption ==
    /\ Senders \cap Receivers = {}
    /\ TimedReceivers \cap BlockingReceivers = {}
    /\ Destroyer \notin Senders \cup Receivers
    /\ NoThread \notin Threads
    /\ LateCallers \subseteq Senders \cup Receivers
    /\ SpuriousWakeups \in BOOLEAN

VARIABLES
    pAlloc, nNextIn, nNextOut, nSize, bIsValid,     \* the fields of the struct
    mutex, destroyMutex,                            \* the owners of the locks
    alive,      \* "live", then "slotsFreed" (pAlloc), then "freed" (all of it)
    pc,         \* where each thread is in its call
    arg,        \* _pMessage of each sender's call
    timedOut,   \* nReason == ETIMEDOUT, for each receiver
    result      \* what each receiver's last call returned

ring == <<pAlloc, nNextIn, nNextOut, nSize>>
vars == <<ring, bIsValid, mutex, destroyMutex, alive, pc, arg, timedOut, result>>

Init ==
    /\ pAlloc = [i \in Slots |-> NoMessage]     \* malloc: never read as such
    /\ nNextIn = 0
    /\ nNextOut = 0
    /\ nSize = 0
    /\ bIsValid = TRUE
    /\ mutex = NoThread
    /\ destroyMutex = NoThread
    /\ alive = "live"
    /\ pc = [t \in Threads |-> "idle"]
    /\ arg = [s \in Senders |-> NoMessage]
    /\ timedOut = [r \in Receivers |-> FALSE]
    /\ result = [r \in Receivers |-> NoMessage]

-------------------------------------------------------------------------------
\* The slot k places after slot i.
SlotAfter(i, k) == (i + k) % nCapacity

\* The threads parked in pthread_cond_wait or pthread_cond_timedwait.
consumerCond == {r \in Receivers : pc[r] = "waiting"}

\* Mutant: nobody is signalled.
NoSignal == {{}}

\* pthread_cond_signal: the sets of threads it may take out of the wait set.
SignalChoices ==
    IF consumerCond = {} THEN {{}} ELSE {{r} : r \in consumerCond}

\* pc after thread t moves on to `at` and the threads in W are woken.
Moved(t, at, W) ==
    [u \in Threads |-> IF u \in W THEN "woken" ELSE IF u = t THEN at ELSE pc[u]]

\* Both owners of a queue clear isUsed before they destroy it, and all callers
\* but LinkSendLog test that flag before they load the pointer.
MayCall(t) ==
    \/ pc[Destroyer] = "idle"
    \/ t \in LateCallers /\ pc[Destroyer] # "done"

-------------------------------------------------------------------------------
\* SendMessage
SendCall(s, m) ==
    /\ pc[s] = "idle"
    /\ MayCall(s)
    /\ arg' = [arg EXCEPT ![s] = m]
    /\ pc' = [pc EXCEPT ![s] = "called"]
    /\ UNCHANGED <<ring, bIsValid, mutex, destroyMutex, alive, timedOut, result>>

SendLock(s) ==
    /\ pc[s] = "called"
    /\ alive # "freed"
    /\ mutex = NoThread
    /\ mutex' = s
    /\ pc' = [pc EXCEPT ![s] = "locked"]
    /\ UNCHANGED <<ring, bIsValid, destroyMutex, alive, arg, timedOut, result>>

\* Mutant: the window does not move past the overwritten slot.
EnqueueInPlace(m) ==
    /\ pAlloc' = [pAlloc EXCEPT ![nNextIn] = m]
    /\ nNextIn' = SlotAfter(nNextIn, 1)
    /\ nSize' = IF nSize + 1 > nCapacity THEN nCapacity ELSE nSize + 1
    /\ UNCHANGED nNextOut

\* A message put into a full ring takes the slot of the oldest one.
Enqueue(m) ==
    /\ pAlloc' = [pAlloc EXCEPT ![nNextIn] = m]
    /\ nNextIn' = SlotAfter(nNextIn, 1)
    /\ IF nSize + 1 > nCapacity
       THEN nNextOut' = SlotAfter(nNextOut, 1) /\ nSize' = nCapacity
       ELSE nNextOut' = nNextOut /\ nSize' = nSize + 1

SendStore(s) ==
    /\ pc[s] = "locked"
    /\ alive = "live"
    /\ Enqueue(arg[s])
    /\ \E W \in SignalChoices : pc' = Moved(s, "idle", W)
    /\ mutex' = NoThread
    /\ arg' = [arg EXCEPT ![s] = NoMessage]
    /\ UNCHANGED <<bIsValid, destroyMutex, alive, timedOut, result>>

-------------------------------------------------------------------------------
\* ReceiveMessage and ReceiveMessageTimeout
ReceiveCall(r) ==
    /\ pc[r] = "idle"
    /\ MayCall(r)
    /\ pc' = [pc EXCEPT ![r] = "called"]
    /\ UNCHANGED <<ring, bIsValid, mutex, destroyMutex, alive, arg, timedOut, result>>

ReceiveEnter(r) ==
    /\ pc[r] = "called"
    /\ alive # "freed"
    /\ destroyMutex = NoThread
    /\ destroyMutex' = r
    /\ pc' = [pc EXCEPT ![r] = "inside"]
    /\ UNCHANGED <<ring, bIsValid, mutex, alive, arg, timedOut, result>>

\* Unlock both mutexes and return m.
Return(r, m) ==
    /\ result' = [result EXCEPT ![r] = m]
    /\ pc' = [pc EXCEPT ![r] = "idle"]
    /\ destroyMutex' = NoThread
    /\ timedOut' = [timedOut EXCEPT ![r] = FALSE]
    /\ UNCHANGED <<bIsValid, mutex, alive, arg>>

\* pthread_cond_wait releases `mutex` and parks in one step.
Wait(r) ==
    /\ pc' = [pc EXCEPT ![r] = "waiting"]
    /\ UNCHANGED <<ring, bIsValid, mutex, destroyMutex, alive, arg, timedOut, result>>

Pop(r) ==
    /\ alive = "live"
    /\ nNextOut' = SlotAfter(nNextOut, 1)
    /\ nSize' = nSize - 1
    /\ UNCHANGED <<pAlloc, nNextIn>>
    /\ Return(r, pAlloc[nNextOut])

ReturnNothing(r) == UNCHANGED ring /\ Return(r, NoMessage)

\* The receiver holds destroyMutex and can take `mutex`.
HoldsBoth(r, at) ==
    /\ pc[r] = at
    /\ alive # "freed"
    /\ mutex = NoThread

ReceiveMessage(r) ==
    /\ HoldsBoth(r, "inside") \/ HoldsBoth(r, "woken")
    /\ \/ nSize # 0 /\ Pop(r)
       \/ nSize = 0 /\ ~bIsValid /\ ReturnNothing(r)
       \/ nSize = 0 /\ bIsValid /\ Wait(r)

\* The first pass does not look at bIsValid.
ReceiveMessageTimeout(r) ==
    /\ HoldsBoth(r, "inside")
    /\ \/ nSize # 0 /\ Pop(r)
       \/ nSize = 0 /\ Wait(r)

\* There is no second wait: woken for whatever reason, the call returns.
ResumeTimeout(r) ==
    /\ HoldsBoth(r, "woken")
    /\ \/ (~bIsValid \/ timedOut[r]) /\ ReturnNothing(r)
       \/ bIsValid /\ ~timedOut[r] /\ nSize # 0 /\ Pop(r)
       \/ bIsValid /\ ~timedOut[r] /\ nSize = 0 /\ ReturnNothing(r)

Timeout(r) ==
    /\ pc[r] = "waiting"
    /\ timedOut' = [timedOut EXCEPT ![r] = TRUE]
    /\ pc' = [pc EXCEPT ![r] = "woken"]
    /\ UNCHANGED <<ring, bIsValid, mutex, destroyMutex, alive, arg, result>>

SpuriousWakeup(r) ==
    /\ SpuriousWakeups
    /\ pc[r] = "waiting"
    /\ pc' = [pc EXCEPT ![r] = "woken"]
    /\ UNCHANGED <<ring, bIsValid, mutex, destroyMutex, alive, arg, timedOut, result>>

-------------------------------------------------------------------------------
\* DestroyMessageQueue.  What the caller must see to: a thread that is not in
\* LateCallers is not between loading the pointer and taking its first lock.
\* A receiver that already holds destroyMutex may be anywhere in its wait.
DestroyCall ==
    /\ pc[Destroyer] = "idle"
    /\ \A t \in (Senders \cup Receivers) \ LateCallers :
          pc[t] \notin {"called", "locked"}
    /\ pc' = [pc EXCEPT ![Destroyer] = "called"]
    /\ UNCHANGED <<ring, bIsValid, mutex, destroyMutex, alive, arg, timedOut, result>>

DestroyInvalidate ==
    /\ pc[Destroyer] = "called"
    /\ mutex = NoThread
    /\ bIsValid' = FALSE
    /\ \E W \in SignalChoices : pc' = Moved(Destroyer, "flagged", W)
    /\ UNCHANGED <<ring, mutex, destroyMutex, alive, arg, timedOut, result>>

\* Mutant: the slots are freed without waiting for destroyMutex.
DestroySlotsAtOnce ==
    /\ pc[Destroyer] = "flagged"
    /\ alive' = "slotsFreed"
    /\ pc' = [pc EXCEPT ![Destroyer] = "released"]
    /\ UNCHANGED <<ring, bIsValid, mutex, destroyMutex, arg, timedOut, result>>

DestroySlots ==
    /\ pc[Destroyer] = "flagged"
    /\ destroyMutex = NoThread
    /\ alive' = "slotsFreed"
    /\ pc' = [pc EXCEPT ![Destroyer] = "released"]
    /\ UNCHANGED <<ring, bIsValid, mutex, destroyMutex, arg, timedOut, result>>

DestroyFree ==
    /\ pc[Destroyer] = "released"
    /\ alive' = "freed"
    /\ pc' = [pc EXCEPT ![Destroyer] = "done"]
    /\ UNCHANGED <<ring, bIsValid, mutex, destroyMutex, arg, timedOut, result>>

\* The slot of the destroyed queue is filled by a new one (LinkInitIOCtrl).
CreateMessageQueue ==
    /\ pc[Destroyer] = "done"
    /\ \A t \in Senders \cup Receivers : pc[t] = "idle"
    /\ pAlloc' = [i \in Slots |-> NoMessage]
    /\ nNextIn' = 0
    /\ nNextOut' = 0
    /\ nSize' = 0
    /\ bIsValid' = TRUE
    /\ mutex' = NoThread
    /\ destroyMutex' = NoThread
    /\ alive' = "live"
    /\ pc' = [pc EXCEPT ![Destroyer] = "idle"]
    /\ UNCHANGED <<arg, timedOut, result>>

-------------------------------------------------------------------------------
\* Thread t is about to use memory that DestroyMessageQueue has given back.
TouchesFreed(t) ==
    \/ alive = "freed" /\ pc[t] \in {"called", "locked", "inside", "woken"}
    \/ alive = "slotsFreed" /\ pc[t] = "locked"
    \/ alive = "slotsFreed" /\ mutex = NoThread /\ nSize # 0
          /\ \/ pc[t] = "inside"
             \/ pc[t] = "woken" /\ t \in BlockingReceivers

UseAfterFree(t) ==
    /\ TouchesFreed(t)
    /\ pc' = [pc EXCEPT ![t] = "fault"]
    /\ UNCHANGED <<ring, bIsValid, mutex, destroyMutex, alive, arg, timedOut, result>>

SendStep(s) == SendLock(s) \/ SendStore(s)
ReceiveStep(r) ==
    \/ ReceiveEnter(r)
    \/ r \in BlockingReceivers /\ ReceiveMessage(r)
    \/ r \in TimedReceivers /\ (ReceiveMessageTimeout(r) \/ ResumeTimeout(r) \/ Timeout(r))
DestroyStep == DestroyInvalidate \/ DestroySlots \/ DestroyFree

Next ==
    \/ \E s \in Senders : SendStep(s) \/ \E m \in Messages : SendCall(s, m)
    \/ \E r \in Receivers : ReceiveStep(r) \/ ReceiveCall(r) \/ SpuriousWakeup(r)
    \/ DestroyCall \/ DestroyStep \/ CreateMessageQueue
    \/ \E t \in Senders \cup Receivers : UseAfterFree(t)

Spec == Init /\ [][Next]_vars

\* Every thread inside a call keeps running and every started timer fires.
\* Nobody is obliged to begin a call, and no spurious wakeup is promised.
Fairness ==
    /\ \A s \in Senders : WF_vars(SendStep(s))
    /\ \A r \in Receivers : WF_vars(ReceiveStep(r))
    /\ WF_vars(DestroyStep)

FairSpec == Spec /\ Fairness

-------------------------------------------------------------------------------
PCs == {"idle", "called", "locked", "inside", "waiting", "woken",
        "flagged", "released", "done", "fault"}

\* The type of every variable of the queue and of its callers.
TypeOK ==
    /\ pAlloc \in [Slots -> Messages \cup {NoMessage}]
    /\ nNextIn \in Slots
    /\ nNextOut \in Slots
    /\ nSize \in 0 .. nCapacity
    /\ bIsValid \in BOOLEAN
    /\ mutex \in Senders \cup {NoThread}
    /\ destroyMutex \in Receivers \cup {NoThread}
    /\ alive \in {"live", "slotsFreed", "freed"}
    /\ pc \in [Threads -> PCs]
    /\ arg \in [Senders -> Messages \cup {NoMessage}]
    /\ timedOut \in [Receivers -> BOOLEAN]
    /\ result \in [Receivers -> Messages \cup {NoMessage}]

\* The two indices and the counter of queue.c describe one window of the ring:
\* nNextIn is where the window ends, and every slot in it was stored by a
\* sender, so a receiver never returns what malloc left in a slot.
RingInv ==
    /\ nNextIn = SlotAfter(nNextOut, nSize)
    /\ \A k \in 0 .. nSize - 1 : pAlloc[SlotAfter(nNextOut, k)] \in Messages

\* A receiver holds destroyMutex from its entry to its return, so one receiver
\* at a time is in the wait set, and pthread_cond_signal, which wakes one
\* thread, is enough in SendMessage and in DestroyMessageQueue.
OneReceiverInside ==
    \A r \in Receivers : pc[r] \in {"inside", "waiting", "woken"} => destroyMutex = r

\* No wakeup is lost: while a thread is parked the queue is empty, and a thread
\* parked without a timeout (ReceiveMessage) has not missed the invalidation.
NoLostWakeup ==
    \A r \in consumerCond : nSize = 0 /\ (r \in BlockingReceivers => bIsValid)

\* Only a thread the owner did not hold back can ever touch freed memory: a
\* receiver parked inside the queue when it is destroyed never does.
OnlyLateCallersFault ==
    \A t \in Threads : pc[t] = "fault" => t \in LateCallers

\* DestroyMessageQueue frees the slots only when no receiver is between its two
\* locks and its return, wherever that receiver was when the call began.
FreeWaitsForReceivers ==
    [][alive = "live" /\ alive' # "live" =>
          \A r \in Receivers : pc[r] \notin {"inside", "waiting", "woken"}]_vars

\* What is in the queue, oldest first.
Contents == [k \in 1 .. nSize |-> pAlloc[SlotAfter(nNextOut, k - 1)]]

Lossy == INSTANCE LossyQueue WITH
            items <- IF alive = "live" THEN Contents ELSE <<>>,
            shut <- ~bIsValid,
            closed <- alive # "live"

\* The ring buffer, the locks and the wakeups together implement the bounded
\* drop-oldest FIFO of LossyQueue.
ImplementsLossyQueue == Lossy!Spec

\* A call of DestroyMessageQueue returns, whoever is parked in the queue, if only the
\* late callers come to an end: a thread that touches freed memory may have a lock, and
\* one that called again and again could have destroyMutex each time.
DestroyTerminates ==
    <>[](\A t \in LateCallers : pc[t] = "idle")
        => ((pc[Destroyer] = "called") ~> (pc[Destroyer] = "done"))
===============================================================================
