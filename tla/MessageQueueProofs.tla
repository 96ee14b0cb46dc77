-------------------------- MODULE MessageQueueProofs --------------------------
(***************************************************************************)
(* Theorems about MessageQueue, for every capacity, every set of messages  *)
(* and every set of threads.                                               *)
(***************************************************************************)
EXTENDS MessageQueue, SequenceTheorems, TLAPS

\* Which program points each kind of thread goes through.
Roles ==
    /\ \A s \in Senders : pc[s] \in {"idle", "called", "locked", "fault"}
    /\ \A r \in Receivers :
          pc[r] \in {"idle", "called", "inside", "waiting", "woken", "fault"}
    /\ pc[Destroyer] \in {"idle", "called", "flagged", "released", "done"}

\* The progress of DestroyMessageQueue determines what is left of the queue.
Life ==
    /\ alive = "live" <=> pc[Destroyer] \in {"idle", "called", "flagged"}
    /\ alive = "freed" <=> pc[Destroyer] = "done"
    /\ bIsValid <=> pc[Destroyer] \in {"idle", "called"}

\* `mutex` is held across steps by nobody but a sender about to store.
SenderOwnsMutex == \A s \in Senders : pc[s] = "locked" => mutex = s

\* A sender in a call has a message to send.
SenderHasMessage ==
    \A s \in Senders : pc[s] \in {"called", "locked"} => arg[s] \in Messages

\* What the owner of the queue gets from holding the other callers back.
HeldBack ==
    \A t \in (Senders \cup Receivers) \ LateCallers :
        /\ pc[t] # "fault"
        /\ pc[Destroyer] # "idle" => pc[t] \notin {"called", "locked"}
        /\ alive # "live" => pc[t] = "idle"

IInv ==
    /\ TypeOK
    /\ Roles
    /\ Life
    /\ SenderOwnsMutex
    /\ SenderHasMessage
    /\ OneReceiverInside
    /\ RingInv
    /\ NoLostWakeup
    /\ HeldBack

-------------------------------------------------------------------------------
\* Where a slot lies after another, without the remainder.
LEMMA SlotAfterCases ==
    ASSUME NEW i \in Slots, NEW k \in 0 .. nCapacity
    PROVE  /\ SlotAfter(i, k) \in Slots
           /\ SlotAfter(i, k) = IF i + k < nCapacity THEN i + k ELSE i + k - nCapacity
  BY CapacityAssumption DEF Slots, SlotAfter

\* Walking k + 1 places is walking one place, then k.
LEMMA SlotAfterNext ==
    ASSUME NEW i \in Slots, NEW k \in 0 .. nCapacity - 1
    PROVE  /\ SlotAfter(i, 1) \in Slots
           /\ SlotAfter(SlotAfter(i, 1), k) = SlotAfter(i, k + 1)
           /\ SlotAfter(SlotAfter(i, k), 1) = SlotAfter(i, k + 1)
           /\ SlotAfter(i, 0) = i
           /\ SlotAfter(i, nCapacity) = i
  <1>1. 1 \in 0 .. nCapacity /\ k \in 0 .. nCapacity /\ k + 1 \in 0 .. nCapacity
        /\ 0 \in 0 .. nCapacity /\ nCapacity \in 0 .. nCapacity
    BY CapacityAssumption
  <1>2. SlotAfter(i, 1) \in Slots /\ SlotAfter(i, k) \in Slots
    BY <1>1, SlotAfterCases
  <1>3. SlotAfter(i, 0) = i /\ SlotAfter(i, nCapacity) = i
    BY <1>1, SlotAfterCases, CapacityAssumption DEF Slots
  <1>4. SlotAfter(SlotAfter(i, 1), k) = SlotAfter(i, k + 1)
    <2>1. SlotAfter(i, 1) = IF i + 1 < nCapacity THEN i + 1 ELSE i + 1 - nCapacity
      BY <1>1, SlotAfterCases
    <2>2. SlotAfter(i, k + 1) = IF i + (k + 1) < nCapacity THEN i + (k + 1) ELSE i + (k + 1) - nCapacity
      BY <1>1, SlotAfterCases
    <2>3. SlotAfter(SlotAfter(i, 1), k) =
            IF SlotAfter(i, 1) + k < nCapacity THEN SlotAfter(i, 1) + k ELSE SlotAfter(i, 1) + k - nCapacity
      BY <1>1, <1>2, SlotAfterCases
    <2> QED BY <2>1, <2>2, <2>3, CapacityAssumption DEF Slots
  <1>5. SlotAfter(SlotAfter(i, k), 1) = SlotAfter(i, k + 1)
    <2>1. SlotAfter(i, k) = IF i + k < nCapacity THEN i + k ELSE i + k - nCapacity
      BY <1>1, SlotAfterCases
    <2>2. SlotAfter(i, k + 1) = IF i + (k + 1) < nCapacity THEN i + (k + 1) ELSE i + (k + 1) - nCapacity
      BY <1>1, SlotAfterCases
    <2>3. SlotAfter(SlotAfter(i, k), 1) =
            IF SlotAfter(i, k) + 1 < nCapacity THEN SlotAfter(i, k) + 1 ELSE SlotAfter(i, k) + 1 - nCapacity
      BY <1>1, <1>2, SlotAfterCases
    <2> QED BY <2>1, <2>2, <2>3, CapacityAssumption DEF Slots
  <1> QED BY <1>2, <1>3, <1>4, <1>5

\* A window of n slots ends at one of its own slots only if it is the full ring,
\* and then at its first one.
LEMMA SlotAfterInjective ==
    ASSUME NEW i \in Slots, NEW n \in 0 .. nCapacity, NEW k \in 0 .. n - 1,
           SlotAfter(i, k) = SlotAfter(i, n)
    PROVE  n = nCapacity /\ k = 0
  <1>1. k \in 0 .. nCapacity
    BY CapacityAssumption
  <1>2. SlotAfter(i, k) = IF i + k < nCapacity THEN i + k ELSE i + k - nCapacity
    BY <1>1, SlotAfterCases
  <1>3. SlotAfter(i, n) = IF i + n < nCapacity THEN i + n ELSE i + n - nCapacity
    BY SlotAfterCases
  <1>4. /\ i \in Int /\ n \in Int /\ k \in Int /\ nCapacity \in Int
        /\ 0 <= i /\ i < nCapacity /\ 0 <= k /\ k < n /\ n <= nCapacity
    BY CapacityAssumption DEF Slots
  <1>5. (IF i + k < nCapacity THEN i + k ELSE i + k - nCapacity)
          = (IF i + n < nCapacity THEN i + n ELSE i + n - nCapacity)
    BY <1>2, <1>3
  <1> QED BY <1>4, <1>5

\* One signal wakes everybody who waits, because at most one thread does.
LEMMA SignalWakesAll ==
    ASSUME OneReceiverInside, NEW W \in SignalChoices
    PROVE  W = consumerCond
  BY DEF OneReceiverInside, SignalChoices, consumerCond

LEMMA InitIInv == Init => IInv
  BY CapacityAssumption, ThreadAssumption, SlotAfterCases
  DEF Init, IInv, TypeOK, Roles, Life, SenderOwnsMutex, SenderHasMessage, OneReceiverInside,
      RingInv, NoLostWakeup, HeldBack, consumerCond, Slots, SlotAfter, Threads, Receivers, PCs

LEMMA SendCallIInv ==
    ASSUME IInv, NEW s \in Senders, NEW m \in Messages, SendCall(s, m)
    PROVE  IInv'
  BY ThreadAssumption
  DEF SendCall, MayCall, ring, IInv, TypeOK, Roles, Life, SenderOwnsMutex, SenderHasMessage, OneReceiverInside,
      RingInv, NoLostWakeup, HeldBack, consumerCond, Slots, SlotAfter, Threads, Receivers, PCs

LEMMA SendLockIInv ==
    ASSUME IInv, NEW s \in Senders, SendLock(s)
    PROVE  IInv'
  BY ThreadAssumption
  DEF SendLock, ring, IInv, TypeOK, Roles, Life, SenderOwnsMutex, SenderHasMessage, OneReceiverInside,
      RingInv, NoLostWakeup, HeldBack, consumerCond, Slots, SlotAfter, Threads, Receivers, PCs

\* Storing a message keeps the window of the ring consistent, full or not.
LEMMA EnqueueRing ==
    ASSUME TypeOK, RingInv, NEW m \in Messages, Enqueue(m)
    PROVE  /\ RingInv'
           /\ pAlloc' \in [Slots -> Messages \cup {NoMessage}]
           /\ nNextIn' \in Slots
           /\ nNextOut' \in Slots
           /\ nSize' \in 1 .. nCapacity
  <1>1. /\ nNextIn' \in Slots
        /\ nNextIn' = SlotAfter(nNextIn, 1)
        /\ SlotAfter(nNextOut, 1) \in Slots
    BY SlotAfterNext, CapacityAssumption DEF TypeOK, Enqueue
  <1>2. /\ nNextOut' \in Slots
        /\ nSize' \in 1 .. nCapacity
        /\ pAlloc' \in [Slots -> Messages \cup {NoMessage}]
    BY <1>1, CapacityAssumption DEF TypeOK, Enqueue
  <1>3. \A i \in Slots : pAlloc'[i] = IF i = nNextIn THEN m ELSE pAlloc[i]
    BY DEF Enqueue, TypeOK
  <1>4. CASE nSize + 1 > nCapacity
    <2>1. /\ nSize = nCapacity /\ nSize' = nCapacity
          /\ nNextOut' = SlotAfter(nNextOut, 1)
          /\ nNextIn = nNextOut
      BY <1>4, SlotAfterNext, CapacityAssumption DEF Enqueue, TypeOK, RingInv
    <2>2. nNextIn' = SlotAfter(nNextOut', nSize')
      BY <1>1, <1>2, <2>1, SlotAfterNext, CapacityAssumption
    <2>3. ASSUME NEW k \in 0 .. nSize' - 1
          PROVE  pAlloc'[SlotAfter(nNextOut', k)] \in Messages
      <3>1. /\ k \in 0 .. nCapacity - 1
            /\ SlotAfter(nNextOut', k) = SlotAfter(nNextOut, k + 1)
        BY <2>1, SlotAfterNext DEF TypeOK
      <3>2. SlotAfter(nNextOut, k + 1) \in Slots
        BY <3>1, SlotAfterCases, CapacityAssumption DEF TypeOK
      <3>3. CASE k + 1 = nCapacity
        BY <1>3, <2>1, <3>1, <3>2, <3>3, SlotAfterNext DEF TypeOK
      <3>4. CASE k + 1 # nCapacity
        <4>1. k + 1 \in 0 .. nSize - 1
          BY <2>1, <3>1, <3>4, CapacityAssumption
        <4> QED BY <1>3, <3>1, <3>2, <4>1 DEF RingInv
      <3> QED BY <3>3, <3>4
    <2> QED BY <1>1, <1>2, <2>2, <2>3 DEF RingInv, SlotAfter
  <1>5. CASE ~(nSize + 1 > nCapacity)
    <2>1. nSize \in 0 .. nCapacity - 1 /\ nSize' = nSize + 1 /\ nNextOut' = nNextOut
      BY <1>5, CapacityAssumption DEF Enqueue, TypeOK
    <2>2. nNextIn' = SlotAfter(nNextOut', nSize')
      BY <1>1, <2>1, SlotAfterNext DEF RingInv, TypeOK
    <2>3. ASSUME NEW k \in 0 .. nSize' - 1
          PROVE  pAlloc'[SlotAfter(nNextOut', k)] \in Messages
      <3>1. /\ SlotAfter(nNextOut, k) \in Slots
            /\ k = nSize \/ k \in 0 .. nSize - 1
        BY <2>1, SlotAfterCases, CapacityAssumption DEF TypeOK
      <3> QED BY <1>3, <2>1, <3>1 DEF RingInv
    <2> QED BY <1>1, <1>2, <2>2, <2>3 DEF RingInv, SlotAfter
  <1> QED BY <1>1, <1>2, <1>4, <1>5

LEMMA SendStoreIInv ==
    ASSUME IInv, NEW s \in Senders, SendStore(s)
    PROVE  IInv'
  <1>1. PICK W \in SignalChoices : pc' = Moved(s, "idle", W)
    BY DEF SendStore
  <1>2. W = consumerCond
    BY SignalWakesAll DEF IInv
  <1>3. arg[s] \in Messages /\ Enqueue(arg[s])
    BY DEF SendStore, IInv, SenderHasMessage
  <1>4. /\ RingInv'
        /\ pAlloc' \in [Slots -> Messages \cup {NoMessage}]
        /\ nNextIn' \in Slots
        /\ nNextOut' \in Slots
        /\ nSize' \in 1 .. nCapacity
    BY <1>3, EnqueueRing DEF IInv
  <1>5. pc' = [u \in Threads |-> IF pc[u] = "waiting" THEN "woken"
                                  ELSE IF u = s THEN "idle" ELSE pc[u]]
    BY <1>1, <1>2, ThreadAssumption
    DEF Moved, consumerCond, IInv, Roles, Threads, Receivers
  <1>6. TypeOK' /\ Roles'
    BY <1>4, <1>5, CapacityAssumption, ThreadAssumption
    DEF SendStore, IInv, TypeOK, Roles, Threads, Receivers, PCs
  <1>7. Life' /\ SenderOwnsMutex' /\ SenderHasMessage' /\ OneReceiverInside' /\ HeldBack'
    BY <1>5, ThreadAssumption
    DEF SendStore, IInv, TypeOK, Roles, Life, SenderOwnsMutex, SenderHasMessage,
        OneReceiverInside, HeldBack, Threads, Receivers
  <1>8. NoLostWakeup'
    BY <1>5 DEF NoLostWakeup, consumerCond, Threads
  <1> QED BY <1>4, <1>6, <1>7, <1>8 DEF IInv

LEMMA ReceiveCallIInv ==
    ASSUME IInv, NEW r \in Receivers, ReceiveCall(r)
    PROVE  IInv'
  BY ThreadAssumption
  DEF ReceiveCall, MayCall, ring, IInv, TypeOK, Roles, Life, SenderOwnsMutex, SenderHasMessage, OneReceiverInside,
      RingInv, NoLostWakeup, HeldBack, consumerCond, Slots, SlotAfter, Threads, Receivers, PCs

LEMMA ReceiveEnterIInv ==
    ASSUME IInv, NEW r \in Receivers, ReceiveEnter(r)
    PROVE  IInv'
  BY ThreadAssumption
  DEF ReceiveEnter, ring, IInv, TypeOK, Roles, Life, SenderOwnsMutex, SenderHasMessage, OneReceiverInside,
      RingInv, NoLostWakeup, HeldBack, consumerCond, Slots, SlotAfter, Threads, Receivers, PCs

\* Taking the oldest message keeps the window of the ring consistent.
LEMMA PopRing ==
    ASSUME TypeOK, RingInv, nSize # 0, NEW r \in Receivers, Pop(r)
    PROVE  /\ RingInv'
           /\ nNextOut' \in Slots
           /\ nSize' \in 0 .. nCapacity
           /\ pAlloc[nNextOut] \in Messages
  <1>1. /\ nNextOut' = SlotAfter(nNextOut, 1)
        /\ nSize' = nSize - 1
        /\ nSize \in 1 .. nCapacity
        /\ pAlloc' = pAlloc
        /\ nNextIn' = nNextIn
    BY CapacityAssumption DEF TypeOK, Pop
  <1>2. nNextOut' \in Slots /\ SlotAfter(nNextOut, 0) = nNextOut
    BY <1>1, SlotAfterNext, CapacityAssumption DEF TypeOK
  <1>3. \A k \in 0 .. nSize' : SlotAfter(nNextOut', k) = SlotAfter(nNextOut, k + 1)
    BY <1>1, SlotAfterNext, CapacityAssumption DEF TypeOK
  <1>4. nNextIn' = SlotAfter(nNextOut', nSize')
    BY <1>1, <1>3, CapacityAssumption DEF RingInv
  <1>5. \A k \in 0 .. nSize' - 1 : pAlloc'[SlotAfter(nNextOut', k)] \in Messages
    BY <1>1, <1>3, CapacityAssumption DEF RingInv
  <1>6. pAlloc[nNextOut] \in Messages
    BY <1>1, <1>2, CapacityAssumption DEF RingInv
  <1>7. nSize' \in 0 .. nCapacity
    BY <1>1, CapacityAssumption
  <1> QED BY <1>2, <1>4, <1>5, <1>6, <1>7 DEF RingInv, SlotAfter

LEMMA PopIInv ==
    ASSUME IInv, NEW r \in Receivers, pc[r] \in {"inside", "woken"}, nSize # 0, Pop(r)
    PROVE  IInv'
  <1>1. /\ RingInv'
        /\ nNextOut' \in Slots
        /\ nSize' \in 0 .. nCapacity
        /\ pAlloc[nNextOut] \in Messages
    BY PopRing DEF IInv
  <1>2. TypeOK' /\ Roles'
    BY <1>1, ThreadAssumption
    DEF Pop, Return, IInv, TypeOK, Roles, Threads, Receivers, PCs
  <1>3. OneReceiverInside'
    BY DEF Pop, Return, IInv, TypeOK, OneReceiverInside, Threads
  <1>4. Life' /\ SenderOwnsMutex' /\ SenderHasMessage' /\ HeldBack'
    BY ThreadAssumption
    DEF Pop, Return, IInv, TypeOK, Roles, Life, SenderOwnsMutex, SenderHasMessage,
        HeldBack, Threads, Receivers
  <1>5. consumerCond' = {}
    BY DEF Pop, Return, IInv, TypeOK, OneReceiverInside, consumerCond, Threads
  <1> QED BY <1>1, <1>2, <1>3, <1>4, <1>5 DEF IInv, NoLostWakeup

LEMMA ReturnNothingIInv ==
    ASSUME IInv, NEW r \in Receivers, pc[r] \in {"inside", "woken"}, ReturnNothing(r)
    PROVE  IInv'
  BY ThreadAssumption
  DEF ReturnNothing, Return, ring, IInv, TypeOK, Roles, Life, SenderOwnsMutex, SenderHasMessage, OneReceiverInside,
      RingInv, NoLostWakeup, HeldBack, consumerCond, Slots, SlotAfter, Threads, Receivers, PCs

LEMMA WaitIInv ==
    ASSUME IInv, NEW r \in Receivers, pc[r] \in {"inside", "woken"}, nSize = 0, r \in BlockingReceivers => bIsValid, Wait(r)
    PROVE  IInv'
  BY ThreadAssumption
  DEF Wait, ring, IInv, TypeOK, Roles, Life, SenderOwnsMutex, SenderHasMessage, OneReceiverInside,
      RingInv, NoLostWakeup, HeldBack, consumerCond, Slots, SlotAfter, Threads, Receivers, PCs

LEMMA TimeoutIInv ==
    ASSUME IInv, NEW r \in Receivers, Timeout(r)
    PROVE  IInv'
  BY ThreadAssumption
  DEF Timeout, ring, IInv, TypeOK, Roles, Life, SenderOwnsMutex, SenderHasMessage, OneReceiverInside,
      RingInv, NoLostWakeup, HeldBack, consumerCond, Slots, SlotAfter, Threads, Receivers, PCs

LEMMA SpuriousWakeupIInv ==
    ASSUME IInv, NEW r \in Receivers, SpuriousWakeup(r)
    PROVE  IInv'
  BY ThreadAssumption
  DEF SpuriousWakeup, ring, IInv, TypeOK, Roles, Life, SenderOwnsMutex, SenderHasMessage, OneReceiverInside,
      RingInv, NoLostWakeup, HeldBack, consumerCond, Slots, SlotAfter, Threads, Receivers, PCs

LEMMA DestroyCallIInv ==
    ASSUME IInv, DestroyCall
    PROVE  IInv'
  BY ThreadAssumption
  DEF DestroyCall, ring, IInv, TypeOK, Roles, Life, SenderOwnsMutex, SenderHasMessage, OneReceiverInside,
      RingInv, NoLostWakeup, HeldBack, consumerCond, Slots, SlotAfter, Threads, Receivers, PCs

LEMMA DestroyInvalidateIInv ==
    ASSUME IInv, DestroyInvalidate
    PROVE  IInv'
  <1>1. PICK W \in SignalChoices : pc' = Moved(Destroyer, "flagged", W)
    BY DEF DestroyInvalidate
  <1>2. W = consumerCond
    BY SignalWakesAll DEF IInv
  <1>3. pc' = [u \in Threads |-> IF pc[u] = "waiting" THEN "woken"
                                  ELSE IF u = Destroyer THEN "flagged" ELSE pc[u]]
    BY <1>1, <1>2, ThreadAssumption
    DEF Moved, consumerCond, IInv, Roles, Threads, Receivers
  <1>4. TypeOK' /\ Roles'
    BY <1>3, ThreadAssumption
    DEF DestroyInvalidate, ring, IInv, TypeOK, Roles, Threads, Receivers, PCs
  <1>5. Life' /\ SenderOwnsMutex' /\ SenderHasMessage' /\ OneReceiverInside' /\ HeldBack'
    BY <1>3, ThreadAssumption
    DEF DestroyInvalidate, IInv, TypeOK, Roles, Life, SenderOwnsMutex, SenderHasMessage,
        OneReceiverInside, HeldBack, Threads, Receivers
  <1>6. RingInv' /\ NoLostWakeup'
    BY <1>3 DEF DestroyInvalidate, ring, IInv, RingInv, NoLostWakeup, consumerCond, Threads,
                SlotAfter
  <1> QED BY <1>4, <1>5, <1>6 DEF IInv

LEMMA DestroySlotsIInv ==
    ASSUME IInv, DestroySlots
    PROVE  IInv'
  BY ThreadAssumption
  DEF DestroySlots, ring, IInv, TypeOK, Roles, Life, SenderOwnsMutex, SenderHasMessage, OneReceiverInside,
      RingInv, NoLostWakeup, HeldBack, consumerCond, Slots, SlotAfter, Threads, Receivers, PCs

LEMMA DestroyFreeIInv ==
    ASSUME IInv, DestroyFree
    PROVE  IInv'
  BY ThreadAssumption
  DEF DestroyFree, ring, IInv, TypeOK, Roles, Life, SenderOwnsMutex, SenderHasMessage, OneReceiverInside,
      RingInv, NoLostWakeup, HeldBack, consumerCond, Slots, SlotAfter, Threads, Receivers, PCs

LEMMA CreateMessageQueueIInv ==
    ASSUME IInv, CreateMessageQueue
    PROVE  IInv'
  <1>1. TypeOK' /\ Roles'
    BY ThreadAssumption, CapacityAssumption
    DEF CreateMessageQueue, IInv, TypeOK, Roles, Slots, Threads, Receivers, PCs
  <1>2. Life' /\ SenderOwnsMutex' /\ SenderHasMessage' /\ OneReceiverInside' /\ HeldBack'
    BY ThreadAssumption
    DEF CreateMessageQueue, IInv, TypeOK, Roles, Life, SenderOwnsMutex, SenderHasMessage,
        OneReceiverInside, HeldBack, Threads, Receivers
  <1>3. RingInv'
    BY CapacityAssumption DEF CreateMessageQueue, RingInv, SlotAfter
  <1>4. consumerCond' = {}
    BY ThreadAssumption DEF CreateMessageQueue, consumerCond, IInv, TypeOK, Threads
  <1> QED BY <1>1, <1>2, <1>3, <1>4 DEF IInv, NoLostWakeup

LEMMA UseAfterFreeIInv ==
    ASSUME IInv, NEW t \in Senders \cup Receivers, UseAfterFree(t)
    PROVE  IInv'
  BY ThreadAssumption
  DEF UseAfterFree, TouchesFreed, ring, IInv, TypeOK, Roles, Life, SenderOwnsMutex, SenderHasMessage, OneReceiverInside,
      RingInv, NoLostWakeup, HeldBack, consumerCond, Slots, SlotAfter, Threads, Receivers, PCs

-------------------------------------------------------------------------------
LEMMA ReceiveMessageIInv ==
    ASSUME IInv, NEW r \in BlockingReceivers, ReceiveMessage(r)
    PROVE  IInv'
  <1>1. r \in Receivers /\ pc[r] \in {"inside", "woken"}
    BY DEF ReceiveMessage, HoldsBoth, Receivers
  <1>2. CASE nSize # 0 /\ Pop(r)
    BY <1>1, <1>2, PopIInv
  <1>3. CASE ReturnNothing(r)
    BY <1>1, <1>3, ReturnNothingIInv
  <1>4. CASE nSize = 0 /\ bIsValid /\ Wait(r)
    BY <1>1, <1>4, WaitIInv
  <1> QED BY <1>2, <1>3, <1>4 DEF ReceiveMessage

LEMMA ReceiveMessageTimeoutIInv ==
    ASSUME IInv, NEW r \in TimedReceivers, ReceiveMessageTimeout(r)
    PROVE  IInv'
  <1>1. r \in Receivers /\ r \notin BlockingReceivers /\ pc[r] \in {"inside", "woken"}
    BY ThreadAssumption DEF ReceiveMessageTimeout, HoldsBoth, Receivers
  <1>2. CASE nSize # 0 /\ Pop(r)
    BY <1>1, <1>2, PopIInv
  <1>3. CASE nSize = 0 /\ Wait(r)
    BY <1>1, <1>3, WaitIInv
  <1> QED BY <1>2, <1>3 DEF ReceiveMessageTimeout

LEMMA ResumeTimeoutIInv ==
    ASSUME IInv, NEW r \in TimedReceivers, ResumeTimeout(r)
    PROVE  IInv'
  <1>1. r \in Receivers /\ pc[r] \in {"inside", "woken"}
    BY DEF ResumeTimeout, HoldsBoth, Receivers
  <1>2. CASE nSize # 0 /\ Pop(r)
    BY <1>1, <1>2, PopIInv
  <1>3. CASE ReturnNothing(r)
    BY <1>1, <1>3, ReturnNothingIInv
  <1> QED BY <1>2, <1>3 DEF ResumeTimeout

LEMMA StutterIInv ==
    ASSUME IInv, UNCHANGED vars
    PROVE  IInv'
  BY DEF vars, ring, IInv, TypeOK, Roles, Life, SenderOwnsMutex, SenderHasMessage,
         OneReceiverInside, RingInv, NoLostWakeup, HeldBack, consumerCond, SlotAfter

LEMMA NextIInv == IInv /\ [Next]_vars => IInv'
  <1> SUFFICES ASSUME IInv, [Next]_vars
               PROVE  IInv'
    OBVIOUS
  <1>1. ASSUME NEW s \in Senders, SendStep(s) \/ \E m \in Messages : SendCall(s, m)
        PROVE  IInv'
    BY <1>1, SendCallIInv, SendLockIInv, SendStoreIInv DEF SendStep
  <1>2. ASSUME NEW r \in Receivers, ReceiveStep(r) \/ ReceiveCall(r) \/ SpuriousWakeup(r)
        PROVE  IInv'
    BY <1>2, ReceiveCallIInv, ReceiveEnterIInv, ReceiveMessageIInv, ReceiveMessageTimeoutIInv,
       ResumeTimeoutIInv, TimeoutIInv, SpuriousWakeupIInv
    DEF ReceiveStep, Receivers
  <1>3. ASSUME DestroyCall \/ DestroyStep \/ CreateMessageQueue
        PROVE  IInv'
    BY <1>3, DestroyCallIInv, DestroyInvalidateIInv, DestroySlotsIInv, DestroyFreeIInv,
       CreateMessageQueueIInv
    DEF DestroyStep
  <1>4. ASSUME NEW t \in Senders \cup Receivers, UseAfterFree(t)
        PROVE  IInv'
    BY <1>4, UseAfterFreeIInv
  <1> QED BY <1>1, <1>2, <1>3, <1>4, StutterIInv DEF Next

\* The inductive invariant holds in every reachable state of the queue.
THEOREM Inductive == Spec => []IInv
  <1>1. Init => IInv
    BY InitIInv
  <1>2. IInv /\ [Next]_vars => IInv'
    BY NextIInv
  <1> QED BY <1>1, <1>2, PTL DEF Spec

\* Type correctness of the queue, whatever its capacity and its callers.
THEOREM TypeCorrect == Spec => []TypeOK
  <1>1. IInv => TypeOK
    BY DEF IInv
  <1> QED BY <1>1, Inductive, PTL

\* The indices and the counter always describe one window of stored messages.
THEOREM RingConsistent == Spec => []RingInv
  <1>1. IInv => RingInv
    BY DEF IInv
  <1> QED BY <1>1, Inductive, PTL

\* At most one receiver is inside, parked ones included.
THEOREM SingleReceiver == Spec => []OneReceiverInside
  <1>1. IInv => OneReceiverInside
    BY DEF IInv
  <1> QED BY <1>1, Inductive, PTL

\* Nobody is parked beside a message, or without a timeout past the end.
THEOREM WakeupsNotLost == Spec => []NoLostWakeup
  <1>1. IInv => NoLostWakeup
    BY DEF IInv
  <1> QED BY <1>1, Inductive, PTL

\* A caller that the owner of the queue held back never touches freed memory.
THEOREM FaultsAreLate == Spec => []OnlyLateCallersFault
  <1>1. IInv => OnlyLateCallersFault
    BY ThreadAssumption DEF IInv, Roles, HeldBack, OnlyLateCallersFault, Threads
  <1> QED BY <1>1, Inductive, PTL

\* No receiver is inside when the slots are freed.
THEOREM FreeIsSafe == Spec => FreeWaitsForReceivers
  <1> DEFINE Waits == alive = "live" /\ alive' # "live" =>
                        \A r \in Receivers : pc[r] \notin {"inside", "waiting", "woken"}
  <1>1. ASSUME IInv, Next
        PROVE  Waits
    <2>1. CASE DestroySlots
      BY <1>1, <2>1, ThreadAssumption DEF DestroySlots, IInv, OneReceiverInside, Threads
    <2>2. CASE alive' = alive
      BY <2>2
    <2>3. CASE DestroyFree \/ CreateMessageQueue
      BY <1>1, <2>3 DEF DestroyFree, CreateMessageQueue, IInv, Life
    <2> QED
      BY <1>1, <2>1, <2>2, <2>3
      DEF Next, SendStep, SendCall, SendLock, SendStore, ReceiveStep, ReceiveCall, ReceiveEnter,
          ReceiveMessage, ReceiveMessageTimeout, ResumeTimeout, Timeout, SpuriousWakeup, Pop,
          Return, ReturnNothing, Wait, DestroyCall, DestroyStep, DestroyInvalidate, UseAfterFree
  <1>2. IInv /\ [Next]_vars => [Waits]_vars
    BY <1>1
  <1> QED BY <1>2, Inductive, PTL DEF Spec, FreeWaitsForReceivers

-------------------------------------------------------------------------------
\* That nobody waits for ever.  The provers know neither fairness nor ENABLED; what
\* they can show is that whoever is waited for stands before a lock that is free, or
\* before none, and that there is an end to the steps a destruction waits for.

\* A lock that is not free has a holder who is still at work, or has touched freed memory.
LocksAreHeld ==
    /\ mutex # NoThread => pc[mutex] \in {"locked", "fault"}
    /\ destroyMutex # NoThread => pc[destroyMutex] \in {"inside", "waiting", "woken", "fault"}

\* Thread t is in a call and nothing holds it back: its lock is free, it needs none, or
\* its timer runs.
Open(t) ==
    \/ t \in Senders /\ pc[t] = "called" /\ mutex = NoThread
    \/ t \in Senders /\ pc[t] = "locked"
    \/ t \in Receivers /\ pc[t] = "called" /\ destroyMutex = NoThread
    \/ t \in Receivers /\ pc[t] \in {"inside", "woken"} /\ mutex = NoThread
    \/ t \in TimedReceivers /\ pc[t] = "waiting"
    \/ t = Destroyer /\ pc[t] = "called" /\ mutex = NoThread
    \/ t = Destroyer /\ pc[t] = "flagged" /\ destroyMutex = NoThread
    \/ t = Destroyer /\ pc[t] = "released"

\* Two locks, taken in one order, and a wait that keeps the outer one, do not make a
\* deadlock: so long as no thread has touched freed memory, either nobody is in a call,
\* or somebody there can go on, or a blocking receive waits for a message, as it may.
NoDeadlock ==
    (\A t \in Threads : pc[t] # "fault") =>
        \/ \A t \in Threads : pc[t] \in {"idle", "done"}
        \/ \E t \in Threads : Open(t)
        \/ \E r \in BlockingReceivers : pc[r] = "waiting" /\ bIsValid /\ nSize = 0

\* No caller the owner does not hold back is about to take its first lock, or has
\* stopped with one.
Settled == \A t \in LateCallers : pc[t] \notin {"called", "locked", "fault"}

\* DestroyMessageQueue never waits for `mutex`, and for destroyMutex only while the
\* receiver that has it can go on, though it may be a blocking one.
DestroyCanGoOn ==
    Settled =>
        /\ pc[Destroyer] = "called" => Open(Destroyer)
        /\ pc[Destroyer] = "flagged" => Open(Destroyer) \/ Open(destroyMutex)

\* How many steps the receiver inside has yet to take.
StepsLeft ==
    IF destroyMutex = NoThread THEN 0
    ELSE IF pc[destroyMutex] = "inside" THEN 3
    ELSE IF pc[destroyMutex] = "waiting" THEN 2
    ELSE 1

\* Once the queue has been shut, every step anybody takes is DestroyMessageQueue's own
\* or brings the receiver inside nearer to its return: no other gets in, and this one
\* does not wait twice.
DestroyIsBrief ==
    [][pc[Destroyer] = "flagged" /\ Settled /\ Settled' =>
            \/ pc'[Destroyer] = "released"
            \/ pc'[Destroyer] = "flagged" /\ StepsLeft' < StepsLeft]_vars

LEMMA NextLocksAreHeld == IInv /\ LocksAreHeld /\ [Next]_vars => LocksAreHeld'
  <1> SUFFICES ASSUME IInv, LocksAreHeld, [Next]_vars
               PROVE  LocksAreHeld'
    OBVIOUS
  <1> USE ThreadAssumption DEF LocksAreHeld, Threads, Receivers
  <1>1. /\ mutex \in Senders \cup {NoThread} /\ destroyMutex \in Receivers \cup {NoThread}
        /\ pc \in [Threads -> PCs] /\ OneReceiverInside /\ Roles /\ SenderOwnsMutex
    BY DEF IInv, TypeOK
  <1>2. ASSUME NEW s \in Senders, NEW m \in Messages, SendCall(s, m)
        PROVE  LocksAreHeld'
    BY <1>1, <1>2 DEF SendCall, OneReceiverInside
  <1>3. ASSUME NEW s \in Senders, SendLock(s)
        PROVE  LocksAreHeld'
    BY <1>1, <1>3 DEF SendLock
  <1>4. ASSUME NEW s \in Senders, SendStore(s)
        PROVE  LocksAreHeld'
    <2>1. PICK W \in SignalChoices : pc' = Moved(s, "idle", W)
      BY <1>4 DEF SendStore
    <2>2. W \subseteq Receivers
      BY DEF SignalChoices, consumerCond
    <2>3. \A r \in Receivers : pc'[r] = IF r \in W THEN "woken" ELSE pc[r]
      BY <2>1 DEF Moved
    <2> QED BY <1>1, <1>4, <2>3 DEF SendStore
  <1>5. ASSUME NEW r \in Receivers, ReceiveCall(r) \/ ReceiveEnter(r)
        PROVE  LocksAreHeld'
    BY <1>1, <1>5 DEF ReceiveCall, ReceiveEnter, Roles
  <1>6. ASSUME NEW r \in Receivers, Pop(r) \/ ReturnNothing(r), pc[r] \in {"inside", "woken"}
        PROVE  LocksAreHeld'
    BY <1>1, <1>6 DEF Pop, ReturnNothing, Return
  <1>7. ASSUME NEW r \in Receivers, Wait(r) \/ Timeout(r) \/ SpuriousWakeup(r)
        PROVE  LocksAreHeld'
    BY <1>1, <1>7 DEF Wait, Timeout, SpuriousWakeup
  <1>8. ASSUME NEW r \in Receivers, ReceiveStep(r)
        PROVE  LocksAreHeld'
    BY <1>5, <1>6, <1>7, <1>8
    DEF ReceiveStep, ReceiveMessage, ReceiveMessageTimeout, ResumeTimeout, HoldsBoth
  <1>9. CASE DestroyInvalidate
    <2>1. PICK W \in SignalChoices : pc' = Moved(Destroyer, "flagged", W)
      BY <1>9 DEF DestroyInvalidate
    <2>2. W \subseteq Receivers
      BY DEF SignalChoices, consumerCond
    <2>3. \A r \in Receivers : pc'[r] = IF r \in W THEN "woken" ELSE pc[r]
      BY <2>1 DEF Moved
    <2> QED BY <1>1, <1>9, <2>3 DEF DestroyInvalidate
  <1>10. CASE DestroyCall \/ DestroySlots \/ DestroyFree \/ CreateMessageQueue
    BY <1>1, <1>10 DEF DestroyCall, DestroySlots, DestroyFree, CreateMessageQueue
  <1>11. ASSUME NEW t \in Senders \cup Receivers, UseAfterFree(t)
         PROVE  LocksAreHeld'
    BY <1>1, <1>11 DEF UseAfterFree
  <1>12. CASE UNCHANGED vars
    BY <1>12 DEF vars
  <1> QED
    BY <1>2, <1>3, <1>4, <1>5, <1>7, <1>8, <1>9, <1>10, <1>11, <1>12
    DEF Next, SendStep, DestroyStep

\* mutex and destroyMutex are never left locked by a thread that is out of the queue.
LEMMA HeldLocks == Spec => []LocksAreHeld
  <1>1. Init => LocksAreHeld
    BY DEF Init, LocksAreHeld
  <1> QED BY <1>1, NextLocksAreHeld, Inductive, PTL DEF Spec

\* No deadlock between the callers of a queue, whoever and however many they are.
THEOREM DeadlockFree == Spec => []NoDeadlock
  <1>1. ASSUME IInv, LocksAreHeld
        PROVE  NoDeadlock
    <2> SUFFICES ASSUME \A t \in Threads : pc[t] # "fault",
                        NEW t \in Threads, pc[t] \notin {"idle", "done"},
                        \A u \in Threads : ~Open(u)
                 PROVE  \E r \in BlockingReceivers : pc[r] = "waiting" /\ bIsValid /\ nSize = 0
      BY DEF NoDeadlock
    <2> USE ThreadAssumption DEF Threads, Receivers
    <2>1. Roles /\ mutex \in Senders \cup {NoThread} /\ destroyMutex \in Receivers \cup {NoThread}
      BY <1>1 DEF IInv, TypeOK
    <2>2. mutex = NoThread
      BY <1>1, <2>1 DEF LocksAreHeld, Open
    <2>3. destroyMutex # NoThread
      BY <1>1, <2>1, <2>2 DEF IInv, OneReceiverInside, Roles, Open
    <2>4. destroyMutex \in BlockingReceivers /\ pc[destroyMutex] = "waiting"
      BY <1>1, <2>1, <2>2, <2>3 DEF LocksAreHeld, Open
    <2> QED BY <1>1, <2>4 DEF IInv, NoLostWakeup, consumerCond
  <1> QED BY <1>1, Inductive, HeldLocks, PTL

\* A destruction can go on, or whom it waits for can: what DestroyTerminates says, but
\* for the fairness of the threads, and for every number of them.
THEOREM DestroyIsNotStuck == Spec => []DestroyCanGoOn
  <1>1. ASSUME IInv, LocksAreHeld
        PROVE  DestroyCanGoOn
    <2> SUFFICES ASSUME Settled
                 PROVE  /\ pc[Destroyer] = "called" => Open(Destroyer)
                        /\ pc[Destroyer] = "flagged" => Open(Destroyer) \/ Open(destroyMutex)
      BY DEF DestroyCanGoOn
    <2> USE ThreadAssumption DEF Threads, Receivers
    <2>1. /\ Roles /\ Life /\ HeldBack
          /\ mutex \in Senders \cup {NoThread} /\ destroyMutex \in Receivers \cup {NoThread}
      BY <1>1 DEF IInv, TypeOK
    <2>2. \A t \in Senders \cup Receivers :
             pc[Destroyer] # "idle" => pc[t] \notin {"called", "locked", "fault"}
      BY <2>1 DEF HeldBack, Settled
    <2>3. pc[Destroyer] # "idle" => mutex = NoThread
      BY <1>1, <2>1, <2>2 DEF LocksAreHeld
    <2>4. pc[Destroyer] = "called" => Open(Destroyer)
      BY <2>3 DEF Open
    <2>5. ASSUME pc[Destroyer] = "flagged", destroyMutex # NoThread
          PROVE  Open(destroyMutex)
      <3>1. destroyMutex \in Receivers /\ pc[destroyMutex] \in {"inside", "waiting", "woken"}
        BY <1>1, <2>1, <2>2, <2>5 DEF LocksAreHeld
      <3>2. pc[destroyMutex] = "waiting" => destroyMutex \in TimedReceivers
        BY <1>1, <2>1, <2>5, <3>1 DEF IInv, NoLostWakeup, consumerCond, Life
      <3> QED BY <2>3, <2>5, <3>1, <3>2 DEF Open
    <2> QED BY <2>4, <2>5 DEF Open
  <1> QED BY <1>1, Inductive, HeldLocks, PTL

\* A shut queue is left in three steps at most, however many threads there are.
THEOREM DestroyEnds == Spec => DestroyIsBrief
  <1> DEFINE Nearer == \/ pc'[Destroyer] = "released"
                       \/ pc'[Destroyer] = "flagged" /\ StepsLeft' < StepsLeft
  <1>1. ASSUME IInv, LocksAreHeld, Next, pc[Destroyer] = "flagged", Settled, Settled'
        PROVE  Nearer
    <2> USE ThreadAssumption DEF Threads, Receivers
    <2>1. /\ Roles /\ Life /\ HeldBack /\ OneReceiverInside /\ ~bIsValid /\ alive = "live"
          /\ mutex \in Senders \cup {NoThread} /\ destroyMutex \in Receivers \cup {NoThread}
          /\ pc \in [Threads -> PCs]
      BY <1>1 DEF IInv, TypeOK, Life
    <2>2. \A t \in Senders \cup Receivers : pc[t] \notin {"called", "locked", "fault"}
      BY <1>1, <2>1 DEF HeldBack, Settled
    <2>3. ASSUME NEW s \in Senders
          PROVE  ~SendStep(s) /\ \A m \in Messages : ~SendCall(s, m)
      <3>1. ~SendStep(s)
        BY <2>2 DEF SendStep, SendLock, SendStore
      <3>2. ASSUME NEW m \in Messages, SendCall(s, m)
            PROVE  FALSE
        BY <1>1, <2>1, <3>2 DEF SendCall, MayCall, Settled
      <3> QED BY <3>1, <3>2
    <2>4. ASSUME NEW r \in Receivers, ReceiveStep(r) \/ ReceiveCall(r) \/ SpuriousWakeup(r)
          PROVE  Nearer
      <3>1. ~ReceiveCall(r) /\ ~ReceiveEnter(r)
        BY <1>1, <2>1, <2>2 DEF ReceiveCall, ReceiveEnter, MayCall, Settled
      <3>2. pc[r] \in {"inside", "waiting", "woken"} /\ destroyMutex = r
        BY <2>1, <2>4, <3>1
        DEF ReceiveStep, ReceiveMessage, ReceiveMessageTimeout, ResumeTimeout, HoldsBoth,
            Timeout, SpuriousWakeup, OneReceiverInside
      <3>3. CASE Pop(r) \/ ReturnNothing(r)
        BY <1>1, <2>1, <3>2, <3>3 DEF Pop, ReturnNothing, Return, StepsLeft
      <3>4. CASE Timeout(r) \/ SpuriousWakeup(r)
        BY <1>1, <2>1, <3>2, <3>4 DEF Timeout, SpuriousWakeup, StepsLeft
      <3>5. CASE pc[r] = "inside" /\ Wait(r)
        BY <1>1, <2>1, <3>2, <3>5 DEF Wait, StepsLeft
      <3> QED
        BY <2>1, <2>4, <3>1, <3>3, <3>4, <3>5
        DEF ReceiveStep, ReceiveMessage, ReceiveMessageTimeout, ResumeTimeout, HoldsBoth
    <2>5. ASSUME DestroyCall \/ DestroyStep \/ CreateMessageQueue
          PROVE  Nearer
      BY <1>1, <2>1, <2>5
      DEF DestroyCall, DestroyStep, DestroyInvalidate, DestroySlots, DestroyFree,
          CreateMessageQueue
    <2>6. ASSUME NEW t \in Senders \cup Receivers, UseAfterFree(t)
          PROVE  FALSE
      BY <2>1, <2>6 DEF UseAfterFree, TouchesFreed
    <2> QED BY <1>1, <2>3, <2>4, <2>5, <2>6 DEF Next
  <1>2. IInv /\ LocksAreHeld /\ [Next]_vars =>
            [pc[Destroyer] = "flagged" /\ Settled /\ Settled' => Nearer]_vars
    BY <1>1
  <1> QED BY <1>2, Inductive, HeldLocks, PTL DEF Spec, DestroyIsBrief

-------------------------------------------------------------------------------
\* The window of the ring read as a sequence.
LEMMA ContentsIsSeq ==
    ASSUME TypeOK, RingInv
    PROVE  /\ Contents \in Seq(Messages)
           /\ Len(Contents) = nSize
           /\ DOMAIN Contents = 1 .. nSize
           /\ \A k \in 1 .. nSize : Contents[k] = pAlloc[SlotAfter(nNextOut, k - 1)]
  <1>1. nSize \in Nat
    BY CapacityAssumption DEF TypeOK
  <1>2. \A k \in 1 .. nSize : k - 1 \in 0 .. nSize - 1
    BY <1>1
  <1>3. Contents \in [1 .. nSize -> Messages]
    BY <1>2 DEF Contents, RingInv
  <1> QED BY <1>1, <1>3 DEF Contents

LEMMA TailIsFunction ==
    ASSUME NEW S, NEW s \in Seq(S), s # <<>>
    PROVE  Tail(s) = [k \in 1 .. Len(s) - 1 |-> s[k + 1]]
  <1>1. Tail(s) \in [1 .. Len(s) - 1 -> S] /\ \A k \in 1 .. Len(s) - 1 : Tail(s)[k] = s[k + 1]
    BY HeadTailProperties, LenProperties
  <1> QED BY <1>1

LEMMA AppendIsFunction ==
    ASSUME NEW S, NEW s \in Seq(S), NEW e \in S
    PROVE  Append(s, e) = [k \in 1 .. Len(s) + 1 |-> IF k = Len(s) + 1 THEN e ELSE s[k]]
  <1>1. /\ Append(s, e) \in [1 .. Len(s) + 1 -> S]
        /\ \A k \in 1 .. Len(s) : Append(s, e)[k] = s[k]
        /\ Append(s, e)[Len(s) + 1] = e
    <2>1. Append(s, e) \in Seq(S) /\ Len(Append(s, e)) = Len(s) + 1
      BY AppendProperties
    <2>2. Append(s, e) \in [1 .. Len(s) + 1 -> S]
      BY <2>1, LenProperties
    <2> QED BY <2>2, AppendProperties
  <1>2. \A k \in 1 .. Len(s) + 1 : k # Len(s) + 1 => k \in 1 .. Len(s)
    BY LenProperties
  <1> QED BY <1>1, <1>2

\* A receiver's pop takes the head of that sequence.
LEMMA PopIsTake ==
    ASSUME TypeOK, RingInv, nSize # 0, NEW r \in Receivers, Pop(r)
    PROVE  /\ Contents # <<>>
           /\ pAlloc[nNextOut] = Head(Contents)
           /\ Contents' = Tail(Contents)
  <1>1. /\ nNextOut' = SlotAfter(nNextOut, 1)
        /\ nSize \in 1 .. nCapacity
        /\ nSize' = nSize - 1
        /\ pAlloc' = pAlloc
    BY CapacityAssumption DEF Pop, TypeOK
  <1>2. /\ SlotAfter(nNextOut, 0) = nNextOut
        /\ \A k \in 1 .. nSize' : SlotAfter(nNextOut', k - 1) = SlotAfter(nNextOut, k)
    BY <1>1, SlotAfterNext, CapacityAssumption DEF TypeOK
  <1>3. Contents' = [k \in 1 .. nSize' |-> pAlloc'[SlotAfter(nNextOut', k - 1)]]
    BY DEF Contents, SlotAfter
  <1>4. Contents' = [k \in 1 .. nSize - 1 |-> pAlloc[SlotAfter(nNextOut, k)]]
    BY <1>1, <1>2, <1>3
  <1>5. Contents # <<>>
    BY <1>1, ContentsIsSeq
  <1>6. \A k \in 1 .. nSize - 1 : Contents[k + 1] = pAlloc[SlotAfter(nNextOut, k)]
    BY <1>1, ContentsIsSeq
  <1>7. Contents' = Tail(Contents)
    BY <1>4, <1>5, <1>6, ContentsIsSeq, TailIsFunction
  <1>8. Contents # <<>> /\ pAlloc[nNextOut] = Head(Contents)
    BY <1>1, <1>2, ContentsIsSeq
  <1> QED BY <1>7, <1>8

\* A store appends to that sequence, at the price of its head when it is full.
LEMMA EnqueueIsPut ==
    ASSUME TypeOK, RingInv, NEW m \in Messages, Enqueue(m)
    PROVE  Contents' = IF Len(Contents) < nCapacity
                       THEN Append(Contents, m)
                       ELSE Append(Tail(Contents), m)
  <1>1. \A i \in Slots : pAlloc'[i] = IF i = nNextIn THEN m ELSE pAlloc[i]
    BY DEF Enqueue, TypeOK
  <1>2. Contents' = [k \in 1 .. nSize' |-> pAlloc'[SlotAfter(nNextOut', k - 1)]]
    BY DEF Contents, SlotAfter
  <1>3. Len(Contents) = nSize /\ Contents \in Seq(Messages) /\ nSize \in 0 .. nCapacity
    BY ContentsIsSeq DEF TypeOK
  <1>4. \A k \in 0 .. nSize - 1 : SlotAfter(nNextOut, k) = nNextIn => nSize = nCapacity /\ k = 0
    BY <1>3, SlotAfterInjective DEF TypeOK, RingInv
  <1>5. CASE nSize < nCapacity
    <2>1. nSize' = nSize + 1 /\ nNextOut' = nNextOut
      BY <1>3, <1>5, CapacityAssumption DEF Enqueue
    <2>2. ASSUME NEW k \in 1 .. nSize + 1
          PROVE  pAlloc'[SlotAfter(nNextOut', k - 1)] = IF k = nSize + 1 THEN m ELSE Contents[k]
      <3>1. SlotAfter(nNextOut, k - 1) \in Slots
        BY <1>3, <1>5, SlotAfterCases, CapacityAssumption DEF TypeOK
      <3>2. CASE k = nSize + 1
        BY <1>1, <1>3, <2>1, <3>1, <3>2 DEF RingInv
      <3>3. CASE k # nSize + 1
        <4>1. k \in 1 .. nSize /\ k - 1 \in 0 .. nSize - 1
          BY <1>3, <3>3
        <4> QED BY <1>1, <1>4, <1>5, <2>1, <3>1, <3>3, <4>1, ContentsIsSeq
      <3> QED BY <3>2, <3>3
    <2>3. Append(Contents, m) = [k \in 1 .. nSize + 1 |-> IF k = nSize + 1 THEN m ELSE Contents[k]]
      BY <1>3, AppendIsFunction
    <2> QED BY <1>2, <1>3, <1>5, <2>1, <2>2, <2>3
  <1>6. CASE ~(nSize < nCapacity)
    <2>1. /\ nSize = nCapacity /\ nSize' = nSize /\ nSize \in 1 .. nCapacity
          /\ nNextOut' = SlotAfter(nNextOut, 1) /\ nNextIn = nNextOut
      BY <1>3, <1>6, SlotAfterNext, CapacityAssumption DEF Enqueue, TypeOK, RingInv
    <2>2. ASSUME NEW k \in 1 .. nSize
          PROVE  pAlloc'[SlotAfter(nNextOut', k - 1)] = IF k = nSize THEN m ELSE Contents[k + 1]
      <3>1. SlotAfter(nNextOut', k - 1) = SlotAfter(nNextOut, k) /\ SlotAfter(nNextOut, k) \in Slots
        BY <2>1, SlotAfterNext, SlotAfterCases, CapacityAssumption DEF TypeOK
      <3>2. CASE k = nSize
        BY <1>1, <2>1, <3>1, <3>2, SlotAfterNext, CapacityAssumption DEF TypeOK
      <3>3. CASE k # nSize
        <4>1. k \in 0 .. nSize - 1 /\ k + 1 \in 1 .. nSize /\ k # 0
          BY <2>1, <3>3
        <4> QED BY <1>1, <1>4, <2>1, <3>1, <3>3, <4>1, ContentsIsSeq
      <3> QED BY <3>2, <3>3
    <2>3. Append(Tail(Contents), m) = [k \in 1 .. nSize |-> IF k = nSize THEN m ELSE Contents[k + 1]]
      <3>1. Tail(Contents) \in Seq(Messages) /\ Len(Tail(Contents)) = nSize - 1
            /\ \A k \in 1 .. nSize - 1 : Tail(Contents)[k] = Contents[k + 1]
        BY <1>3, <2>1, HeadTailProperties
      <3>2. \A k \in 1 .. nSize : k # nSize => k \in 1 .. nSize - 1
        BY <2>1
      <3>3. Append(Tail(Contents), m) =
              [k \in 1 .. nSize |-> IF k = nSize THEN m ELSE Tail(Contents)[k]]
        <4> DEFINE rest == Tail(Contents)
        <4>1. rest \in Seq(Messages) /\ Len(rest) + 1 = nSize
          BY <2>1, <3>1
        <4> HIDE DEF rest
        <4>2. Append(rest, m) = [k \in 1 .. Len(rest) + 1 |-> IF k = Len(rest) + 1 THEN m ELSE rest[k]]
          BY <4>1, AppendIsFunction
        <4>3. Append(rest, m) = [k \in 1 .. nSize |-> IF k = nSize THEN m ELSE rest[k]]
          BY <4>1, <4>2
        <4> QED BY <4>3 DEF rest
      <3> QED BY <3>1, <3>2, <3>3
    <2> QED BY <1>2, <1>3, <1>6, <2>1, <2>2, <2>3
  <1> QED BY <1>3, <1>5, <1>6, CapacityAssumption

\* Every step of the queue is a step of the abstract queue, or invisible to it.
LEMMA StepRefines == IInv /\ [Next]_vars => [Lossy!Next]_(Lossy!vars)
  <1> SUFFICES ASSUME IInv, [Next]_vars
               PROVE  Lossy!Next \/ UNCHANGED Lossy!vars
    OBVIOUS
  <1> USE DEF Lossy!vars
  <1>1. ASSUME NEW s \in Senders, SendStore(s)
        PROVE  Lossy!Next
    <2>1. arg[s] \in Messages /\ Enqueue(arg[s])
      BY <1>1 DEF SendStore, IInv, SenderHasMessage
    <2>2. Contents' = IF Len(Contents) < nCapacity
                      THEN Append(Contents, arg[s])
                      ELSE Append(Tail(Contents), arg[s])
      BY <2>1, EnqueueIsPut DEF IInv
    <2>3. Lossy!Put(arg[s])
      BY <1>1, <2>2 DEF SendStore, Lossy!Put
    <2> QED BY <2>1, <2>3 DEF Lossy!Next
  <1>2. ASSUME NEW r \in Receivers, nSize # 0, Pop(r)
        PROVE  Lossy!Next
    <2>1. Contents # <<>> /\ pAlloc[nNextOut] = Head(Contents) /\ Contents' = Tail(Contents)
      BY <1>2, PopIsTake DEF IInv
    <2>2. Lossy!Take(r)
      BY <1>2, <2>1 DEF Pop, Return, Lossy!Take
    <2> QED BY <2>2 DEF Lossy!Next, Lossy!Receivers, Receivers
  <1>3. ASSUME NEW r \in Receivers, ReturnNothing(r),
               r \in BlockingReceivers => ~bIsValid /\ nSize = 0
        PROVE  Lossy!Next
    <2>1. Contents' = Contents
      BY <1>3 DEF ReturnNothing, ring, Contents, SlotAfter
    <2>2. nSize = 0 => Contents = <<>>
      BY DEF Contents
    <2>3. Lossy!TakeNothing(r)
      BY <1>3, <2>1, <2>2 DEF ReturnNothing, Return, Lossy!TakeNothing
    <2> QED BY <2>3 DEF Lossy!Next, Lossy!Receivers, Receivers
  <1>4. ASSUME UNCHANGED ring, UNCHANGED <<bIsValid, alive, result>>
        PROVE  UNCHANGED Lossy!vars
    BY <1>4 DEF ring, Contents, SlotAfter
  <1>5. CASE DestroyInvalidate
    <2>1. alive = "live"
      BY <1>5 DEF DestroyInvalidate, IInv, Life
    <2>2. Contents' = Contents
      BY <1>5 DEF DestroyInvalidate, ring, Contents, SlotAfter
    <2>3. Lossy!Shut
      BY <1>5, <2>1, <2>2 DEF DestroyInvalidate, Lossy!Shut
    <2> QED BY <2>3 DEF Lossy!Next
  <1>6. CASE DestroySlots
    <2>1. Lossy!Close
      BY <1>6 DEF DestroySlots, Lossy!Close, IInv, Life
    <2> QED BY <2>1 DEF Lossy!Next
  <1>7. CASE DestroyFree
    BY <1>7 DEF DestroyFree, IInv, Life
  <1>8. CASE CreateMessageQueue
    <2>1. Contents' = <<>>
      BY <1>8 DEF CreateMessageQueue, Contents
    <2>2. Lossy!Reopen
      BY <1>8, <2>1 DEF CreateMessageQueue, Lossy!Reopen, IInv, Life
    <2> QED BY <2>2 DEF Lossy!Next
  <1>9. ASSUME NEW r \in Receivers, ReceiveStep(r)
        PROVE  Lossy!Next \/ UNCHANGED Lossy!vars
    <2>1. CASE ReceiveEnter(r) \/ Timeout(r) \/ Wait(r)
      BY <2>1, <1>4 DEF ReceiveEnter, Timeout, Wait
    <2>2. CASE r \in BlockingReceivers /\ ReceiveMessage(r)
      BY <2>1, <2>2, <1>2, <1>3 DEF ReceiveMessage
    <2>3. CASE r \in TimedReceivers /\ (ReceiveMessageTimeout(r) \/ ResumeTimeout(r))
      BY <2>1, <2>3, <1>2, <1>3, ThreadAssumption DEF ReceiveMessageTimeout, ResumeTimeout
    <2> QED BY <1>9, <2>1, <2>2, <2>3 DEF ReceiveStep
  <1>10. CASE \E s \in Senders : SendLock(s) \/ \E m \in Messages : SendCall(s, m)
    BY <1>10, <1>4 DEF SendLock, SendCall
  <1>11. CASE DestroyCall \/ \E r \in Receivers : ReceiveCall(r) \/ SpuriousWakeup(r)
    BY <1>11, <1>4 DEF DestroyCall, ReceiveCall, SpuriousWakeup
  <1>12. CASE \E t \in Senders \cup Receivers : UseAfterFree(t)
    BY <1>12, <1>4 DEF UseAfterFree
  <1>13. CASE UNCHANGED vars
    BY <1>13, <1>4 DEF vars
  <1> QED
    BY <1>1, <1>5, <1>6, <1>7, <1>8, <1>9, <1>10, <1>11, <1>12, <1>13
    DEF Next, SendStep, DestroyStep

\* queue.c implements the bounded drop-oldest FIFO, whatever the capacity, the
\* number of threads and the interleaving of their locks and waits.
THEOREM Refinement == Spec => ImplementsLossyQueue
  <1>1. Init => Lossy!Init
    BY DEF Init, Lossy!Init, Contents, Lossy!Receivers, Receivers
  <1>2. IInv /\ [Next]_vars => [Lossy!Next]_(Lossy!vars)
    BY StepRefines
  <1> QED BY <1>1, <1>2, Inductive, PTL DEF Spec, Lossy!Spec, ImplementsLossyQueue
===============================================================================
