--------------------------- MODULE LogChannelProofs ---------------------------
(***************************************************************************)
(* Proofs about LogChannel, for queues of every capacity, any number of    *)
(* senders, of messages and of calls of LinkInitLog.                       *)
(*                                                                         *)
(* LinkLogThread finds its queue because the flag, the thread and the      *)
(* queue come and go in a fixed order: LifeInv.                            *)
(***************************************************************************)
EXTENDS LogChannel, TLAPS

\* A queue is a sequence of messages, within its capacity.
Contents == {s \in Seq(Messages) : Len(s) <= nCapacity}

\* What Put leaves in a queue: a message more, or the oldest one less as well.
LEMMA PutType ==
    ASSUME NEW s \in Contents, NEW m \in Messages
    PROVE  (IF Len(s) < nCapacity THEN Append(s, m) ELSE Append(Tail(s), m)) \in Contents
<1>1. s \in Seq(Messages) /\ Len(s) <= nCapacity /\ nCapacity \in Nat \ {0}
  BY BoundAssumption DEF Contents
<1>2. CASE Len(s) < nCapacity
  BY <1>1, <1>2 DEF Contents
<1>3. CASE ~(Len(s) < nCapacity)
  <2>1. s # <<>>
    BY <1>1, <1>3
  <2>2. Tail(s) \in Seq(Messages) /\ Len(Tail(s)) = Len(s) - 1
    BY <1>1, <2>1
  <2> QED BY <1>1, <1>3, <2>2 DEF Contents
<1> QED BY <1>2, <1>3

\* What is taken is a message, and leaves room for another.
LEMMA TakeType ==
    ASSUME NEW s \in Contents, s # <<>>
    PROVE  /\ Head(s) \in Messages /\ Tail(s) \in Contents
           /\ Len(Tail(s)) < nCapacity
<1>1. s \in Seq(Messages) /\ Len(s) <= nCapacity /\ nCapacity \in Nat
  BY BoundAssumption DEF Contents
<1>2. Tail(s) \in Seq(Messages) /\ Len(Tail(s)) = Len(s) - 1 /\ Head(s) \in Messages
  BY <1>1
<1> QED BY <1>1, <1>2 DEF Contents

-------------------------------------------------------------------------------
Running == log \in {"receive", "waiting", "received"}

\* The order of LinkInitLog and LinkDinitLog: while isUsed is set, the thread runs and
\* the queue is open; and the queue is there until the thread has ended.
LifeInv ==
    /\ isUsed => owner = "idle" /\ Running
    /\ owner = "idle" /\ ~isUsed => closed /\ ~Running
    /\ owner = "join" => ~isUsed
    /\ owner = "destroy" => ~isUsed /\ ~closed /\ ~Running
    /\ Running => ~closed /\ ~shut
    /\ owner = "join" => ~closed
    /\ closed => items = <<>>

\* A sender that has looked holds a message; one that is to push out another's has met a
\* race; and DropsAreRaces.
RaceInv ==
    /\ \A s \in Senders : sender[s] \in {"looked", "storing"} => message[s] \in Messages
    /\ \A s \in Senders : sender[s] = "storing" => s \in raced
    /\ DropsAreRaces

Inv == TypeOK /\ LifeInv /\ RaceInv

-------------------------------------------------------------------------------
LEMMA InitInv == Init => Inv
<1> SUFFICES ASSUME Init PROVE Inv
  OBVIOUS
<1> USE BoundAssumption DEF Init
<1>1. TypeOK
  <2>1. isUsed \in BOOLEAN /\ shut \in BOOLEAN /\ closed \in BOOLEAN
    OBVIOUS
  <2> QED BY <2>1 DEF TypeOK, NoMessage
<1>2. LifeInv /\ RaceInv
  BY DEF LifeInv, Running, RaceInv, DropsAreRaces
<1> QED BY <1>1, <1>2 DEF Inv

\* One step for each action and, under it, one for each part of the invariant.
LEMMA NextInv == Inv /\ [Next]_vars => Inv'
<1> SUFFICES ASSUME Inv, [Next]_vars
             PROVE  Inv'
  OBVIOUS
<1> USE BoundAssumption DEF Inv, Running, Messages, NoMessage,
       queue, threads, history, Storing
<1>1. CASE LinkInitLog
  <2>1. TypeOK'
    <3>1. isUsed' \in BOOLEAN /\ shut' \in BOOLEAN /\ closed' \in BOOLEAN
      BY <1>1 DEF LinkInitLog, Queue!Reopen
    <3>2. log' = "receive" /\ inits' \in 0 .. MaxInits
      BY <1>1 DEF TypeOK, LinkInitLog
    <3> QED BY <1>1, <3>1, <3>2 DEF TypeOK, LinkInitLog, Queue!Reopen
  <2>2. LifeInv'
    BY <1>1 DEF TypeOK, LifeInv, LinkInitLog, Queue!Reopen
  <2>3. RaceInv'
    BY <1>1 DEF TypeOK, LifeInv, RaceInv, DropsAreRaces, LinkInitLog, Queue!Reopen
  <2> QED BY <2>1, <2>2, <2>3
<1>2. CASE LinkDinitLog
  <2>1. TypeOK'
    BY <1>2 DEF TypeOK, LifeInv, RaceInv, LinkDinitLog
  <2>2. LifeInv'
    BY <1>2 DEF TypeOK, LifeInv, LinkDinitLog
  <2>3. RaceInv'
    BY <1>2 DEF TypeOK, LifeInv, RaceInv, DropsAreRaces, LinkDinitLog
  <2> QED BY <2>1, <2>2, <2>3
<1>3. CASE Join
  <2>1. TypeOK'
    BY <1>3 DEF TypeOK, LifeInv, RaceInv, Join
  <2>2. LifeInv'
    BY <1>3 DEF TypeOK, LifeInv, Join
  <2>3. RaceInv'
    BY <1>3 DEF TypeOK, LifeInv, RaceInv, DropsAreRaces, Join
  <2> QED BY <2>1, <2>2, <2>3
<1>4. CASE DestroyShut
  <2>1. TypeOK'
    BY <1>4 DEF TypeOK, LifeInv, RaceInv, DestroyShut, Queue!Shut
  <2>2. LifeInv'
    BY <1>4 DEF TypeOK, LifeInv, DestroyShut, Queue!Shut
  <2>3. RaceInv'
    BY <1>4 DEF TypeOK, LifeInv, RaceInv, DropsAreRaces, DestroyShut, Queue!Shut
  <2> QED BY <2>1, <2>2, <2>3
<1>5. CASE DestroyClose
  <2>1. TypeOK'
    BY <1>5 DEF TypeOK, LifeInv, RaceInv, DestroyClose, Queue!Close
  <2>2. LifeInv'
    BY <1>5 DEF TypeOK, LifeInv, DestroyClose, Queue!Close
  <2>3. RaceInv'
    BY <1>5 DEF TypeOK, LifeInv, RaceInv, DropsAreRaces, DestroyClose, Queue!Close
  <2> QED BY <2>1, <2>2, <2>3
<1>6. CASE Receive
  <2>1. TypeOK'
    BY <1>6 DEF TypeOK, LifeInv, RaceInv, Receive, Queue!Take
  <2>2. LifeInv'
    BY <1>6 DEF TypeOK, LifeInv, Receive, Queue!Take
  <2>3. RaceInv'
    BY <1>6 DEF TypeOK, LifeInv, RaceInv, DropsAreRaces, Receive, Queue!Take
  <2> QED BY <2>1, <2>2, <2>3
<1>7. CASE Wait
  <2>1. TypeOK'
    BY <1>7 DEF TypeOK, LifeInv, RaceInv, Wait
  <2>2. LifeInv'
    BY <1>7 DEF TypeOK, LifeInv, Wait
  <2>3. RaceInv'
    BY <1>7 DEF TypeOK, LifeInv, RaceInv, DropsAreRaces, Wait
  <2> QED BY <2>1, <2>2, <2>3
<1>8. CASE Resume
  <2>1. TypeOK'
    <3>1. CASE Queue!Take(LogThread)
      <4>1. items \in Contents /\ items # <<>>
        BY <3>1 DEF TypeOK, Contents, Queue!Take
      <4>2. Head(items) \in Messages /\ Tail(items) \in Contents
        BY <4>1, TakeType
      <4> QED BY <1>8, <3>1, <4>2 DEF TypeOK, Contents, Resume, Queue!Take
    <3>2. CASE Queue!TakeNothing(LogThread)
      BY <1>8, <3>2 DEF TypeOK, Resume, Queue!TakeNothing
    <3> QED BY <1>8, <3>1, <3>2 DEF Resume
  <2>2. LifeInv'
    BY <1>8 DEF TypeOK, LifeInv, Resume, Queue!Take, Queue!TakeNothing
  <2>3. RaceInv'
    BY <1>8 DEF TypeOK, LifeInv, RaceInv, DropsAreRaces, Resume, Queue!Take,
       Queue!TakeNothing
  <2> QED BY <2>1, <2>2, <2>3
<1>9. CASE Publish
  <2>1. TypeOK'
    BY <1>9 DEF TypeOK, LifeInv, RaceInv, Publish
  <2>2. LifeInv'
    BY <1>9 DEF TypeOK, LifeInv, Publish
  <2>3. RaceInv'
    BY <1>9 DEF TypeOK, LifeInv, RaceInv, DropsAreRaces, Publish
  <2> QED BY <2>1, <2>2, <2>3
<1>10. CASE \E s \in Senders : Refuse(s)
  <2> PICK s \in Senders : Refuse(s)
    BY <1>10
  <2>1. TypeOK'
    BY DEF TypeOK, LifeInv, RaceInv, Refuse, Look
  <2>2. LifeInv'
    BY DEF TypeOK, LifeInv, Refuse, Look
  <2>3. RaceInv'
    BY DEF TypeOK, LifeInv, RaceInv, DropsAreRaces, Refuse, Look
  <2> QED BY <2>1, <2>2, <2>3
<1>11. CASE \E s \in Senders : Accept(s)
  <2> PICK s \in Senders : Accept(s)
    BY <1>11
  <2>1. TypeOK'
    BY DEF TypeOK, LifeInv, RaceInv, Accept, Look
  <2>2. LifeInv'
    BY DEF TypeOK, LifeInv, Accept, Look
  <2>3. RaceInv'
    BY DEF TypeOK, LifeInv, RaceInv, DropsAreRaces, Accept, Look
  <2> QED BY <2>1, <2>2, <2>3
<1>12. CASE \E s \in Senders : LookAtNothing(s)
  <2> PICK s \in Senders : LookAtNothing(s)
    BY <1>12
  <2>1. TypeOK'
    BY DEF TypeOK, LifeInv, RaceInv, LookAtNothing, Look
  <2>2. LifeInv'
    BY DEF TypeOK, LifeInv, LookAtNothing, Look
  <2>3. RaceInv'
    BY DEF TypeOK, LifeInv, RaceInv, DropsAreRaces, LookAtNothing, Look
  <2> QED BY <2>1, <2>2, <2>3
<1>13. CASE \E s \in Senders : Send(s)
  <2> PICK s \in Senders : Send(s)
    BY <1>13
  <2>1. TypeOK'
    <3>1. items \in Contents /\ message[s] \in Messages
      BY DEF TypeOK, RaceInv, Contents, Send
    <3>2. items' \in Contents
      BY <3>1, PutType DEF Send, Put, Queue!Put
    <3> QED BY <3>2 DEF TypeOK, Contents, Send, Put, Queue!Put
  <2>2. LifeInv'
    BY DEF TypeOK, LifeInv, Send, Put, Queue!Put
  <2>3. RaceInv'
    BY DEF TypeOK, LifeInv, RaceInv, DropsAreRaces, Send, Put, Queue!Put
  <2> QED BY <2>1, <2>2, <2>3
<1>14. CASE \E s \in Senders : SendNowhere(s)
  <2> PICK s \in Senders : SendNowhere(s)
    BY <1>14
  <2>1. TypeOK'
    BY DEF TypeOK, LifeInv, RaceInv, SendNowhere
  <2>2. LifeInv'
    BY DEF TypeOK, LifeInv, SendNowhere
  <2>3. RaceInv'
    BY DEF TypeOK, LifeInv, RaceInv, DropsAreRaces, SendNowhere
  <2> QED BY <2>1, <2>2, <2>3
<1>16. CASE \E s \in Senders : Overfill(s)
  <2> PICK s \in Senders : Overfill(s)
    BY <1>16
  <2>1. TypeOK'
    BY DEF TypeOK, Overfill
  <2>2. LifeInv'
    BY DEF TypeOK, LifeInv, Overfill
  <2>3. RaceInv'
    BY DEF TypeOK, RaceInv, DropsAreRaces, Overfill
  <2> QED BY <2>1, <2>2, <2>3
<1>17. CASE \E s \in Senders : PushOut(s)
  <2> PICK s \in Senders : PushOut(s)
    BY <1>17
  <2>1. TypeOK'
    <3>1. items \in Contents /\ message[s] \in Messages
      BY DEF TypeOK, RaceInv, Contents, PushOut
    <3>2. items' \in Contents
      BY <3>1, PutType DEF PushOut, Put, Queue!Put
    <3> QED BY <3>2 DEF TypeOK, Contents, PushOut, Put, Queue!Put
  <2>2. LifeInv'
    BY DEF TypeOK, LifeInv, PushOut, Put, Queue!Put
  <2>3. RaceInv'
    BY DEF TypeOK, LifeInv, RaceInv, DropsAreRaces, PushOut, Put, Queue!Put
  <2> QED BY <2>1, <2>2, <2>3
<1>15. CASE UNCHANGED vars
  BY <1>15 DEF TypeOK, LifeInv, RaceInv, DropsAreRaces, vars
<1> QED BY <1>1, <1>2, <1>3, <1>4, <1>5, <1>6, <1>7, <1>8, <1>9, <1>10, <1>11, <1>12, <1>13, <1>14,
       <1>15, <1>16, <1>17 DEF Next, Owner, Log, Sender

\* The invariant holds in every reachable state.
THEOREM Inductive == Spec => []Inv
<1>1. Inv /\ [Next]_vars => Inv'
  BY NextInv
<1> QED BY <1>1, InitInv, PTL DEF Spec

\* The types, for every capacity and every set of senders.
THEOREM TypeCorrect == Spec => []TypeOK
<1>1. Inv => TypeOK
  BY DEF Inv
<1> QED BY <1>1, Inductive, PTL

\* However LinkInitLog and LinkDinitLog follow each other, LinkLogThread never
\* receives from a queue that has been shut or freed.
THEOREM QueueOutlivesThread == Spec => []ThreadHasItsQueue
<1>1. Inv => ThreadHasItsQueue
  BY DEF Inv, LifeInv, Running, ThreadHasItsQueue
<1> QED BY <1>1, Inductive, PTL

\* A message is pushed out only in a race of two senders for nSize and the lock.
THEOREM DropsExplained == Spec => []DropsAreRaces
<1>1. Inv => DropsAreRaces
  BY DEF Inv, RaceInv
<1> QED BY <1>1, Inductive, PTL
================================================================================
