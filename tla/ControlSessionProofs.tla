------------------------- MODULE ControlSessionProofs -------------------------
(***************************************************************************)
(* Proofs about ControlSession, for every size of the session table and of *)
(* the queues and any number of connects and messages.                     *)
(*                                                                         *)
(* The properties are not inductive by themselves.  What carries them is   *)
(* that the used slots are the failed ones, which form an initial segment  *)
(* of the table, plus the slot at hand, and that this slot changes its     *)
(* flag, its instance and its queue in a fixed order.                      *)
(***************************************************************************)
EXTENDS ControlSession, WellFoundedInduction, TLAPS

\* < on Nat as a relation.
LEMMA LessInRelation ==
    ASSUME NEW x \in Nat, NEW y \in Nat, x < y
    PROVE  <<x, y>> \in OpToRel(<, Nat)
BY DEF OpToRel

\* A minimum of a relation that contains < is a minimum of <.
LEMMA MinimumOfLess ==
    ASSUME NEW R, NEW S, NEW T, T \subseteq S,
           \A x \in S, y \in S : x < y => <<x, y>> \in R,
           \E x \in T : \A y \in T : ~(<<y, x>> \in R)
    PROVE  \E x \in T : \A y \in T : ~(y < x)
BY Zenon

\* First(S) is the least element of a non-empty set of numbers.
LEMMA FirstIsLeast ==
    ASSUME NEW S \in SUBSET Nat, S # {}
    PROVE  First(S) \in S /\ \A u \in S : First(S) <= u
<1>1. \E x \in S : \A y \in S : ~(<<y, x>> \in OpToRel(<, Nat))
  BY NatLessThanWellFounded, WFMin, Zenon
<1>2. \A x \in Nat, y \in Nat : x < y => <<x, y>> \in OpToRel(<, Nat)
  BY LessInRelation
<1>3. \E x \in S : \A y \in S : ~(y < x)
  BY <1>1, <1>2, MinimumOfLess, Zenon
<1>4. \E x \in S : \A y \in S : x <= y
  BY <1>3
<1> QED BY <1>4 DEF First

\* A bounded push keeps a queue a queue, within its capacity.
LEMMA PushType ==
    ASSUME NEW s \in Contents, NEW m \in Messages
    PROVE  Push(s, m) \in Contents
<1>1. s \in Seq(Messages) /\ Len(s) <= QueueMax /\ QueueMax \in Nat \ {0}
  BY BoundAssumption DEF Contents
<1>2. CASE Len(s) < QueueMax
  BY <1>1, <1>2 DEF Push, Contents
<1>3. CASE ~(Len(s) < QueueMax)
  <2>1. s # <<>>
    BY <1>1, <1>3
  <2>2. Tail(s) \in Seq(Messages) /\ Len(Tail(s)) = Len(s) - 1
    BY <1>1, <2>1
  <2> QED BY <1>1, <1>3, <2>2 DEF Push, Contents
<1> QED BY <1>1, <1>2, <1>3

\* So does taking the head, which is a message.
LEMMA TakeType ==
    ASSUME NEW s \in Contents, s # <<>>
    PROVE  Head(s) \in Messages /\ Tail(s) \in Contents
<1>1. s \in Seq(Messages) /\ Len(s) <= QueueMax /\ QueueMax \in Nat \ {0}
  BY BoundAssumption DEF Contents
<1>2. Tail(s) \in Seq(Messages) /\ Len(Tail(s)) = Len(s) - 1 /\ Head(s) \in Messages
  BY <1>1
<1> QED BY <1>1, <1>2 DEF Contents

\* A new queue is empty.
LEMMA EmptyType == <<>> \in Contents
BY BoundAssumption DEF Contents

-------------------------------------------------------------------------------
\* The slot LinkDinitIOCtrl or LinkInitIOCtrl is about, if there is one.
Current ==
    IF mqtt \in {"loop", "dinit", "unbound"} THEN {nSession} \cap used
    ELSE IF mqtt = "subscribe" THEN {index} ELSE {}

SlotInv ==
    /\ used = failed \cup Current
    /\ mqtt \in {"loop", "dinit", "unbound", "unused", "shut"} => nSession \notin failed
    /\ mqtt = "unbound" => nSession \in used
    /\ mqtt \in {"unused", "shut"} => nSession \in Slots
    /\ bound = IF mqtt = "unbound" THEN used \ {nSession} ELSE used
    /\ \A s \in failed : \A t \in Slots \ failed : s < t
    /\ mqtt = "subscribe" => index \notin failed /\ \A t \in Slots \ failed : index <= t

QueueInv ==
    /\ valid \subseteq live
    /\ \A s \in Slots : pQueue[s] \in made \cup {NoQueue}
    /\ \A s, t \in Slots : pQueue[s] = pQueue[t] /\ pQueue[s] # NoQueue => s = t
    /\ \A s \in used : pQueue[s] \in valid
    /\ mqtt \in {"unused", "shut"} => pQueue[nSession] \in live
    /\ mqtt = "shut" => pQueue[nSession] \notin valid

MainInv ==
    /\ main \in {"entering", "inside", "parked"} => q \in made
    /\ main \in {"inside", "parked"} => q \in live

\* Up to the first connect event nothing is ever torn down.
FirstConnectInv ==
    /\ connects = 0 => used = {} /\ mqtt = "loop"
    /\ connects = 1 /\ mqtt \in {"dinit", "init"} => used = {}
    /\ connects <= 1 =>
        /\ mqtt \notin {"unbound", "unused", "shut"}
        /\ live = made
        /\ main \in {"checked", "answer"} => n \in used
        /\ main # "fault"

Inv == TypeOK /\ SlotInv /\ QueueInv /\ MainInv /\ FirstConnectInv

-------------------------------------------------------------------------------
LEMMA InitInv == Init => Inv
<1> SUFFICES ASSUME Init PROVE Inv
  OBVIOUS
<1> USE BoundAssumption, NameAssumption DEF Init, Slots, NoSession
<1>1. TypeOK
  <2>1. mMqttContex \in BOOLEAN /\ connected \in BOOLEAN /\ subscribed \in BOOLEAN
    OBVIOUS
  <2> QED BY <2>1, EmptyType DEF TypeOK
<1>2. SlotInv /\ QueueInv /\ MainInv /\ FirstConnectInv
  BY DEF SlotInv, Current, QueueInv, MainInv, FirstConnectInv
<1> QED BY <1>1, <1>2 DEF Inv

\* One step for each action and, under it, one for each part of the invariant.
LEMMA NextInv == Inv /\ [Next]_vars => Inv'
<1> SUFFICES ASSUME Inv, [Next]_vars
             PROVE  Inv'
  OBVIOUS
<1> USE BoundAssumption, NameAssumption DEF Inv, Slots, NoSession,
       table, queues, context, link, mqttVars, mainVars, app, history
<1>1. CASE Connect
  <2>1. TypeOK'
    BY <1>1 DEF TypeOK, Connect
  <2>2. SlotInv'
    BY <1>1 DEF SlotInv, Current, TypeOK, Connect
  <2>3. QueueInv'
    BY <1>1 DEF QueueInv, SlotInv, Current, TypeOK, Connect
  <2>4. MainInv'
    BY <1>1 DEF MainInv, QueueInv, TypeOK, Connect
  <2>5. FirstConnectInv'
    BY <1>1 DEF FirstConnectInv, SlotInv, Current, TypeOK, Connect
  <2> QED BY <2>1, <2>2, <2>3, <2>4, <2>5
<1>2. CASE Disconnect
  <2>1. TypeOK'
    <3>1. connected' \in BOOLEAN /\ subscribed' \in BOOLEAN /\ mMqttContex' \in BOOLEAN
      BY <1>2 DEF TypeOK, Disconnect
    <3> QED BY <1>2, <3>1 DEF TypeOK, Disconnect
  <2>2. SlotInv'
    BY <1>2 DEF SlotInv, Current, TypeOK, Disconnect
  <2>3. QueueInv'
    BY <1>2 DEF QueueInv, SlotInv, Current, TypeOK, Disconnect
  <2>4. MainInv'
    BY <1>2 DEF MainInv, QueueInv, TypeOK, Disconnect
  <2>5. FirstConnectInv'
    BY <1>2 DEF FirstConnectInv, SlotInv, Current, TypeOK, Disconnect
  <2> QED BY <2>1, <2>2, <2>3, <2>4, <2>5
<1>3. CASE DinitNothing
  <2>1. TypeOK'
    BY <1>3 DEF TypeOK, DinitNothing, InUse
  <2>2. SlotInv'
    BY <1>3 DEF SlotInv, Current, TypeOK, DinitNothing, InUse
  <2>3. QueueInv'
    BY <1>3 DEF QueueInv, SlotInv, Current, TypeOK, DinitNothing, InUse
  <2>4. MainInv'
    BY <1>3 DEF MainInv, QueueInv, TypeOK, DinitNothing, InUse
  <2>5. FirstConnectInv'
    BY <1>3 DEF FirstConnectInv, SlotInv, Current, TypeOK, DinitNothing, InUse
  <2> QED BY <2>1, <2>2, <2>3, <2>4, <2>5
<1>4. CASE DinitUnbind
  <2>1. TypeOK'
    BY <1>4 DEF TypeOK, DinitUnbind, InUse
  <2>2. SlotInv'
    BY <1>4 DEF SlotInv, Current, TypeOK, DinitUnbind, InUse
  <2>3. QueueInv'
    BY <1>4 DEF QueueInv, SlotInv, Current, TypeOK, DinitUnbind, InUse
  <2>4. MainInv'
    BY <1>4 DEF MainInv, QueueInv, TypeOK, DinitUnbind, InUse
  <2>5. FirstConnectInv'
    BY <1>4 DEF FirstConnectInv, SlotInv, Current, TypeOK, DinitUnbind, InUse
  <2> QED BY <2>1, <2>2, <2>3, <2>4, <2>5
<1>5. CASE DinitUnuse
  <2>1. TypeOK'
    BY <1>5 DEF TypeOK, DinitUnuse
  <2>2. SlotInv'
    BY <1>5 DEF SlotInv, Current, TypeOK, DinitUnuse
  <2>3. QueueInv'
    BY <1>5 DEF QueueInv, SlotInv, Current, TypeOK, DinitUnuse
  <2>4. MainInv'
    BY <1>5 DEF MainInv, QueueInv, TypeOK, DinitUnuse
  <2>5. FirstConnectInv'
    BY <1>5 DEF FirstConnectInv, SlotInv, Current, TypeOK, DinitUnuse
  <2> QED BY <2>1, <2>2, <2>3, <2>4, <2>5
<1>6. CASE Shut
  <2>1. TypeOK'
    BY <1>6 DEF TypeOK, Shut
  <2>2. SlotInv'
    BY <1>6 DEF SlotInv, Current, TypeOK, Shut
  <2>3. QueueInv'
    BY <1>6 DEF QueueInv, SlotInv, Current, TypeOK, Shut
  <2>4. MainInv'
    BY <1>6 DEF MainInv, QueueInv, TypeOK, Shut
  <2>5. FirstConnectInv'
    BY <1>6 DEF FirstConnectInv, SlotInv, Current, TypeOK, Shut
  <2> QED BY <2>1, <2>2, <2>3, <2>4, <2>5
<1>7. CASE Close
  <2>1. TypeOK'
    BY <1>7 DEF TypeOK, SlotInv, Close, InsideQueue
  <2>2. SlotInv'
    BY <1>7 DEF SlotInv, Current, TypeOK, Close, InsideQueue
  <2>3. QueueInv'
    BY <1>7 DEF QueueInv, SlotInv, Current, TypeOK, Close, InsideQueue
  <2>4. MainInv'
    BY <1>7 DEF MainInv, QueueInv, TypeOK, Close, InsideQueue
  <2>5. FirstConnectInv'
    BY <1>7 DEF FirstConnectInv, SlotInv, Current, TypeOK, Close, InsideQueue
  <2> QED BY <2>1, <2>2, <2>3, <2>4, <2>5
<1>8. ASSUME NEW p \in Queues \ made, InitSlot(p)
      PROVE  Inv'
  <2>0. index' \in Slots \ used /\ \A u \in Slots \ used : index' <= u
    <3>1. index' = First(Slots \ used) /\ used \subseteq Slots /\ used # Slots
      BY <1>8 DEF InitSlot, TypeOK
    <3>2. Slots \ used \in SUBSET Nat /\ Slots \ used # {}
      <4>1. \A s \in Slots : s \in Nat
        BY DEF Slots
      <4> QED BY ONLY <3>1, <4>1
    <3> HIDE DEF Slots
    <3> QED BY <3>1, <3>2, FirstIsLeast
  <2>1. TypeOK'
    <3>1. index' \in Slots /\ items' \in [Queues -> Contents]
      BY <1>8, <2>0, EmptyType DEF TypeOK, InitSlot
    <3>2. used' \subseteq Slots /\ bound' \subseteq Slots /\ pQueue' \in [Slots -> Queues \cup {NoQueue}]
      BY <1>8, <3>1 DEF TypeOK, InitSlot
    <3>3. made' \subseteq Queues /\ live' \subseteq made' /\ valid' \subseteq made'
      BY <1>8 DEF TypeOK, InitSlot
    <3>4. mqtt' = "subscribe"
      BY <1>8 DEF InitSlot
    <3>5. UNCHANGED <<context, link, mainVars, app, history>>
      BY <1>8 DEF InitSlot
    <3> QED BY <3>1, <3>2, <3>3, <3>4, <3>5 DEF TypeOK
  <2>2. SlotInv'
    BY <1>8, <2>0 DEF SlotInv, Current, TypeOK, InitSlot
  <2>3. QueueInv'
    <3>1. \A s \in Slots : pQueue'[s] = IF s = index' THEN p ELSE pQueue[s]
      BY <1>8, <2>0 DEF TypeOK, InitSlot
    <3>2. p \notin made /\ p # NoQueue /\ made' = made \cup {p} /\ live' = live \cup {p} /\ valid' = valid \cup {p}
      BY <1>8 DEF InitSlot
    <3>3. used' = used \cup {index'} /\ used \subseteq Slots /\ mqtt' = "subscribe"
      BY <1>8 DEF TypeOK, InitSlot
    <3> QED BY <3>1, <3>2, <3>3, <2>0 DEF QueueInv
  <2>4. MainInv'
    BY <1>8 DEF MainInv, QueueInv, TypeOK, InitSlot
  <2>5. FirstConnectInv'
    BY <1>8 DEF FirstConnectInv, SlotInv, Current, TypeOK, InitSlot
  <2> QED BY <2>1, <2>2, <2>3, <2>4, <2>5
<1>9. CASE InitFails
  <2>1. TypeOK'
    BY <1>9 DEF TypeOK, InitFails
  <2>2. SlotInv'
    BY <1>9 DEF SlotInv, Current, TypeOK, InitFails
  <2>3. QueueInv'
    BY <1>9 DEF QueueInv, SlotInv, Current, TypeOK, InitFails
  <2>4. MainInv'
    BY <1>9 DEF MainInv, QueueInv, TypeOK, InitFails
  <2>5. FirstConnectInv'
    BY <1>9 DEF FirstConnectInv, SlotInv, Current, TypeOK, InitFails
  <2> QED BY <2>1, <2>2, <2>3, <2>4, <2>5
<1>10. ASSUME NEW o \in Outcomes, SubscribeSucceeds(o)
      PROVE  Inv'
  <2>1. TypeOK'
    BY <1>10 DEF TypeOK, SubscribeSucceeds
  <2>2. SlotInv'
    BY <1>10 DEF SlotInv, Current, TypeOK, SubscribeSucceeds
  <2>3. QueueInv'
    BY <1>10 DEF QueueInv, SlotInv, Current, TypeOK, SubscribeSucceeds
  <2>4. MainInv'
    BY <1>10 DEF MainInv, QueueInv, TypeOK, SubscribeSucceeds
  <2>5. FirstConnectInv'
    BY <1>10 DEF FirstConnectInv, SlotInv, Current, TypeOK, SubscribeSucceeds
  <2> QED BY <2>1, <2>2, <2>3, <2>4, <2>5
<1>11. ASSUME NEW o \in Outcomes, SubscribeFails(o)
      PROVE  Inv'
  <2>1. TypeOK'
    <3>1. connected' \in BOOLEAN /\ subscribed' \in BOOLEAN /\ mMqttContex' \in BOOLEAN
      BY <1>11 DEF TypeOK, SubscribeFails
    <3> QED BY <1>11, <3>1 DEF TypeOK, SubscribeFails
  <2>2. SlotInv'
    BY <1>11 DEF SlotInv, Current, TypeOK, SubscribeFails
  <2>3. QueueInv'
    BY <1>11 DEF QueueInv, SlotInv, Current, TypeOK, SubscribeFails
  <2>4. MainInv'
    BY <1>11 DEF MainInv, QueueInv, TypeOK, SubscribeFails
  <2>5. FirstConnectInv'
    BY <1>11 DEF FirstConnectInv, SlotInv, Current, TypeOK, SubscribeFails
  <2> QED BY <2>1, <2>2, <2>3, <2>4, <2>5
<1>12. ASSUME NEW m \in Messages, Deliver(m)
      PROVE  Inv'
  <2>1. TypeOK'
    BY <1>12, PushType DEF TypeOK, SlotInv, QueueInv, Hearing, Deliver
  <2>2. SlotInv'
    BY <1>12 DEF SlotInv, Current, TypeOK, Deliver
  <2>3. QueueInv'
    BY <1>12 DEF QueueInv, SlotInv, Current, TypeOK, Deliver
  <2>4. MainInv'
    BY <1>12 DEF MainInv, QueueInv, TypeOK, Deliver
  <2>5. FirstConnectInv'
    BY <1>12 DEF FirstConnectInv, SlotInv, Current, TypeOK, Deliver
  <2> QED BY <2>1, <2>2, <2>3, <2>4, <2>5
<1>13. CASE SetContext
  <2>1. TypeOK'
    BY <1>13 DEF TypeOK, SetContext
  <2>2. SlotInv'
    BY <1>13 DEF SlotInv, Current, TypeOK, SetContext
  <2>3. QueueInv'
    BY <1>13 DEF QueueInv, SlotInv, Current, TypeOK, SetContext
  <2>4. MainInv'
    BY <1>13 DEF MainInv, QueueInv, TypeOK, SetContext
  <2>5. FirstConnectInv'
    BY <1>13 DEF FirstConnectInv, SlotInv, Current, TypeOK, SetContext
  <2> QED BY <2>1, <2>2, <2>3, <2>4, <2>5
<1>14. CASE RecvCheck
  <2>1. TypeOK'
    BY <1>14 DEF TypeOK, RecvCheck, InUse
  <2>2. SlotInv'
    BY <1>14 DEF SlotInv, Current, TypeOK, RecvCheck, InUse
  <2>3. QueueInv'
    BY <1>14 DEF QueueInv, SlotInv, Current, TypeOK, RecvCheck, InUse
  <2>4. MainInv'
    BY <1>14 DEF MainInv, QueueInv, TypeOK, RecvCheck, InUse
  <2>5. FirstConnectInv'
    BY <1>14 DEF FirstConnectInv, SlotInv, Current, TypeOK, RecvCheck, InUse
  <2> QED BY <2>1, <2>2, <2>3, <2>4, <2>5
<1>15. CASE RecvLoad
  <2>1. TypeOK'
    BY <1>15 DEF TypeOK, RecvLoad
  <2>2. SlotInv'
    BY <1>15 DEF SlotInv, Current, TypeOK, RecvLoad
  <2>3. QueueInv'
    BY <1>15 DEF QueueInv, SlotInv, Current, TypeOK, RecvLoad
  <2>4. MainInv'
    BY <1>15 DEF MainInv, QueueInv, TypeOK, RecvLoad
  <2>5. FirstConnectInv'
    BY <1>15 DEF FirstConnectInv, SlotInv, Current, TypeOK, RecvLoad
  <2> QED BY <2>1, <2>2, <2>3, <2>4, <2>5
<1>16. CASE RecvEnter
  <2>1. TypeOK'
    BY <1>16 DEF TypeOK, RecvEnter
  <2>2. SlotInv'
    BY <1>16 DEF SlotInv, Current, TypeOK, RecvEnter
  <2>3. QueueInv'
    BY <1>16 DEF QueueInv, SlotInv, Current, TypeOK, RecvEnter
  <2>4. MainInv'
    BY <1>16 DEF MainInv, QueueInv, TypeOK, RecvEnter
  <2>5. FirstConnectInv'
    BY <1>16 DEF FirstConnectInv, MainInv, SlotInv, Current, TypeOK, RecvEnter
  <2> QED BY <2>1, <2>2, <2>3, <2>4, <2>5
<1>17. CASE RecvTake
  <2>1. TypeOK'
    BY <1>17, TakeType DEF TypeOK, MainInv, RecvTake
  <2>2. SlotInv'
    BY <1>17 DEF SlotInv, Current, TypeOK, RecvTake
  <2>3. QueueInv'
    BY <1>17 DEF QueueInv, SlotInv, Current, TypeOK, RecvTake
  <2>4. MainInv'
    BY <1>17 DEF MainInv, QueueInv, TypeOK, RecvTake
  <2>5. FirstConnectInv'
    BY <1>17 DEF FirstConnectInv, SlotInv, Current, TypeOK, RecvTake
  <2> QED BY <2>1, <2>2, <2>3, <2>4, <2>5
<1>18. CASE RecvPark
  <2>1. TypeOK'
    BY <1>18 DEF TypeOK, RecvPark
  <2>2. SlotInv'
    BY <1>18 DEF SlotInv, Current, TypeOK, RecvPark
  <2>3. QueueInv'
    BY <1>18 DEF QueueInv, SlotInv, Current, TypeOK, RecvPark
  <2>4. MainInv'
    BY <1>18 DEF MainInv, QueueInv, TypeOK, RecvPark
  <2>5. FirstConnectInv'
    BY <1>18 DEF FirstConnectInv, SlotInv, Current, TypeOK, RecvPark
  <2> QED BY <2>1, <2>2, <2>3, <2>4, <2>5
<1>19. CASE RecvNothing
  <2>1. TypeOK'
    BY <1>19 DEF TypeOK, RecvNothing
  <2>2. SlotInv'
    BY <1>19 DEF SlotInv, Current, TypeOK, RecvNothing
  <2>3. QueueInv'
    BY <1>19 DEF QueueInv, SlotInv, Current, TypeOK, RecvNothing
  <2>4. MainInv'
    BY <1>19 DEF MainInv, QueueInv, TypeOK, RecvNothing
  <2>5. FirstConnectInv'
    BY <1>19 DEF FirstConnectInv, SlotInv, Current, TypeOK, RecvNothing
  <2> QED BY <2>1, <2>2, <2>3, <2>4, <2>5
<1>20. CASE HandleStart
  <2>1. TypeOK'
    BY <1>20 DEF TypeOK, HandleStart, InUse
  <2>2. SlotInv'
    BY <1>20 DEF SlotInv, Current, TypeOK, HandleStart, InUse
  <2>3. QueueInv'
    BY <1>20 DEF QueueInv, SlotInv, Current, TypeOK, HandleStart, InUse
  <2>4. MainInv'
    BY <1>20 DEF MainInv, QueueInv, TypeOK, HandleStart, InUse
  <2>5. FirstConnectInv'
    BY <1>20 DEF FirstConnectInv, SlotInv, Current, TypeOK, HandleStart, InUse
  <2> QED BY <2>1, <2>2, <2>3, <2>4, <2>5
<1>21. CASE HandleStop
  <2>1. TypeOK'
    BY <1>21 DEF TypeOK, HandleStop
  <2>2. SlotInv'
    BY <1>21 DEF SlotInv, Current, TypeOK, HandleStop
  <2>3. QueueInv'
    BY <1>21 DEF QueueInv, SlotInv, Current, TypeOK, HandleStop
  <2>4. MainInv'
    BY <1>21 DEF MainInv, QueueInv, TypeOK, HandleStop
  <2>5. FirstConnectInv'
    BY <1>21 DEF FirstConnectInv, SlotInv, Current, TypeOK, HandleStop
  <2> QED BY <2>1, <2>2, <2>3, <2>4, <2>5
<1>22. CASE HandleOther
  <2>1. TypeOK'
    BY <1>22 DEF TypeOK, HandleOther
  <2>2. SlotInv'
    BY <1>22 DEF SlotInv, Current, TypeOK, HandleOther
  <2>3. QueueInv'
    BY <1>22 DEF QueueInv, SlotInv, Current, TypeOK, HandleOther
  <2>4. MainInv'
    BY <1>22 DEF MainInv, QueueInv, TypeOK, HandleOther
  <2>5. FirstConnectInv'
    BY <1>22 DEF FirstConnectInv, SlotInv, Current, TypeOK, HandleOther
  <2> QED BY <2>1, <2>2, <2>3, <2>4, <2>5
<1>23. CASE Answer
  <2>1. TypeOK'
    BY <1>23 DEF TypeOK, Answer
  <2>2. SlotInv'
    BY <1>23 DEF SlotInv, Current, TypeOK, Answer
  <2>3. QueueInv'
    BY <1>23 DEF QueueInv, SlotInv, Current, TypeOK, Answer
  <2>4. MainInv'
    BY <1>23 DEF MainInv, QueueInv, TypeOK, Answer
  <2>5. FirstConnectInv'
    BY <1>23 DEF FirstConnectInv, SlotInv, Current, TypeOK, Answer
  <2> QED BY <2>1, <2>2, <2>3, <2>4, <2>5
<1>24. CASE UNCHANGED vars
  BY <1>24 DEF TypeOK, SlotInv, Current, QueueInv, MainInv, FirstConnectInv, vars
<1> QED
  BY <1>1, <1>2, <1>3, <1>4, <1>5, <1>6, <1>7, <1>8, <1>9, <1>10, <1>11, <1>12, <1>13, <1>14, <1>15, <1>16, <1>17, <1>18, <1>19, <1>20, <1>21, <1>22, <1>23, <1>24
     DEF Next, MqttStep, MainStep

-------------------------------------------------------------------------------
\* Inv holds in every reachable state.
THEOREM Inductive == Spec => []Inv
<1>1. Init => Inv
  BY InitInv
<1>2. Inv /\ [Next]_vars => Inv'
  BY NextInv
<1> QED BY <1>1, <1>2, PTL DEF Spec

\* Type correctness of the table, the queues and both threads.
THEOREM TypeCorrect == Spec => []TypeOK
<1>1. Inv => TypeOK
  BY DEF Inv
<1> QED BY Inductive, <1>1, PTL

\* OnIOCtrlMessage reads the table without a lock and still never finds a queue
\* that is freed or being destroyed.
THEOREM RoutingIsSafe == Spec => []RoutesToLiveQueue
<1>1. Inv => RoutesToLiveQueue
  BY DEF Inv, QueueInv, SlotInv, RoutesToLiveQueue
<1> QED BY Inductive, <1>1, PTL

\* Every used slot is the session's or that of a failed subscription.
THEOREM SlotsExplained == Spec => []SlotsAccounted
<1>1. Inv => SlotsAccounted
  BY DEF Inv, SlotInv, Current, SlotsAccounted
<1> QED BY Inductive, <1>1, PTL

\* The application hears its messages exactly as long as no subscription failed.
THEOREM HeardExactly == Spec => []HeardUnlessOneFailed
<1>1. Inv => HeardUnlessOneFailed
  <2> SUFFICES ASSUME Inv, mqtt = "loop", InUse(nSession)
               PROVE  Hearing # {} /\ First(Hearing) = nSession <=> failed = {}
    BY DEF HeardUnlessOneFailed
  <2>1. Hearing = failed \cup {nSession} /\ nSession \in Slots \ failed
    BY DEF Inv, SlotInv, Current, Hearing, InUse
  <2>2. Hearing \in SUBSET Nat /\ failed \subseteq Slots /\ Slots \subseteq Nat
    BY <2>1 DEF Inv, TypeOK, Slots
  <2>3. First(Hearing) \in Hearing /\ \A u \in Hearing : First(Hearing) <= u
    BY <2>1, <2>2, FirstIsLeast
  <2>4. CASE failed = {}
    BY <2>1, <2>3, <2>4
  <2>5. CASE failed # {}
    <3>1. PICK s \in failed : TRUE
      BY <2>5
    <3>2. s < nSession
      BY <2>1, <3>1 DEF Inv, SlotInv
    <3>3. First(Hearing) <= s
      BY <2>1, <2>3, <3>1
    <3> QED BY <2>1, <2>2, <2>3, <2>5, <3>1, <3>2, <3>3
  <2> QED BY <2>4, <2>5
<1> QED BY Inductive, <1>1, PTL

\* The first connect event cannot make the main thread follow a bad pointer.
THEOREM FirstConnectIsSafe == Spec => []FaultsNeedReconnect
<1>1. Inv => FaultsNeedReconnect
  BY DEF Inv, TypeOK, FirstConnectInv, FaultsNeedReconnect
<1> QED BY Inductive, <1>1, PTL
-------------------------------------------------------------------------------
\* The queue at p as its users see it: open and empty until it is made, and lost with
\* what is in it when it is freed.  EventLoop has what it took until it has handled it.
QueueAt(p) == INSTANCE LossyQueue WITH
    nCapacity <- QueueMax,
    TimedReceivers <- {"EventLoop"}, BlockingReceivers <- {},
    items <- IF p \in live THEN items[p] ELSE <<>>,
    shut <- p \in made \ valid,
    closed <- p \in made \ live,
    result <- [r \in {"EventLoop"} |->
                  IF main = "handle" /\ q = p THEN message ELSE NoMessage]

\* The message of another queue is not this queue's.
LEMMA TakeFromOther ==
    ASSUME Inv, NEW p \in Queues, RecvTake, q # p
    PROVE  UNCHANGED QueueAt(p)!vars
BY DEF RecvTake, table, context, link, mqttVars, app, history, QueueAt!vars, Inv, TypeOK

\* EventLoop takes the oldest message, from a queue that is still there.
LEMMA TakeFromQueue ==
    ASSUME Inv, NEW p \in Queues, RecvTake, q = p
    PROVE  QueueAt(p)!Take("EventLoop")
<1>1. p \in live /\ items[p] # <<>> /\ items \in [Queues -> Contents]
  BY DEF Inv, MainInv, TypeOK, RecvTake
<1>2. /\ items' = [items EXCEPT ![p] = Tail(@)] /\ message' = Head(items[p])
      /\ main' = "handle" /\ UNCHANGED <<made, live, valid, q>> /\ main # "handle"
  BY DEF RecvTake
<1> QED BY <1>1, <1>2 DEF QueueAt!Take

\* OnIOCtrlMessage puts a message into one queue, which is open.
LEMMA DeliverPuts ==
    ASSUME Inv, NEW p \in Queues, NEW m \in Messages, Deliver(m)
    PROVE  QueueAt(p)!Put(m) \/ UNCHANGED QueueAt(p)!vars
<1>1. /\ items \in [Queues -> Contents]
      /\ UNCHANGED <<made, live, valid, main, q, message>>
  BY DEF Inv, TypeOK, Deliver, table, context, link, mqttVars, mainVars, app
<1>2. CASE items' = items
  BY <1>1, <1>2 DEF QueueAt!vars
<1>3. CASE Hearing # {}
  <2> DEFINE s == First(Hearing)
  <2>1. Hearing \subseteq Slots /\ Slots \subseteq Nat /\ Hearing \in SUBSET Nat
    <3>1. used \subseteq Slots /\ Slots \subseteq Nat
      BY DEF Inv, TypeOK, Slots
    <3> QED BY <3>1 DEF Hearing
  <2>2. s \in used /\ s \in Slots
    BY <1>3, <2>1, FirstIsLeast DEF Inv, TypeOK, Hearing
  <2>3. pQueue[s] \in live /\ items' = [items EXCEPT ![pQueue[s]] = Push(@, m)]
    BY <1>3, <2>2 DEF Inv, QueueInv, Deliver
  <2>4. CASE pQueue[s] = p
    BY <1>1, <2>3, <2>4 DEF QueueAt!Put, Push
  <2>5. CASE pQueue[s] # p
    BY <1>1, <2>3, <2>5 DEF QueueAt!vars
  <2> QED BY <2>4, <2>5
<1> QED BY <1>2, <1>3 DEF Deliver

\* A session that is torn down shuts its own queue, then frees it.
LEMMA ShutAndClose ==
    ASSUME Inv, NEW p \in Queues, Shut \/ Close
    PROVE  QueueAt(p)!Shut \/ QueueAt(p)!Close \/ UNCHANGED QueueAt(p)!vars
<1>1. /\ nSession \in Slots /\ pQueue[nSession] \in live /\ live \subseteq made
      /\ mqtt = "shut" => pQueue[nSession] \notin valid
      /\ UNCHANGED <<made, items, main, q, message>>
  BY DEF Shut, Close, Inv, TypeOK, SlotInv, QueueInv, mainVars
<1>2. CASE pQueue[nSession] # p
  BY <1>1, <1>2 DEF Shut, Close, QueueAt!vars
<1>3. CASE pQueue[nSession] = p /\ Shut
  BY <1>1, <1>3 DEF Shut, QueueAt!Shut
<1>4. CASE pQueue[nSession] = p /\ Close
  BY <1>1, <1>4 DEF Close, QueueAt!Close
<1> QED BY <1>2, <1>3, <1>4

\* A new queue is at an address that no session has had.
LEMMA NewQueue ==
    ASSUME Inv, NEW p \in Queues, NEW new \in Queues \ made, InitSlot(new)
    PROVE  UNCHANGED QueueAt(p)!vars
<1>1. /\ items \in [Queues -> Contents] /\ live \subseteq made
      /\ items' = [items EXCEPT ![new] = <<>>]
      /\ made' = made \cup {new} /\ live' = live \cup {new} /\ valid' = valid \cup {new}
      /\ UNCHANGED <<main, q, message>>
  BY DEF Inv, TypeOK, InitSlot, mainVars
<1>2. CASE p = new
  BY <1>1, <1>2 DEF QueueAt!vars
<1>3. CASE p # new
  BY <1>1, <1>3 DEF QueueAt!vars
<1> QED BY <1>2, <1>3

\* A call that comes back without a message, or what was taken is done with.
LEMMA MainForgets ==
    ASSUME Inv, NEW p \in Queues, MainStep, ~RecvTake
    PROVE  QueueAt(p)!TakeNothing("EventLoop") \/ UNCHANGED QueueAt(p)!vars
<1>1. UNCHANGED queues /\ main' # "handle"
  BY DEF MainStep, SetContext, RecvCheck, RecvLoad, RecvEnter, RecvPark, RecvNothing,
         HandleStart, HandleStop, HandleOther, Answer
<1>2. CASE main = "handle" /\ q = p
  BY <1>1, <1>2 DEF queues, QueueAt!TakeNothing
<1>3. CASE ~(main = "handle" /\ q = p)
  BY <1>1, <1>3 DEF queues, QueueAt!vars
<1> QED BY <1>2, <1>3

\* Each queue of the session table goes through its life as LossyQueue says, which
\* MessageQueue implements: nothing is put into it or taken from it once it is freed, it
\* is freed only after it was shut, and what EventLoop gets is what OnIOCtrlMessage put,
\* in order, but for the oldest when it is full.  The table around it has no lock.
THEOREM QueuesAreLossy ==
    ASSUME NEW p \in Queues
    PROVE  Spec => QueueAt(p)!Spec
<1>1. Init => QueueAt(p)!Init
  BY DEF Init, QueueAt!Init, QueueAt!Receivers
<1>2. Inv /\ [Next]_vars => [QueueAt(p)!Next]_(QueueAt(p)!vars)
  <2> SUFFICES ASSUME Inv, [Next]_vars
               PROVE  QueueAt(p)!Next \/ UNCHANGED QueueAt(p)!vars
    OBVIOUS
  <2>1. "EventLoop" \in QueueAt(p)!Receivers
    BY DEF QueueAt!Receivers
  <2>2. CASE MainStep
    BY <2>1, <2>2, TakeFromOther, TakeFromQueue, MainForgets DEF QueueAt!Next
  <2>3. ASSUME NEW m \in Messages, Deliver(m)
        PROVE  QueueAt(p)!Next \/ UNCHANGED QueueAt(p)!vars
    BY <2>3, DeliverPuts DEF QueueAt!Next
  <2>4. CASE Shut \/ Close
    BY <2>4, ShutAndClose DEF QueueAt!Next
  <2>5. ASSUME NEW new \in Queues \ made, InitSlot(new)
        PROVE  UNCHANGED QueueAt(p)!vars
    BY <2>5, NewQueue
  <2>6. CASE \/ Connect \/ Disconnect \/ DinitNothing \/ DinitUnbind \/ DinitUnuse \/ InitFails
             \/ \E o \in Outcomes : SubscribeSucceeds(o) \/ SubscribeFails(o)
             \/ UNCHANGED vars
    <3>1. UNCHANGED queues /\ UNCHANGED mainVars
      BY <2>6 DEF Connect, Disconnect, DinitNothing, DinitUnbind, DinitUnuse, InitFails,
                  SubscribeSucceeds, SubscribeFails, queues, mainVars, vars
    <3> QED BY <3>1 DEF queues, mainVars, QueueAt!vars
  <2> QED BY <2>2, <2>3, <2>4, <2>5, <2>6 DEF Next, MqttStep
<1> QED BY <1>1, <1>2, Inductive, PTL DEF Spec, QueueAt!Spec
===============================================================================
