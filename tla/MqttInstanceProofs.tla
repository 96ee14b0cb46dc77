---------------------------- MODULE MqttInstanceProofs ----------------------------
(***************************************************************************)
(* Proofs about MqttInstance, for any number of faults and publishes and   *)
(* any PingAt.                                                             *)
(*                                                                         *)
(* What makes the properties inductive: a thread inside a guarded call, or *)
(* in the callback of one, holds listMutex; only such a thread, or one in  *)
(* LinkMqttConnect, meets an error; and until an accident is recorded in   *)
(* blame only the instance's own thread replaces mosq, so that its copy is *)
(* mosq wherever it follows it.                                            *)
(***************************************************************************)
EXTENDS MqttInstance, TLAPS

Handling == {"disconnect", "dinit", "init"}
Guarded == {"subscribe", "subscribeUnlock", "wait", "ping", "pingLost", "unlock",
            "publish", "publishUnlock"}

\* Where each thread can be, and where its callback returns to.
Sites ==
    /\ pc["main"] \in {"idle", "publishLock", "publish", "publishUnlock", "fault"}
                        \cup Handling
    /\ pc["main"] \in Handling => back["main"] = "publishUnlock"
    /\ pc["mqtt"] \notin {"idle", "publishLock", "publish", "publishUnlock"}
    /\ pc["mqtt"] \in Handling =>
        back["mqtt"] \in {"failed", "subscribeUnlock", "unlock", "pingLost"}

\* A thread in a guarded call, or in the callback of one, holds listMutex.
InGuarded(t) ==
    \/ pc[t] \in Guarded
    \/ pc[t] \in Handling /\ back[t] \in Guarded
Locked == \A t \in Threads : InGuarded(t) => listMutex = t

\* The ping has met the end of the connection.
PingIsLost ==
    \/ pc["mqtt"] = "pingLost"
    \/ pc["mqtt"] \in Handling /\ back["mqtt"] = "pingLost"

\* A count that is due is dealt with before the next.
Counted ==
    \/ timeoutCount < PingAt
    \/ pc["mqtt"] \in {"ping", "fault"}
    \/ PingIsLost

\* STATUS_CONNECTING without a connection is a state of LinkMqttConnect only.
Connecting ==
    status = "CONNECTING" /\ ~connected =>
        \/ pc["mqtt"] \in {"netConnect", "connect", "connack", "succeeded", "failed",
                            "fault"}
        \/ pc["mqtt"] = "disconnect" /\ back["mqtt"] = "failed"

\* Until one is freed there is one context, and everybody's copy is of it.  While
\* nothing is to blame mosq is the only one and the one that the instance's thread
\* follows.
ContextInv ==
    /\ ~freed => mosq \in live /\ \A t \in Threads : ctx[t] = mosq /\ pc[t] # "init"
    /\ pc["main"] \in {"dinit", "init"} => "main" \in blame
    /\ PingIsLost => "ping" \in blame
    /\ blame = {} =>
        /\ live = IF pc["mqtt"] = "init" THEN {} ELSE {mosq}
        /\ pc["mqtt"] # "fault"
        /\ pc["mqtt"] \in Uses \cup {"subscribeLock", "waitLock"} => ctx["mqtt"] = mosq
    /\ pc["main"] = "fault" => freed \/ blame # {}

IInv == TypeOK /\ Sites /\ Locked /\ Counted /\ Connecting /\ ContextInv

\* malloc gives what nobody has.
LEMMA FreshIsNew ==
    /\ Fresh({}) \in Contexts
    /\ Contexts \ InUse # {} => Fresh(InUse) \in Contexts \ InUse
  BY BoundAssumption DEF Fresh

\* IInv holds when the instance starts.
LEMMA InitIInv == Init => IInv
<1> SUFFICES ASSUME Init PROVE IInv
  OBVIOUS
<1> USE BoundAssumption DEF Init, Threads, Uses, Handling, Guarded
<1>1. TypeOK
  <2>1. pc \in [Threads -> Places] /\ back \in [Threads -> Places]
    BY DEF Places
  <2>2. mosq \in Contexts /\ ctx \in [Threads -> Contexts] /\ timeoutCount \in 0 .. PingAt
    BY FreshIsNew
  <2>3. live \subseteq Contexts
    BY <2>2, Zenon
  <2>4. faults \in 0 .. MaxFaults /\ publishes \in 0 .. MaxPublishes
    OBVIOUS
  <2> QED BY <2>1, <2>2, <2>3, <2>4 DEF TypeOK, NoThread
<1>2. Sites /\ Locked /\ Counted /\ Connecting /\ ContextInv
  BY DEF Sites, Locked, InGuarded, Counted, PingIsLost, Connecting, ContextInv
<1> QED BY <1>1, <1>2 DEF IInv

\* Every step keeps the types.
LEMMA TypeStep ==
    ASSUME TypeOK, Sites, Counted, [Next]_vars
    PROVE  TypeOK'
<1> USE BoundAssumption DEF Threads, NoThread, instance, network, places, At, Using, Load, Uses, TypeOK, Places, Sites, Handling, PingIsLost, Counted
<1>1. ASSUME NEW t \in Threads, Callback(t) PROVE TypeOK'
  <2>1. CASE Disconnect(t)
    BY <2>1 DEF Disconnect, Goto
  <2>2. CASE DisconnectNested(t)
    BY <2>2 DEF DisconnectNested, Fault, Goto
  <2>3. CASE DisconnectFreed(t)
    BY <2>3 DEF DisconnectFreed, Goto
  <2>4. CASE Dinit(t)
    BY <2>4 DEF Dinit, Goto
  <2>5. CASE InitContext(t)
    BY <2>5, FreshIsNew DEF InitContext, Goto
  <2>6. CASE InitFails(t)
    BY <2>6 DEF InitFails, Fault, Goto
  <2> QED BY <1>1, <2>1, <2>2, <2>3, <2>4, <2>5, <2>6 DEF Callback
<1>2. ASSUME NEW t \in Threads, UseFreed(t) PROVE TypeOK'
  BY <1>2 DEF UseFreed, Goto
<1>3. CASE MqttThread
  <2>1. CASE Top
    BY <2>1 DEF Top, Goto
  <2>2. CASE NetConnect
    BY <2>2 DEF NetConnect, Goto
  <2>3. CASE NetConnectRefused
    BY <2>3 DEF NetConnectRefused, Fault, Goto
  <2>4. CASE NetConnectFails
    BY <2>4 DEF NetConnectFails, Fault, Goto
  <2>5. CASE SendConnect
    BY <2>5 DEF SendConnect, Goto
  <2>6. CASE SendConnectError
    BY <2>6 DEF SendConnectError, WriteError, NetError, Fault, Goto
  <2>7. CASE Connack
    BY <2>7 DEF Connack, Answered, Fault, Goto
  <2>8. CASE ConnackTimeout
    BY <2>8 DEF ConnackTimeout, Late, Fault, Goto
  <2>9. CASE ConnackError
    BY <2>9 DEF ConnackError, NetError, Goto
  <2>10. CASE Succeeded
    BY <2>10 DEF Succeeded, Goto
  <2>11. CASE Failed
    BY <2>11 DEF Failed, Goto
  <2>12. CASE Event
    BY <2>12 DEF Event, Goto
  <2>13. CASE Acquire("mqtt", "subscribeLock", "subscribe")
    BY <2>13 DEF Acquire, Goto
  <2>14. CASE Subscribe
    BY <2>14 DEF Subscribe, Goto
  <2>15. CASE SubscribeTimeout
    BY <2>15 DEF SubscribeTimeout, Fault, Goto
  <2>16. CASE SubscribeError
    <3>1. faults' \in 0 .. MaxFaults
      BY <2>16 DEF SubscribeError, WriteError, NetError, Fault
    <3>2. NetError("mqtt", "subscribeUnlock")
      BY <2>16 DEF SubscribeError, WriteError
    <3> QED BY <3>1, <3>2 DEF NetError, Goto
  <2>17. CASE Release("mqtt", "subscribeUnlock", "loop")
    BY <2>17 DEF Release, Goto
  <2>18. CASE Loop
    BY <2>18 DEF Loop, Goto
  <2>19. CASE Acquire("mqtt", "waitLock", "wait")
    BY <2>19 DEF Acquire, Goto
  <2>20. CASE WaitTimeout
    BY <2>20 DEF WaitTimeout, Late, Fault, Goto
  <2>21. CASE WaitMessage
    BY <2>21 DEF WaitMessage, Answered, Fault, Goto
  <2>22. CASE WaitError
    BY <2>22 DEF WaitError, NetError, Fault, Goto
  <2>23. CASE Ping
    BY <2>23 DEF Ping, Goto
  <2>24. CASE PingError
    BY <2>24 DEF PingError, Goto
  <2>25. CASE Release("mqtt", "unlock", "top")
    BY <2>25 DEF Release, Goto
  <2> QED BY <1>1, <1>2, <1>3, <2>1, <2>2, <2>3, <2>4, <2>5, <2>6, <2>7, <2>8, <2>9, <2>10, <2>11, <2>12, <2>13, <2>14, <2>15, <2>16, <2>17, <2>18, <2>19, <2>20, <2>21, <2>22, <2>23, <2>24, <2>25 DEF MqttThread
<1>4. CASE Publish
  BY <1>4 DEF Publish, Goto
<1>5. CASE Publisher
  <2>1. CASE Acquire("main", "publishLock", "publish")
    BY <2>1 DEF Acquire, Goto
  <2>2. CASE Published
    BY <2>2 DEF Published, Goto
  <2>3. CASE PublishError
    BY <2>3 DEF PublishError, WriteError, NetError, Fault, Goto
  <2>4. CASE Release("main", "publishUnlock", "idle")
    BY <2>4 DEF Release, Goto
  <2> QED BY <1>1, <1>2, <1>5, <2>1, <2>2, <2>3, <2>4 DEF Publisher
<1>6. CASE Break
  BY <1>6 DEF Break, Ends, Fault
<1>7. CASE Silence
  BY <1>7 DEF Silence, Ends, Fault
<1>8. CASE GiveUp
  BY <1>8 DEF GiveUp, Ends
<1>9. CASE BrokerCloses \/ PingIsLate
  <2>1. CASE BrokerCloses
    BY <2>1 DEF BrokerCloses, Ends
  <2>2. CASE PingIsLate
    BY <2>2 DEF PingIsLate, Ends
  <2> QED BY <1>9, <2>1, <2>2
<1>10. CASE Crashed \/ UNCHANGED vars
  <2>1. UNCHANGED vars
    BY <1>10 DEF Crashed
  <2>2. UNCHANGED <<instance, listMutex, network, timeoutCount>>
    BY <2>1 DEF vars
  <2>3. UNCHANGED <<places, faults, publishes, blame>>
    BY <2>1 DEF vars
  <2> QED BY <2>2, <2>3
<1> QED BY <1>1, <1>2, <1>3, <1>4, <1>5, <1>6, <1>7, <1>8, <1>9, <1>10 DEF Next

\* Every step keeps the threads to their own places.
LEMMA SitesStep ==
    ASSUME TypeOK, Sites, [Next]_vars
    PROVE  Sites'
<1> USE BoundAssumption DEF Threads, NoThread, instance, network, places, At, Using, Load, Uses, TypeOK, Places, Sites, Handling
<1>1. ASSUME NEW t \in Threads, Callback(t) PROVE Sites'
  <2>1. CASE Disconnect(t)
    BY <2>1 DEF Disconnect, Goto
  <2>2. CASE DisconnectNested(t)
    BY <2>2 DEF DisconnectNested, Fault, Goto
  <2>3. CASE DisconnectFreed(t)
    BY <2>3 DEF DisconnectFreed, Goto
  <2>4. CASE Dinit(t)
    BY <2>4 DEF Dinit, Goto
  <2>5. CASE InitContext(t)
    BY <2>5, FreshIsNew DEF InitContext, Goto
  <2>6. CASE InitFails(t)
    BY <2>6 DEF InitFails, Fault, Goto
  <2> QED BY <1>1, <2>1, <2>2, <2>3, <2>4, <2>5, <2>6 DEF Callback
<1>2. ASSUME NEW t \in Threads, UseFreed(t) PROVE Sites'
  BY <1>2 DEF UseFreed, Goto
<1>3. CASE MqttThread
  <2>1. CASE Top
    BY <2>1 DEF Top, Goto
  <2>2. CASE NetConnect
    BY <2>2 DEF NetConnect, Goto
  <2>3. CASE NetConnectRefused
    BY <2>3 DEF NetConnectRefused, Fault, Goto
  <2>4. CASE NetConnectFails
    BY <2>4 DEF NetConnectFails, Fault, Goto
  <2>5. CASE SendConnect
    BY <2>5 DEF SendConnect, Goto
  <2>6. CASE SendConnectError
    BY <2>6 DEF SendConnectError, WriteError, NetError, Fault, Goto
  <2>7. CASE Connack
    BY <2>7 DEF Connack, Answered, Fault, Goto
  <2>8. CASE ConnackTimeout
    BY <2>8 DEF ConnackTimeout, Late, Fault, Goto
  <2>9. CASE ConnackError
    BY <2>9 DEF ConnackError, NetError, Goto
  <2>10. CASE Succeeded
    BY <2>10 DEF Succeeded, Goto
  <2>11. CASE Failed
    BY <2>11 DEF Failed, Goto
  <2>12. CASE Event
    BY <2>12 DEF Event, Goto
  <2>13. CASE Acquire("mqtt", "subscribeLock", "subscribe")
    BY <2>13 DEF Acquire, Goto
  <2>14. CASE Subscribe
    BY <2>14 DEF Subscribe, Goto
  <2>15. CASE SubscribeTimeout
    BY <2>15 DEF SubscribeTimeout, Fault, Goto
  <2>16. CASE SubscribeError
    BY <2>16 DEF SubscribeError, WriteError, NetError, Fault, Goto
  <2>17. CASE Release("mqtt", "subscribeUnlock", "loop")
    BY <2>17 DEF Release, Goto
  <2>18. CASE Loop
    BY <2>18 DEF Loop, Goto
  <2>19. CASE Acquire("mqtt", "waitLock", "wait")
    BY <2>19 DEF Acquire, Goto
  <2>20. CASE WaitTimeout
    BY <2>20 DEF WaitTimeout, Late, Fault, Goto
  <2>21. CASE WaitMessage
    BY <2>21 DEF WaitMessage, Answered, Fault, Goto
  <2>22. CASE WaitError
    BY <2>22 DEF WaitError, NetError, Fault, Goto
  <2>23. CASE Ping
    BY <2>23 DEF Ping, Goto
  <2>24. CASE PingError
    BY <2>24 DEF PingError, Goto
  <2>25. CASE Release("mqtt", "unlock", "top")
    BY <2>25 DEF Release, Goto
  <2> QED BY <1>1, <1>2, <1>3, <2>1, <2>2, <2>3, <2>4, <2>5, <2>6, <2>7, <2>8, <2>9, <2>10, <2>11, <2>12, <2>13, <2>14, <2>15, <2>16, <2>17, <2>18, <2>19, <2>20, <2>21, <2>22, <2>23, <2>24, <2>25 DEF MqttThread
<1>4. CASE Publish
  BY <1>4 DEF Publish, Goto
<1>5. CASE Publisher
  <2>1. CASE Acquire("main", "publishLock", "publish")
    BY <2>1 DEF Acquire, Goto
  <2>2. CASE Published
    BY <2>2 DEF Published, Goto
  <2>3. CASE PublishError
    BY <2>3 DEF PublishError, WriteError, NetError, Fault, Goto
  <2>4. CASE Release("main", "publishUnlock", "idle")
    BY <2>4 DEF Release, Goto
  <2> QED BY <1>1, <1>2, <1>5, <2>1, <2>2, <2>3, <2>4 DEF Publisher
<1>6. CASE Break
  BY <1>6 DEF Break, Ends, Fault
<1>7. CASE Silence
  BY <1>7 DEF Silence, Ends, Fault
<1>8. CASE GiveUp
  BY <1>8 DEF GiveUp, Ends
<1>9. CASE BrokerCloses \/ PingIsLate
  BY <1>9 DEF BrokerCloses, PingIsLate, Ends
<1>10. CASE Crashed \/ UNCHANGED vars
  BY <1>10 DEF Crashed, vars
<1> QED BY <1>1, <1>2, <1>3, <1>4, <1>5, <1>6, <1>7, <1>8, <1>9, <1>10 DEF Next

\* Only Acquire lets a thread in, only Release lets it out.
LEMMA LockedStep ==
    ASSUME TypeOK, Sites, Locked, [Next]_vars
    PROVE  Locked'
<1> USE BoundAssumption DEF Threads, NoThread, instance, network, places, At, Using, Load, Uses, TypeOK, Places, Sites, Handling, Guarded, InGuarded, Locked
<1>1. ASSUME NEW t \in Threads, Callback(t) PROVE Locked'
  <2>1. CASE Disconnect(t)
    BY <2>1 DEF Disconnect, Goto
  <2>2. CASE DisconnectNested(t)
    BY <2>2 DEF DisconnectNested, Fault, Goto
  <2>3. CASE DisconnectFreed(t)
    BY <2>3 DEF DisconnectFreed, Goto
  <2>4. CASE Dinit(t)
    BY <2>4 DEF Dinit, Goto
  <2>5. CASE InitContext(t)
    BY <2>5, FreshIsNew DEF InitContext, Goto
  <2>6. CASE InitFails(t)
    BY <2>6 DEF InitFails, Fault, Goto
  <2> QED BY <1>1, <2>1, <2>2, <2>3, <2>4, <2>5, <2>6 DEF Callback
<1>2. ASSUME NEW t \in Threads, UseFreed(t) PROVE Locked'
  BY <1>2 DEF UseFreed, Goto
<1>3. CASE MqttThread
  <2>1. CASE Top
    BY <2>1 DEF Top, Goto
  <2>2. CASE NetConnect
    BY <2>2 DEF NetConnect, Goto
  <2>3. CASE NetConnectRefused
    BY <2>3 DEF NetConnectRefused, Fault, Goto
  <2>4. CASE NetConnectFails
    BY <2>4 DEF NetConnectFails, Fault, Goto
  <2>5. CASE SendConnect
    BY <2>5 DEF SendConnect, Goto
  <2>6. CASE SendConnectError
    BY <2>6 DEF SendConnectError, WriteError, NetError, Fault, Goto
  <2>7. CASE Connack
    BY <2>7 DEF Connack, Answered, Fault, Goto
  <2>8. CASE ConnackTimeout
    BY <2>8 DEF ConnackTimeout, Late, Fault, Goto
  <2>9. CASE ConnackError
    BY <2>9 DEF ConnackError, NetError, Goto
  <2>10. CASE Succeeded
    BY <2>10 DEF Succeeded, Goto
  <2>11. CASE Failed
    BY <2>11 DEF Failed, Goto
  <2>12. CASE Event
    BY <2>12 DEF Event, Goto
  <2>13. CASE Acquire("mqtt", "subscribeLock", "subscribe")
    BY <2>13 DEF Acquire, Goto
  <2>14. CASE Subscribe
    BY <2>14 DEF Subscribe, Goto
  <2>15. CASE SubscribeTimeout
    BY <2>15 DEF SubscribeTimeout, Fault, Goto
  <2>16. CASE SubscribeError
    BY <2>16 DEF SubscribeError, WriteError, NetError, Fault, Goto
  <2>17. CASE Release("mqtt", "subscribeUnlock", "loop")
    BY <2>17 DEF Release, Goto
  <2>18. CASE Loop
    BY <2>18 DEF Loop, Goto
  <2>19. CASE Acquire("mqtt", "waitLock", "wait")
    BY <2>19 DEF Acquire, Goto
  <2>20. CASE WaitTimeout
    BY <2>20 DEF WaitTimeout, Late, Fault, Goto
  <2>21. CASE WaitMessage
    BY <2>21 DEF WaitMessage, Answered, Fault, Goto
  <2>22. CASE WaitError
    BY <2>22 DEF WaitError, NetError, Fault, Goto
  <2>23. CASE Ping
    BY <2>23 DEF Ping, Goto
  <2>24. CASE PingError
    BY <2>24 DEF PingError, Goto
  <2>25. CASE Release("mqtt", "unlock", "top")
    BY <2>25 DEF Release, Goto
  <2> QED BY <1>1, <1>2, <1>3, <2>1, <2>2, <2>3, <2>4, <2>5, <2>6, <2>7, <2>8, <2>9, <2>10, <2>11, <2>12, <2>13, <2>14, <2>15, <2>16, <2>17, <2>18, <2>19, <2>20, <2>21, <2>22, <2>23, <2>24, <2>25 DEF MqttThread
<1>4. CASE Publish
  BY <1>4 DEF Publish, Goto
<1>5. CASE Publisher
  <2>1. CASE Acquire("main", "publishLock", "publish")
    BY <2>1 DEF Acquire, Goto
  <2>2. CASE Published
    BY <2>2 DEF Published, Goto
  <2>3. CASE PublishError
    BY <2>3 DEF PublishError, WriteError, NetError, Fault, Goto
  <2>4. CASE Release("main", "publishUnlock", "idle")
    BY <2>4 DEF Release, Goto
  <2> QED BY <1>1, <1>2, <1>5, <2>1, <2>2, <2>3, <2>4 DEF Publisher
<1>6. CASE Break
  BY <1>6 DEF Break, Ends, Fault
<1>7. CASE Silence
  BY <1>7 DEF Silence, Ends, Fault
<1>8. CASE GiveUp
  BY <1>8 DEF GiveUp, Ends
<1>9. CASE BrokerCloses \/ PingIsLate
  BY <1>9 DEF BrokerCloses, PingIsLate, Ends
<1>10. CASE Crashed \/ UNCHANGED vars
  BY <1>10 DEF Crashed, vars
<1> QED BY <1>1, <1>2, <1>3, <1>4, <1>5, <1>6, <1>7, <1>8, <1>9, <1>10 DEF Next

\* A due count ends in a ping.
LEMMA CountedStep ==
    ASSUME TypeOK, Sites, Locked, Counted, [Next]_vars
    PROVE  Counted'
<1> USE BoundAssumption DEF Threads, NoThread, instance, network, places, At, Using, Load, Uses, TypeOK, Places, Sites, Handling, Guarded, InGuarded, PingIsLost, Locked, Counted
<1>1. ASSUME NEW t \in Threads, Callback(t) PROVE Counted'
  <2>1. CASE Disconnect(t)
    BY <2>1 DEF Disconnect, Goto
  <2>2. CASE DisconnectNested(t)
    BY <2>2 DEF DisconnectNested, Fault, Goto
  <2>3. CASE DisconnectFreed(t)
    BY <2>3 DEF DisconnectFreed, Goto
  <2>4. CASE Dinit(t)
    BY <2>4 DEF Dinit, Goto
  <2>5. CASE InitContext(t)
    BY <2>5, FreshIsNew DEF InitContext, Goto
  <2>6. CASE InitFails(t)
    BY <2>6 DEF InitFails, Fault, Goto
  <2> QED BY <1>1, <2>1, <2>2, <2>3, <2>4, <2>5, <2>6 DEF Callback
<1>2. ASSUME NEW t \in Threads, UseFreed(t) PROVE Counted'
  BY <1>2 DEF UseFreed, Goto
<1>3. CASE MqttThread
  <2>1. CASE Top
    BY <2>1 DEF Top, Goto
  <2>2. CASE NetConnect
    BY <2>2 DEF NetConnect, Goto
  <2>3. CASE NetConnectRefused
    BY <2>3 DEF NetConnectRefused, Fault, Goto
  <2>4. CASE NetConnectFails
    BY <2>4 DEF NetConnectFails, Fault, Goto
  <2>5. CASE SendConnect
    BY <2>5 DEF SendConnect, Goto
  <2>6. CASE SendConnectError
    BY <2>6 DEF SendConnectError, WriteError, NetError, Fault, Goto
  <2>7. CASE Connack
    BY <2>7 DEF Connack, Answered, Fault, Goto
  <2>8. CASE ConnackTimeout
    BY <2>8 DEF ConnackTimeout, Late, Fault, Goto
  <2>9. CASE ConnackError
    BY <2>9 DEF ConnackError, NetError, Goto
  <2>10. CASE Succeeded
    BY <2>10 DEF Succeeded, Goto
  <2>11. CASE Failed
    BY <2>11 DEF Failed, Goto
  <2>12. CASE Event
    BY <2>12 DEF Event, Goto
  <2>13. CASE Acquire("mqtt", "subscribeLock", "subscribe")
    BY <2>13 DEF Acquire, Goto
  <2>14. CASE Subscribe
    BY <2>14 DEF Subscribe, Goto
  <2>15. CASE SubscribeTimeout
    BY <2>15 DEF SubscribeTimeout, Fault, Goto
  <2>16. CASE SubscribeError
    BY <2>16 DEF SubscribeError, WriteError, NetError, Fault, Goto
  <2>17. CASE Release("mqtt", "subscribeUnlock", "loop")
    BY <2>17 DEF Release, Goto
  <2>18. CASE Loop
    BY <2>18 DEF Loop, Goto
  <2>19. CASE Acquire("mqtt", "waitLock", "wait")
    BY <2>19 DEF Acquire, Goto
  <2>20. CASE WaitTimeout
    BY <2>20 DEF WaitTimeout, Late, Fault, Goto
  <2>21. CASE WaitMessage
    BY <2>21 DEF WaitMessage, Answered, Fault, Goto
  <2>22. CASE WaitError
    BY <2>22 DEF WaitError, NetError, Fault, Goto
  <2>23. CASE Ping
    BY <2>23 DEF Ping, Goto
  <2>24. CASE PingError
    BY <2>24 DEF PingError, Goto
  <2>25. CASE Release("mqtt", "unlock", "top")
    BY <2>25 DEF Release, Goto
  <2> QED BY <1>1, <1>2, <1>3, <2>1, <2>2, <2>3, <2>4, <2>5, <2>6, <2>7, <2>8, <2>9, <2>10, <2>11, <2>12, <2>13, <2>14, <2>15, <2>16, <2>17, <2>18, <2>19, <2>20, <2>21, <2>22, <2>23, <2>24, <2>25 DEF MqttThread
<1>4. CASE Publish
  BY <1>4 DEF Publish, Goto
<1>5. CASE Publisher
  <2>1. CASE Acquire("main", "publishLock", "publish")
    BY <2>1 DEF Acquire, Goto
  <2>2. CASE Published
    BY <2>2 DEF Published, Goto
  <2>3. CASE PublishError
    BY <2>3 DEF PublishError, WriteError, NetError, Fault, Goto
  <2>4. CASE Release("main", "publishUnlock", "idle")
    BY <2>4 DEF Release, Goto
  <2> QED BY <1>1, <1>2, <1>5, <2>1, <2>2, <2>3, <2>4 DEF Publisher
<1>6. CASE Break
  BY <1>6 DEF Break, Ends, Fault
<1>7. CASE Silence
  BY <1>7 DEF Silence, Ends, Fault
<1>8. CASE GiveUp
  BY <1>8 DEF GiveUp, Ends
<1>9. CASE BrokerCloses \/ PingIsLate
  BY <1>9 DEF BrokerCloses, PingIsLate, Ends
<1>10. CASE Crashed \/ UNCHANGED vars
  BY <1>10 DEF Crashed, vars
<1> QED BY <1>1, <1>2, <1>3, <1>4, <1>5, <1>6, <1>7, <1>8, <1>9, <1>10 DEF Next

\* Whoever leaves LinkMqttConnect sets connected or another status.
LEMMA ConnectingStep ==
    ASSUME TypeOK, Sites, Connecting, [Next]_vars
    PROVE  Connecting'
<1> USE BoundAssumption DEF Threads, NoThread, instance, network, places, At, Using, Load, Uses, TypeOK, Places, Sites, Handling, Connecting
<1>1. ASSUME NEW t \in Threads, Callback(t) PROVE Connecting'
  <2>1. CASE Disconnect(t)
    BY <2>1 DEF Disconnect, Goto
  <2>2. CASE DisconnectNested(t)
    BY <2>2 DEF DisconnectNested, Fault, Goto
  <2>3. CASE DisconnectFreed(t)
    BY <2>3 DEF DisconnectFreed, Goto
  <2>4. CASE Dinit(t)
    BY <2>4 DEF Dinit, Goto
  <2>5. CASE InitContext(t)
    BY <2>5, FreshIsNew DEF InitContext, Goto
  <2>6. CASE InitFails(t)
    BY <2>6 DEF InitFails, Fault, Goto
  <2> QED BY <1>1, <2>1, <2>2, <2>3, <2>4, <2>5, <2>6 DEF Callback
<1>2. ASSUME NEW t \in Threads, UseFreed(t) PROVE Connecting'
  BY <1>2 DEF UseFreed, Goto
<1>3. CASE MqttThread
  <2>1. CASE Top
    BY <2>1 DEF Top, Goto
  <2>2. CASE NetConnect
    BY <2>2 DEF NetConnect, Goto
  <2>3. CASE NetConnectRefused
    BY <2>3 DEF NetConnectRefused, Fault, Goto
  <2>4. CASE NetConnectFails
    BY <2>4 DEF NetConnectFails, Fault, Goto
  <2>5. CASE SendConnect
    BY <2>5 DEF SendConnect, Goto
  <2>6. CASE SendConnectError
    BY <2>6 DEF SendConnectError, WriteError, NetError, Fault, Goto
  <2>7. CASE Connack
    BY <2>7 DEF Connack, Answered, Fault, Goto
  <2>8. CASE ConnackTimeout
    BY <2>8 DEF ConnackTimeout, Late, Fault, Goto
  <2>9. CASE ConnackError
    BY <2>9 DEF ConnackError, NetError, Goto
  <2>10. CASE Succeeded
    BY <2>10 DEF Succeeded, Goto
  <2>11. CASE Failed
    BY <2>11 DEF Failed, Goto
  <2>12. CASE Event
    BY <2>12 DEF Event, Goto
  <2>13. CASE Acquire("mqtt", "subscribeLock", "subscribe")
    BY <2>13 DEF Acquire, Goto
  <2>14. CASE Subscribe
    BY <2>14 DEF Subscribe, Goto
  <2>15. CASE SubscribeTimeout
    BY <2>15 DEF SubscribeTimeout, Fault, Goto
  <2>16. CASE SubscribeError
    BY <2>16 DEF SubscribeError, WriteError, NetError, Fault, Goto
  <2>17. CASE Release("mqtt", "subscribeUnlock", "loop")
    BY <2>17 DEF Release, Goto
  <2>18. CASE Loop
    BY <2>18 DEF Loop, Goto
  <2>19. CASE Acquire("mqtt", "waitLock", "wait")
    BY <2>19 DEF Acquire, Goto
  <2>20. CASE WaitTimeout
    BY <2>20 DEF WaitTimeout, Late, Fault, Goto
  <2>21. CASE WaitMessage
    BY <2>21 DEF WaitMessage, Answered, Fault, Goto
  <2>22. CASE WaitError
    BY <2>22 DEF WaitError, NetError, Fault, Goto
  <2>23. CASE Ping
    BY <2>23 DEF Ping, Goto
  <2>24. CASE PingError
    BY <2>24 DEF PingError, Goto
  <2>25. CASE Release("mqtt", "unlock", "top")
    BY <2>25 DEF Release, Goto
  <2> QED BY <1>1, <1>2, <1>3, <2>1, <2>2, <2>3, <2>4, <2>5, <2>6, <2>7, <2>8, <2>9, <2>10, <2>11, <2>12, <2>13, <2>14, <2>15, <2>16, <2>17, <2>18, <2>19, <2>20, <2>21, <2>22, <2>23, <2>24, <2>25 DEF MqttThread
<1>4. CASE Publish
  BY <1>4 DEF Publish, Goto
<1>5. CASE Publisher
  <2>1. CASE Acquire("main", "publishLock", "publish")
    BY <2>1 DEF Acquire, Goto
  <2>2. CASE Published
    BY <2>2 DEF Published, Goto
  <2>3. CASE PublishError
    BY <2>3 DEF PublishError, WriteError, NetError, Fault, Goto
  <2>4. CASE Release("main", "publishUnlock", "idle")
    BY <2>4 DEF Release, Goto
  <2> QED BY <1>1, <1>2, <1>5, <2>1, <2>2, <2>3, <2>4 DEF Publisher
<1>6. CASE Break
  BY <1>6 DEF Break, Ends, Fault
<1>7. CASE Silence
  BY <1>7 DEF Silence, Ends, Fault
<1>8. CASE GiveUp
  BY <1>8 DEF GiveUp, Ends
<1>9. CASE BrokerCloses \/ PingIsLate
  BY <1>9 DEF BrokerCloses, PingIsLate, Ends
<1>10. CASE Crashed \/ UNCHANGED vars
  BY <1>10 DEF Crashed, vars
<1> QED BY <1>1, <1>2, <1>3, <1>4, <1>5, <1>6, <1>7, <1>8, <1>9, <1>10 DEF Next

\* Every step keeps to one context unless it names the accident.
LEMMA ContextsStep ==
    ASSUME TypeOK, Sites, ContextInv, [Next]_vars
    PROVE  ContextInv'
<1> USE BoundAssumption DEF Threads, NoThread, instance, network, places, At, Using, Load, Uses, TypeOK, Places, Sites, Handling, PingIsLost, ContextInv
<1>1. ASSUME NEW t \in Threads, Callback(t) PROVE ContextInv'
  <2>1. CASE Disconnect(t)
    BY <2>1 DEF Disconnect, Goto
  <2>2. CASE DisconnectNested(t)
    BY <2>2 DEF DisconnectNested, Fault, Goto
  <2>3. CASE DisconnectFreed(t)
    BY <2>3 DEF DisconnectFreed, Goto
  <2>4. CASE Dinit(t)
    BY <2>4 DEF Dinit, Goto
  <2>5. CASE InitContext(t)
    <3>1. /\ live' = live \cup {mosq'} /\ UNCHANGED <<freed, ctx, back, blame>>
          /\ pc' = [pc EXCEPT ![t] = back[t]] /\ pc[t] = "init"
      BY <2>5 DEF InitContext, Goto
    <3> QED BY <3>1
  <2>6. CASE InitFails(t)
    BY <2>6 DEF InitFails, Fault, Goto
  <2> QED BY <1>1, <2>1, <2>2, <2>3, <2>4, <2>5, <2>6 DEF Callback
<1>2. ASSUME NEW t \in Threads, UseFreed(t) PROVE ContextInv'
  BY <1>2 DEF UseFreed, Goto
<1>3. CASE MqttThread
  <2>1. CASE Top
    BY <2>1 DEF Top, Goto
  <2>2. CASE NetConnect
    BY <2>2 DEF NetConnect, Goto
  <2>3. CASE NetConnectRefused
    BY <2>3 DEF NetConnectRefused, Fault, Goto
  <2>4. CASE NetConnectFails
    BY <2>4 DEF NetConnectFails, Fault, Goto
  <2>5. CASE SendConnect
    BY <2>5 DEF SendConnect, Goto
  <2>6. CASE SendConnectError
    BY <2>6 DEF SendConnectError, WriteError, NetError, Fault, Goto
  <2>7. CASE Connack
    BY <2>7 DEF Connack, Answered, Fault, Goto
  <2>8. CASE ConnackTimeout
    BY <2>8 DEF ConnackTimeout, Late, Fault, Goto
  <2>9. CASE ConnackError
    BY <2>9 DEF ConnackError, NetError, Goto
  <2>10. CASE Succeeded
    BY <2>10 DEF Succeeded, Goto
  <2>11. CASE Failed
    BY <2>11 DEF Failed, Goto
  <2>12. CASE Event
    BY <2>12 DEF Event, Goto
  <2>13. CASE Acquire("mqtt", "subscribeLock", "subscribe")
    BY <2>13 DEF Acquire, Goto
  <2>14. CASE Subscribe
    BY <2>14 DEF Subscribe, Goto
  <2>15. CASE SubscribeTimeout
    BY <2>15 DEF SubscribeTimeout, Fault, Goto
  <2>16. CASE SubscribeError
    BY <2>16 DEF SubscribeError, WriteError, NetError, Fault, Goto
  <2>17. CASE Release("mqtt", "subscribeUnlock", "loop")
    BY <2>17 DEF Release, Goto
  <2>18. CASE Loop
    BY <2>18 DEF Loop, Goto
  <2>19. CASE Acquire("mqtt", "waitLock", "wait")
    BY <2>19 DEF Acquire, Goto
  <2>20. CASE WaitTimeout
    BY <2>20 DEF WaitTimeout, Late, Fault, Goto
  <2>21. CASE WaitMessage
    BY <2>21 DEF WaitMessage, Answered, Fault, Goto
  <2>22. CASE WaitError
    BY <2>22 DEF WaitError, NetError, Fault, Goto
  <2>23. CASE Ping
    BY <2>23 DEF Ping, Goto
  <2>24. CASE PingError
    BY <2>24 DEF PingError, Goto
  <2>25. CASE Release("mqtt", "unlock", "top")
    BY <2>25 DEF Release, Goto
  <2> QED BY <1>1, <1>2, <1>3, <2>1, <2>2, <2>3, <2>4, <2>5, <2>6, <2>7, <2>8, <2>9, <2>10, <2>11, <2>12, <2>13, <2>14, <2>15, <2>16, <2>17, <2>18, <2>19, <2>20, <2>21, <2>22, <2>23, <2>24, <2>25 DEF MqttThread
<1>4. CASE Publish
  BY <1>4 DEF Publish, Goto
<1>5. CASE Publisher
  <2>1. CASE Acquire("main", "publishLock", "publish")
    BY <2>1 DEF Acquire, Goto
  <2>2. CASE Published
    BY <2>2 DEF Published, Goto
  <2>3. CASE PublishError
    BY <2>3 DEF PublishError, WriteError, NetError, Fault, Goto
  <2>4. CASE Release("main", "publishUnlock", "idle")
    BY <2>4 DEF Release, Goto
  <2> QED BY <1>1, <1>2, <1>5, <2>1, <2>2, <2>3, <2>4 DEF Publisher
<1>6. CASE Break
  BY <1>6 DEF Break, Ends, Fault
<1>7. CASE Silence
  BY <1>7 DEF Silence, Ends, Fault
<1>8. CASE GiveUp
  BY <1>8 DEF GiveUp, Ends
<1>9. CASE BrokerCloses \/ PingIsLate
  BY <1>9 DEF BrokerCloses, PingIsLate, Ends
<1>10. CASE Crashed \/ UNCHANGED vars
  BY <1>10 DEF Crashed, vars
<1> QED BY <1>1, <1>2, <1>3, <1>4, <1>5, <1>6, <1>7, <1>8, <1>9, <1>10 DEF Next

\* IInv is inductive.
THEOREM Inductive == Spec => []IInv
<1>1. IInv /\ [Next]_vars => IInv'
  BY TypeStep, SitesStep, LockedStep, CountedStep, ConnectingStep, ContextsStep DEF IInv
<1> QED BY InitIInv, <1>1, PTL DEF Spec

\* Type correctness, timeoutCount's bound included.
THEOREM TypeCorrect == Spec => []TypeOK
<1>1. IInv => TypeOK
  BY DEF IInv
<1> QED BY <1>1, Inductive, PTL

\* LinkMqttThread never gives up in STATUS_CONNECTING (mqtt.c:116).
THEOREM NeverStuck == Spec => []NeverStuckConnecting
<1>1. IInv => NeverStuckConnecting
  BY DEF IInv, Connecting, NeverStuckConnecting, At, Handling
<1> QED BY <1>1, Inductive, PTL

\* One context at a time, however often the instance reconnects.
THEOREM ContextIsOne == Spec => []OneContext
<1>1. IInv => OneContext
  BY DEF IInv, ContextInv, OneContext, At, Threads, Sites, Handling
<1> QED BY <1>1, Inductive, PTL

\* No freed context is followed but after the accidents named.
THEOREM FaultsAreExplained == Spec => []FaultsExplained
<1>1. IInv => FaultsExplained
  BY DEF IInv, ContextInv, FaultsExplained, At
<1> QED BY <1>1, Inductive, PTL

\* listMutex keeps a publish apart from a subscribe, wait or ping.
THEOREM LibraryIsLocked == Spec => []NoOverlap
<1>1. IInv => NoOverlap
  BY DEF IInv, Locked, InGuarded, NoOverlap, At, Threads, Guarded
<1> QED BY <1>1, Inductive, PTL

====================================================================================
