---------------------------- MODULE ControlSession ----------------------------
(***************************************************************************)
(* How a command reaches the camera application: the session table of      *)
(* src/src/libmqtt/control.c, the connect event of sample/sig_ctl.c that   *)
(* gives the application a session, and the EventLoop of sample/main.c     *)
(* that reads it.                                                          *)
(*                                                                         *)
(* The table has no lock.  The MQTT thread is its only writer: on every    *)
(* connect event it tears the session down and takes a new one, and it     *)
(* routes each message to the first slot of its instance.  The main thread *)
(* reads the table in several steps: nSession, isUsed, then the pointer it *)
(* uses.  There is one MQTT instance, so pInstance is in `bound` or NULL.  *)
(*                                                                         *)
(* A thread that follows a NULL or dangling pointer goes to "fault".       *)
(***************************************************************************)
EXTENDS Integers, FiniteSets, Sequences

CONSTANTS
    MaxSession,         \* MAX_SESSION_ID
    QueueMax,           \* MESSAGE_QUEUE_MAX
    Queues,             \* the addresses malloc may give to a queue, never twice
    NoQueue,            \* NULL
    Others,             \* payloads that start neither pushLiveStart nor -Stop
    NoMessage,          \* no payload
    SubscribeOutcomes,  \* what may become of a SUBSCRIBE: see Outcomes
    EarlyConnect,       \* may the connect event beat `mMqttContex = pContext`
    MaxConnects,        \* bound on the connect events
    MaxMessages         \* bound on the messages the broker sends

Slots == 0 .. MaxSession - 1
\* Every MQTT_ERR_* code is above MAX_SESSION_ID, and every reader of a session
\* number treats all of them alike.
NoSession == MaxSession
Messages == {"pushLiveStart", "pushLiveStop"} \cup Others
\* granted; refused (a SUBACK whose return code nobody reads); no SUBACK within
\* DEFAULT_CON_TIMEOUT_MS; the connection breaks.
Outcomes == {"granted", "refused", "noAnswer", "broken"}

ASSUME BoundAssumption ==
    /\ MaxSession \in Nat \ {0}
    /\ QueueMax \in Nat \ {0}
    /\ MaxConnects \in Nat
    /\ MaxMessages \in Nat
ASSUME NameAssumption ==
    /\ NoQueue \notin Queues
    /\ NoMessage \notin Messages
    /\ SubscribeOutcomes \subseteq Outcomes
    /\ EarlyConnect \in BOOLEAN

VARIABLES
    used, bound, pQueue,    \* Session[i]: isUsed, pInstance # NULL, pQueue
    made, live, valid, items,   \* the queues: created, not freed, bIsValid, content
    nSession, mMqttContex,  \* the application's context
    connected, subscribed,  \* the connection, the broker's subscription
    mqtt, index,            \* where the MQTT thread is, LinkInitIOCtrl's index
    main, n, q, message,    \* where the main thread is, and its locals
    nStreamSts, reply,      \* app.nStreamSts, what became of the last answer
    failed, heard,          \* history: slots whose subscription failed, and the
                            \* last message of this connection
    unserved,               \* history: the connect event of this connection, or the
                            \* one before, has given the application no session
    connects, sent          \* history: the two bounded counters

table == <<used, bound, pQueue>>
queues == <<made, live, valid, items>>
context == <<nSession, mMqttContex>>
link == <<connected, subscribed>>
mqttVars == <<mqtt, index>>
mainVars == <<main, n, q, message>>
app == <<nStreamSts, reply>>
history == <<failed, heard, unserved, connects, sent>>
vars == <<table, queues, context, link, mqttVars, mainVars, app, history>>

\* The client id is the same in every run and bCleanSession is false (sig_ctl.c:82): the
\* broker may have kept the subscription of an earlier run.
Init ==
    /\ used = {}
    /\ bound = {}
    /\ pQueue = [s \in Slots |-> NoQueue]
    /\ made = {}
    /\ live = {}
    /\ valid = {}
    /\ items = [p \in Queues |-> <<>>]
    /\ nSession = 0
    /\ mMqttContex = ~EarlyConnect
    /\ connected = FALSE
    /\ subscribed \in BOOLEAN
    /\ mqtt = "loop"
    /\ index = 0
    /\ main = IF EarlyConnect THEN "starting" ELSE "loop"
    /\ n = 0
    /\ q = NoQueue
    /\ message = NoMessage
    /\ nStreamSts = "stopped"
    /\ reply = "none"
    /\ failed = {}
    /\ heard = NoMessage
    /\ unserved = FALSE
    /\ connects = 0
    /\ sent = 0

-------------------------------------------------------------------------------
\* Mutant: a full queue refuses the message.
PushOrRefuse(s, m) == IF Len(s) < QueueMax THEN Append(s, m) ELSE s

\* SendMessage, as LossyQueue!Put: a full queue loses its oldest message.
Push(s, m) == IF Len(s) < QueueMax THEN Append(s, m) ELSE Append(Tail(s), m)

\* The slots OnIOCtrlMessage matches; it takes the first.
Hearing == {s \in used : s \in bound}
First(S) == CHOOSE s \in S : \A u \in S : s <= u

\* Does the number given to control.c stand for a session in use?
InUse(s) == s \in Slots /\ s \in used

-------------------------------------------------------------------------------
\* The MQTT thread.
\* CONNACK: OnEvent(3000).  Without mMqttContex it does nothing.
Connect ==
    /\ mqtt = "loop"
    /\ ~connected
    /\ connects < MaxConnects
    /\ connects' = connects + 1
    /\ connected' = TRUE
    /\ heard' = NoMessage
    /\ unserved' = (~mMqttContex \/ nSession = NoSession)
    /\ mqtt' = IF mMqttContex THEN "dinit" ELSE "loop"
    /\ UNCHANGED <<table, queues, context, subscribed, index, mainVars, app, failed, sent>>

\* The connection breaks, under either thread.  bCleanSession is false: the
\* broker keeps the subscription.
Disconnect ==
    /\ connected
    /\ connected' = FALSE
    /\ UNCHANGED <<table, queues, context, subscribed, mqttVars, mainVars, app, history>>

\* LinkDinitIOCtrl(mMqttContex->nSession): pInstance first, then isUsed, then
\* the queue.
DinitNothing ==
    /\ mqtt = "dinit"
    /\ ~InUse(nSession)
    /\ mqtt' = "init"
    /\ UNCHANGED <<table, queues, context, link, index, mainVars, app, history>>

\* Mutant: the slot keeps its instance.
DinitKeepBound ==
    /\ mqtt = "dinit"
    /\ InUse(nSession)
    /\ mqtt' = "unbound"
    /\ UNCHANGED <<table, queues, context, link, index, mainVars, app, history>>

DinitUnbind ==
    /\ mqtt = "dinit"
    /\ InUse(nSession)
    /\ bound' = bound \ {nSession}
    /\ mqtt' = "unbound"
    /\ UNCHANGED <<used, pQueue, queues, context, link, index, mainVars, app, history>>

\* Mutant: the slot stays in use.
DinitKeepUsed ==
    /\ mqtt = "unbound"
    /\ mqtt' = "unused"
    /\ UNCHANGED <<table, queues, context, link, index, mainVars, app, history>>

DinitUnuse ==
    /\ mqtt = "unbound"
    /\ used' = used \ {nSession}
    /\ mqtt' = "unused"
    /\ UNCHANGED <<bound, pQueue, queues, context, link, index, mainVars, app, history>>

\* DestroyMessageQueue, as LossyQueue!Shut and LossyQueue!Close: the receiver
\* inside is told, and waited for.
Shut ==
    /\ mqtt = "unused"
    /\ valid' = valid \ {pQueue[nSession]}
    /\ mqtt' = "shut"
    /\ UNCHANGED <<table, made, live, items, context, link, index, mainVars, app, history>>

InsideQueue(p) == main \in {"inside", "parked"} /\ q = p

Close ==
    /\ mqtt = "shut"
    /\ ~InsideQueue(pQueue[nSession])
    /\ live' = live \ {pQueue[nSession]}
    /\ pQueue' = [pQueue EXCEPT ![nSession] = NoQueue]
    /\ mqtt' = "init"
    /\ UNCHANGED <<used, bound, made, valid, items, context, link, index, mainVars, app, history>>

\* Mutant: the highest free slot is taken.
InitLastSlot(p) ==
    /\ mqtt = "init"
    /\ used # Slots
    /\ index' = CHOOSE s \in Slots \ used : \A u \in Slots \ used : u <= s
    /\ made' = made \cup {p}
    /\ live' = live \cup {p}
    /\ valid' = valid \cup {p}
    /\ items' = [items EXCEPT ![p] = <<>>]
    /\ pQueue' = [pQueue EXCEPT ![index'] = p]
    /\ bound' = bound \cup {index'}
    /\ used' = used \cup {index'}
    /\ mqtt' = "subscribe"
    /\ UNCHANGED <<context, link, mainVars, app, history>>

\* LinkInitIOCtrl, up to its call of LinkMqttSubscribe.
InitSlot(p) ==
    /\ mqtt = "init"
    /\ used # Slots
    /\ index' = First(Slots \ used)
    /\ made' = made \cup {p}
    /\ live' = live \cup {p}
    /\ valid' = valid \cup {p}
    /\ items' = [items EXCEPT ![p] = <<>>]
    /\ pQueue' = [pQueue EXCEPT ![index'] = p]
    /\ bound' = bound \cup {index'}
    /\ used' = used \cup {index'}
    /\ mqtt' = "subscribe"
    /\ UNCHANGED <<context, link, mainVars, app, history>>

\* No slot, or no memory for its queue, which can happen any time; the pQueue of a free
\* slot is NULL before that already.
InitFails ==
    /\ mqtt = "init"
    /\ nSession' = NoSession
    /\ unserved' = TRUE
    /\ mqtt' = "loop"
    /\ UNCHANGED <<table, queues, mMqttContex, link, index, mainVars, app, failed, heard,
                   connects, sent>>

\* The return of LinkMqttSubscribe becomes that of LinkInitIOCtrl: only
\* MQTT_SUCCESS makes it the index.  The slot is taken in either case.
SubscribeSucceeds(o) ==
    /\ mqtt = "subscribe"
    /\ connected
    /\ o \in {"granted", "refused"} \cap SubscribeOutcomes
    /\ subscribed' = (subscribed \/ o = "granted")
    /\ nSession' = index
    /\ mqtt' = "loop"
    /\ UNCHANGED <<table, queues, mMqttContex, connected, index, mainVars, app, history>>

\* Mutant: the queue of a failed subscription is freed, the slot is not.
SubscribeFailsAndFrees(o) ==
    /\ mqtt = "subscribe"
    /\ o = "broken" \/ (o = "noAnswer" /\ o \in SubscribeOutcomes)
    /\ o = "broken" => o \in SubscribeOutcomes \/ ~connected
    /\ connected' = (connected /\ o # "broken")
    /\ subscribed' \in {subscribed, TRUE}
    /\ nSession' = NoSession
    /\ failed' = failed \cup {index}
    /\ live' = live \ {pQueue[index]}
    /\ mqtt' = "loop"
    /\ UNCHANGED <<table, made, valid, items, mMqttContex, index, mainVars, app, heard, unserved,
                   connects, sent>>

\* The broker may have taken the subscription although its answer is late or lost.
SubscribeFails(o) ==
    /\ mqtt = "subscribe"
    /\ o = "broken" \/ (o = "noAnswer" /\ o \in SubscribeOutcomes)
    /\ o = "broken" => o \in SubscribeOutcomes \/ ~connected
    /\ connected' = (connected /\ o # "broken")
    /\ subscribed' \in {subscribed, TRUE}
    /\ nSession' = NoSession
    /\ failed' = failed \cup {index}
    /\ mqtt' = "loop"
    /\ UNCHANGED <<table, queues, mMqttContex, index, mainVars, app, heard, unserved,
                   connects, sent>>

\* A PUBLISH arrives, in LinkMqttLoop or while LinkMqttSubscribe waits for its
\* SUBACK: OnIOCtrlMessage.
Deliver(m) ==
    /\ mqtt \in {"loop", "subscribe"}
    /\ connected
    /\ subscribed
    /\ sent < MaxMessages
    /\ sent' = sent + 1
    /\ heard' = m
    /\ IF Hearing = {} THEN UNCHANGED items
       ELSE LET p == pQueue[First(Hearing)]
            IN  items' = [items EXCEPT ![p] = Push(@, m)]
    /\ UNCHANGED <<table, made, live, valid, context, link, mqttVars, mainVars, app,
                   failed, unserved, connects>>

-------------------------------------------------------------------------------
\* The main thread.
\* The MQTT thread runs from line 94 of MqttNewContex on; line 100 is here.
SetContext ==
    /\ main = "starting"
    /\ mMqttContex' = TRUE
    /\ main' = "loop"
    /\ UNCHANGED <<table, queues, nSession, link, mqttVars, n, q, message, app, history>>

\* LinkRecvIOCtrl: the number and the flag.  If they do not do, EventLoop
\* returns at once, and is called again.
RecvCheck ==
    /\ main = "loop"
    /\ InUse(nSession)
    /\ n' = nSession
    /\ main' = "checked"
    /\ UNCHANGED <<table, queues, context, link, mqttVars, q, message, app, history>>

RecvLoad ==
    /\ main = "checked"
    /\ q' = pQueue[n]
    /\ main' = IF pQueue[n] = NoQueue THEN "loop" ELSE "entering"
    /\ UNCHANGED <<table, queues, context, link, mqttVars, n, message, app, history>>

RecvEnter ==
    /\ main = "entering"
    /\ main' = IF q \in live THEN "inside" ELSE "fault"
    /\ UNCHANGED <<table, queues, context, link, mqttVars, n, q, message, app, history>>

RecvTake ==
    /\ \/ main = "inside"
       \/ main = "parked" /\ q \in valid
    /\ items[q] # <<>>
    /\ message' = Head(items[q])
    /\ items' = [items EXCEPT ![q] = Tail(@)]
    /\ main' = "handle"
    /\ UNCHANGED <<table, made, live, valid, context, link, mqttVars, n, q, app, history>>

RecvPark ==
    /\ main = "inside"
    /\ items[q] = <<>>
    /\ main' = "parked"
    /\ UNCHANGED <<table, queues, context, link, mqttVars, n, q, message, app, history>>

\* Mutant: neither the timeout nor the invalidation ends the wait.
RecvNever ==
    /\ main = "parked" /\ main = "inside"
    /\ main' = "loop"
    /\ UNCHANGED <<table, queues, context, link, mqttVars, n, q, message, app, history>>

\* The wait of 6000 ms ends, or the queue has been shut.
RecvNothing ==
    /\ main = "parked"
    /\ main' = "loop"
    /\ UNCHANGED <<table, queues, context, link, mqttVars, n, q, message, app, history>>

\* EventLoop's switch; LinkSendIOResponse reads nSession and isUsed again.
HandleStart ==
    /\ main = "handle"
    /\ message = "pushLiveStart"
    /\ nStreamSts' = "running"
    /\ IF InUse(nSession)
       THEN n' = nSession /\ main' = "answer" /\ reply' = "none"
       ELSE n' = n /\ main' = "loop" /\ reply' = "skipped"
    /\ UNCHANGED <<table, queues, context, link, mqttVars, q, message, history>>

HandleStop ==
    /\ main = "handle"
    /\ message = "pushLiveStop"
    /\ nStreamSts' = "stopped"
    /\ main' = "loop"
    /\ UNCHANGED <<table, queues, context, link, mqttVars, n, q, message, reply, history>>

HandleOther ==
    /\ main = "handle"
    /\ message \in Others
    /\ main' = "loop"
    /\ UNCHANGED <<table, queues, context, link, mqttVars, n, q, message, app, history>>

\* LinkMqttPublish(Session[nSession].pInstance, ...)
Answer ==
    /\ main = "answer"
    /\ IF n \in bound
       THEN main' = "loop" /\ reply' = IF connected THEN "sent" ELSE "lost"
       ELSE main' = "fault" /\ UNCHANGED reply
    /\ UNCHANGED <<table, queues, context, link, mqttVars, n, q, message, nStreamSts, history>>

-------------------------------------------------------------------------------
MqttStep ==
    \/ DinitNothing \/ DinitUnbind \/ DinitUnuse \/ Shut \/ Close
    \/ \E p \in Queues \ made : InitSlot(p)
    \/ InitFails
    \/ \E o \in Outcomes : SubscribeSucceeds(o) \/ SubscribeFails(o)
MainStep ==
    \/ SetContext
    \/ RecvCheck \/ RecvLoad \/ RecvEnter \/ RecvTake \/ RecvPark \/ RecvNothing
    \/ HandleStart \/ HandleStop \/ HandleOther \/ Answer
Next ==
    \/ Connect \/ Disconnect \/ MqttStep
    \/ \E m \in Messages : Deliver(m)
    \/ MainStep

Spec == Init /\ [][Next]_vars

\* Both threads keep running inside a call.  Nothing is owed by the network.
FairSpec == Spec /\ WF_vars(MqttStep) /\ WF_vars(MainStep)

-------------------------------------------------------------------------------
\* What a queue of QueueMax slots can hold.
Contents == {s \in Seq(Messages) : Len(s) <= QueueMax}

\* The type of every variable; no queue holds more than its capacity.
TypeOK ==
    /\ used \subseteq Slots /\ bound \subseteq Slots
    /\ pQueue \in [Slots -> Queues \cup {NoQueue}]
    /\ made \subseteq Queues /\ live \subseteq made /\ valid \subseteq made
    /\ items \in [Queues -> Contents]
    /\ nSession \in Slots \cup {NoSession} /\ mMqttContex \in BOOLEAN
    /\ connected \in BOOLEAN /\ subscribed \in BOOLEAN
    /\ mqtt \in {"loop", "dinit", "unbound", "unused", "shut", "init", "subscribe"}
    /\ index \in Slots
    /\ main \in {"starting", "loop", "checked", "entering", "inside", "parked",
                 "handle", "answer", "fault"}
    /\ n \in Slots /\ q \in Queues \cup {NoQueue}
    /\ message \in Messages \cup {NoMessage}
    /\ nStreamSts \in {"running", "stopped"}
    /\ reply \in {"none", "sent", "lost", "skipped"}
    /\ failed \subseteq Slots /\ heard \in Messages \cup {NoMessage} /\ unserved \in BOOLEAN
    /\ connects \in 0 .. MaxConnects /\ sent \in 0 .. MaxMessages

\* OnIOCtrlMessage never hands a message to a queue that is freed or being
\* destroyed, although it holds no lock against LinkDinitIOCtrl.
RoutesToLiveQueue ==
    \A s \in bound : pQueue[s] \in live \cap valid

\* Between two events a slot is in use because it is the application's session
\* or because its subscription once failed: a session that is torn down gives
\* its slot back, one whose subscription fails never does.
SlotsAccounted ==
    mqtt = "loop" => used = failed \cup ({nSession} \cap used) /\ nSession \notin failed

\* LinkInitIOCtrl takes the lowest free slot and OnIOCtrlMessage the lowest slot
\* of the instance, so the application hears its messages if and only if no
\* subscription has ever failed: one failure deafens every later session.
HeardUnlessOneFailed ==
    mqtt = "loop" /\ InUse(nSession) =>
        (Hearing # {} /\ First(Hearing) = nSession <=> failed = {})

\* The main thread can only meet a freed queue or a NULL instance when a second
\* connect event tears its session down: the first one cannot harm it.
FaultsNeedReconnect == main = "fault" => connects > 1

\* The MQTT thread gets through the teardown of a session and the set-up of the
\* next one even with the main thread parked in the queue.
ConnectHandled == (mqtt = "dinit") ~> (mqtt = "loop")

Obeyed == main = "fault" \/ (nStreamSts = "running" /\ reply = "sent")

\* "收到信令pushLiveStart开始推流，此时需要发送信令pushSucceed给客户端" (src/README.md:28):
\* a pushLiveStart that reaches the device, with the connection up from then on
\* and no later command, is acted on and answered.  The code keeps this unless a
\* subscription has failed, in this connection or an earlier one, or the connect event
\* came before mMqttContex was set or found no memory: then it does not, since the broker
\* delivers to a subscription it has kept.  After a connection without a session the next
\* one is excused as well: a main thread that has been in LinkRecvIOCtrl since the session
\* before takes a message of the new session while nSession is not yet assigned, and
\* LinkSendIOResponse does not know the old number (control.c:101).
ObeyedUnlessOneFailed ==
    <>[](connected /\ heard = "pushLiveStart" /\ failed = {} /\ ~unserved) => <>[]Obeyed
===============================================================================
