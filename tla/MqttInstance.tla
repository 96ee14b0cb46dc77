------------------------------ MODULE MqttInstance ------------------------------
(***************************************************************************)
(* One MQTT instance: LinkMqttThread of src/src/libmqtt/mqtt.c over        *)
(* wolfmqtt/wolfmqtt.c and mqttnet.c, and a thread that publishes through  *)
(* LinkMqttPublish meanwhile (EventLoop's answer, through control.c).      *)
(*                                                                         *)
(* The instance keeps its client in a context, mosq.  Whoever meets a      *)
(* network error runs OnDisconnectCallback in place, deep inside the call  *)
(* that failed: it disconnects, frees the context and allocates another.   *)
(* listMutex guards the calls of the client library except MqttClient_     *)
(* Connect, and it does not guard mosq.  A new context is one that no      *)
(* thread has a copy of; a thread that uses a freed one goes to "fault".   *)
(*                                                                         *)
(* wolfMQTT is external and is modelled by what its calls return: a write  *)
(* that fails returns 0, since the failed send() has taken SO_ERROR with   *)
(* it (mqttnet.c:416), unless WriteErrors allows an error to arrive in     *)
(* between; a read that fails returns a network error.  Neither the        *)
(* library's callers nor LinkMqttConnect tell 0 from success.  Nobody      *)
(* calls LinkMqttDestroy, so isDestroying is false throughout.             *)
(***************************************************************************)
EXTENDS Integers

CONSTANTS
    Contexts,       \* what malloc gives for a context
    PingAt,         \* the timeoutCount that is due a PINGREQ: 11
    WriteErrors,    \* may a failed write find SO_ERROR set again
    MaxFaults,      \* bound on what the network, the broker and timers do wrong
    MaxPublishes    \* bound on the publishes of the other thread

ASSUME BoundAssumption ==
    /\ Contexts # {}
    /\ PingAt \in Nat \ {0}
    /\ WriteErrors \in BOOLEAN
    /\ MaxFaults \in Nat
    /\ MaxPublishes \in Nat

Threads == {"mqtt", "main"}
NoThread == "none"

VARIABLES
    mosq,           \* pInstance->mosq
    live,           \* the contexts that are allocated
    freed,          \* history: has any been freed
    connected, status,  \* of the instance
    listMutex,      \* who holds it
    sock,           \* the socket of mosq: "fresh" (never connected), "up",
                    \* "silent" (nothing passes), "down" (reads fail)
    stat,           \* connect.stat of mosq: "BEGIN" or "WAIT"
    answer,         \* of the broker to the CONNECT on sock: "none", "due",
                    \* "accepted", "refused"
    timeoutCount,   \* of mosq
    pc, ctx,        \* where each thread is, and its local copy of mosq
    back,           \* where a thread goes on after OnDisconnectCallback
    faults, publishes,  \* history: the two bounded counters
    blame           \* history: what has happened that may end in a fault

instance == <<mosq, live, freed, connected, status>>
network == <<sock, stat, answer>>
places == <<pc, ctx, back>>
vars == <<instance, listMutex, network, timeoutCount, places, faults, publishes, blame>>

\* Which of the contexts nobody has comes first or next makes no difference.
Fresh(inUse) == CHOOSE c \in Contexts : c \notin inUse

\* LinkMqttInstanceInit, then LinkMqttInit by the new thread.
Init ==
    /\ mosq = Fresh({})
    /\ live = {mosq}
    /\ freed = FALSE
    /\ connected = FALSE
    /\ status = "IDLE"
    /\ listMutex = NoThread
    /\ sock = "fresh"
    /\ stat = "BEGIN"
    /\ answer = "none"
    /\ timeoutCount = 0
    /\ pc = [t \in Threads |-> IF t = "mqtt" THEN "top" ELSE "idle"]
    /\ ctx = [t \in Threads |-> mosq]
    /\ back = [t \in Threads |-> "top"]
    /\ faults = 0
    /\ publishes = 0
    /\ blame = {}

-------------------------------------------------------------------------------
At(t, place) == pc[t] = place
Goto(t, place) == pc' = [pc EXCEPT ![t] = place]
Load(t) == ctx' = [ctx EXCEPT ![t] = mosq]
Fault == faults < MaxFaults /\ faults' = faults + 1

\* t goes from place, where it uses its context, which is still allocated.
Using(t, place) == At(t, place) /\ ctx[t] \in live

\* The places where a thread follows its copy of mosq.
Uses == {"netConnect", "connect", "connack", "subscribe", "wait", "ping", "pingLost",
         "publish"}

\* Following a freed context.
UseFreed(t) ==
    /\ pc[t] \in Uses
    /\ ctx[t] \notin live
    /\ Goto(t, "fault")
    /\ UNCHANGED <<instance, listMutex, network, timeoutCount, ctx, back, faults,
                   publishes, blame>>

\* MqttPacket_HandleNetError: the error is handled where it is met.
NetError(t, resume) ==
    /\ Goto(t, "disconnect")
    /\ back' = [back EXCEPT ![t] = resume]
    /\ UNCHANGED <<instance, listMutex, network, timeoutCount, ctx, publishes, blame>>

\* A write to a dead connection that does report its error.
WriteError(t, resume) ==
    /\ WriteErrors /\ sock = "down"
    /\ Fault
    /\ NetError(t, resume)

Acquire(t, place, inside) ==
    /\ At(t, place)
    /\ listMutex = NoThread
    /\ listMutex' = t
    /\ Goto(t, inside)
    /\ UNCHANGED <<instance, network, timeoutCount, ctx, back, faults, publishes, blame>>

-------------------------------------------------------------------------------
\* OnDisconnectCallback, by the thread that met the error.
\* LinkMqttDisconnect and the assignments to connected and status.  The socket
\* is closed: nothing more comes from it.
Disconnect(t) ==
    /\ At(t, "disconnect")
    /\ mosq \in live
    /\ connected' = FALSE
    /\ status' = "CONNECT_ERROR"
    /\ sock' = "fresh" /\ answer' = "none"
    /\ Goto(t, "dinit")
    /\ blame' = IF t = "main" THEN blame \cup {"main"} ELSE blame
    /\ UNCHANGED <<mosq, live, freed, listMutex, stat, timeoutCount, ctx, back, faults,
                   publishes>>

\* The DISCONNECT meets an error of its own: the nested callback frees the
\* context under MqttClient_NetDisconnect.
DisconnectNested(t) ==
    /\ At(t, "disconnect")
    /\ WriteErrors /\ sock = "down"
    /\ Fault
    /\ Goto(t, "fault")
    /\ blame' = blame \cup {"nested"}
    /\ UNCHANGED <<instance, listMutex, network, timeoutCount, ctx, back, publishes>>

\* mosq has been freed by the other thread's callback.
DisconnectFreed(t) ==
    /\ pc[t] \in {"disconnect", "dinit"}
    /\ mosq \notin live
    /\ Goto(t, "fault")
    /\ UNCHANGED <<instance, listMutex, network, timeoutCount, ctx, back, faults,
                   publishes, blame>>

\* Mutant: the context is not freed.
DinitNothing(t) ==
    /\ At(t, "dinit")
    /\ mosq \in live
    /\ Goto(t, "init")
    /\ UNCHANGED <<instance, listMutex, network, timeoutCount, ctx, back, faults,
                   publishes, blame>>

\* LinkMqttDinit; mosq keeps the pointer.
Dinit(t) ==
    /\ At(t, "dinit")
    /\ mosq \in live
    /\ live' = live \ {mosq}
    /\ freed' = TRUE
    /\ Goto(t, "init")
    /\ UNCHANGED <<mosq, connected, status, listMutex, network, timeoutCount,
                   ctx, back, faults, publishes, blame>>

\* The contexts that are allocated, and those that a thread has a copy of.
InUse == live \cup {ctx[t] : t \in Threads}

\* LinkMqttInit: a zeroed context.
InitContext(t) ==
    /\ At(t, "init")
    /\ Contexts \ InUse # {}
    /\ mosq' = Fresh(InUse)
    /\ live' = live \cup {mosq'}
    /\ sock' = "fresh" /\ stat' = "BEGIN" /\ answer' = "none"
    /\ timeoutCount' = 0
    /\ Goto(t, back[t])
    /\ UNCHANGED <<freed, connected, status, listMutex, ctx, back, faults, publishes, blame>>

\* malloc fails, and OnDisconnectCallback does not look: mosq stays freed.
InitFails(t) ==
    /\ At(t, "init")
    /\ Fault
    /\ Goto(t, back[t])
    /\ blame' = blame \cup {"malloc"}
    /\ UNCHANGED <<instance, listMutex, network, timeoutCount, ctx, back, publishes>>

Callback(t) ==
    \/ Disconnect(t) \/ DisconnectNested(t) \/ DisconnectFreed(t)
    \/ Dinit(t) \/ InitContext(t) \/ InitFails(t)

-------------------------------------------------------------------------------
\* LinkMqttThread.
\* The head of its loop, and LinkMqttConnect up to the connection.
Top ==
    /\ At("mqtt", "top")
    /\ IF ~connected /\ status # "CONNECTING"
       THEN status' = "CONNECTING" /\ Load("mqtt") /\ Goto("mqtt", "netConnect")
       ELSE Goto("mqtt", "loop") /\ UNCHANGED <<status, ctx>>
    /\ UNCHANGED <<mosq, live, freed, connected, listMutex, network, timeoutCount, back,
                   faults, publishes, blame>>

\* MqttClient_NetConnect; it has nothing to do when the flag says connected.
NetConnect ==
    /\ Using("mqtt", "netConnect")
    /\ sock' = IF sock = "fresh" THEN "up" ELSE sock
    /\ Goto("mqtt", "connect")
    /\ UNCHANGED <<instance, listMutex, stat, answer, timeoutCount, ctx,
                   back, faults, publishes, blame>>

\* The connection is refused, but connect() has taken SO_ERROR with it: NetConnect
\* finds none and returns 0.
NetConnectRefused ==
    /\ Using("mqtt", "netConnect")
    /\ sock = "fresh"
    /\ Fault
    /\ sock' = "down"
    /\ Goto("mqtt", "connect")
    /\ UNCHANGED <<instance, listMutex, stat, answer, timeoutCount, ctx,
                   back, publishes, blame>>

\* No address, no socket, an error that is still there.
NetConnectFails ==
    /\ Using("mqtt", "netConnect")
    /\ sock = "fresh"
    /\ Fault
    /\ Goto("mqtt", "failed")
    /\ UNCHANGED <<instance, listMutex, network, timeoutCount, ctx, back, publishes, blame>>

\* MqttClient_Connect: the CONNECT, unless this context has sent it before.  On a
\* dead connection the write may still be taken; else it returns 0 and so does the
\* call.
SendConnect ==
    /\ Using("mqtt", "connect")
    /\ \/ /\ stat = "WAIT"
          /\ Goto("mqtt", "connack")
          /\ UNCHANGED <<stat, answer>>
       \/ /\ stat = "BEGIN" /\ sock # "fresh"
          /\ stat' = "WAIT" /\ answer' = "due"
          /\ Goto("mqtt", "connack")
       \/ /\ stat = "BEGIN" /\ sock \in {"fresh", "down"}
          /\ Goto("mqtt", "succeeded")
          /\ UNCHANGED <<stat, answer>>
    /\ UNCHANGED <<instance, listMutex, sock, timeoutCount, ctx, back,
                   faults, publishes, blame>>

SendConnectError ==
    /\ Using("mqtt", "connect")
    /\ stat = "BEGIN"
    /\ WriteError("mqtt", "failed")

\* The broker's answer.  LinkMqttConnect does not look at its return code.
Answered ==
    /\ answer = "due" /\ sock = "up"
    /\ \/ answer' = "accepted" /\ UNCHANGED faults
       \/ answer' = "refused" /\ Fault
    /\ UNCHANGED <<instance, listMutex, sock, stat, timeoutCount, ctx, back,
                   publishes, blame>>

Connack ==
    /\ Using("mqtt", "connack")
    /\ Answered
    /\ Goto("mqtt", "succeeded")

\* Nothing arrives in time: a fault, if the broker has something to say.
Late ==
    /\ sock # "down"
    /\ IF sock = "up" /\ answer = "due" THEN Fault ELSE UNCHANGED faults

\* No CONNACK within DEFAULT_CON_TIMEOUT_MS: too late, or no longer to come.
ConnackTimeout ==
    /\ Using("mqtt", "connack")
    /\ Late
    /\ Goto("mqtt", "failed")
    /\ UNCHANGED <<instance, listMutex, network, timeoutCount, ctx, back, publishes, blame>>

ConnackError ==
    /\ Using("mqtt", "connack")
    /\ sock \in {"fresh", "down"}
    /\ NetError("mqtt", "failed")
    /\ UNCHANGED faults

\* LinkMqttConnect has rc 0; it calls OnEvent(3000).
Succeeded ==
    /\ At("mqtt", "succeeded")
    /\ connected' = TRUE
    /\ status' = "CONNACK_RECVD"
    /\ Goto("mqtt", "event")
    /\ UNCHANGED <<mosq, live, freed, listMutex, network, timeoutCount, ctx, back, faults,
                   publishes, blame>>

\* Mutant: the status is left alone.
FailedSilently ==
    /\ At("mqtt", "failed")
    /\ Goto("mqtt", "loop")
    /\ UNCHANGED <<instance, listMutex, network, timeoutCount, ctx, back, faults,
                   publishes, blame>>

\* LinkMqttConnect has failed.
Failed ==
    /\ At("mqtt", "failed")
    /\ status' = "CONNECT_ERROR"
    /\ Goto("mqtt", "loop")
    /\ UNCHANGED <<mosq, live, freed, connected, listMutex, network, timeoutCount, ctx,
                   back, faults, publishes, blame>>

\* LinkMqttSubscribe, called by OnEvent: it takes and clears the context before
\* it takes the lock.
Event ==
    /\ At("mqtt", "event")
    /\ Load("mqtt")
    /\ Goto("mqtt", IF mosq \in live THEN "subscribeLock" ELSE "fault")
    /\ UNCHANGED <<instance, listMutex, network, timeoutCount, back, faults, publishes,
                   blame>>

\* MqttClient_Subscribe: SUBACK, or a write that returns 0.
Subscribe ==
    /\ Using("mqtt", "subscribe")
    /\ \/ sock = "up" /\ answer = "accepted"
       \/ sock \in {"fresh", "down"}
    /\ Goto("mqtt", "subscribeUnlock")
    /\ UNCHANGED <<instance, listMutex, network, timeoutCount, ctx, back, faults,
                   publishes, blame>>

\* No SUBACK.  Nobody asks again.
SubscribeTimeout ==
    /\ Using("mqtt", "subscribe")
    /\ sock \in {"up", "silent"}
    /\ IF sock = "up" /\ answer = "accepted" THEN Fault ELSE UNCHANGED faults
    /\ Goto("mqtt", "subscribeUnlock")
    /\ UNCHANGED <<instance, listMutex, network, timeoutCount, ctx, back, publishes, blame>>

SubscribeError ==
    /\ Using("mqtt", "subscribe")
    /\ \/ sock = "down" /\ NetError("mqtt", "subscribeUnlock") /\ UNCHANGED faults
       \/ WriteError("mqtt", "subscribeUnlock")

-------------------------------------------------------------------------------
\* LinkMqttLoop.
\* It copies the client out of the context before it takes the lock.
Loop ==
    /\ At("mqtt", "loop")
    /\ Load("mqtt")
    /\ Goto("mqtt", IF mosq \in live THEN "waitLock" ELSE "fault")
    /\ UNCHANGED <<instance, listMutex, network, timeoutCount, back, faults, publishes,
                   blame>>

\* MqttClient_WaitMessage, nothing to read.
WaitTimeout ==
    /\ Using("mqtt", "wait")
    /\ Late
    /\ timeoutCount' = timeoutCount + 1
    /\ Goto("mqtt", IF timeoutCount' >= PingAt THEN "ping" ELSE "unlock")
    /\ UNCHANGED <<instance, listMutex, network, ctx, back, publishes, blame>>

\* A CONNACK that comes after LinkMqttConnect has given up is read here and dropped.
WaitMessage ==
    /\ Using("mqtt", "wait")
    /\ Answered
    /\ Goto("mqtt", "unlock")

\* Mutant: no disconnect callback is set.
WaitErrorIgnored ==
    /\ Using("mqtt", "wait")
    /\ sock = "down"
    /\ Goto("mqtt", "unlock")
    /\ UNCHANGED <<instance, listMutex, network, timeoutCount, ctx, back, faults,
                   publishes, blame>>

\* Mutant: timeoutCount is written whatever MqttClient_WaitMessage has returned.
WaitErrorCounted ==
    /\ Using("mqtt", "wait")
    /\ \/ sock = "down" /\ UNCHANGED faults
       \/ sock = "fresh" /\ Fault
    /\ NetError("mqtt", "pingLost")

\* The connection is lost.  A context that never connected has descriptor 0: the
\* end of the standard input is taken for it.
WaitError ==
    /\ Using("mqtt", "wait")
    /\ \/ sock = "down" /\ UNCHANGED faults
       \/ sock = "fresh" /\ Fault
    /\ NetError("mqtt", "unlock")

\* MqttClient_Ping: PINGRESP, none in time, or a write that returns 0 -- all the same
\* to LinkMqttLoop.
Ping ==
    /\ Using("mqtt", "ping")
    /\ IF sock = "up" /\ answer = "accepted" THEN faults' \in {faults, faults + 1}
       ELSE UNCHANGED faults
    /\ faults' <= MaxFaults
    /\ timeoutCount' = 0
    /\ Goto("mqtt", "unlock")
    /\ UNCHANGED <<instance, listMutex, network, ctx, back, publishes, blame>>

\* MqttClient_Ping meets the end of the connection.
PingError ==
    /\ Using("mqtt", "ping")
    /\ sock = "down"
    /\ Goto("mqtt", "disconnect")
    /\ back' = [back EXCEPT !["mqtt"] = "pingLost"]
    /\ blame' = blame \cup {"ping"}
    /\ UNCHANGED <<instance, listMutex, network, timeoutCount, ctx, faults, publishes>>

Release(t, place, next) ==
    /\ At(t, place)
    /\ listMutex' = NoThread
    /\ Goto(t, next)
    /\ UNCHANGED <<instance, network, timeoutCount, ctx, back, faults, publishes, blame>>

MqttThread ==
    \/ Top \/ NetConnect \/ NetConnectRefused \/ NetConnectFails
    \/ SendConnect \/ SendConnectError \/ Connack \/ ConnackTimeout \/ ConnackError
    \/ Succeeded \/ Failed \/ Event
    \/ Acquire("mqtt", "subscribeLock", "subscribe")
    \/ Subscribe \/ SubscribeTimeout \/ SubscribeError
    \/ Release("mqtt", "subscribeUnlock", "loop")
    \/ Loop
    \/ Acquire("mqtt", "waitLock", "wait")
    \/ WaitTimeout \/ WaitMessage \/ WaitError
    \/ Ping \/ PingError
    \/ Release("mqtt", "unlock", "top")
    \/ Callback("mqtt") \/ UseFreed("mqtt")

-------------------------------------------------------------------------------
\* LinkMqttPublish, by the other thread; nQos is 0, so that it only writes.
\* The context is taken before the lock.
Publish ==
    /\ At("main", "idle")
    /\ publishes < MaxPublishes
    /\ publishes' = publishes + 1
    /\ Load("main")
    /\ Goto("main", "publishLock")
    /\ UNCHANGED <<instance, listMutex, network, timeoutCount, back, faults, blame>>

\* Sent, or lost in a write that returns 0.
Published ==
    /\ Using("main", "publish")
    /\ Goto("main", "publishUnlock")
    /\ UNCHANGED <<instance, listMutex, network, timeoutCount, ctx, back, faults,
                   publishes, blame>>

PublishError ==
    /\ Using("main", "publish")
    /\ WriteError("main", "publishUnlock")

Publisher ==
    \/ Acquire("main", "publishLock", "publish")
    \/ Published \/ PublishError
    \/ Release("main", "publishUnlock", "idle")
    \/ Callback("main") \/ UseFreed("main")

-------------------------------------------------------------------------------
\* The network and the broker.
Ends(state) ==
    /\ sock' = state
    /\ UNCHANGED <<instance, listMutex, stat, answer, timeoutCount, places, publishes,
                   blame>>

Break == sock = "up" /\ Fault /\ Ends("down")
Silence == sock = "up" /\ Fault /\ Ends("silent")

\* Something is always unacknowledged in the end, and the kernel gives up.
GiveUp == sock = "silent" /\ Ends("down") /\ UNCHANGED faults

\* The broker closes on a client it has refused, and on one that goes on waiting for a
\* CONNACK it has dropped: its PINGREQ comes after 11 passes of 2.1 s, when 1.5 times
\* the keepalive of 10 s are over.
BrokerCloses ==
    /\ sock = "up"
    /\ \/ answer = "refused"
       \/ answer = "accepted" /\ ~connected /\ ~At("mqtt", "succeeded")
    /\ Ends("down")
    /\ UNCHANGED faults

\* A client that is connected may be silent for those 15 s as well.  11 idle passes take
\* 16 s, half a second of waiting and sleep(1) each, and messages coming in put the
\* ping off further.  Time is not in the model: the broker may close on it in any pass.
PingIsLate ==
    /\ sock = "up" /\ answer = "accepted" /\ connected
    /\ pc["mqtt"] \in {"waitLock", "wait", "ping", "unlock"}
    /\ Ends("down")
    /\ UNCHANGED faults

\* A fault has ended the program, as far as this module goes.
Crashed ==
    /\ \E t \in Threads : At(t, "fault")
    /\ UNCHANGED vars

Next ==
    \/ MqttThread
    \/ Publish \/ Publisher
    \/ Break \/ Silence \/ GiveUp \/ BrokerCloses \/ PingIsLate
    \/ Crashed

Spec == Init /\ [][Next]_vars

\* The threads run; TCP and the broker close what is dead to them.  Nothing obliges the
\* broker to close on a late ping, or to put up with it.
FairSpec ==
    /\ Spec
    /\ WF_vars(MqttThread)
    /\ WF_vars(Publisher)
    /\ WF_vars(GiveUp)
    /\ WF_vars(BrokerCloses)

-------------------------------------------------------------------------------
\* Types.
Places == Uses \cup
    {"top", "succeeded", "failed", "event", "subscribeLock", "subscribeUnlock", "loop",
     "waitLock", "unlock", "idle", "publishLock", "publishUnlock", "disconnect", "dinit",
     "init", "fault"}

TypeOK ==
    /\ mosq \in Contexts /\ live \subseteq Contexts /\ freed \in BOOLEAN
    /\ connected \in BOOLEAN
    /\ status \in {"IDLE", "CONNECTING", "CONNACK_RECVD", "CONNECT_ERROR"}
    /\ listMutex \in Threads \cup {NoThread}
    /\ sock \in {"fresh", "up", "silent", "down"}
    /\ stat \in {"BEGIN", "WAIT"}
    /\ answer \in {"none", "due", "accepted", "refused"}
    /\ timeoutCount \in 0 .. PingAt
    /\ pc \in [Threads -> Places]
    /\ ctx \in [Threads -> Contexts]
    /\ back \in [Threads -> Places]
    /\ faults \in 0 .. MaxFaults /\ publishes \in 0 .. MaxPublishes
    /\ blame \subseteq {"main", "nested", "malloc", "ping"}

\* LinkMqttThread never comes round to its loop in STATUS_CONNECTING without a
\* connection (mqtt.c:116): from there it would never try again.
NeverStuckConnecting ==
    At("mqtt", "top") => connected \/ status # "CONNECTING"

\* However often the instance reconnects there is one context, mosq, except while
\* OnDisconnectCallback is between LinkMqttDinit and LinkMqttInit
\* (wolfmqtt.c:187); so long as none of the known accidents has happened.
OneContext ==
    blame = {} =>
        live = IF \E t \in Threads : At(t, "init") THEN {} ELSE {mosq}

\* The thread of the instance follows a freed context only after one of four
\* accidents: an error met by the publishing thread, one inside LinkMqttDisconnect,
\* malloc, or an error met by the ping (wolfmqtt.c:416).  The publishing thread
\* does so besides once the first context has been freed (wolfmqtt.c:72).
FaultsExplained ==
    /\ At("mqtt", "fault") => blame # {}
    /\ At("main", "fault") => freed \/ blame # {}

\* Two threads are never inside the client library on one context, but for
\* LinkMqttConnect, which takes no lock.
NoOverlap ==
    ~(/\ At("main", "publish")
      /\ pc["mqtt"] \in {"subscribe", "wait", "ping"})

\* When OnEvent reports a connection the broker has accepted it (wolfmqtt.c:353,
\* "Send Connect and wait for Connect Ack").  The code does not ensure this.
ConnackMeansAccepted ==
    At("mqtt", "event") => answer = "accepted"

NoAccident == [](blame = {} /\ \A t \in Threads : ~At(t, "fault"))

\* A connection that is gone is noticed, with or without a publisher that still
\* writes to it, and whatever LinkMqttLoop makes of the PINGRESP.
LossNoticed ==
    NoAccident => ((connected /\ sock \in {"down", "silent"}) ~> ~connected)

\* Whatever the network, the broker and the timers have done, the instance comes to be
\* connected again and accepted by the broker; and it stays so, unless the broker keeps
\* closing on pings that are late.
Reconnects ==
    NoAccident =>
        /\ []<>(connected /\ sock = "up" /\ answer = "accepted")
        /\ \/ <>[](connected /\ sock = "up" /\ answer = "accepted")
           \/ []<><<PingIsLate>>_vars

================================================================================
