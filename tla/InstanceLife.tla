------------------------------ MODULE InstanceLife ------------------------------
(***************************************************************************)
(* The life of MQTT instances, from MqttNewContex to MqttDestroyContex of  *)
(* src/src/sample/sig_ctl.c, over LinkMqttCreateInstance, LinkMqttDestroy  *)
(* and LinkMqttThread of src/src/libmqtt/mqtt.c.                           *)
(*                                                                         *)
(* A user thread makes the calls; every instance has a detached thread of  *)
(* its own, which nobody joins: it ends some time after isDestroying is    *)
(* set, and frees the instance.  MqttDestroyContex frees the context at    *)
(* once, and mMqttContex, through which every instance's callbacks find    *)
(* their context, is never reset.                                          *)
(*                                                                         *)
(* The instance's client, mosq, is copied by every call before it takes    *)
(* listMutex, and freed and made anew by OnDisconnectCallback, on the      *)
(* thread that has met the error.  What the network does to a connection   *)
(* is the subject of MqttInstance; here a connection is made, refused or   *)
(* lost.  Sessions are left to ControlSession.  LinkMqttLibInit ignores    *)
(* SIGPIPE, so that a write never ends the program.                        *)
(***************************************************************************)
EXTENDS Integers, Sequences

CONSTANTS
    MaxInstances,   \* bound on the instances ever created
    Together,       \* may the user have several contexts at a time
    Topics, Live,   \* the topics that occur; "pushLive", that of the sessions
    MaxEvents       \* bound on the contexts made, the user's sends, subscriptions and
                    \* unsubscriptions, and what the network and malloc do wrong, together

ASSUME BoundAssumption ==
    /\ MaxInstances \in Nat /\ MaxEvents \in Nat
    /\ Live \in Topics /\ Together \in BOOLEAN

Instances == 1 .. MaxInstances
None == 0

\* The threads: that of instance i is i.
User == 0
Actors == Instances \cup {User}
Free == -1

\* What MqttErrorStatusChange makes of a result: MQTT_SUCCESS, or a code from
\* MQTT_ERR_NOMEM on, which are all alike to OnEventCallback and sig_ctl.c.
Codes == {"success", "error"}

VARIABLES
    context, mMqttContex,   \* of each MqttContex: "none", "live", "freed"; the last
    instance,               \* "none", "live", "freed"
    isDestroying, connected, lastStatus, mosq, pSubsribeList, listMutex, \* of each
    pc, copy, back,         \* where each thread is, its copy of mosq, and where it goes
                            \* on after OnDisconnectCallback
    op, on, topic,          \* the user's call, the instance and the topic it is for
    crashed,                \* freed memory or a NULL pointer has been followed
    told,                   \* history: what OnEvent was last told of each instance
    overlapped,             \* history: has an error been met while it was told of a success
    accidents,              \* history: what has happened that may end in a crash
    events                  \* history: how many of the bounded events there have been

contexts == <<context, mMqttContex>>
ends == <<instance, isDestroying>>
link == <<connected, lastStatus>>
list == <<pSubsribeList, listMutex>>
mqtt == <<ends, link, mosq, list>>
call == <<op, on, topic>>
places == <<pc, copy, back>>
history == <<told, overlapped, events>>
vars == <<contexts, mqtt, places, call, crashed, history, accidents>>

Init ==
    /\ context = [i \in Instances |-> "none"] /\ mMqttContex = None
    /\ instance = [i \in Instances |-> "none"]
    /\ isDestroying = [i \in Instances |-> FALSE]
    /\ connected = [i \in Instances |-> FALSE]
    /\ lastStatus = [i \in Instances |-> "success"]
    /\ mosq = [i \in Instances |-> "null"]
    /\ pSubsribeList = [i \in Instances |-> <<>>]
    /\ listMutex = [i \in Instances |-> Free]
    /\ pc = [a \in Actors |-> IF a = User THEN "idle" ELSE "none"]
    /\ copy = [a \in Actors |-> "null"]
    /\ back = [a \in Actors |-> "none"]
    /\ op = "none" /\ on = None /\ topic = Live
    /\ crashed = FALSE
    /\ told = [i \in Instances |-> "nothing"]
    /\ overlapped = [i \in Instances |-> FALSE]
    /\ accidents = {} /\ events = 0

-------------------------------------------------------------------------------
\* The instance that thread a is busy with.
Of(a) == IF a = User THEN on ELSE a

\* Inside OnDisconnectCallback, and wherever else a thread keeps its copy of mosq.
Handling == {"report", "reported", "disconnect", "dinit", "init"}
Uses == {"connect", "subscribe", "wait", "pingLost", "call"}
Holds == Handling \cup Uses \cup {"subscribeLock", "waitLock", "lock"}

\* A thread that is busy with i is in one of these places.
Somebody(i, where) == pc[i] \in where \/ (on = i /\ pc[User] \in where)

Goto(a, from, to) ==
    /\ pc[a] = from
    /\ pc' = [pc EXCEPT ![a] = to]
    /\ copy' = IF to \in Holds THEN copy ELSE [copy EXCEPT ![a] = "null"]

Load(a, i, from, to) ==
    /\ pc[a] = from
    /\ pc' = [pc EXCEPT ![a] = to]
    /\ copy' = [copy EXCEPT ![a] = mosq[i]]

Unlock(i) == listMutex' = [listMutex EXCEPT ![i] = Free]
Event == events < MaxEvents /\ events' = events + 1

Crash(accident) ==
    /\ crashed' = TRUE
    /\ accidents' = accidents \cup accident
    /\ UNCHANGED <<contexts, mqtt, places, call, history>>

\* Another thread has freed the client of i and not made its next one.
Crossing(a, i) ==
    IF \E x \in Actors \ {a} : Of(x) = i /\ pc[x] = "init" THEN {"crossed"} ELSE {}

\* A thread follows a copy of mosq that has been freed.
UseFreed(a) == pc[a] \in Uses /\ copy[a] = "freed" /\ Crash({})

-------------------------------------------------------------------------------
\* Mutant: an error is reported only after an error.
TellLate(i, rc) ==
    told' = IF lastStatus[i] = "error" THEN [told EXCEPT ![i] = rc] ELSE told

\* OnEventCallback, up to the assignment of lastStatus, which comes after OnEvent has
\* returned.  An error after an error is not told.
Tell(i, rc) ==
    told' = IF lastStatus[i] = "success" \/ rc = "success"
            THEN [told EXCEPT ![i] = rc] ELSE told

\* LinkMqttThread is between connected = true and the end of OnEventCallback.
Reporting(i) ==
    \/ pc[i] \in {"sleep", "onEvent", "subscribeLock", "subscribe", "subscribeUnlock",
                  "nSession", "set"}
    \/ pc[i] \in Handling /\ back[i] = "subscribeUnlock"

\* OnDisconnectCallback, by thread a, wherever it met the error.
NetError(a, from, resume) ==
    /\ Goto(a, from, "report") /\ copy[a] = "live"
    /\ back' = [back EXCEPT ![a] = resume]
    /\ Event
    /\ overlapped' = [overlapped EXCEPT ![Of(a)] = @ \/ Reporting(Of(a))]
    /\ UNCHANGED <<contexts, mqtt, call, crashed, told>>

Report(a) ==
    /\ Goto(a, "report", "reported")
    /\ Tell(Of(a), "error")
    /\ UNCHANGED <<contexts, mqtt, back, call, crashed, overlapped, accidents, events>>

Reported(a) ==
    /\ Goto(a, "reported", "disconnect")
    /\ lastStatus' = [lastStatus EXCEPT ![Of(a)] = "error"]
    /\ UNCHANGED <<contexts, ends, connected, mosq, list, back, call, crashed, history,
                   accidents>>

\* LinkMqttDisconnect.  An instance that is to end keeps its client.
Disconnect(a) ==
    /\ pc[a] = "disconnect" /\ mosq[Of(a)] = "live"
    /\ Goto(a, "disconnect", IF isDestroying[Of(a)] THEN back[a] ELSE "dinit")
    /\ connected' = [connected EXCEPT ![Of(a)] = FALSE]
    /\ UNCHANGED <<contexts, ends, lastStatus, mosq, list, back, call, crashed, history,
                   accidents>>

\* The DISCONNECT meets an error of its own: the nested callback frees the client
\* under MqttClient_NetDisconnect.
DisconnectNested(a) ==
    /\ pc[a] = "disconnect" /\ ~isDestroying[Of(a)]
    /\ events < MaxEvents
    /\ Crash({"nested"})

DisconnectFreed(a) ==
    /\ pc[a] \in {"disconnect", "dinit"} /\ mosq[Of(a)] # "live"
    /\ Crash({})

\* LinkMqttDinit: every copy of mosq dangles from here on.
Dinit(a) ==
    /\ pc[a] = "dinit" /\ mosq[Of(a)] = "live"
    /\ pc' = [pc EXCEPT ![a] = "init"]
    /\ mosq' = [mosq EXCEPT ![Of(a)] = "freed"]
    /\ copy' = [x \in Actors |->
                    IF Of(x) = Of(a) /\ copy[x] = "live" THEN "freed" ELSE copy[x]]
    /\ accidents' = IF \E x \in Actors \ {a} : Of(x) = Of(a) /\ copy[x] = "live"
                    THEN accidents \cup {"crossed"} ELSE accidents
    /\ UNCHANGED <<contexts, ends, link, list, back, call, crashed, history>>

\* Mutant: there is no next client.
InitForgotten(a) ==
    /\ Goto(a, "init", back[a]) /\ back' = [back EXCEPT ![a] = "none"]
    /\ UNCHANGED <<contexts, mqtt, call, crashed, history, accidents>>

\* LinkMqttInit ...
InitClient(a) ==
    /\ Goto(a, "init", back[a]) /\ back' = [back EXCEPT ![a] = "none"]
    /\ mosq' = [mosq EXCEPT ![Of(a)] = "live"]
    /\ UNCHANGED <<contexts, ends, link, list, call, crashed, history, accidents>>

\* ... finds no memory, and nobody looks.
InitFails(a) ==
    /\ Goto(a, "init", back[a]) /\ back' = [back EXCEPT ![a] = "none"]
    /\ Event
    /\ accidents' = accidents \cup {"malloc"}
    /\ UNCHANGED <<contexts, mqtt, call, crashed, told, overlapped>>

Callback(a) ==
    \/ Report(a) \/ Reported(a)
    \/ Disconnect(a) \/ DisconnectNested(a) \/ DisconnectFreed(a)
    \/ Dinit(a) \/ InitClient(a) \/ InitFails(a)

\* OnMessage looks into mMqttContex for a pCb, of which there is none.
OnMessage ==
    IF mMqttContex # None /\ context[mMqttContex] = "live" THEN UNCHANGED vars ELSE Crash({})

\* A message to a topic other than the session's, which the broker may have kept for
\* the client (bCleanSession is false), comes while somebody waits for an answer.
Message(a) ==
    /\ pc[a] \in {"subscribe", "wait", "call"} /\ copy[a] = "live"
    /\ a = User => op # "send"
    /\ connected[Of(a)]
    /\ OnMessage

-------------------------------------------------------------------------------
\* The thread of instance i: LinkMqttThread.
\* LinkMqttInit.
Start(i) ==
    /\ Goto(i, "start", "top")
    /\ mosq' = [mosq EXCEPT ![i] = "live"]
    /\ UNCHANGED <<contexts, ends, link, list, back, call, crashed, history, accidents>>

\* It finds no memory: LinkMqttDestroyInstance, although the user holds the instance
\* or is about to.
StartFails(i) ==
    /\ Goto(i, "start", "startFailed")
    /\ Event
    /\ Tell(i, "error")
    /\ UNCHANGED <<contexts, mqtt, back, call, crashed, overlapped, accidents>>

StartDestroys(i) ==
    /\ Goto(i, "startFailed", "ended")
    /\ instance' = [instance EXCEPT ![i] = "freed"]
    /\ UNCHANGED <<contexts, isDestroying, link, mosq, list, back, call, crashed, history,
                   accidents>>

\* LinkMqttConnect, which takes no lock, LinkMqttSubscribe to the session's topic, and
\* LinkMqttLoop each begin with a copy of mosq, and the last two lock after that.
Take(i) ==
    /\ mosq[i] = "live"
    /\ pc[i] \in {"top", "onEvent", "loop"}
    /\ pc[i] = "top" => ~connected[i]
    /\ Load(i, i, pc[i], CASE pc[i] = "top" -> "connect"
                           [] pc[i] = "onEvent" -> "subscribeLock"
                           [] pc[i] = "loop" -> "waitLock")
    /\ UNCHANGED <<contexts, mqtt, back, call, crashed, history, accidents>>

Acquire(a, from, to) ==
    /\ Goto(a, from, to)
    /\ instance[Of(a)] = "live" /\ listMutex[Of(a)] = Free
    /\ listMutex' = [listMutex EXCEPT ![Of(a)] = a]
    /\ UNCHANGED <<contexts, ends, link, mosq, pSubsribeList, back, call, crashed, history,
                   accidents>>

\* There is no client where the thread takes its copy, or ends it.
LoadFreed(i) ==
    /\ pc[i] \in {"onEvent", "loop", "destroy"} \/ (pc[i] = "top" /\ ~connected[i])
    /\ mosq[i] # "live"
    /\ Crash(Crossing(i, i))

\* The head of the loop.
Connected(i) ==
    /\ connected[i] /\ Goto(i, "top", "loop")
    /\ UNCHANGED <<contexts, mqtt, back, call, crashed, history, accidents>>

\* LinkMqttConnect, up to its sleep of 100 ms ...
ConnectSucceeds(i) ==
    /\ copy[i] = "live" /\ Goto(i, "connect", "sleep")
    /\ connected' = [connected EXCEPT ![i] = TRUE]
    /\ overlapped' = [overlapped EXCEPT ![i] = (on = i /\ pc[User] \in Handling)]
    /\ UNCHANGED <<contexts, ends, lastStatus, mosq, list, back, call, crashed, told,
                   accidents, events>>

\* ... or no further.
ConnectFails(i) ==
    /\ copy[i] = "live" /\ Goto(i, "connect", "failed")
    /\ Event
    /\ UNCHANGED <<contexts, mqtt, back, call, crashed, told, overlapped, accidents>>

\* The failure is reported, twice if it was met in MqttClient_Connect: an error after
\* an error, which changes nothing.
Failed(i) ==
    /\ Goto(i, "failed", "failedTold")
    /\ Tell(i, "error")
    /\ UNCHANGED <<contexts, mqtt, back, call, crashed, overlapped, accidents, events>>

FailedTold(i) ==
    /\ Goto(i, "failedTold", "loop")
    /\ lastStatus' = [lastStatus EXCEPT ![i] = "error"]
    /\ UNCHANGED <<contexts, ends, connected, mosq, list, back, call, crashed, history,
                   accidents>>

\* OnEvent(3000): LinkDinitIOCtrl and LinkInitIOCtrl for mMqttContex; with no
\* mMqttContex, nothing.
OnEvent(i) ==
    /\ mMqttContex # None => context[mMqttContex] = "live"
    /\ Goto(i, "sleep", IF mMqttContex = None THEN "set" ELSE "onEvent")
    /\ Tell(i, "success")
    /\ UNCHANGED <<contexts, mqtt, back, call, crashed, overlapped, accidents, events>>

\* MqttDestroyContex has freed it, before OnEvent or while it was subscribing.
OnEventFreed(i) ==
    /\ pc[i] \in {"sleep", "nSession"}
    /\ mMqttContex # None /\ context[mMqttContex] = "freed"
    /\ Crash({})

\* There is no slot or no memory left for the session.
NoSession(i) ==
    /\ Goto(i, "onEvent", "nSession")
    /\ Event
    /\ UNCHANGED <<contexts, mqtt, back, call, crashed, told, overlapped, accidents>>

\* SUBACK, or not: one more node in the list with every connection that has one.
Subscribe(i) ==
    /\ copy[i] = "live" /\ Goto(i, "subscribe", "nSession") /\ Unlock(i)
    /\ \/ /\ pSubsribeList' = [pSubsribeList EXCEPT ![i] = Append(@, Live)]
          /\ UNCHANGED events
       \/ /\ Event
          /\ UNCHANGED pSubsribeList
    /\ UNCHANGED <<contexts, ends, link, mosq, back, call, crashed, told, overlapped,
                   accidents>>

\* OnEvent writes nSession and returns, and OnEventCallback comes to its end.
EventEnds(i) ==
    /\ pc[i] \in {"nSession", "set"} /\ Goto(i, pc[i], "loop")
    /\ pc[i] = "nSession" => context[mMqttContex] = "live"
    /\ lastStatus' = [lastStatus EXCEPT ![i] = "success"]
    /\ UNCHANGED <<contexts, ends, connected, mosq, list, back, call, crashed, history,
                   accidents>>

\* Mutant: the thread is no longer asked to end once it is connected.
AgainWhileConnected(i) == IF isDestroying[i] /\ ~connected[i] THEN "destroy" ELSE "top"

\* The end of the loop.
Again(i) == IF isDestroying[i] THEN "destroy" ELSE "top"

\* MqttClient_WaitMessage and MqttClient_Ping come to an end,
WaitEnds(i) ==
    /\ copy[i] = "live" /\ Goto(i, "wait", Again(i)) /\ Unlock(i)
    /\ UNCHANGED <<contexts, ends, link, mosq, pSubsribeList, back, call, crashed,
                   history, accidents>>

\* or it is the ping that meets an error, after which timeoutCount is reset in the
\* client.
PingError(i) ==
    /\ NetError(i, "wait", "pingLost")
    /\ accidents' = accidents \cup {"ping"}

\* After an error that has been handled.
Release(i) ==
    /\ pc[i] \in {"subscribeUnlock", "unlock", "pingLost"}
    /\ pc[i] = "pingLost" => copy[i] = "live"
    /\ Goto(i, pc[i], IF pc[i] = "subscribeUnlock" THEN "nSession" ELSE Again(i))
    /\ Unlock(i)
    /\ UNCHANGED <<contexts, ends, link, mosq, pSubsribeList, back, call, crashed, history,
                   accidents>>

\* The errors of LinkMqttConnect, LinkMqttSubscribe and LinkMqttLoop.
Error(i) ==
    /\ \/ NetError(i, "connect", "failed")
       \/ NetError(i, "subscribe", "subscribeUnlock")
       \/ NetError(i, "wait", "unlock")
    /\ UNCHANGED accidents

\* LinkMqttDisconnect, LinkMqttDinit, and LinkMqttDestroyInstance with ClearNode.  An
\* error of the DISCONNECT is reported and changes nothing else.
DestroyInstance(i) ==
    /\ mosq[i] = "live"
    /\ Goto(i, "destroy", "ended")
    /\ \/ UNCHANGED <<told, lastStatus, events>>
       \/ /\ connected[i] /\ Event /\ Tell(i, "error")
          /\ lastStatus' = [lastStatus EXCEPT ![i] = "error"]
    /\ connected' = [connected EXCEPT ![i] = FALSE]
    /\ mosq' = [mosq EXCEPT ![i] = "freed"]
    /\ pSubsribeList' = [pSubsribeList EXCEPT ![i] = <<>>]
    /\ instance' = [instance EXCEPT ![i] = "freed"]
    /\ UNCHANGED <<contexts, isDestroying, listMutex, back, call, crashed, overlapped,
                   accidents>>

Thread(i) ==
    \/ Start(i) \/ StartFails(i) \/ StartDestroys(i)
    \/ Connected(i) \/ Take(i) \/ LoadFreed(i)
    \/ ConnectSucceeds(i) \/ ConnectFails(i) \/ Failed(i) \/ FailedTold(i)
    \/ OnEvent(i) \/ OnEventFreed(i) \/ NoSession(i)
    \/ Acquire(i, "subscribeLock", "subscribe") \/ Subscribe(i) \/ EventEnds(i)
    \/ Acquire(i, "waitLock", "wait") \/ WaitEnds(i) \/ PingError(i)
    \/ Release(i) \/ DestroyInstance(i)
    \/ Error(i) \/ UseFreed(i) \/ Callback(i) \/ Message(i)

-------------------------------------------------------------------------------
\* The user.

MayMake(i) ==
    /\ context[i] = "none" /\ \A j \in 1 .. i - 1 : context[j] # "none"
    /\ Together \/ \A j \in Instances : context[j] # "live"

\* MqttNewContex: the context, then the instance with its thread ...
New(i) ==
    /\ MayMake(i)
    /\ pc[User] = "idle" /\ pc' = [pc EXCEPT ![User] = "assign", ![i] = "start"]
    /\ context' = [context EXCEPT ![i] = "live"]
    /\ instance' = [instance EXCEPT ![i] = "live"]
    /\ \E rc \in Codes :           \* LinkMqttInstanceInit leaves it out
        lastStatus' = [lastStatus EXCEPT ![i] = rc]
    /\ on' = i
    /\ Event
    /\ UNCHANGED <<mMqttContex, isDestroying, connected, mosq, list, copy, back, op,
                   topic, crashed, told, overlapped, accidents>>

\* ... or no memory for one ...
NewFails(i) ==
    /\ pc[User] = "idle"
    /\ MayMake(i)
    /\ Event
    /\ context' = [context EXCEPT ![i] = "freed"]
    /\ UNCHANGED <<mMqttContex, mqtt, places, call, crashed, told, overlapped, accidents>>

Return == op' = "none" /\ on' = None /\ topic' = Live

\* ... and then the pointer the callbacks use.
Assign ==
    /\ Goto(User, "assign", "idle")
    /\ mMqttContex' = on
    /\ Return
    /\ UNCHANGED <<context, mqtt, back, crashed, history, accidents>>

\* MqttDestroyContex.
Destroy(i) ==
    /\ pc[User] = "idle" /\ context[i] = "live"
    /\ instance[i] = "live"
    /\ isDestroying' = [isDestroying EXCEPT ![i] = TRUE]
    /\ context' = [context EXCEPT ![i] = "freed"]
    /\ UNCHANGED <<mMqttContex, instance, link, mosq, list, places, call, crashed,
                   history, accidents>>

DestroyFreed(i) ==
    /\ pc[User] = "idle" /\ context[i] = "live"
    /\ instance[i] = "freed"
    /\ Crash({})

Calling(i, what) ==
    /\ context[i] = "live" /\ events < MaxEvents
    /\ what \in {"send", "subscribe", "unsubscribe"}

\* MqttSend, LinkMqttSubscribe or LinkMqttUnsubscribe, up to the lock: each begins with a
\* copy of mosq.
Call(i) ==
    /\ op' \in {"send", "subscribe", "unsubscribe"}
    /\ Calling(i, op') /\ Event
    /\ instance[i] = "live" /\ (mosq[i] = "live" \/ op' = "send")
    /\ Load(User, i, "idle", "lock")
    /\ on' = i /\ topic' \in Topics
    /\ op' = "send" => topic' = Live
    /\ accidents' = accidents \cup Crossing(User, i)
    /\ UNCHANGED <<contexts, mqtt, back, crashed, told, overlapped>>

\* There is no instance to call, or no client for LinkMqttSubscribe or
\* LinkMqttUnsubscribe to write into.
CallNothing(i) ==
    /\ pc[User] = "idle"
    /\ \E what \in {"send", "subscribe", "unsubscribe"} :
        /\ Calling(i, what)
        /\ instance[i] = "freed" \/ (mosq[i] # "live" /\ what # "send")
    /\ Crash(Crossing(User, i) \cup IF told[i] = "nothing" THEN {"hasty"} ELSE {})

CallFreed == pc[User] \in {"lock", "call"} /\ instance[on] = "freed" /\ Crash({})

\* A PUBLISH, or a SUBSCRIBE or UNSUBSCRIBE that is not acknowledged.  To publish with no
\* client is an error like another.
Sent ==
    /\ copy[User] = "live" \/ (copy[User] = "null" /\ op = "send" /\ instance[on] = "live")
    /\ Goto(User, "call", "idle") /\ Unlock(on) /\ Return
    /\ IF op = "send" THEN UNCHANGED events ELSE Event
    /\ UNCHANGED <<contexts, ends, link, mosq, pSubsribeList, back, crashed, told,
                   overlapped, accidents>>

Subscribed ==
    /\ op = "subscribe" /\ copy[User] = "live"
    /\ Goto(User, "call", "idle") /\ Unlock(on) /\ Return
    /\ pSubsribeList' = [pSubsribeList EXCEPT ![on] = Append(@, topic)]
    /\ UNCHANGED <<contexts, ends, link, mosq, back, crashed, history, accidents>>

Unsubscribed ==
    /\ op = "unsubscribe" /\ copy[User] = "live"
    /\ Goto(User, "call", "delete")
    /\ UNCHANGED <<contexts, mqtt, back, call, crashed, history, accidents>>

\* The call meets a network error, which it handles itself.
CallError == NetError(User, "call", "callUnlock") /\ UNCHANGED accidents

\* Mutant: the node is looked for at the end of the list.
DeleteNodeAtEnd ==
    /\ Goto(User, "delete", "idle") /\ Unlock(on) /\ Return
    /\ LET l == pSubsribeList[on]
       IN  /\ l # <<>> => l[Len(l)] = topic
           /\ pSubsribeList' = [pSubsribeList EXCEPT ![on] =
                                   IF l = <<>> THEN l ELSE SubSeq(l, 1, Len(l) - 1)]
    /\ UNCHANGED <<contexts, ends, link, mosq, back, crashed, history, accidents>>

\* DeleteNode: the node is the first or there is none.  Else its loop, which does not
\* move on, has no end, under listMutex.
DeleteNode ==
    /\ Goto(User, "delete", "idle") /\ Unlock(on) /\ Return
    /\ LET l == pSubsribeList[on]
       IN  /\ l # <<>> => Head(l) = topic
           /\ pSubsribeList' = [pSubsribeList EXCEPT ![on] = IF l = <<>> THEN l ELSE Tail(l)]
    /\ UNCHANGED <<contexts, ends, link, mosq, back, crashed, history, accidents>>

CallUnlock ==
    /\ Goto(User, "callUnlock", "idle") /\ Unlock(on)
    /\ Return
    /\ UNCHANGED <<contexts, ends, link, mosq, pSubsribeList, back, crashed, history,
                   accidents>>

UserCalls ==
    \/ Assign \/ Acquire(User, "lock", "call") \/ CallFreed
    \/ Sent \/ Subscribed \/ Unsubscribed \/ CallError \/ DeleteNode \/ CallUnlock
    \/ UseFreed(User) \/ Callback(User) \/ Message(User)

-------------------------------------------------------------------------------
\* A crash is of the whole program.
Next ==
    /\ ~crashed
    /\ \/ \E i \in Instances :
            \/ Thread(i)
            \/ New(i) \/ NewFails(i) \/ Destroy(i) \/ DestroyFreed(i)
            \/ Call(i) \/ CallNothing(i)
       \/ UserCalls

Spec == Init /\ [][Next]_vars

\* The threads run, the waits of the client library end, and the user comes back from
\* its calls so far as they do not wait for listMutex; it need not make any.
FairSpec ==
    /\ Spec
    /\ \A i \in Instances : WF_vars(~crashed /\ Thread(i))
    /\ WF_vars(~crashed /\ UserCalls)

-------------------------------------------------------------------------------
ThreadPlaces ==
    {"none", "start", "startFailed", "top", "connect", "sleep", "failed", "failedTold",
     "onEvent", "subscribeLock", "subscribe", "subscribeUnlock", "nSession", "set", "loop",
     "waitLock", "wait", "pingLost", "unlock", "destroy", "ended"} \cup Handling
UserPlaces == {"idle", "assign", "lock", "call", "delete", "callUnlock"} \cup Handling

Accidents == {"hasty", "crossed", "malloc", "nested", "ping"}

TypeOK ==
    /\ context \in [Instances -> {"none", "live", "freed"}]
    /\ mMqttContex \in Instances \cup {None}
    /\ instance \in [Instances -> {"none", "live", "freed"}]
    /\ isDestroying \in [Instances -> BOOLEAN]
    /\ connected \in [Instances -> BOOLEAN]
    /\ lastStatus \in [Instances -> Codes]
    /\ mosq \in [Instances -> {"null", "live", "freed"}]
    /\ pSubsribeList \in [Instances -> Seq(Topics)]
    /\ listMutex \in [Instances -> Actors \cup {Free}]
    /\ pc \in [Actors -> ThreadPlaces \cup UserPlaces]
    /\ \A i \in Instances : pc[i] \in ThreadPlaces
    /\ pc[User] \in UserPlaces
    /\ copy \in [Actors -> {"null", "live", "freed"}]
    /\ back \in [Actors -> {"none", "failed", "subscribeUnlock", "unlock", "pingLost",
                            "callUnlock"}]
    /\ op \in {"none", "send", "subscribe", "unsubscribe"}
    /\ on \in Instances \cup {None} /\ topic \in Topics
    /\ crashed \in BOOLEAN
    /\ told \in [Instances -> {"nothing"} \cup Codes]
    /\ overlapped \in [Instances -> BOOLEAN]
    /\ accidents \subseteq Accidents
    /\ events \in 0 .. MaxEvents

\* MqttDestroyContex has freed the context that the callbacks of all instances use, and
\* no other has taken its place (sig_ctl.c:43, 124).
ContextFreed == mMqttContex # None /\ context[mMqttContex] = "freed"

\* LinkMqttInit failed, and the thread frees the instance under the user (mqtt.c:112).
StartFailed(i) ==
    /\ context[i] = "live"
    /\ pc[i] = "startFailed" \/ (pc[i] = "ended" /\ mosq[i] = "null")

\* Nothing is used that has been freed or is not there yet, except: a context after
\* MqttDestroyContex and before the next one, by a callback of any instance; the
\* instance of a thread that could not start, by the user's next call; mMqttContex, by a
\* message that comes before MqttNewContex has set it for the first time (sig_ctl.c:30);
\* and after one of five accidents: a call made before OnEvent was told anything, a copy
\* of mosq that one thread has when another replaces mosq or takes in the middle of that
\* (wolfmqtt.c:72, 187), a LinkMqttInit of OnDisconnectCallback that fails, and an error
\* met by the DISCONNECT or by the ping.
CrashesExplained ==
    crashed =>
        \/ ContextFreed
        \/ \E i \in Instances : StartFailed(i)
        \/ pc[User] = "assign" /\ mMqttContex = None
        \/ accidents # {}

\* OnEvent is told what is the case: after a success the instance is connected, until
\* it is ended; after an error it is not, but for the 100 ms before the next report and
\* what is left to do in OnDisconnectCallback.  This although errors are reported once
\* only, and the first report is compared with a lastStatus that nobody has set.  The
\* exception is an error that is met, by either thread, between connected = true and the
\* assignment of lastStatus after OnEvent(3000): it is measured against the lastStatus
\* before (mqtt.c:76-80), and until the next connection anything may be believed.
ToldTheTruth ==
    \A i \in Instances :
        ~overlapped[i] =>
            /\ told[i] = "success" => connected[i] \/ pc[i] = "ended"
            /\ told[i] = "error" =>
                \/ ~connected[i] \/ pc[i] = "sleep"
                \/ Somebody(i, {"reported", "disconnect"})

\* A thread asked to end does, whatever becomes of its connection and its messages.
ThreadEnds ==
    \A i \in Instances : isDestroying[i] ~> (crashed \/ pc[i] = "ended")

\* The user is in DeleteNode, with a list whose first node is another's.
Hung(i) ==
    /\ pc[User] = "delete" /\ on = i
    /\ pSubsribeList[i] # <<>> /\ Head(pSubsribeList[i]) # topic

\* A thread that is to wait for messages comes to it, unless an unsubscription has
\* met another topic first: then the instance is silent for good.
HearsUnlessHung ==
    \A i \in Instances :
        pc[i] \in {"subscribeLock", "loop", "waitLock"} ~>
            (crashed \/ Hung(i) \/ pc[i] = "wait")
================================================================================
