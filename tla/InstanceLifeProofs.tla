-------------------------- MODULE InstanceLifeProofs --------------------------
(***************************************************************************)
(* Proofs about InstanceLife, for any number of instances, topics and      *)
(* events, whether or not several contexts are live together.              *)
(*                                                                         *)
(* The properties need who may still hold a copy of a client, and what it  *)
(* is worth (ClientInv, CopyInv); that the thread finds its connection and *)
(* its last report as it left them, unless an error was met in between     *)
(* (StatusInv); and who is inside listMutex (LockInv).                     *)
(***************************************************************************)
EXTENDS InstanceLife, TLAPS

\* The two results are told apart everywhere.
USE DEF Codes

\* The context of every instance, and of the call the user is in, is what its caller has
\* left it; mMqttContex is unset only before the first is assigned.
ContextInv ==
    /\ mMqttContex # None => context[mMqttContex] # "none"
    /\ \A i \in Instances :
        /\ instance[i] # "none" => context[i] # "none"
        /\ instance[i] # "none" => mMqttContex # None \/ pc[User] = "assign"
        /\ context[i] = "live" => instance[i] # "none"
        /\ isDestroying[i] => context[i] = "freed"
    /\ pc[User] = "idle" => on = None
    /\ pc[User] # "idle" => on \in Instances /\ context[on] = "live"

\* A thread has no news before its LinkMqttInit and always a client after that, and ends
\* when it was asked to or could not start.
ThreadInv(i) ==
    /\ instance[i] = "none" <=> pc[i] = "none"
    /\ instance[i] = "freed" <=> pc[i] = "ended"
    /\ pc[i] \in {"none", "start"} => told[i] = "nothing"
    /\ pc[i] \in {"none", "start", "startFailed"} => mosq[i] = "null"
    /\ mosq[i] = "null" => pc[i] \in {"none", "start", "startFailed", "ended"}
    /\ pc[i] = "destroy" => isDestroying[i]
    /\ pc[i] = "ended" => isDestroying[i] \/ mosq[i] = "null"

\* A client is gone while somebody makes the next, or for good.
ClientInv(i) ==
    mosq[i] = "freed" =>
        pc[i] = "ended" \/ "malloc" \in accidents \/ Somebody(i, {"init"})

\* A copy of mosq is good as long as mosq is; one that is not, is used after an accident.
CopyInv(a) ==
    /\ pc[a] \notin Holds => copy[a] = "null"
    /\ pc[a] \in Handling => copy[a] # "null"
    /\ copy[a] = "live" => mosq[Of(a)] = "live"
    /\ copy[a] # "null" => Of(a) \in Instances /\ mosq[Of(a)] # "null"
    /\ copy[a] = "freed" => accidents # {} \/ pc[a] = "init"

\* OnDisconnectCallback returns into the call that met the error.
BackInv(a) ==
    /\ pc[a] \in Handling =>
        back[a] \in IF a = User THEN {"callUnlock"}
                    ELSE {"failed", "subscribeUnlock", "unlock", "pingLost"}
    /\ pc[a] \in Handling /\ back[a] = "pingLost" => "ping" \in accidents
    /\ pc[a] = "pingLost" => "ping" \in accidents

\* LinkMqttThread has not come to connected = true.
Connecting(i) ==
    \/ pc[i] \in {"none", "start", "startFailed", "connect", "failed", "failedTold"}
    \/ pc[i] \in Handling /\ back[i] = "failed"

\* What was told in the connect event is still so when lastStatus is set, and both agree
\* from there to the next error's report.
StatusInv(i) ==
    /\ Connecting(i) => ~connected[i]
    /\ Reporting(i) /\ ~overlapped[i] =>
        /\ connected[i] /\ ~Somebody(i, Handling)
        /\ pc[i] # "sleep" => told[i] = "success"
    /\ ~Reporting(i) /\ ~overlapped[i] /\ told[i] = "success" =>
        lastStatus[i] = "success" /\ ~Somebody(i, Handling \ {"report"})

\* Where a thread has listMutex.
Inside(a) ==
    \/ pc[a] \in {"subscribe", "subscribeUnlock", "wait", "pingLost", "unlock",
                  "call", "callUnlock", "delete"}
    \/ pc[a] \in Handling /\ back[a] # "failed"

LockInv(i) ==
    /\ listMutex[i] \in {i, User, Free}
    /\ listMutex[i] = i <=> Inside(i)
    /\ listMutex[i] = User <=> on = i /\ Inside(User)

\* ToldTheTruth, of one instance.
Truth(i) ==
    ~overlapped[i] =>
        /\ told[i] = "success" => connected[i] \/ pc[i] = "ended"
        /\ told[i] = "error" =>
            ~connected[i] \/ pc[i] = "sleep" \/ Somebody(i, {"reported", "disconnect"})

Inv ==
    /\ TypeOK /\ ContextInv
    /\ \A i \in Instances :
        ThreadInv(i) /\ ClientInv(i) /\ StatusInv(i) /\ Truth(i) /\ LockInv(i)
    /\ \A a \in Actors : CopyInv(a) /\ BackInv(a)
    /\ CrashesExplained

-------------------------------------------------------------------------------
\* The user is no instance, and Free nobody.
LEMMA ActorFacts ==
    /\ User \notin Instances /\ None \notin Instances /\ Free \notin Actors
    /\ \A i \in Instances : i # User
BY BoundAssumption DEF User, None, Free, Actors, Instances

\* One more node is a list.
LEMMA AppendType ==
    ASSUME NEW l \in Seq(Topics), NEW t \in Topics
    PROVE  Append(l, t) \in Seq(Topics)
OBVIOUS

LEMMA InitInv == Init => Inv
<1> SUFFICES ASSUME Init PROVE Inv
  OBVIOUS
<1> USE ActorFacts, BoundAssumption DEF Init, Actors, Of
<1>1. TypeOK
  <2>1. /\ pc \in [Actors -> ThreadPlaces \cup UserPlaces]
        /\ pc[User] \in UserPlaces /\ \A i \in Instances : pc[i] \in ThreadPlaces
    BY DEF ThreadPlaces, UserPlaces
  <2>2. crashed \in BOOLEAN /\ accidents \subseteq Accidents
    OBVIOUS
  <2>3. events \in 0 .. MaxEvents /\ topic \in Topics
    OBVIOUS
  <2>4. /\ isDestroying \in [Instances -> BOOLEAN] /\ connected \in [Instances -> BOOLEAN]
        /\ overlapped \in [Instances -> BOOLEAN]
    OBVIOUS
  <2> HIDE DEF Actors
  <2> QED BY <2>1, <2>2, <2>3, <2>4 DEF TypeOK
<1>2. ContextInv /\ CrashesExplained
  BY DEF ContextInv, CrashesExplained
<1>3. ASSUME NEW i \in Instances
      PROVE  ThreadInv(i) /\ ClientInv(i) /\ StatusInv(i) /\ Truth(i) /\ LockInv(i)
  BY <1>3 DEF ThreadInv, ClientInv, StatusInv, Truth, LockInv, Inside, Somebody, Connecting,
     Reporting, Handling
<1>4. ASSUME NEW a \in Actors PROVE CopyInv(a) /\ BackInv(a)
  BY <1>4 DEF CopyInv, BackInv, Holds, Handling, Uses
<1> HIDE DEF Init
<1> QED BY <1>1, <1>2, <1>3, <1>4 DEF Inv

-------------------------------------------------------------------------------
\* One lemma for each step that goes well, and in it the parts of the invariant.

\* The thread's LinkMqttInit.
LEMMA StartInv ==
    ASSUME Inv, ~crashed, NEW i \in Instances, Start(i)
    PROVE  Inv'
<1> USE ActorFacts, BoundAssumption DEF Inv, Goto, Load, Unlock, Of, Actors, Handling, Uses,
   Holds, contexts, ends, link, list, mqtt, call, places, history
<1>1. TypeOK'
  BY DEF TypeOK, ThreadPlaces, UserPlaces, Accidents, BackInv, ContextInv, Start
<1>2. ContextInv' /\ CrashesExplained'
  BY DEF TypeOK, ContextInv, ThreadInv, CrashesExplained, Start
<1>3. ASSUME NEW j \in Instances PROVE ThreadInv(j)' /\ ClientInv(j)' /\ LockInv(j)'
  BY <1>3 DEF TypeOK, ContextInv, ThreadInv, CopyInv, BackInv, ClientInv, Somebody, LockInv,
     Inside, Start
<1>4. ASSUME NEW x \in Actors PROVE CopyInv(x)' /\ BackInv(x)'
  BY <1>4 DEF TypeOK, ContextInv, ThreadInv, ClientInv, CopyInv, BackInv, Somebody, Start
<1>5. ASSUME NEW j \in Instances PROVE StatusInv(j)' /\ Truth(j)'
  BY <1>5 DEF TypeOK, ContextInv, ThreadInv, BackInv, StatusInv, Truth, Connecting,
     Reporting, Somebody, Start
<1> HIDE DEF Inv
<1> QED BY ONLY <1>1, <1>2, <1>3, <1>4, <1>5 DEF Inv

LEMMA StartFailsInv ==
    ASSUME Inv, ~crashed, NEW i \in Instances, StartFails(i)
    PROVE  Inv'
<1> USE ActorFacts, BoundAssumption DEF Inv, Goto, Load, Unlock, Of, Actors, Handling, Uses,
   Holds, contexts, ends, link, list, mqtt, call, places, history
<1>1. TypeOK'
  BY DEF TypeOK, ThreadPlaces, UserPlaces, Accidents, BackInv, ContextInv, StartFails,
     Event, Tell
<1>2. ContextInv' /\ CrashesExplained'
  BY DEF TypeOK, ContextInv, ThreadInv, CrashesExplained, StartFails, Event, Tell
<1>3. ASSUME NEW j \in Instances PROVE ThreadInv(j)' /\ ClientInv(j)' /\ LockInv(j)'
  BY <1>3 DEF TypeOK, ContextInv, ThreadInv, CopyInv, BackInv, ClientInv, Somebody, LockInv,
     Inside, StartFails, Event, Tell
<1>4. ASSUME NEW x \in Actors PROVE CopyInv(x)' /\ BackInv(x)'
  BY <1>4 DEF TypeOK, ContextInv, ThreadInv, ClientInv, CopyInv, BackInv, Somebody,
     StartFails, Event, Tell
<1>5. ASSUME NEW j \in Instances PROVE StatusInv(j)' /\ Truth(j)'
  BY <1>5 DEF TypeOK, ContextInv, ThreadInv, BackInv, StatusInv, Truth, Connecting,
     Reporting, Somebody, StartFails, Event, Tell
<1> HIDE DEF Inv
<1> QED BY ONLY <1>1, <1>2, <1>3, <1>4, <1>5 DEF Inv

LEMMA StartDestroysInv ==
    ASSUME Inv, ~crashed, NEW i \in Instances, StartDestroys(i)
    PROVE  Inv'
<1> USE ActorFacts, BoundAssumption DEF Inv, Goto, Load, Unlock, Of, Actors, Handling, Uses,
   Holds, contexts, ends, link, list, mqtt, call, places, history
<1>1. TypeOK'
  BY DEF TypeOK, ThreadPlaces, UserPlaces, Accidents, BackInv, ContextInv, StartDestroys
<1>2. ContextInv' /\ CrashesExplained'
  BY DEF TypeOK, ContextInv, ThreadInv, CrashesExplained, StartDestroys
<1>3. ASSUME NEW j \in Instances PROVE ThreadInv(j)' /\ ClientInv(j)' /\ LockInv(j)'
  BY <1>3 DEF TypeOK, ContextInv, ThreadInv, CopyInv, BackInv, ClientInv, Somebody, LockInv,
     Inside, StartDestroys
<1>4. ASSUME NEW x \in Actors PROVE CopyInv(x)' /\ BackInv(x)'
  BY <1>4 DEF TypeOK, ContextInv, ThreadInv, ClientInv, CopyInv, BackInv, Somebody,
     StartDestroys
<1>5. ASSUME NEW j \in Instances PROVE StatusInv(j)' /\ Truth(j)'
  BY <1>5 DEF TypeOK, ContextInv, ThreadInv, BackInv, StatusInv, Truth, Connecting,
     Reporting, Somebody, StartDestroys
<1> HIDE DEF Inv
<1> QED BY ONLY <1>1, <1>2, <1>3, <1>4, <1>5 DEF Inv

\* The thread on its way, from the head of the loop on.
LEMMA ConnectedInv ==
    ASSUME Inv, ~crashed, NEW i \in Instances, Connected(i)
    PROVE  Inv'
<1> USE ActorFacts, BoundAssumption DEF Inv, Goto, Load, Unlock, Of, Actors, Handling, Uses,
   Holds, contexts, ends, link, list, mqtt, call, places, history
<1>1. TypeOK'
  BY DEF TypeOK, ThreadPlaces, UserPlaces, Accidents, BackInv, ContextInv, Connected
<1>2. ContextInv' /\ CrashesExplained'
  BY DEF TypeOK, ContextInv, ThreadInv, CrashesExplained, Connected
<1>3. ASSUME NEW j \in Instances PROVE ThreadInv(j)' /\ ClientInv(j)' /\ LockInv(j)'
  BY <1>3 DEF TypeOK, ContextInv, ThreadInv, CopyInv, BackInv, ClientInv, Somebody, LockInv,
     Inside, Connected
<1>4. ASSUME NEW x \in Actors PROVE CopyInv(x)' /\ BackInv(x)'
  BY <1>4 DEF TypeOK, ContextInv, ThreadInv, ClientInv, CopyInv, BackInv, Somebody,
     Connected
<1>5. ASSUME NEW j \in Instances PROVE StatusInv(j)' /\ Truth(j)'
  BY <1>5 DEF TypeOK, ContextInv, ThreadInv, BackInv, StatusInv, Truth, Connecting,
     Reporting, Somebody, Connected
<1> HIDE DEF Inv
<1> QED BY ONLY <1>1, <1>2, <1>3, <1>4, <1>5 DEF Inv

LEMMA TakeInv ==
    ASSUME Inv, ~crashed, NEW i \in Instances, Take(i)
    PROVE  Inv'
<1> USE ActorFacts, BoundAssumption DEF Inv, Goto, Load, Unlock, Of, Actors, Handling, Uses,
   Holds, contexts, ends, link, list, mqtt, call, places, history
<1>1. TypeOK'
  BY DEF TypeOK, ThreadPlaces, UserPlaces, Accidents, BackInv, ContextInv, Take
<1>2. ContextInv' /\ CrashesExplained'
  BY DEF TypeOK, ContextInv, ThreadInv, CrashesExplained, Take
<1>3. ASSUME NEW j \in Instances PROVE ThreadInv(j)' /\ ClientInv(j)' /\ LockInv(j)'
  BY <1>3 DEF TypeOK, ContextInv, ThreadInv, CopyInv, BackInv, ClientInv, Somebody, LockInv,
     Inside, Take
<1>4. ASSUME NEW x \in Actors PROVE CopyInv(x)' /\ BackInv(x)'
  BY <1>4 DEF TypeOK, ContextInv, ThreadInv, ClientInv, CopyInv, BackInv, Somebody, Take
<1>5. ASSUME NEW j \in Instances PROVE StatusInv(j)' /\ Truth(j)'
  BY <1>5 DEF TypeOK, ContextInv, ThreadInv, BackInv, StatusInv, Truth, Connecting,
     Reporting, Somebody, Take
<1> HIDE DEF Inv
<1> QED BY ONLY <1>1, <1>2, <1>3, <1>4, <1>5 DEF Inv

\* Whoever takes listMutex.
LEMMA AcquireInv ==
    ASSUME Inv, ~crashed, NEW a \in Actors, NEW from, NEW to,
           \/ a = User /\ from = "lock" /\ to = "call"
           \/ a \in Instances /\ from = "subscribeLock" /\ to = "subscribe"
           \/ a \in Instances /\ from = "waitLock" /\ to = "wait",
           Acquire(a, from, to)
    PROVE  Inv'
<1> USE ActorFacts, BoundAssumption DEF Inv, Goto, Load, Unlock, Of, Actors, Handling, Uses,
   Holds, contexts, ends, link, list, mqtt, call, places, history
<1>1. TypeOK'
  BY DEF TypeOK, ThreadPlaces, UserPlaces, Accidents, BackInv, ContextInv, Acquire
<1>2. ContextInv' /\ CrashesExplained'
  BY DEF TypeOK, ContextInv, ThreadInv, CrashesExplained, Acquire
<1>3. ASSUME NEW j \in Instances PROVE ThreadInv(j)' /\ ClientInv(j)' /\ LockInv(j)'
  BY <1>3 DEF TypeOK, ContextInv, ThreadInv, CopyInv, BackInv, ClientInv, Somebody, LockInv,
     Inside, Acquire
<1>4. ASSUME NEW x \in Actors PROVE CopyInv(x)' /\ BackInv(x)'
  BY <1>4 DEF TypeOK, ContextInv, ThreadInv, ClientInv, CopyInv, BackInv, Somebody, Acquire
<1>5. ASSUME NEW j \in Instances PROVE StatusInv(j)' /\ Truth(j)'
  BY <1>5 DEF TypeOK, ContextInv, ThreadInv, BackInv, StatusInv, Truth, Connecting,
     Reporting, Somebody, Acquire
<1> HIDE DEF Inv
<1> QED BY ONLY <1>1, <1>2, <1>3, <1>4, <1>5 DEF Inv

\* The connection, and what OnEvent is told of it.
LEMMA ConnectSucceedsInv ==
    ASSUME Inv, ~crashed, NEW i \in Instances, ConnectSucceeds(i)
    PROVE  Inv'
<1> USE ActorFacts, BoundAssumption DEF Inv, Goto, Load, Unlock, Of, Actors, Handling, Uses,
   Holds, contexts, ends, link, list, mqtt, call, places, history
<1>1. TypeOK'
  BY DEF TypeOK, ThreadPlaces, UserPlaces, Accidents, BackInv, ContextInv, ConnectSucceeds
<1>2. ContextInv' /\ CrashesExplained'
  BY DEF TypeOK, ContextInv, ThreadInv, CrashesExplained, ConnectSucceeds
<1>3. ASSUME NEW j \in Instances PROVE ThreadInv(j)' /\ ClientInv(j)' /\ LockInv(j)'
  BY <1>3 DEF TypeOK, ContextInv, ThreadInv, CopyInv, BackInv, ClientInv, Somebody, LockInv,
     Inside, ConnectSucceeds
<1>4. ASSUME NEW x \in Actors PROVE CopyInv(x)' /\ BackInv(x)'
  BY <1>4 DEF TypeOK, ContextInv, ThreadInv, ClientInv, CopyInv, BackInv, Somebody,
     ConnectSucceeds
<1>5. ASSUME NEW j \in Instances PROVE StatusInv(j)'
  <2>1. CASE j = i
    <3>1. overlapped'[i] <=> (on = i /\ pc[User] \in Handling)
      BY DEF TypeOK, ConnectSucceeds
    <3>2. pc'[i] = "sleep" /\ connected'[i] /\ pc'[User] = pc[User] /\ on' = on
      BY DEF TypeOK, ConnectSucceeds
    <3> QED BY <2>1, <3>1, <3>2 DEF StatusInv, Connecting, Reporting, Somebody
  <2>2. CASE j # i
    BY <1>5, <2>2 DEF TypeOK, StatusInv, Connecting, Reporting, Somebody, ConnectSucceeds
  <2> QED BY <2>1, <2>2
<1>6. ASSUME NEW j \in Instances PROVE Truth(j)'
  BY <1>6 DEF TypeOK, ContextInv, ThreadInv, BackInv, StatusInv, Truth, Connecting,
     Reporting, Somebody, ConnectSucceeds
<1> HIDE DEF Inv
<1> QED BY ONLY <1>1, <1>2, <1>3, <1>4, <1>5, <1>6 DEF Inv

LEMMA ConnectFailsInv ==
    ASSUME Inv, ~crashed, NEW i \in Instances, ConnectFails(i)
    PROVE  Inv'
<1> USE ActorFacts, BoundAssumption DEF Inv, Goto, Load, Unlock, Of, Actors, Handling, Uses,
   Holds, contexts, ends, link, list, mqtt, call, places, history
<1>1. TypeOK'
  BY DEF TypeOK, ThreadPlaces, UserPlaces, Accidents, BackInv, ContextInv, ConnectFails,
     Event
<1>2. ContextInv' /\ CrashesExplained'
  BY DEF TypeOK, ContextInv, ThreadInv, CrashesExplained, ConnectFails, Event
<1>3. ASSUME NEW j \in Instances PROVE ThreadInv(j)' /\ ClientInv(j)' /\ LockInv(j)'
  BY <1>3 DEF TypeOK, ContextInv, ThreadInv, CopyInv, BackInv, ClientInv, Somebody, LockInv,
     Inside, ConnectFails, Event
<1>4. ASSUME NEW x \in Actors PROVE CopyInv(x)' /\ BackInv(x)'
  BY <1>4 DEF TypeOK, ContextInv, ThreadInv, ClientInv, CopyInv, BackInv, Somebody,
     ConnectFails, Event
<1>5. ASSUME NEW j \in Instances PROVE StatusInv(j)' /\ Truth(j)'
  BY <1>5 DEF TypeOK, ContextInv, ThreadInv, BackInv, StatusInv, Truth, Connecting,
     Reporting, Somebody, ConnectFails, Event
<1> HIDE DEF Inv
<1> QED BY ONLY <1>1, <1>2, <1>3, <1>4, <1>5 DEF Inv

LEMMA FailedInv ==
    ASSUME Inv, ~crashed, NEW i \in Instances, Failed(i)
    PROVE  Inv'
<1> USE ActorFacts, BoundAssumption DEF Inv, Goto, Load, Unlock, Of, Actors, Handling, Uses,
   Holds, contexts, ends, link, list, mqtt, call, places, history
<1>1. TypeOK'
  BY DEF TypeOK, ThreadPlaces, UserPlaces, Accidents, BackInv, ContextInv, Failed, Tell
<1>2. ContextInv' /\ CrashesExplained'
  BY DEF TypeOK, ContextInv, ThreadInv, CrashesExplained, Failed, Tell
<1>3. ASSUME NEW j \in Instances PROVE ThreadInv(j)' /\ ClientInv(j)' /\ LockInv(j)'
  BY <1>3 DEF TypeOK, ContextInv, ThreadInv, CopyInv, BackInv, ClientInv, Somebody, LockInv,
     Inside, Failed, Tell
<1>4. ASSUME NEW x \in Actors PROVE CopyInv(x)' /\ BackInv(x)'
  BY <1>4 DEF TypeOK, ContextInv, ThreadInv, ClientInv, CopyInv, BackInv, Somebody, Failed,
     Tell
<1>5. ASSUME NEW j \in Instances PROVE StatusInv(j)' /\ Truth(j)'
  BY <1>5 DEF TypeOK, ContextInv, ThreadInv, BackInv, StatusInv, Truth, Connecting,
     Reporting, Somebody, Failed, Tell
<1> HIDE DEF Inv
<1> QED BY ONLY <1>1, <1>2, <1>3, <1>4, <1>5 DEF Inv

LEMMA FailedToldInv ==
    ASSUME Inv, ~crashed, NEW i \in Instances, FailedTold(i)
    PROVE  Inv'
<1> USE ActorFacts, BoundAssumption DEF Inv, Goto, Load, Unlock, Of, Actors, Handling, Uses,
   Holds, contexts, ends, link, list, mqtt, call, places, history
<1>1. TypeOK'
  BY DEF TypeOK, ThreadPlaces, UserPlaces, Accidents, BackInv, ContextInv, FailedTold
<1>2. ContextInv' /\ CrashesExplained'
  BY DEF TypeOK, ContextInv, ThreadInv, CrashesExplained, FailedTold
<1>3. ASSUME NEW j \in Instances PROVE ThreadInv(j)' /\ ClientInv(j)' /\ LockInv(j)'
  BY <1>3 DEF TypeOK, ContextInv, ThreadInv, CopyInv, BackInv, ClientInv, Somebody, LockInv,
     Inside, FailedTold
<1>4. ASSUME NEW x \in Actors PROVE CopyInv(x)' /\ BackInv(x)'
  BY <1>4 DEF TypeOK, ContextInv, ThreadInv, ClientInv, CopyInv, BackInv, Somebody,
     FailedTold
<1>5. ASSUME NEW j \in Instances PROVE StatusInv(j)' /\ Truth(j)'
  BY <1>5 DEF TypeOK, ContextInv, ThreadInv, BackInv, StatusInv, Truth, Connecting,
     Reporting, Somebody, FailedTold
<1> HIDE DEF Inv
<1> QED BY ONLY <1>1, <1>2, <1>3, <1>4, <1>5 DEF Inv

LEMMA OnEventInv ==
    ASSUME Inv, ~crashed, NEW i \in Instances, OnEvent(i)
    PROVE  Inv'
<1> USE ActorFacts, BoundAssumption DEF Inv, Goto, Load, Unlock, Of, Actors, Handling, Uses,
   Holds, contexts, ends, link, list, mqtt, call, places, history
<1>1. TypeOK'
  BY DEF TypeOK, ThreadPlaces, UserPlaces, Accidents, BackInv, ContextInv, OnEvent, Tell
<1>2. ContextInv' /\ CrashesExplained'
  BY DEF TypeOK, ContextInv, ThreadInv, CrashesExplained, OnEvent, Tell
<1>3. ASSUME NEW j \in Instances PROVE ThreadInv(j)' /\ ClientInv(j)' /\ LockInv(j)'
  BY <1>3 DEF TypeOK, ContextInv, ThreadInv, CopyInv, BackInv, ClientInv, Somebody, LockInv,
     Inside, OnEvent, Tell
<1>4. ASSUME NEW x \in Actors PROVE CopyInv(x)' /\ BackInv(x)'
  BY <1>4 DEF TypeOK, ContextInv, ThreadInv, ClientInv, CopyInv, BackInv, Somebody, OnEvent,
     Tell
<1>5. ASSUME NEW j \in Instances PROVE StatusInv(j)' /\ Truth(j)'
  BY <1>5 DEF TypeOK, ContextInv, ThreadInv, BackInv, StatusInv, Truth, Connecting,
     Reporting, Somebody, OnEvent, Tell
<1> HIDE DEF Inv
<1> QED BY ONLY <1>1, <1>2, <1>3, <1>4, <1>5 DEF Inv

LEMMA NoSessionInv ==
    ASSUME Inv, ~crashed, NEW i \in Instances, NoSession(i)
    PROVE  Inv'
<1> USE ActorFacts, BoundAssumption DEF Inv, Goto, Load, Unlock, Of, Actors, Handling, Uses,
   Holds, contexts, ends, link, list, mqtt, call, places, history
<1>1. TypeOK'
  BY DEF TypeOK, ThreadPlaces, UserPlaces, Accidents, BackInv, ContextInv, NoSession, Event
<1>2. ContextInv' /\ CrashesExplained'
  BY DEF TypeOK, ContextInv, ThreadInv, CrashesExplained, NoSession, Event
<1>3. ASSUME NEW j \in Instances PROVE ThreadInv(j)' /\ ClientInv(j)' /\ LockInv(j)'
  BY <1>3 DEF TypeOK, ContextInv, ThreadInv, CopyInv, BackInv, ClientInv, Somebody, LockInv,
     Inside, NoSession, Event
<1>4. ASSUME NEW x \in Actors PROVE CopyInv(x)' /\ BackInv(x)'
  BY <1>4 DEF TypeOK, ContextInv, ThreadInv, ClientInv, CopyInv, BackInv, Somebody,
     NoSession, Event
<1>5. ASSUME NEW j \in Instances PROVE StatusInv(j)' /\ Truth(j)'
  BY <1>5 DEF TypeOK, ContextInv, ThreadInv, BackInv, StatusInv, Truth, Connecting,
     Reporting, Somebody, NoSession, Event
<1> HIDE DEF Inv
<1> QED BY ONLY <1>1, <1>2, <1>3, <1>4, <1>5 DEF Inv

LEMMA SubscribeInv ==
    ASSUME Inv, ~crashed, NEW i \in Instances, Subscribe(i)
    PROVE  Inv'
<1> USE ActorFacts, BoundAssumption DEF Inv, Goto, Load, Unlock, Of, Actors, Handling, Uses,
   Holds, contexts, ends, link, list, mqtt, call, places, history
<1>1. TypeOK'
  <2>1. Append(pSubsribeList[i], Live) \in Seq(Topics)
    BY AppendType DEF TypeOK
  <2>2. pSubsribeList' \in [Instances -> Seq(Topics)]
    BY <2>1 DEF TypeOK, Subscribe
  <2>3. listMutex' \in [Instances -> Actors \cup {Free}] /\ events' \in 0 .. MaxEvents
    BY DEF TypeOK, Subscribe, Event
  <2> QED BY <2>2, <2>3 DEF TypeOK, ThreadPlaces, UserPlaces, Subscribe
<1>2. ContextInv' /\ CrashesExplained'
  BY DEF TypeOK, ContextInv, ThreadInv, CrashesExplained, Subscribe, Event
<1>3. ASSUME NEW j \in Instances PROVE ThreadInv(j)' /\ ClientInv(j)' /\ LockInv(j)'
  BY <1>3 DEF TypeOK, ContextInv, ThreadInv, CopyInv, BackInv, ClientInv, Somebody, LockInv,
     Inside, Subscribe, Event
<1>4. ASSUME NEW x \in Actors PROVE CopyInv(x)' /\ BackInv(x)'
  BY <1>4 DEF TypeOK, ContextInv, ThreadInv, ClientInv, CopyInv, BackInv, Somebody,
     Subscribe, Event
<1>5. ASSUME NEW j \in Instances PROVE StatusInv(j)' /\ Truth(j)'
  BY <1>5 DEF TypeOK, ContextInv, ThreadInv, BackInv, StatusInv, Truth, Connecting,
     Reporting, Somebody, Subscribe, Event
<1> HIDE DEF Inv
<1> QED BY ONLY <1>1, <1>2, <1>3, <1>4, <1>5 DEF Inv

LEMMA EventEndsInv ==
    ASSUME Inv, ~crashed, NEW i \in Instances, EventEnds(i)
    PROVE  Inv'
<1> USE ActorFacts, BoundAssumption DEF Inv, Goto, Load, Unlock, Of, Actors, Handling, Uses,
   Holds, contexts, ends, link, list, mqtt, call, places, history
<1>1. TypeOK'
  BY DEF TypeOK, ThreadPlaces, UserPlaces, Accidents, BackInv, ContextInv, EventEnds
<1>2. ContextInv' /\ CrashesExplained'
  BY DEF TypeOK, ContextInv, ThreadInv, CrashesExplained, EventEnds
<1>3. ASSUME NEW j \in Instances PROVE ThreadInv(j)' /\ ClientInv(j)' /\ LockInv(j)'
  BY <1>3 DEF TypeOK, ContextInv, ThreadInv, CopyInv, BackInv, ClientInv, Somebody, LockInv,
     Inside, EventEnds
<1>4. ASSUME NEW x \in Actors PROVE CopyInv(x)' /\ BackInv(x)'
  BY <1>4 DEF TypeOK, ContextInv, ThreadInv, ClientInv, CopyInv, BackInv, Somebody,
     EventEnds
<1>5. ASSUME NEW j \in Instances PROVE StatusInv(j)' /\ Truth(j)'
  BY <1>5 DEF TypeOK, ContextInv, ThreadInv, BackInv, StatusInv, Truth, Connecting,
     Reporting, Somebody, EventEnds
<1> HIDE DEF Inv
<1> QED BY ONLY <1>1, <1>2, <1>3, <1>4, <1>5 DEF Inv

\* The end of the wait, of an error's handling, and of the thread.
LEMMA WaitEndsInv ==
    ASSUME Inv, ~crashed, NEW i \in Instances, WaitEnds(i)
    PROVE  Inv'
<1> USE ActorFacts, BoundAssumption DEF Inv, Goto, Load, Unlock, Of, Actors, Handling, Uses,
   Holds, contexts, ends, link, list, mqtt, call, places, history
<1>1. TypeOK'
  BY DEF TypeOK, ThreadPlaces, UserPlaces, Accidents, BackInv, ContextInv, WaitEnds, Again
<1>2. ContextInv' /\ CrashesExplained'
  BY DEF TypeOK, ContextInv, ThreadInv, CrashesExplained, WaitEnds, Again
<1>3. ASSUME NEW j \in Instances PROVE ThreadInv(j)' /\ ClientInv(j)' /\ LockInv(j)'
  BY <1>3 DEF TypeOK, ContextInv, ThreadInv, CopyInv, BackInv, ClientInv, Somebody, LockInv,
     Inside, WaitEnds, Again
<1>4. ASSUME NEW x \in Actors PROVE CopyInv(x)' /\ BackInv(x)'
  BY <1>4 DEF TypeOK, ContextInv, ThreadInv, ClientInv, CopyInv, BackInv, Somebody,
     WaitEnds, Again
<1>5. ASSUME NEW j \in Instances PROVE StatusInv(j)' /\ Truth(j)'
  BY <1>5 DEF TypeOK, ContextInv, ThreadInv, BackInv, StatusInv, Truth, Connecting,
     Reporting, Somebody, WaitEnds, Again
<1> HIDE DEF Inv
<1> QED BY ONLY <1>1, <1>2, <1>3, <1>4, <1>5 DEF Inv

LEMMA ReleaseInv ==
    ASSUME Inv, ~crashed, NEW i \in Instances, Release(i)
    PROVE  Inv'
<1> USE ActorFacts, BoundAssumption DEF Inv, Goto, Load, Unlock, Of, Actors, Handling, Uses,
   Holds, contexts, ends, link, list, mqtt, call, places, history
<1>1. TypeOK'
  BY DEF TypeOK, ThreadPlaces, UserPlaces, Accidents, BackInv, ContextInv, Release, Again
<1>2. ContextInv' /\ CrashesExplained'
  BY DEF TypeOK, ContextInv, ThreadInv, CrashesExplained, Release, Again
<1>3. ASSUME NEW j \in Instances PROVE ThreadInv(j)' /\ ClientInv(j)' /\ LockInv(j)'
  BY <1>3 DEF TypeOK, ContextInv, ThreadInv, CopyInv, BackInv, ClientInv, Somebody, LockInv,
     Inside, Release, Again
<1>4. ASSUME NEW x \in Actors PROVE CopyInv(x)' /\ BackInv(x)'
  BY <1>4 DEF TypeOK, ContextInv, ThreadInv, ClientInv, CopyInv, BackInv, Somebody, Release,
     Again
<1>5. ASSUME NEW j \in Instances PROVE StatusInv(j)' /\ Truth(j)'
  BY <1>5 DEF TypeOK, ContextInv, ThreadInv, BackInv, StatusInv, Truth, Connecting,
     Reporting, Somebody, Release, Again
<1> HIDE DEF Inv
<1> QED BY ONLY <1>1, <1>2, <1>3, <1>4, <1>5 DEF Inv

LEMMA DestroyInstanceInv ==
    ASSUME Inv, ~crashed, NEW i \in Instances, DestroyInstance(i)
    PROVE  Inv'
<1> USE ActorFacts, BoundAssumption DEF Inv, Goto, Load, Unlock, Of, Actors, Handling, Uses,
   Holds, contexts, ends, link, list, mqtt, call, places, history
<1>1. TypeOK'
  <2>1. pSubsribeList' \in [Instances -> Seq(Topics)]
    BY DEF TypeOK, DestroyInstance
  <2>2. events' \in 0 .. MaxEvents /\ told' \in [Instances -> {"nothing"} \cup Codes]
        /\ lastStatus' \in [Instances -> Codes]
    <3>1. CASE UNCHANGED <<told, lastStatus, events>>
      BY <3>1 DEF TypeOK
    <3>2. CASE Event /\ Tell(i, "error") /\ lastStatus' = [lastStatus EXCEPT ![i] = "error"]
      BY <3>2 DEF TypeOK, Event, Tell
    <3> QED BY <3>1, <3>2 DEF DestroyInstance
  <2> QED BY <2>1, <2>2 DEF TypeOK, ThreadPlaces, UserPlaces, DestroyInstance
<1>2. ContextInv' /\ CrashesExplained'
  BY DEF TypeOK, ContextInv, ThreadInv, CrashesExplained, DestroyInstance, Event, Tell
<1>3. ASSUME NEW j \in Instances PROVE ThreadInv(j)' /\ ClientInv(j)' /\ LockInv(j)'
  BY <1>3 DEF TypeOK, ContextInv, ThreadInv, CopyInv, BackInv, ClientInv, Somebody, LockInv,
     Inside, DestroyInstance, Event, Tell
<1>4. ASSUME NEW x \in Actors PROVE CopyInv(x)' /\ BackInv(x)'
  BY <1>4 DEF TypeOK, ContextInv, ThreadInv, ClientInv, CopyInv, BackInv, Somebody,
     DestroyInstance, Event, Tell
<1>5. ASSUME NEW j \in Instances PROVE StatusInv(j)' /\ Truth(j)'
  BY <1>5 DEF TypeOK, ContextInv, ThreadInv, BackInv, StatusInv, Truth, Connecting,
     Reporting, Somebody, DestroyInstance, Event, Tell
<1> HIDE DEF Inv
<1> QED BY ONLY <1>1, <1>2, <1>3, <1>4, <1>5 DEF Inv

\* OnDisconnectCallback, by whichever thread.
LEMMA NetErrorInv ==
    ASSUME Inv, ~crashed, NEW a \in Actors, NEW from, NEW resume,
           \/ a = User /\ from = "call" /\ resume = "callUnlock"
           \/ a \in Instances /\ from = "connect" /\ resume = "failed"
           \/ a \in Instances /\ from = "subscribe" /\ resume = "subscribeUnlock"
           \/ a \in Instances /\ from = "wait" /\ resume \in {"unlock", "pingLost"},
           accidents' \in SUBSET Accidents, accidents \subseteq accidents',
           resume = "pingLost" => "ping" \in accidents',
           NetError(a, from, resume)
    PROVE  Inv'
<1> USE ActorFacts, BoundAssumption DEF Inv, Goto, Load, Unlock, Of, Actors, Handling, Uses,
   Holds, contexts, ends, link, list, mqtt, call, places, history
<1>1. TypeOK'
  BY DEF TypeOK, ThreadPlaces, UserPlaces, Accidents, BackInv, ContextInv, NetError, Event
<1>2. ContextInv' /\ CrashesExplained'
  BY DEF TypeOK, ContextInv, ThreadInv, CrashesExplained, NetError, Event
<1>3. ASSUME NEW j \in Instances PROVE ThreadInv(j)' /\ ClientInv(j)' /\ LockInv(j)'
  BY <1>3 DEF TypeOK, ContextInv, ThreadInv, CopyInv, BackInv, ClientInv, Somebody, LockInv,
     Inside, NetError, Event
<1>4. ASSUME NEW x \in Actors PROVE CopyInv(x)' /\ BackInv(x)'
  BY <1>4 DEF TypeOK, ContextInv, ThreadInv, ClientInv, CopyInv, BackInv, Somebody,
     NetError, Event
<1>5. ASSUME NEW j \in Instances PROVE StatusInv(j)' /\ Truth(j)'
  BY <1>5 DEF TypeOK, ContextInv, ThreadInv, BackInv, StatusInv, Truth, Connecting,
     Reporting, Somebody, NetError, Event
<1> HIDE DEF Inv
<1> QED BY ONLY <1>1, <1>2, <1>3, <1>4, <1>5 DEF Inv

LEMMA ReportInv ==
    ASSUME Inv, ~crashed, NEW a \in Actors, Report(a)
    PROVE  Inv'
<1> USE ActorFacts, BoundAssumption DEF Inv, Goto, Load, Unlock, Of, Actors, Handling, Uses,
   Holds, contexts, ends, link, list, mqtt, call, places, history
<1>1. TypeOK'
  BY DEF TypeOK, ThreadPlaces, UserPlaces, Accidents, BackInv, ContextInv, Report, Tell
<1>2. ContextInv' /\ CrashesExplained'
  BY DEF TypeOK, ContextInv, ThreadInv, CrashesExplained, Report, Tell
<1>3. ASSUME NEW j \in Instances PROVE ThreadInv(j)' /\ ClientInv(j)' /\ LockInv(j)'
  BY <1>3 DEF TypeOK, ContextInv, ThreadInv, CopyInv, BackInv, ClientInv, Somebody, LockInv,
     Inside, Report, Tell
<1>4. ASSUME NEW x \in Actors PROVE CopyInv(x)' /\ BackInv(x)'
  BY <1>4 DEF TypeOK, ContextInv, ThreadInv, ClientInv, CopyInv, BackInv, Somebody, Report,
     Tell
<1>5. ASSUME NEW j \in Instances PROVE StatusInv(j)' /\ Truth(j)'
  BY <1>5 DEF TypeOK, ContextInv, ThreadInv, BackInv, StatusInv, Truth, Connecting,
     Reporting, Somebody, Report, Tell
<1> HIDE DEF Inv
<1> QED BY ONLY <1>1, <1>2, <1>3, <1>4, <1>5 DEF Inv

LEMMA ReportedInv ==
    ASSUME Inv, ~crashed, NEW a \in Actors, Reported(a)
    PROVE  Inv'
<1> USE ActorFacts, BoundAssumption DEF Inv, Goto, Load, Unlock, Of, Actors, Handling, Uses,
   Holds, contexts, ends, link, list, mqtt, call, places, history
<1>1. TypeOK'
  BY DEF TypeOK, ThreadPlaces, UserPlaces, Accidents, BackInv, ContextInv, Reported
<1>2. ContextInv' /\ CrashesExplained'
  BY DEF TypeOK, ContextInv, ThreadInv, CrashesExplained, Reported
<1>3. ASSUME NEW j \in Instances PROVE ThreadInv(j)' /\ ClientInv(j)' /\ LockInv(j)'
  BY <1>3 DEF TypeOK, ContextInv, ThreadInv, CopyInv, BackInv, ClientInv, Somebody, LockInv,
     Inside, Reported
<1>4. ASSUME NEW x \in Actors PROVE CopyInv(x)' /\ BackInv(x)'
  BY <1>4 DEF TypeOK, ContextInv, ThreadInv, ClientInv, CopyInv, BackInv, Somebody, Reported
<1>5. ASSUME NEW j \in Instances PROVE StatusInv(j)' /\ Truth(j)'
  BY <1>5 DEF TypeOK, ContextInv, ThreadInv, BackInv, StatusInv, Truth, Connecting,
     Reporting, Somebody, Reported
<1> HIDE DEF Inv
<1> QED BY ONLY <1>1, <1>2, <1>3, <1>4, <1>5 DEF Inv

LEMMA DisconnectInv ==
    ASSUME Inv, ~crashed, NEW a \in Actors, Disconnect(a)
    PROVE  Inv'
<1> USE ActorFacts, BoundAssumption DEF Inv, Goto, Load, Unlock, Of, Actors, Handling, Uses,
   Holds, contexts, ends, link, list, mqtt, call, places, history
<1>1. TypeOK'
  BY DEF TypeOK, ThreadPlaces, UserPlaces, Accidents, BackInv, ContextInv, Disconnect
<1>2. ContextInv' /\ CrashesExplained'
  BY DEF TypeOK, ContextInv, ThreadInv, CrashesExplained, Disconnect
<1>3. ASSUME NEW j \in Instances PROVE ThreadInv(j)' /\ ClientInv(j)' /\ LockInv(j)'
  BY <1>3 DEF TypeOK, ContextInv, ThreadInv, CopyInv, BackInv, ClientInv, Somebody, LockInv,
     Inside, Disconnect
<1>4. ASSUME NEW x \in Actors PROVE CopyInv(x)' /\ BackInv(x)'
  BY <1>4 DEF TypeOK, ContextInv, ThreadInv, ClientInv, CopyInv, BackInv, Somebody,
     Disconnect
<1>5. ASSUME NEW j \in Instances PROVE StatusInv(j)'
  <2>1. /\ connected' = [connected EXCEPT ![Of(a)] = FALSE] /\ Of(a) \in Instances
        /\ pc[a] = "disconnect" /\ UNCHANGED <<told, overlapped, lastStatus, on, back>>
    BY DEF Disconnect, CopyInv
  <2>2. CASE j = Of(a)
    <3>1. Somebody(j, Handling \ {"report"}) /\ ~connected'[j]
      BY <2>1, <2>2 DEF TypeOK, Somebody
    <3>2. Reporting(j)' => Reporting(j)
      BY <2>1, <2>2 DEF TypeOK, ContextInv, BackInv, Reporting, Disconnect
    <3>3. overlapped[j] \/ told[j] # "success"
      BY <3>1 DEF StatusInv, Somebody
    <3> QED BY <2>1, <3>1, <3>2, <3>3 DEF StatusInv, Somebody
  <2>3. CASE j # Of(a)
    <3>1. pc'[j] = pc[j] /\ connected'[j] = connected[j] /\ (on = j => pc'[User] = pc[User])
      BY <2>1, <2>3 DEF TypeOK, Disconnect
    <3> QED BY <2>1, <3>1 DEF StatusInv, Connecting, Reporting, Somebody
  <2> QED BY <2>2, <2>3
<1>6. ASSUME NEW j \in Instances PROVE Truth(j)'
  BY <1>6 DEF TypeOK, ContextInv, ThreadInv, BackInv, StatusInv, Truth, Connecting,
     Reporting, Somebody, Disconnect
<1> HIDE DEF Inv
<1> QED BY ONLY <1>1, <1>2, <1>3, <1>4, <1>5, <1>6 DEF Inv

LEMMA DinitInv ==
    ASSUME Inv, ~crashed, NEW a \in Actors, Dinit(a)
    PROVE  Inv'
<1> USE ActorFacts, BoundAssumption DEF Inv, Goto, Load, Unlock, Of, Actors, Handling, Uses,
   Holds, contexts, ends, link, list, mqtt, call, places, history
<1>1. TypeOK'
  BY DEF TypeOK, ThreadPlaces, UserPlaces, Accidents, BackInv, ContextInv, Dinit
<1>2. ContextInv' /\ CrashesExplained'
  BY DEF TypeOK, ContextInv, ThreadInv, CrashesExplained, Dinit
<1>3. ASSUME NEW j \in Instances PROVE ThreadInv(j)' /\ ClientInv(j)' /\ LockInv(j)'
  BY <1>3 DEF TypeOK, ContextInv, ThreadInv, CopyInv, BackInv, ClientInv, Somebody, LockInv,
     Inside, Dinit
<1>4. ASSUME NEW x \in Actors PROVE CopyInv(x)'
  <2>1. CASE x = a
    BY <1>4, <2>1 DEF TypeOK, ContextInv, CopyInv, Dinit
  <2>2. CASE x # a
    <3>1. pc'[x] = pc[x] /\ on' = on
      BY <2>2 DEF TypeOK, Dinit
    <3>2. CASE Of(x) = Of(a) /\ copy[x] = "live"
      <4>1. copy'[x] = "freed" /\ accidents' # {}
        BY <1>4, <2>2, <3>2 DEF TypeOK, Dinit
      <4>2. Of(x)' = Of(x) /\ mosq'[Of(x)] = "freed" /\ Of(x) \in Instances
        BY <1>4, <3>1, <3>2 DEF TypeOK, CopyInv, Dinit
      <4> QED BY <1>4, <3>1, <3>2, <4>1, <4>2 DEF CopyInv
    <3>3. CASE ~(Of(x) = Of(a) /\ copy[x] = "live")
      <4>1. copy'[x] = copy[x] /\ accidents \subseteq accidents'
        BY <1>4, <3>3 DEF TypeOK, Dinit
      <4>2. Of(x)' = Of(x) /\ (Of(x) # Of(a) => mosq'[Of(x)] = mosq[Of(x)] \/ copy[x] = "null")
            /\ (Of(x) = Of(a) /\ copy[x] # "null" => mosq'[Of(x)] = "freed")
        BY <1>4 DEF TypeOK, CopyInv, Dinit
      <4> QED BY <1>4, <3>1, <3>3, <4>1, <4>2 DEF CopyInv
    <3> QED BY <3>2, <3>3
  <2> QED BY <2>1, <2>2
<1>5. ASSUME NEW x \in Actors PROVE BackInv(x)'
  BY <1>5 DEF TypeOK, ContextInv, ThreadInv, BackInv, Dinit
<1>6. ASSUME NEW j \in Instances PROVE StatusInv(j)' /\ Truth(j)'
  BY <1>6 DEF TypeOK, ContextInv, ThreadInv, BackInv, StatusInv, Truth, Connecting,
     Reporting, Somebody, Dinit
<1> HIDE DEF Inv
<1> QED BY ONLY <1>1, <1>2, <1>3, <1>4, <1>5, <1>6 DEF Inv

LEMMA InitClientInv ==
    ASSUME Inv, ~crashed, NEW a \in Actors, InitClient(a)
    PROVE  Inv'
<1> USE ActorFacts, BoundAssumption DEF Inv, Goto, Load, Unlock, Of, Actors, Handling, Uses,
   Holds, contexts, ends, link, list, mqtt, call, places, history
<1>1. TypeOK'
  BY DEF TypeOK, ThreadPlaces, UserPlaces, Accidents, BackInv, ContextInv, InitClient
<1>2. ContextInv' /\ CrashesExplained'
  BY DEF TypeOK, ContextInv, ThreadInv, CrashesExplained, InitClient
<1>3. ASSUME NEW j \in Instances PROVE ThreadInv(j)'
  <2>1. UNCHANGED <<instance, told, isDestroying>> /\ Of(a) \in Instances
        /\ mosq' = [mosq EXCEPT ![Of(a)] = "live"] /\ mosq[Of(a)] # "null"
    BY DEF CopyInv, InitClient
  <2>2. CASE j = a
    <3>1. back[a] \in {"failed", "subscribeUnlock", "unlock", "pingLost"} /\ a # User
      BY <1>3, <2>2 DEF BackInv, InitClient
    <3>2. pc'[a] = back[a] /\ pc[a] = "init" /\ mosq'[a] = "live"
      BY <1>3, <2>1, <2>2, <3>1 DEF TypeOK, InitClient
    <3> HIDE DEF Inv
    <3>3. ThreadInv(a)
      BY <1>3, <2>2 DEF Inv
    <3> QED BY ONLY <2>1, <2>2, <3>1, <3>2, <3>3 DEF ThreadInv
  <2>3. CASE j # a
    <3>1. pc'[j] = pc[j]
      BY <2>3 DEF TypeOK, InitClient
    <3> QED BY <1>3, <2>1, <3>1 DEF TypeOK, ThreadInv
  <2> QED BY <2>2, <2>3
<1>4. ASSUME NEW j \in Instances PROVE ClientInv(j)' /\ LockInv(j)'
  BY <1>4 DEF TypeOK, ContextInv, ThreadInv, ClientInv, CopyInv, BackInv, Somebody, LockInv,
     Inside, InitClient
<1>5. ASSUME NEW x \in Actors PROVE CopyInv(x)'
  <2>1. CASE x = a
    <3>1. pc'[a] = back[a] /\ mosq'[Of(a)] = "live" /\ on' = on /\ accidents' = accidents
      BY DEF TypeOK, CopyInv, InitClient
    <3>2. CASE back[a] = "pingLost"
      BY <2>1, <3>1, <3>2 DEF TypeOK, CopyInv, BackInv, InitClient
    <3>3. CASE back[a] # "pingLost"
      <4>1. back[a] \notin Holds
        BY <3>3 DEF BackInv, InitClient
      <4>2. copy'[a] = "null"
        BY <4>1 DEF TypeOK, InitClient
      <4> QED BY <2>1, <3>1, <4>1, <4>2 DEF CopyInv
    <3> QED BY <3>2, <3>3
  <2>2. CASE x # a
    BY <1>5, <2>2 DEF TypeOK, ContextInv, CopyInv, InitClient
  <2> QED BY <2>1, <2>2
<1>6. ASSUME NEW x \in Actors PROVE BackInv(x)'
  BY <1>6 DEF TypeOK, ContextInv, ThreadInv, BackInv, InitClient
<1>7. ASSUME NEW j \in Instances PROVE StatusInv(j)' /\ Truth(j)'
  <2>1. StatusInv(j)'
    BY <1>7 DEF TypeOK, ContextInv, ThreadInv, BackInv, StatusInv, Connecting, Reporting,
       Somebody, InitClient
  <2>2. Truth(j)'
    BY <1>7 DEF TypeOK, BackInv, Truth, Somebody, InitClient
  <2> QED BY <2>1, <2>2
<1> HIDE DEF Inv
<1> QED BY ONLY <1>1, <1>2, <1>3, <1>4, <1>5, <1>6, <1>7 DEF Inv

LEMMA InitFailsInv ==
    ASSUME Inv, ~crashed, NEW a \in Actors, InitFails(a)
    PROVE  Inv'
<1> USE ActorFacts, BoundAssumption DEF Inv, Goto, Load, Unlock, Of, Actors, Handling, Uses,
   Holds, contexts, ends, link, list, mqtt, call, places, history
<1>1. TypeOK'
  BY DEF TypeOK, ThreadPlaces, UserPlaces, Accidents, BackInv, ContextInv, InitFails, Event
<1>2. ContextInv' /\ CrashesExplained'
  BY DEF TypeOK, ContextInv, ThreadInv, CrashesExplained, InitFails, Event
<1>3. ASSUME NEW j \in Instances PROVE ThreadInv(j)' /\ ClientInv(j)' /\ LockInv(j)'
  BY <1>3 DEF TypeOK, ContextInv, ThreadInv, CopyInv, BackInv, ClientInv, Somebody, LockInv,
     Inside, InitFails, Event
<1>4. ASSUME NEW x \in Actors PROVE BackInv(x)'
  BY <1>4 DEF TypeOK, ContextInv, BackInv, InitFails, Event
<1>5. ASSUME NEW x \in Actors PROVE CopyInv(x)'
  BY <1>5 DEF TypeOK, ContextInv, ThreadInv, ClientInv, CopyInv, BackInv, Somebody,
     InitFails, Event
<1>6. ASSUME NEW j \in Instances PROVE StatusInv(j)' /\ Truth(j)'
  BY <1>6 DEF TypeOK, ContextInv, ThreadInv, BackInv, StatusInv, Truth, Connecting,
     Reporting, Somebody, InitFails, Event
<1> HIDE DEF Inv
<1> QED BY ONLY <1>1, <1>2, <1>3, <1>4, <1>5, <1>6 DEF Inv

\* The user makes and destroys contexts,
LEMMA NewInv ==
    ASSUME Inv, ~crashed, NEW i \in Instances, New(i)
    PROVE  Inv'
<1> USE ActorFacts, BoundAssumption DEF Inv, Goto, Load, Unlock, Of, Actors, Handling, Uses,
   Holds, contexts, ends, link, list, mqtt, call, places, history
<1>1. TypeOK'
  <2>1. pc' \in [Actors -> ThreadPlaces \cup UserPlaces] /\ pc'[User] \in UserPlaces
        /\ \A j \in Instances : pc'[j] \in ThreadPlaces
    BY DEF TypeOK, ThreadPlaces, UserPlaces, New
  <2>2. lastStatus' \in [Instances -> Codes] /\ events' \in 0 .. MaxEvents
    BY DEF TypeOK, New, Event
  <2>3. context' \in [Instances -> {"none", "live", "freed"}]
        /\ instance' \in [Instances -> {"none", "live", "freed"}]
    BY DEF TypeOK, New
  <2> QED BY <2>1, <2>2, <2>3 DEF TypeOK, New
<1>2. ContextInv'
  <2>1. pc'[User] = "assign" /\ context'[i] = "live" /\ instance'[i] = "live" /\ ~isDestroying[i]
        /\ \A j \in Instances \ {i} : context'[j] = context[j] /\ instance'[j] = instance[j]
    BY DEF TypeOK, ContextInv, ThreadInv, New, MayMake
  <2>2. on' = i /\ UNCHANGED <<mMqttContex, isDestroying>>
    BY DEF New
  <2> QED BY <2>1, <2>2 DEF TypeOK, ContextInv
<1>3. CrashesExplained'
  BY DEF CrashesExplained, New, MayMake, Event
<1>4. ASSUME NEW j \in Instances PROVE ThreadInv(j)' /\ ClientInv(j)' /\ LockInv(j)'
  BY <1>4 DEF TypeOK, ContextInv, ThreadInv, CopyInv, BackInv, ClientInv, Somebody, LockInv,
     Inside, New, MayMake, Event
<1>5. ASSUME NEW x \in Actors PROVE CopyInv(x)' /\ BackInv(x)'
  BY <1>5 DEF TypeOK, ContextInv, ThreadInv, ClientInv, CopyInv, BackInv, Somebody, New,
     MayMake, Event
<1>6. ASSUME NEW j \in Instances PROVE StatusInv(j)' /\ Truth(j)'
  BY <1>6 DEF TypeOK, ContextInv, ThreadInv, BackInv, StatusInv, Truth, Connecting,
     Reporting, Somebody, New, MayMake, Event
<1> HIDE DEF Inv
<1> QED BY ONLY <1>1, <1>2, <1>3, <1>4, <1>5, <1>6 DEF Inv

LEMMA NewFailsInv ==
    ASSUME Inv, ~crashed, NEW i \in Instances, NewFails(i)
    PROVE  Inv'
<1> USE ActorFacts, BoundAssumption DEF Inv, Goto, Load, Unlock, Of, Actors, Handling, Uses,
   Holds, contexts, ends, link, list, mqtt, call, places, history
<1>1. TypeOK'
  BY DEF TypeOK, ThreadPlaces, UserPlaces, Accidents, BackInv, ContextInv, NewFails,
     MayMake, Event
<1>2. ContextInv' /\ CrashesExplained'
  BY DEF TypeOK, ContextInv, ThreadInv, CrashesExplained, NewFails, MayMake, Event
<1>3. ASSUME NEW j \in Instances PROVE ThreadInv(j)' /\ ClientInv(j)' /\ LockInv(j)'
  BY <1>3 DEF TypeOK, ContextInv, ThreadInv, CopyInv, BackInv, ClientInv, Somebody, LockInv,
     Inside, NewFails, MayMake, Event
<1>4. ASSUME NEW x \in Actors PROVE CopyInv(x)' /\ BackInv(x)'
  BY <1>4 DEF TypeOK, ContextInv, ThreadInv, ClientInv, CopyInv, BackInv, Somebody,
     NewFails, MayMake, Event
<1>5. ASSUME NEW j \in Instances PROVE StatusInv(j)' /\ Truth(j)'
  BY <1>5 DEF TypeOK, ContextInv, ThreadInv, BackInv, StatusInv, Truth, Connecting,
     Reporting, Somebody, NewFails, MayMake, Event
<1> HIDE DEF Inv
<1> QED BY ONLY <1>1, <1>2, <1>3, <1>4, <1>5 DEF Inv

LEMMA AssignInv ==
    ASSUME Inv, ~crashed, Assign
    PROVE  Inv'
<1> USE ActorFacts, BoundAssumption DEF Inv, Goto, Load, Unlock, Of, Actors, Handling, Uses,
   Holds, contexts, ends, link, list, mqtt, call, places, history
<1>1. TypeOK'
  BY DEF TypeOK, ThreadPlaces, UserPlaces, Accidents, BackInv, ContextInv, Assign, Return
<1>2. ContextInv' /\ CrashesExplained'
  BY DEF TypeOK, ContextInv, ThreadInv, CrashesExplained, Assign, Return
<1>3. ASSUME NEW j \in Instances PROVE ThreadInv(j)' /\ ClientInv(j)' /\ LockInv(j)'
  BY <1>3 DEF TypeOK, ContextInv, ThreadInv, CopyInv, BackInv, ClientInv, Somebody, LockInv,
     Inside, Assign, Return
<1>4. ASSUME NEW x \in Actors PROVE CopyInv(x)' /\ BackInv(x)'
  BY <1>4 DEF TypeOK, ContextInv, ThreadInv, ClientInv, CopyInv, BackInv, Somebody, Assign,
     Return
<1>5. ASSUME NEW j \in Instances PROVE StatusInv(j)' /\ Truth(j)'
  BY <1>5 DEF TypeOK, ContextInv, ThreadInv, BackInv, StatusInv, Truth, Connecting,
     Reporting, Somebody, Assign, Return
<1> HIDE DEF Inv
<1> QED BY ONLY <1>1, <1>2, <1>3, <1>4, <1>5 DEF Inv

LEMMA DestroyInv ==
    ASSUME Inv, ~crashed, NEW i \in Instances, Destroy(i)
    PROVE  Inv'
<1> USE ActorFacts, BoundAssumption DEF Inv, Goto, Load, Unlock, Of, Actors, Handling, Uses,
   Holds, contexts, ends, link, list, mqtt, call, places, history
<1>1. TypeOK'
  BY DEF TypeOK, ThreadPlaces, UserPlaces, Accidents, BackInv, ContextInv, Destroy
<1>2. ContextInv' /\ CrashesExplained'
  BY DEF TypeOK, ContextInv, ThreadInv, CrashesExplained, Destroy
<1>3. ASSUME NEW j \in Instances PROVE ThreadInv(j)' /\ ClientInv(j)' /\ LockInv(j)'
  BY <1>3 DEF TypeOK, ContextInv, ThreadInv, CopyInv, BackInv, ClientInv, Somebody, LockInv,
     Inside, Destroy
<1>4. ASSUME NEW x \in Actors PROVE CopyInv(x)' /\ BackInv(x)'
  BY <1>4 DEF TypeOK, ContextInv, ThreadInv, ClientInv, CopyInv, BackInv, Somebody, Destroy
<1>5. ASSUME NEW j \in Instances PROVE StatusInv(j)' /\ Truth(j)'
  BY <1>5 DEF TypeOK, ContextInv, ThreadInv, BackInv, StatusInv, Truth, Connecting,
     Reporting, Somebody, Destroy
<1> HIDE DEF Inv
<1> QED BY ONLY <1>1, <1>2, <1>3, <1>4, <1>5 DEF Inv

\* and calls.
LEMMA CallInv ==
    ASSUME Inv, ~crashed, NEW i \in Instances, Call(i)
    PROVE  Inv'
<1> USE ActorFacts, BoundAssumption DEF Inv, Goto, Load, Unlock, Of, Actors, Handling, Uses,
   Holds, contexts, ends, link, list, mqtt, call, places, history
<1>1. TypeOK'
  BY DEF TypeOK, ThreadPlaces, UserPlaces, Accidents, BackInv, ContextInv, Call, Calling,
     Event, Crossing
<1>2. ContextInv' /\ CrashesExplained'
  BY DEF TypeOK, ContextInv, ThreadInv, CrashesExplained, Call, Calling, Event, Crossing
<1>3. ASSUME NEW j \in Instances PROVE ThreadInv(j)' /\ ClientInv(j)' /\ LockInv(j)'
  <2>1. ThreadInv(j)' /\ ClientInv(j)'
    BY <1>3 DEF TypeOK, ThreadInv, ClientInv, Somebody, Call, Crossing
  <2>2. LockInv(j)'
    <3>1. pc' = [pc EXCEPT ![User] = "lock"] /\ pc[User] = "idle" /\ on' = i
          /\ UNCHANGED <<listMutex, back>>
      BY DEF Call
    <3>2. LockInv(j) /\ pc \in [Actors -> ThreadPlaces \cup UserPlaces]
      BY <1>3 DEF TypeOK
    <3> QED BY ONLY <1>3, <3>1, <3>2 DEF LockInv, Inside, Actors, Handling, User, Instances
  <2> QED BY <2>1, <2>2
<1>4. ASSUME NEW x \in Actors PROVE CopyInv(x)'
  <2>1. CASE x = User
    <3>1. pc'[User] = "lock" /\ copy'[User] = mosq[i] /\ on' = i /\ mosq' = mosq
      BY DEF TypeOK, Call
    <3>2. mosq[i] = "freed" => accidents' # {}
      <4> SUFFICES ASSUME mosq[i] = "freed" PROVE accidents' # {}
        OBVIOUS
      <4>1. "malloc" \in accidents \/ Somebody(i, {"init"})
        BY DEF ThreadInv, ClientInv, Call
      <4>2. CASE Somebody(i, {"init"})
        <5>1. pc[i] = "init" /\ i \in Actors \ {User}
          BY <4>2 DEF Somebody, Call
        <5>2. "crossed" \in accidents'
          BY <5>1 DEF Call, Crossing
        <5> QED BY <5>2
      <4> QED BY <4>1, <4>2 DEF Call
    <3>3. copy'[User] # "null" => i \in Instances /\ mosq'[i] # "null"
      BY <3>1
    <3> QED BY <2>1, <3>1, <3>2, <3>3 DEF CopyInv
  <2>2. CASE x # User
    BY <1>4, <2>2 DEF TypeOK, CopyInv, Call
  <2> QED BY <2>1, <2>2
<1>5. ASSUME NEW x \in Actors PROVE BackInv(x)'
  BY <1>5 DEF TypeOK, ContextInv, ThreadInv, BackInv, Call, Calling, Event, Crossing
<1>6. ASSUME NEW j \in Instances PROVE StatusInv(j)' /\ Truth(j)'
  BY <1>6 DEF TypeOK, ContextInv, ThreadInv, BackInv, StatusInv, Truth, Connecting,
     Reporting, Somebody, Call, Calling, Event, Crossing
<1> HIDE DEF Inv
<1> QED BY ONLY <1>1, <1>2, <1>3, <1>4, <1>5, <1>6 DEF Inv

LEMMA SentInv ==
    ASSUME Inv, ~crashed, Sent
    PROVE  Inv'
<1> USE ActorFacts, BoundAssumption DEF Inv, Goto, Load, Unlock, Of, Actors, Handling, Uses,
   Holds, contexts, ends, link, list, mqtt, call, places, history
<1>1. TypeOK'
  BY DEF TypeOK, ThreadPlaces, UserPlaces, Accidents, BackInv, ContextInv, Sent, Return,
     Event
<1>2. ContextInv' /\ CrashesExplained'
  BY DEF TypeOK, ContextInv, ThreadInv, CrashesExplained, Sent, Return, Event
<1>3. ASSUME NEW j \in Instances PROVE ThreadInv(j)' /\ ClientInv(j)' /\ LockInv(j)'
  BY <1>3 DEF TypeOK, ContextInv, ThreadInv, CopyInv, BackInv, ClientInv, Somebody, LockInv,
     Inside, Sent, Return, Event
<1>4. ASSUME NEW x \in Actors PROVE CopyInv(x)' /\ BackInv(x)'
  BY <1>4 DEF TypeOK, ContextInv, ThreadInv, ClientInv, CopyInv, BackInv, Somebody, Sent,
     Return, Event
<1>5. ASSUME NEW j \in Instances PROVE StatusInv(j)' /\ Truth(j)'
  BY <1>5 DEF TypeOK, ContextInv, ThreadInv, BackInv, StatusInv, Truth, Connecting,
     Reporting, Somebody, Sent, Return, Event
<1> HIDE DEF Inv
<1> QED BY ONLY <1>1, <1>2, <1>3, <1>4, <1>5 DEF Inv

LEMMA SubscribedInv ==
    ASSUME Inv, ~crashed, Subscribed
    PROVE  Inv'
<1> USE ActorFacts, BoundAssumption DEF Inv, Goto, Load, Unlock, Of, Actors, Handling, Uses,
   Holds, contexts, ends, link, list, mqtt, call, places, history
<1>1. TypeOK'
  BY DEF TypeOK, ThreadPlaces, UserPlaces, Accidents, BackInv, ContextInv, Subscribed,
     Return
<1>2. ContextInv' /\ CrashesExplained'
  BY DEF TypeOK, ContextInv, ThreadInv, CrashesExplained, Subscribed, Return
<1>3. ASSUME NEW j \in Instances PROVE ThreadInv(j)' /\ ClientInv(j)' /\ LockInv(j)'
  BY <1>3 DEF TypeOK, ContextInv, ThreadInv, CopyInv, BackInv, ClientInv, Somebody, LockInv,
     Inside, Subscribed, Return
<1>4. ASSUME NEW x \in Actors PROVE CopyInv(x)' /\ BackInv(x)'
  BY <1>4 DEF TypeOK, ContextInv, ThreadInv, ClientInv, CopyInv, BackInv, Somebody,
     Subscribed, Return
<1>5. ASSUME NEW j \in Instances PROVE StatusInv(j)' /\ Truth(j)'
  BY <1>5 DEF TypeOK, ContextInv, ThreadInv, BackInv, StatusInv, Truth, Connecting,
     Reporting, Somebody, Subscribed, Return
<1> HIDE DEF Inv
<1> QED BY ONLY <1>1, <1>2, <1>3, <1>4, <1>5 DEF Inv

LEMMA UnsubscribedInv ==
    ASSUME Inv, ~crashed, Unsubscribed
    PROVE  Inv'
<1> USE ActorFacts, BoundAssumption DEF Inv, Goto, Load, Unlock, Of, Actors, Handling, Uses,
   Holds, contexts, ends, link, list, mqtt, call, places, history
<1>1. TypeOK'
  BY DEF TypeOK, ThreadPlaces, UserPlaces, Accidents, BackInv, ContextInv, Unsubscribed
<1>2. ContextInv' /\ CrashesExplained'
  BY DEF TypeOK, ContextInv, ThreadInv, CrashesExplained, Unsubscribed
<1>3. ASSUME NEW j \in Instances PROVE ThreadInv(j)' /\ ClientInv(j)' /\ LockInv(j)'
  BY <1>3 DEF TypeOK, ContextInv, ThreadInv, CopyInv, BackInv, ClientInv, Somebody, LockInv,
     Inside, Unsubscribed
<1>4. ASSUME NEW x \in Actors PROVE CopyInv(x)' /\ BackInv(x)'
  BY <1>4 DEF TypeOK, ContextInv, ThreadInv, ClientInv, CopyInv, BackInv, Somebody,
     Unsubscribed
<1>5. ASSUME NEW j \in Instances PROVE StatusInv(j)' /\ Truth(j)'
  BY <1>5 DEF TypeOK, ContextInv, ThreadInv, BackInv, StatusInv, Truth, Connecting,
     Reporting, Somebody, Unsubscribed
<1> HIDE DEF Inv
<1> QED BY ONLY <1>1, <1>2, <1>3, <1>4, <1>5 DEF Inv

LEMMA DeleteNodeInv ==
    ASSUME Inv, ~crashed, DeleteNode
    PROVE  Inv'
<1> USE ActorFacts, BoundAssumption DEF Inv, Goto, Load, Unlock, Of, Actors, Handling, Uses,
   Holds, contexts, ends, link, list, mqtt, call, places, history
<1>1. TypeOK'
  BY DEF TypeOK, ThreadPlaces, UserPlaces, Accidents, BackInv, ContextInv, DeleteNode,
     Return
<1>2. ContextInv' /\ CrashesExplained'
  BY DEF TypeOK, ContextInv, ThreadInv, CrashesExplained, DeleteNode, Return
<1>3. ASSUME NEW j \in Instances PROVE ThreadInv(j)' /\ ClientInv(j)' /\ LockInv(j)'
  BY <1>3 DEF TypeOK, ContextInv, ThreadInv, CopyInv, BackInv, ClientInv, Somebody, LockInv,
     Inside, DeleteNode, Return
<1>4. ASSUME NEW x \in Actors PROVE CopyInv(x)' /\ BackInv(x)'
  BY <1>4 DEF TypeOK, ContextInv, ThreadInv, ClientInv, CopyInv, BackInv, Somebody,
     DeleteNode, Return
<1>5. ASSUME NEW j \in Instances PROVE StatusInv(j)' /\ Truth(j)'
  BY <1>5 DEF TypeOK, ContextInv, ThreadInv, BackInv, StatusInv, Truth, Connecting,
     Reporting, Somebody, DeleteNode, Return
<1> HIDE DEF Inv
<1> QED BY ONLY <1>1, <1>2, <1>3, <1>4, <1>5 DEF Inv

LEMMA CallUnlockInv ==
    ASSUME Inv, ~crashed, CallUnlock
    PROVE  Inv'
<1> USE ActorFacts, BoundAssumption DEF Inv, Goto, Load, Unlock, Of, Actors, Handling, Uses,
   Holds, contexts, ends, link, list, mqtt, call, places, history
<1>1. TypeOK'
  BY DEF TypeOK, ThreadPlaces, UserPlaces, Accidents, BackInv, ContextInv, CallUnlock,
     Return
<1>2. ContextInv' /\ CrashesExplained'
  BY DEF TypeOK, ContextInv, ThreadInv, CrashesExplained, CallUnlock, Return
<1>3. ASSUME NEW j \in Instances PROVE ThreadInv(j)' /\ ClientInv(j)' /\ LockInv(j)'
  BY <1>3 DEF TypeOK, ContextInv, ThreadInv, CopyInv, BackInv, ClientInv, Somebody, LockInv,
     Inside, CallUnlock, Return
<1>4. ASSUME NEW x \in Actors PROVE CopyInv(x)' /\ BackInv(x)'
  BY <1>4 DEF TypeOK, ContextInv, ThreadInv, ClientInv, CopyInv, BackInv, Somebody,
     CallUnlock, Return
<1>5. ASSUME NEW j \in Instances PROVE StatusInv(j)' /\ Truth(j)'
  BY <1>5 DEF TypeOK, ContextInv, ThreadInv, BackInv, StatusInv, Truth, Connecting,
     Reporting, Somebody, CallUnlock, Return
<1> HIDE DEF Inv
<1> QED BY ONLY <1>1, <1>2, <1>3, <1>4, <1>5 DEF Inv
-------------------------------------------------------------------------------
\* The steps that end the program.

\* They change nothing, so that their cause is still there.
LEMMA CrashInv ==
    ASSUME Inv, NEW accident \in SUBSET Accidents, Crash(accident),
           \/ ContextFreed \/ (pc[User] = "assign" /\ mMqttContex = None)
           \/ \E i \in Instances : StartFailed(i)
           \/ accidents \cup accident # {}
    PROVE  Inv'
<1> USE DEF Crash, contexts, ends, link, list, mqtt, call, places, history, Of
<1>1. TypeOK'
  BY DEF Inv, TypeOK
<1>2. ContextInv' /\ CrashesExplained'
  BY DEF Inv, ContextInv, CrashesExplained, ContextFreed, StartFailed
<1>3. ASSUME NEW i \in Instances
      PROVE  ThreadInv(i)' /\ ClientInv(i)' /\ StatusInv(i)' /\ Truth(i)' /\ LockInv(i)'
  BY <1>3 DEF Inv, ThreadInv, ClientInv, StatusInv, Truth, LockInv, Inside, Somebody,
     Connecting, Reporting
<1>4. ASSUME NEW a \in Actors PROVE CopyInv(a)' /\ BackInv(a)'
  BY <1>4 DEF Inv, CopyInv, BackInv
<1> QED BY <1>1, <1>2, <1>3, <1>4 DEF Inv

\* A callback has no context.
LEMMA ContextCrash ==
    ASSUME Inv, mMqttContex # None, context[mMqttContex] # "live"
    PROVE  ContextFreed
BY DEF Inv, TypeOK, ContextInv, ContextFreed

\* What has become of a client that is not there.
LEMMA NoClient ==
    ASSUME Inv, NEW i \in Instances, mosq[i] # "live"
    PROVE  \/ pc[i] \in {"none", "start", "startFailed", "ended"}
           \/ "malloc" \in accidents \/ Somebody(i, {"init"})
BY DEF Inv, TypeOK, ThreadInv, ClientInv

\* The user's instance can be gone because its thread could not start.
LEMMA InstanceGone ==
    ASSUME Inv, NEW i \in Instances, context[i] = "live",
           instance[i] = "freed" \/ pc[i] = "startFailed"
    PROVE  StartFailed(i)
BY DEF Inv, ContextInv, ThreadInv, StartFailed

LEMMA UseFreedInv ==
    ASSUME Inv, NEW a \in Actors, UseFreed(a)
    PROVE  Inv'
<1>1. accidents # {}
  BY DEF Inv, CopyInv, UseFreed, Uses
<1> QED BY <1>1, CrashInv DEF UseFreed

LEMMA DisconnectCrash ==
    ASSUME Inv, NEW a \in Actors, DisconnectNested(a) \/ DisconnectFreed(a)
    PROVE  Inv'
<1>1. CASE DisconnectNested(a)
  BY <1>1, CrashInv DEF DisconnectNested, Accidents
<1>2. CASE DisconnectFreed(a)
  <2>1. pc[a] \in {"disconnect", "dinit"} /\ mosq[Of(a)] # "live" /\ Crash({})
    BY <1>2 DEF DisconnectFreed
  <2>2. copy[a] = "freed"
    BY <2>1 DEF Inv, TypeOK, CopyInv, Handling
  <2>3. accidents # {}
    BY <2>1, <2>2 DEF Inv, CopyInv
  <2> QED BY <2>1, <2>3, CrashInv
<1> QED BY <1>1, <1>2

\* A message is harmless, or its context is not there.
LEMMA MessageInv ==
    ASSUME Inv, NEW a \in Actors, Message(a)
    PROVE  Inv' \/ UNCHANGED vars
<1>1. CASE Crash({}) /\ mMqttContex = None
  <2>1. Of(a) \in Instances /\ mosq[Of(a)] = "live"
    BY DEF Inv, CopyInv, Message
  <2>2. pc[User] = "assign"
    BY <1>1, <2>1 DEF Inv, ContextInv, ThreadInv
  <2> QED BY <1>1, <2>2, CrashInv
<1>2. CASE Crash({}) /\ mMqttContex # None /\ context[mMqttContex] # "live"
  BY <1>2, ContextCrash, CrashInv
<1> QED BY <1>1, <1>2 DEF Message, OnMessage

LEMMA ThreadCrash ==
    ASSUME Inv, NEW i \in Instances, LoadFreed(i) \/ OnEventFreed(i)
    PROVE  Inv'
<1>1. CASE LoadFreed(i)
  <2>1. "malloc" \in accidents \/ Somebody(i, {"init"})
    BY <1>1, NoClient DEF LoadFreed
  <2>2. "malloc" \in accidents \/ Crossing(i, i) = {"crossed"}
    BY <1>1, <2>1, ActorFacts DEF LoadFreed, Somebody, Crossing, Of, Actors
  <2>3. Crossing(i, i) \in SUBSET Accidents /\ Crash(Crossing(i, i))
    BY <1>1 DEF LoadFreed, Crossing, Accidents
  <2> QED BY <2>2, <2>3, CrashInv
<1>2. CASE OnEventFreed(i)
  BY <1>2, CrashInv DEF OnEventFreed, ContextFreed
<1> QED BY <1>1, <1>2

LEMMA UserCrash ==
    ASSUME Inv, CallFreed \/ \E i \in Instances : DestroyFreed(i) \/ CallNothing(i)
    PROVE  Inv'
<1>1. CASE CallFreed
  <2>1. on \in Instances /\ StartFailed(on)
    BY <1>1, InstanceGone DEF Inv, ContextInv, CallFreed
  <2> QED BY <1>1, <2>1, CrashInv DEF CallFreed
<1>2. ASSUME NEW i \in Instances, DestroyFreed(i)
      PROVE  Inv'
  BY <1>2, InstanceGone, CrashInv DEF DestroyFreed
<1>3. ASSUME NEW i \in Instances, CallNothing(i)
      PROVE  Inv'
  <2> DEFINE accident == Crossing(User, i) \cup IF told[i] = "nothing" THEN {"hasty"} ELSE {}
  <2>1. /\ pc[User] = "idle" /\ context[i] = "live" /\ Crash(accident)
        /\ instance[i] = "freed" \/ mosq[i] # "live"
    BY <1>3 DEF CallNothing, Calling
  <2>2. accident \in SUBSET Accidents
    BY DEF Crossing, Accidents
  <2>3. CASE instance[i] = "freed" \/ pc[i] \in {"startFailed", "ended"}
    <3>1. StartFailed(i)
      BY <2>1, <2>3, InstanceGone DEF Inv, ThreadInv
    <3> HIDE DEF accident
    <3> QED BY <2>1, <2>2, <3>1, CrashInv
  <2>4. CASE pc[i] \in {"none", "start"}
    <3>1. "hasty" \in accident
      BY <2>4 DEF Inv, ThreadInv
    <3> HIDE DEF accident
    <3> QED BY <2>1, <2>2, <3>1, CrashInv
  <2>5. CASE "malloc" \in accidents
    <3> HIDE DEF accident
    <3> QED BY <2>1, <2>2, <2>5, CrashInv
  <2>6. CASE Somebody(i, {"init"})
    <3>1. pc[i] = "init" /\ i \in Actors \ {User} /\ Of(i) = i
      BY <2>1, <2>6, ActorFacts DEF Somebody, Actors, Of
    <3>2. "crossed" \in accident
      BY <3>1 DEF Crossing
    <3> HIDE DEF accident
    <3> QED BY <2>1, <2>2, <3>2, CrashInv
  <2> QED BY <2>1, <2>3, <2>4, <2>5, <2>6, NoClient
<1> QED BY <1>1, <1>2, <1>3

-------------------------------------------------------------------------------
LEMMA CallbackInv ==
    ASSUME Inv, ~crashed, NEW a \in Actors, Callback(a)
    PROVE  Inv'
BY ReportInv, ReportedInv, DisconnectInv, DisconnectCrash, DinitInv, InitClientInv,
   InitFailsInv DEF Callback

\* The errors of the calls, with what the ping's leaves behind.
LEMMA ErrorInv ==
    ASSUME Inv, ~crashed, CallError \/ \E i \in Instances : Error(i) \/ PingError(i)
    PROVE  Inv'
<1>1. accidents \in SUBSET Accidents /\ User \in Actors /\ Instances \subseteq Actors
  BY DEF Inv, TypeOK, Actors
<1>2. CASE CallError
  BY <1>1, <1>2, NetErrorInv DEF CallError
<1>3. ASSUME NEW i \in Instances, Error(i)
      PROVE  Inv'
  BY <1>1, <1>3, NetErrorInv DEF Error
<1>4. ASSUME NEW i \in Instances, PingError(i)
      PROVE  Inv'
  <2>1. /\ accidents' \in SUBSET Accidents /\ accidents \subseteq accidents'
        /\ "ping" \in accidents' /\ NetError(i, "wait", "pingLost")
    BY <1>1, <1>4 DEF PingError, Accidents
  <2> QED BY <1>1, <2>1, NetErrorInv
<1> QED BY <1>2, <1>3, <1>4

LEMMA NextInv == Inv /\ [Next]_vars => Inv'
<1> SUFFICES ASSUME Inv, [Next]_vars
             PROVE  Inv'
  OBVIOUS
<1>1. CASE UNCHANGED vars
  <2> USE <1>1 DEF vars, contexts, ends, link, list, mqtt, call, places, history, Of
  <2>1. TypeOK' /\ ContextInv' /\ CrashesExplained'
    BY DEF Inv, TypeOK, ContextInv, CrashesExplained, ContextFreed, StartFailed
  <2>2. ASSUME NEW i \in Instances
        PROVE  ThreadInv(i)' /\ ClientInv(i)' /\ StatusInv(i)' /\ Truth(i)' /\ LockInv(i)'
    BY <2>2 DEF Inv, ThreadInv, ClientInv, StatusInv, Truth, LockInv, Inside, Somebody,
       Connecting, Reporting
  <2>3. ASSUME NEW a \in Actors PROVE CopyInv(a)' /\ BackInv(a)'
    BY <2>3 DEF Inv, CopyInv, BackInv
  <2> QED BY <2>1, <2>2, <2>3 DEF Inv
<1>2. User \in Actors /\ Instances \subseteq Actors
  BY DEF Actors
<1>3. ASSUME NEW i \in Instances, Thread(i), ~crashed
      PROVE  Inv'
  <2>1. i \in Actors
    BY <1>2
  <2>2. CASE Acquire(i, "subscribeLock", "subscribe") \/ Acquire(i, "waitLock", "wait")
    BY <1>3, <2>1, <2>2, AcquireInv
  <2>3. CASE Error(i) \/ PingError(i)
    BY <1>3, <2>3, ErrorInv
  <2>4. CASE UseFreed(i) \/ Callback(i) \/ Message(i)
    BY <1>1, <1>3, <2>1, <2>4, UseFreedInv, CallbackInv, MessageInv
  <2>5. CASE LoadFreed(i) \/ OnEventFreed(i)
    BY <2>5, ThreadCrash
  <2> QED BY <1>3, <2>2, <2>3, <2>4, <2>5, StartInv, StartFailsInv, StartDestroysInv,
          ConnectedInv, TakeInv, ConnectSucceedsInv, ConnectFailsInv, FailedInv,
          FailedToldInv, OnEventInv, NoSessionInv, SubscribeInv, EventEndsInv, WaitEndsInv,
          ReleaseInv, DestroyInstanceInv DEF Thread
<1>4. ASSUME UserCalls, ~crashed
      PROVE  Inv'
  <2>1. CASE UseFreed(User) \/ Callback(User) \/ Message(User)
    BY <1>1, <1>2, <1>4, <2>1, UseFreedInv, CallbackInv, MessageInv
  <2>2. CASE Acquire(User, "lock", "call")
    BY <1>2, <1>4, <2>2, AcquireInv
  <2> QED BY <1>4, <2>1, <2>2, UserCrash, ErrorInv, AssignInv, SentInv, SubscribedInv,
          UnsubscribedInv, DeleteNodeInv, CallUnlockInv DEF UserCalls
<1>5. ASSUME NEW i \in Instances, ~crashed,
             New(i) \/ NewFails(i) \/ Destroy(i) \/ DestroyFreed(i) \/ Call(i) \/ CallNothing(i)
      PROVE  Inv'
  BY <1>5, NewInv, NewFailsInv, DestroyInv, CallInv, UserCrash
<1> QED BY <1>1, <1>3, <1>4, <1>5 DEF Next

\* The invariant holds in every reachable state: who has a copy of which client and what
\* it is worth, who is inside listMutex, and how the last report agrees with the
\* connection, through every order of the threads' steps.
THEOREM Inductive == Spec => []Inv
BY InitInv, NextInv, PTL DEF Spec

\* The types, for any number of instances.
THEOREM TypeCorrect == Spec => []TypeOK
<1>1. Inv => TypeOK
  BY DEF Inv
<1> QED BY <1>1, Inductive, PTL

\* What OnEvent was last told of an instance is so, although errors are reported once
\* and lastStatus is set after the report, unless one error overlapped with the report
\* of a success.
THEOREM EventsAreTrue == Spec => []ToldTheTruth
<1>1. Inv => ToldTheTruth
  BY DEF Inv, Truth, ToldTheTruth
<1> QED BY <1>1, Inductive, PTL

\* Only the named circumstances can make the program follow what is freed or not there,
\* with copies of mosq that outlive it and clients that are replaced by two threads.
THEOREM CrashesHaveCauses == Spec => []CrashesExplained
<1>1. Inv => CrashesExplained
  BY DEF Inv
<1> QED BY <1>1, Inductive, PTL

-------------------------------------------------------------------------------
\* Who waits for whom.

\* Whoever waits for listMutex waits for another thread that has it for the same instance:
\* one that waits for the network, handles an error it met there, or is in DeleteNode, and
\* not one that waits for a lock itself.
WaitsForTheBusy ==
    \A a \in Actors :
        pc[a] \in {"subscribeLock", "waitLock", "lock"} =>
            \/ listMutex[Of(a)] = Free
            \/ \E b \in Actors \ {a} : listMutex[Of(a)] = b /\ Of(b) = Of(a) /\ Inside(b)

\* An instance's thread and its user never wait for each other in a circle, although
\* both hold listMutex for 500 ms at a time and handle lost connections meanwhile.
THEOREM NoCircle == Spec => []WaitsForTheBusy
<1>1. Inv => WaitsForTheBusy
  <2> SUFFICES ASSUME Inv, NEW a \in Actors, pc[a] \in {"subscribeLock", "waitLock", "lock"}
               PROVE  \/ listMutex[Of(a)] = Free
                      \/ \E b \in Actors \ {a} : listMutex[Of(a)] = b /\ Of(b) = Of(a) /\ Inside(b)
    BY DEF WaitsForTheBusy
  <2>1. Of(a) \in Instances /\ ~Inside(a)
    BY ActorFacts DEF Inv, TypeOK, ContextInv, ThreadPlaces, UserPlaces, Actors, Of, Inside,
       Handling
  <2>2. LockInv(Of(a))
    BY <2>1 DEF Inv
  <2>3. CASE listMutex[Of(a)] = Of(a)
    <3>1. Of(a) \in Actors /\ Of(Of(a)) = Of(a) /\ Inside(Of(a))
      BY <2>1, <2>2, <2>3, ActorFacts DEF LockInv, Actors, Of
    <3> QED BY <2>1, <2>3, <3>1
  <2>4. CASE listMutex[Of(a)] = User
    <3>1. User \in Actors /\ Of(User) = Of(a) /\ Inside(User)
      BY <2>2, <2>4 DEF LockInv, Actors, Of
    <3> QED BY <2>1, <2>4, <3>1
  <2> QED BY <2>2, <2>3, <2>4 DEF LockInv
<1> QED BY <1>1, Inductive, PTL

\* Nothing ends a DeleteNode that has no end: no message, no lost connection, and no
\* destruction, which only the user could call.  The thread does not get past listMutex
\* again.
HungForGood ==
    [][\A i \in Instances :
            Hung(i) => Hung(i)' /\ (pc[i] \in {"subscribeLock", "waitLock"} => pc'[i] = pc[i])]_vars

\* Once DeleteNode has met another topic first, its instance is silent for good.
THEOREM HangStays == Spec => HungForGood
<1> DEFINE Stays == \A i \in Instances :
        Hung(i) => Hung(i)' /\ (pc[i] \in {"subscribeLock", "waitLock"} => pc'[i] = pc[i])
<1>1. ASSUME Inv, Next
      PROVE  Stays
  <2> SUFFICES ASSUME NEW i \in Instances, Hung(i)
               PROVE  Hung(i)' /\ (pc[i] \in {"subscribeLock", "waitLock"} => pc'[i] = pc[i])
    OBVIOUS
  <2> USE DEF Goto, Load, contexts, ends, link, list, mqtt, call, places, history, Crash
  <2>1. /\ pc[User] = "delete" /\ on = i /\ context[i] = "live"
        /\ pSubsribeList[i] # <<>> /\ Head(pSubsribeList[i]) # topic
        /\ pc[i] \notin {"subscribe", "destroy"} /\ listMutex[i] = User
    BY <1>1, ActorFacts DEF Inv, ContextInv, ThreadInv, LockInv, Inside, Hung
  <2>2. PICK j \in Instances : Thread(j)
    <3>1. \A to : ~Goto(User, "call", to)
      BY <2>1
    <3> QED BY <1>1, <2>1, <3>1
        DEF Next, UserCalls, New, NewFails, Destroy, DestroyFreed, Call, CallNothing, Assign,
            Acquire, CallFreed, Sent, Subscribed, Unsubscribed, CallError, NetError,
            DeleteNode, CallUnlock, UseFreed, Uses, Callback, Report, Reported, Disconnect,
            DisconnectNested, DisconnectFreed, Dinit, InitClient, InitFails, Message
  <2> USE DEF Thread, Start, StartFails, StartDestroys, Connected, Take, LoadFreed,
              ConnectSucceeds, ConnectFails, Failed, FailedTold, OnEvent, OnEventFreed,
              NoSession, Acquire, Subscribe, EventEnds, WaitEnds, PingError, Release,
              DestroyInstance, Error, NetError, UseFreed, Callback, Report, Reported,
              Disconnect, DisconnectNested, DisconnectFreed, Dinit, InitClient, InitFails,
              Message, OnMessage, vars
  <2>3. UNCHANGED <<on, topic>> /\ pc'[User] = pc[User]
    BY <1>1, <2>2, ActorFacts DEF Inv, TypeOK, Actors
  <2>4. pSubsribeList'[i] = pSubsribeList[i]
    BY <1>1, <2>1, <2>2 DEF Inv, TypeOK
  <2>5. pc[i] \in {"subscribeLock", "waitLock"} => pc'[i] = pc[i]
    BY <1>1, <2>1, <2>2, ActorFacts DEF Inv, TypeOK, Of, Actors, Handling, Uses
  <2> QED BY <2>1, <2>3, <2>4, <2>5 DEF Hung
<1>2. Inv /\ [Next]_vars => [Stays]_vars
  BY <1>1
<1> QED BY <1>2, Inductive, PTL DEF Spec, HungForGood
================================================================================
