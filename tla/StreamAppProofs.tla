----------------------------- MODULE StreamAppProofs -----------------------------
(***************************************************************************)
(* Proofs about StreamApp, for every set of capture threads, every camera  *)
(* that satisfies CameraAssumption and any number of failures.             *)
(*                                                                         *)
(* What makes the properties inductive: the holder of app.mutex is the     *)
(* only thread inside a callback; app.pContext is NULL or the one context  *)
(* of the SDK, except between RtmpDestroy and RtmpNewContext; and a        *)
(* context whose restart flag is down has been configured.                 *)
(***************************************************************************)
EXTENDS StreamApp, TLAPS

\* The holder of app.mutex, and nobody else, is inside its callback.
Locked == \A t \in Captures : pc[t] \in Inside <=> mutex = t

\* app.pContext: the SDK's one context or NULL, dangling in between only.
Contexts ==
    /\ sdk \subseteq {pContext} /\ conn \subseteq sdk
    /\ heap = sdk \cup lost
    /\ pContext \notin lost
    /\ \A t \in Captures : pc[t] \in {"sending", "connecting"} => pContext # Null
    /\ IF \E t \in Captures : pc[t] = "destroyed"
       THEN sdk = {}
       ELSE pContext = Null \/ pContext \in sdk

\* A restart flag that is down stands for a configuration that is there.
Configured ==
    /\ pContext \in sdk =>
        /\ pContext \in nVideoRestart \/ pContext \in sps \cap pps
        /\ pContext \in nAudioRestart \/ pContext \in aac
    /\ \A t \in Captures : pc[t] = "sending" =>
        /\ t \in VideoThreads /\ frame[t].key => pContext \in sps \cap pps
        /\ t \in AudioThreads => pContext \in aac

\* After a stop, a thread that has sent a frame has none left.
Late == \A t \in Captures :
    /\ late[t] <= 1
    /\ nStreamSts = "STOPED" /\ pc[t] \in {"waiting", "locked"} => late[t] = 0

IInv == TypeOK /\ Locked /\ Contexts /\ Configured /\ Late

\* IInv holds when the first capture thread starts.
LEMMA InitIInv == Init => IInv
<1> SUFFICES ASSUME Init PROVE IInv
  OBVIOUS
<1> USE DEF Init, Null
<1>1. TypeOK
  BY BoundAssumption DEF TypeOK, Places
<1>2. Locked
  BY ThreadAssumption DEF Locked, Inside, Places
<1>3. Contexts
  BY DEF Contexts
<1>4. Configured
  BY DEF Configured
<1>5. Late
  BY DEF Late
<1> QED BY <1>1, <1>2, <1>3, <1>4, <1>5 DEF IInv

\* Every step keeps the types.
LEMMA TypeStep ==
    ASSUME TypeOK, Contexts, [Next]_vars
    PROVE  TypeOK'
<1> USE BoundAssumption, ThreadAssumption, CameraAssumption DEF Null, flags, config, contexts, threads, TypeOK, Places
<1>1. CASE Start
  BY <1>1 DEF Start
<1>2. CASE Stop
  BY <1>2 DEF Stop
<1>3. ASSUME NEW t \in Captures, Capture(t) PROVE TypeOK'
  BY <1>3 DEF Capture, CaptureFrame, Take, Goto
<1>4. ASSUME NEW t \in Captures, Lock(t) PROVE TypeOK'
  BY <1>4 DEF Lock, Goto
<1>5. ASSUME NEW t \in Captures, InCallback(t) PROVE TypeOK'
  <2>1. CASE SendNothing(t)
    BY <2>1 DEF SendNothing, Goto
  <2>2. CASE SendVideo(t)
    BY <2>2 DEF SendVideo, CountLate, Goto
  <2>3. CASE SendAudio(t)
    BY <2>3 DEF SendAudio, ConfigureAudio, CountLate, Goto
  <2>4. CASE NothingToSend(t)
    <3>1. faults' \in 0 .. MaxFaults /\ pc' \in [Captures -> Places]
      BY <2>4 DEF NothingToSend, Fault, Goto
    <3>2. CASE ConfigureAudio
      BY <2>4, <3>1, <3>2 DEF NothingToSend, ConfigureAudio
    <3>3. CASE UNCHANGED contexts
      BY <2>4, <3>1, <3>3 DEF NothingToSend
    <3> QED BY <2>4, <3>2, <3>3 DEF NothingToSend
  <2>5. CASE SendSucceeds(t)
    BY <2>5 DEF SendSucceeds, Unlock, Goto
  <2>6. CASE SendFails(t)
    BY <2>6 DEF SendFails, Fault, Goto
  <2>7. CASE Destroy(t)
    BY <2>7 DEF Destroy, Goto
  <2>8. CASE NewContext(t)
    BY <2>8 DEF NewContext, Goto
  <2>9. CASE NewContextFails(t)
    <3>1. faults' \in 0 .. MaxFaults /\ pc' \in [Captures -> Places]
      BY <2>9 DEF NewContextFails, Fault, Unlock, Goto
    <3>2. CASE UNCHANGED <<made, heap, lost>>
      BY <2>9, <3>1, <3>2 DEF NewContextFails, Unlock
    <3>3. CASE /\ made' = made + 1 /\ heap' = heap \cup {made'}
               /\ lost' = lost \cup {made'}
      BY <2>9, <3>1, <3>3 DEF NewContextFails, Unlock
    <3> QED BY <2>9, <3>2, <3>3 DEF NewContextFails
  <2>10. CASE Connect(t)
    BY <2>10 DEF Connect, Unlock, Goto, Contexts
  <2>11. CASE ConnectFails(t)
    BY <2>11 DEF ConnectFails, Fault, Unlock, Goto
  <2> QED BY <1>5, <2>1, <2>2, <2>3, <2>4, <2>5, <2>6, <2>7, <2>8, <2>9, <2>10, <2>11 DEF InCallback
<1>6. CASE UNCHANGED vars
  BY <1>6 DEF vars
<1> QED BY <1>1, <1>2, <1>3, <1>4, <1>5, <1>6 DEF Next

\* Only a lock lets a thread inside and only an unlock lets it out.
LEMMA LockedStep ==
    ASSUME TypeOK, Locked, [Next]_vars
    PROVE  Locked'
<1> USE BoundAssumption, ThreadAssumption, CameraAssumption DEF Null, flags, config, contexts, threads, TypeOK, Locked, Inside, Places
<1>1. CASE Start
  BY <1>1 DEF Start
<1>2. CASE Stop
  BY <1>2 DEF Stop
<1>3. ASSUME NEW t \in Captures, Capture(t) PROVE Locked'
  BY <1>3 DEF Capture, CaptureFrame, Take, Goto
<1>4. ASSUME NEW t \in Captures, Lock(t) PROVE Locked'
  BY <1>4 DEF Lock, Goto
<1>5. ASSUME NEW t \in Captures, InCallback(t) PROVE Locked'
  <2>1. CASE SendNothing(t)
    BY <2>1 DEF SendNothing, Goto
  <2>2. CASE SendVideo(t)
    BY <2>2 DEF SendVideo, CountLate, Goto
  <2>3. CASE SendAudio(t)
    BY <2>3 DEF SendAudio, ConfigureAudio, CountLate, Goto
  <2>4. CASE NothingToSend(t)
    BY <2>4 DEF NothingToSend, ConfigureAudio, Fault, Goto
  <2>5. CASE SendSucceeds(t)
    BY <2>5 DEF SendSucceeds, Unlock, Goto
  <2>6. CASE SendFails(t)
    BY <2>6 DEF SendFails, Fault, Goto
  <2>7. CASE Destroy(t)
    BY <2>7 DEF Destroy, Goto
  <2>8. CASE NewContext(t)
    BY <2>8 DEF NewContext, Goto
  <2>9. CASE NewContextFails(t)
    BY <2>9 DEF NewContextFails, Fault, Unlock, Goto
  <2>10. CASE Connect(t)
    BY <2>10 DEF Connect, Unlock, Goto
  <2>11. CASE ConnectFails(t)
    BY <2>11 DEF ConnectFails, Fault, Unlock, Goto
  <2> QED BY <1>5, <2>1, <2>2, <2>3, <2>4, <2>5, <2>6, <2>7, <2>8, <2>9, <2>10, <2>11 DEF InCallback
<1>6. CASE UNCHANGED vars
  BY <1>6 DEF vars
<1> QED BY <1>1, <1>2, <1>3, <1>4, <1>5, <1>6 DEF Next

\* The steps between RtmpDestroy and the new context are one thread's.
LEMMA ContextsStep ==
    ASSUME TypeOK, Locked, Contexts, [Next]_vars
    PROVE  Contexts'
<1> USE BoundAssumption, ThreadAssumption, CameraAssumption DEF Null, flags, config, contexts, threads, TypeOK, Locked, Contexts, Inside, Places
<1>1. CASE Start
  BY <1>1 DEF Start
<1>2. CASE Stop
  BY <1>2 DEF Stop
<1>3. ASSUME NEW t \in Captures, Capture(t) PROVE Contexts'
  BY <1>3 DEF Capture, CaptureFrame, Take, Goto
<1>4. ASSUME NEW t \in Captures, Lock(t) PROVE Contexts'
  BY <1>4 DEF Lock, Goto
<1>5. ASSUME NEW t \in Captures, InCallback(t) PROVE Contexts'
  <2>1. CASE SendNothing(t)
    BY <2>1 DEF SendNothing, Goto
  <2>2. CASE SendVideo(t)
    BY <2>2 DEF SendVideo, CountLate, Goto
  <2>3. CASE SendAudio(t)
    BY <2>3 DEF SendAudio, ConfigureAudio, CountLate, Goto
  <2>4. CASE NothingToSend(t)
    BY <2>4 DEF NothingToSend, ConfigureAudio, Fault, Goto
  <2>5. CASE SendSucceeds(t)
    BY <2>5 DEF SendSucceeds, Unlock, Goto
  <2>6. CASE SendFails(t)
    BY <2>6 DEF SendFails, Fault, Goto
  <2>7. CASE Destroy(t)
    BY <2>7 DEF Destroy, Goto
  <2>8. CASE NewContext(t)
    BY <2>8 DEF NewContext, Goto
  <2>9. CASE NewContextFails(t)
    BY <2>9 DEF NewContextFails, Fault, Unlock, Goto
  <2>10. CASE Connect(t)
    BY <2>10 DEF Connect, Unlock, Goto
  <2>11. CASE ConnectFails(t)
    BY <2>11 DEF ConnectFails, Fault, Unlock, Goto
  <2> QED BY <1>5, <2>1, <2>2, <2>3, <2>4, <2>5, <2>6, <2>7, <2>8, <2>9, <2>10, <2>11 DEF InCallback
<1>6. CASE UNCHANGED vars
  BY <1>6 DEF vars
<1> QED BY <1>1, <1>2, <1>3, <1>4, <1>5, <1>6 DEF Next

\* A flag goes down only when the configuration is set, and a new context has both flags up.
LEMMA ConfiguredStep ==
    ASSUME TypeOK, Locked, Contexts, Configured, [Next]_vars
    PROVE  Configured'
<1> USE BoundAssumption, ThreadAssumption, CameraAssumption DEF Null, flags, config, contexts, threads, TypeOK, Locked, Contexts, Configured, Inside, Places
<1>1. CASE Start
  BY <1>1 DEF Start
<1>2. CASE Stop
  BY <1>2 DEF Stop
<1>3. ASSUME NEW t \in Captures, Capture(t) PROVE Configured'
  BY <1>3 DEF Capture, CaptureFrame, Take, Goto
<1>4. ASSUME NEW t \in Captures, Lock(t) PROVE Configured'
  BY <1>4 DEF Lock, Goto
<1>5. ASSUME NEW t \in Captures, InCallback(t) PROVE Configured'
  <2>1. CASE SendNothing(t)
    BY <2>1 DEF SendNothing, Goto
  <2>2. CASE SendVideo(t)
    BY <2>2 DEF SendVideo, CountLate, Goto
  <2>3. CASE SendAudio(t)
    BY <2>3 DEF SendAudio, ConfigureAudio, CountLate, Goto
  <2>4. CASE NothingToSend(t)
    BY <2>4 DEF NothingToSend, ConfigureAudio, Fault, Goto
  <2>5. CASE SendSucceeds(t)
    BY <2>5 DEF SendSucceeds, Unlock, Goto
  <2>6. CASE SendFails(t)
    BY <2>6 DEF SendFails, Fault, Goto
  <2>7. CASE Destroy(t)
    BY <2>7 DEF Destroy, Goto
  <2>8. CASE NewContext(t)
    BY <2>8 DEF NewContext, Goto
  <2>9. CASE NewContextFails(t)
    BY <2>9 DEF NewContextFails, Fault, Unlock, Goto
  <2>10. CASE Connect(t)
    BY <2>10 DEF Connect, Unlock, Goto
  <2>11. CASE ConnectFails(t)
    BY <2>11 DEF ConnectFails, Fault, Unlock, Goto
  <2> QED BY <1>5, <2>1, <2>2, <2>3, <2>4, <2>5, <2>6, <2>7, <2>8, <2>9, <2>10, <2>11 DEF InCallback
<1>6. CASE UNCHANGED vars
  BY <1>6 DEF vars
<1> QED BY <1>1, <1>2, <1>3, <1>4, <1>5, <1>6 DEF Next

\* A frame is taken while the stream runs; a stop clears the count.
LEMMA LateStep ==
    ASSUME TypeOK, Late, [Next]_vars
    PROVE  Late'
<1> USE BoundAssumption, ThreadAssumption, CameraAssumption DEF Null, flags, config, contexts, threads, TypeOK, Late, Places
<1>1. CASE Start
  BY <1>1 DEF Start
<1>2. CASE Stop
  BY <1>2 DEF Stop
<1>3. ASSUME NEW t \in Captures, Capture(t) PROVE Late'
  BY <1>3 DEF Capture, CaptureFrame, Take, Goto
<1>4. ASSUME NEW t \in Captures, Lock(t) PROVE Late'
  BY <1>4 DEF Lock, Goto
<1>5. ASSUME NEW t \in Captures, InCallback(t) PROVE Late'
  <2>1. CASE SendNothing(t)
    BY <2>1 DEF SendNothing, Goto
  <2>2. CASE SendVideo(t)
    BY <2>2 DEF SendVideo, CountLate, Goto
  <2>3. CASE SendAudio(t)
    BY <2>3 DEF SendAudio, ConfigureAudio, CountLate, Goto
  <2>4. CASE NothingToSend(t)
    BY <2>4 DEF NothingToSend, ConfigureAudio, Fault, Goto
  <2>5. CASE SendSucceeds(t)
    BY <2>5 DEF SendSucceeds, Unlock, Goto
  <2>6. CASE SendFails(t)
    BY <2>6 DEF SendFails, Fault, Goto
  <2>7. CASE Destroy(t)
    BY <2>7 DEF Destroy, Goto
  <2>8. CASE NewContext(t)
    BY <2>8 DEF NewContext, Goto
  <2>9. CASE NewContextFails(t)
    BY <2>9 DEF NewContextFails, Fault, Unlock, Goto
  <2>10. CASE Connect(t)
    BY <2>10 DEF Connect, Unlock, Goto
  <2>11. CASE ConnectFails(t)
    BY <2>11 DEF ConnectFails, Fault, Unlock, Goto
  <2> QED BY <1>5, <2>1, <2>2, <2>3, <2>4, <2>5, <2>6, <2>7, <2>8, <2>9, <2>10, <2>11 DEF InCallback
<1>6. CASE UNCHANGED vars
  BY <1>6 DEF vars
<1> QED BY <1>1, <1>2, <1>3, <1>4, <1>5, <1>6 DEF Next

\* The inductive invariant of the streaming application: every reachable state
\* satisfies IInv.
THEOREM Inductive == Spec => []IInv
<1>1. IInv /\ [Next]_vars => IInv'
  BY TypeStep, LockedStep, ContextsStep, ConfiguredStep, LateStep DEF IInv
<1> QED BY InitIInv, <1>1, PTL DEF Spec

\* Callbacks, context and flags keep their types.
THEOREM TypeCorrect == Spec => []TypeOK
<1>1. IInv => TypeOK
  BY DEF IInv
<1> QED BY Inductive, <1>1, PTL

\* app.mutex keeps the SDK calls of the capture threads apart.
THEOREM SdkIsLocked == Spec => []OneThreadInTheSdk
<1>1. IInv => OneThreadInTheSdk
  BY DEF IInv, Locked, OneThreadInTheSdk
<1> QED BY Inductive, <1>1, PTL

\* A callback never uses a freed context, and one publisher is open at most.
THEOREM ContextIsLive == Spec => []UsesTheOneContext
<1>1. IInv => UsesTheOneContext
  <2> SUFFICES ASSUME IInv PROVE UsesTheOneContext
    OBVIOUS
  <2>1. ASSUME NEW t \in Captures, pc[t] \in {"locked", "sending", "failed", "connecting"}
        PROVE  pContext = Null \/ pContext \in heap \cap sdk
    <3>1. mutex = t
      BY <2>1 DEF IInv, Locked, Inside, Places
    <3>2. \A u \in Captures : pc[u] # "destroyed"
      BY <3>1, <2>1 DEF IInv, Locked, Inside, Places
    <3> QED BY <3>2 DEF IInv, Contexts
  <2> QED BY <2>1 DEF UsesTheOneContext, IInv, Contexts
<1> QED BY Inductive, <1>1, PTL

\* Key and audio frames go out on configured contexts.
THEOREM Configuration == Spec => []ConfiguredFirst
<1>1. IInv => ConfiguredFirst
  BY DEF IInv, Configured, ConfiguredFirst
<1> QED BY Inductive, <1>1, PTL

\* What a reconnect leaks is the wrapper of a failed RtmpNewContext.
THEOREM LeaksExplained == Spec => []LeaksAreFailedNews
<1>1. IInv => LeaksAreFailedNews
  BY DEF IInv, Contexts, LeaksAreFailedNews
<1> QED BY Inductive, <1>1, PTL

\* After a stop each thread sends one frame at most.
THEOREM StopTakesHold == Spec => []OneFrameAfterStop
<1>1. IInv => OneFrameAfterStop
  BY DEF IInv, Late, OneFrameAfterStop
<1> QED BY Inductive, <1>1, PTL
===============================================================================
