------------------------------- MODULE StreamApp -------------------------------
(***************************************************************************)
(* How frames leave the camera: the frame callbacks and RtmpReconnect of   *)
(* src/src/sample/main.c over src/src/librtmp_wrapper/rtmp_wapper.c.       *)
(*                                                                         *)
(* Every capture thread calls back with its frames.  A callback reads      *)
(* nStreamSts without a lock, then does everything else under app.mutex:   *)
(* it sends through the one RTMP context and, when that fails for any      *)
(* reason, replaces the context by a new one.  The main thread starts and  *)
(* stops the stream by writing nStreamSts alone.  A context is a number,   *)
(* never used twice; 0 is NULL.  The stream starts after main() has made   *)
(* and connected the first context; it exits when it cannot.               *)
(*                                                                         *)
(* librtmp_sdk is external: a call on a connected context works or fails,  *)
(* one on a context that is not connected fails.                           *)
(***************************************************************************)
EXTENDS Integers, FiniteSets, Sequences, Functions

CONSTANTS
    VideoThreads, AudioThreads, \* the threads that capture
    NoThread,           \* nobody holds app.mutex
    VideoFrames,        \* the frames of the camera, as H264DecodeFrame cuts them
    MaxFaults,          \* bound on what goes wrong in the SDK, malloc, a decoder
    MaxCommands         \* bound on the start and stop commands

Captures == VideoThreads \cup AudioThreads

Null == 0

\* Does the loop of RtmpSendVideo meet an SPS while nVideoRestart is still set?
\* The first PPS clears it.
SetsSps(nalus) ==
    \E i \in DOMAIN nalus :
        nalus[i] = "SPS" /\ \A j \in 1 .. i - 1 : nalus[j] # "PPS"
SetsPps(nalus) == "PPS" \in Range(nalus)

ASSUME ThreadAssumption ==
    /\ VideoThreads \cap AudioThreads = {}
    /\ NoThread \notin Captures
ASSUME BoundAssumption == MaxFaults \in Nat /\ MaxCommands \in Nat
\* The camera: a PPS follows an SPS, and a key frame carries both.
ASSUME CameraAssumption == \A f \in VideoFrames :
    /\ SetsPps(f.nalus) => SetsSps(f.nalus)
    /\ f.key => SetsPps(f.nalus)
    /\ f.key \in BOOLEAN

VARIABLES
    nStreamSts,     \* app.nStreamSts
    mutex,          \* who holds app.mutex
    pContext,       \* app.pContext
    made,           \* the contexts malloc has given so far: 1 .. made
    heap, sdk,      \* those whose RtmpContex, whose pPubCtx is not freed
    conn,           \* the connected ones
    sps, pps, aac,  \* those given an SPS, a PPS, an AAC configuration
    nVideoRestart, nAudioRestart,   \* those with the flag set
    pc, frame,      \* where each capture thread is, and its frame
    faults, commands,   \* history: the two bounded counters
    lost,           \* history: the contexts RtmpNewContext failed to finish
    late            \* history: frames sent by each thread since the last stop

flags == <<nVideoRestart, nAudioRestart>>
config == <<sps, pps, aac>>
contexts == <<pContext, made, heap, sdk, conn, config, flags, lost>>
threads == <<pc, frame>>
vars == <<nStreamSts, mutex, contexts, threads, faults, commands, late>>

Init ==
    /\ nStreamSts = "STOPED"
    /\ mutex = NoThread
    /\ pContext = 1
    /\ made = 1
    /\ heap = {1}
    /\ sdk = {1}
    /\ conn = {1}
    /\ sps = {} /\ pps = {} /\ aac = {}
    /\ nVideoRestart = {1}
    /\ nAudioRestart = {1}
    /\ pc = [t \in Captures |-> "idle"]
    /\ \E f \in VideoFrames : frame = [t \in Captures |-> f]
    /\ faults = 0
    /\ commands = 0
    /\ lost = {}
    /\ late = [t \in Captures |-> 0]

-------------------------------------------------------------------------------
\* The main thread, in EventLoop.
Start ==
    /\ commands < MaxCommands
    /\ commands' = commands + 1
    /\ nStreamSts' = "RUNNING"
    /\ UNCHANGED <<mutex, contexts, threads, faults, late>>

Stop ==
    /\ commands < MaxCommands
    /\ commands' = commands + 1
    /\ nStreamSts' = "STOPED"
    /\ late' = [t \in Captures |-> 0]
    /\ UNCHANGED <<mutex, contexts, threads, faults>>

-------------------------------------------------------------------------------
\* The capture threads.
Goto(t, to) == pc' = [pc EXCEPT ![t] = to]

Fault == faults < MaxFaults /\ faults' = faults + 1

\* The next frame of t; only what a video frame holds matters.
Take(t, f) ==
    /\ frame' = IF t \in VideoThreads THEN [frame EXCEPT ![t] = f] ELSE frame
    /\ Goto(t, "waiting")
    /\ UNCHANGED <<nStreamSts, mutex, contexts, faults, commands, late>>

\* Mutant: the callback takes every frame.
TakeAny(t, f) == pc[t] = "idle" /\ Take(t, f)

\* A frame comes while nStreamSts is RUNNING; otherwise the callback returns.
CaptureFrame(t, f) == pc[t] = "idle" /\ nStreamSts = "RUNNING" /\ Take(t, f)

Capture(t) == \E f \in VideoFrames : CaptureFrame(t, f)

Lock(t) ==
    /\ pc[t] = "waiting"
    /\ mutex = NoThread
    /\ mutex' = t
    /\ Goto(t, "locked")
    /\ UNCHANGED <<nStreamSts, contexts, frame, faults, commands, late>>

\* The callback is over.
Unlock(t) ==
    /\ Goto(t, "idle")
    /\ mutex' = NoThread

\* Mutant: without a context the callback leaves it at that.
SendNothingAndReturn(t) ==
    /\ pc[t] = "locked"
    /\ pContext = Null
    /\ Unlock(t)
    /\ UNCHANGED <<nStreamSts, contexts, frame, faults, commands, late>>

\* RtmpSendVideo and RtmpSendAudio return -1 when there is no context.
SendNothing(t) ==
    /\ pc[t] = "locked"
    /\ pContext = Null
    /\ Goto(t, "failed")
    /\ UNCHANGED <<nStreamSts, mutex, contexts, frame, faults, commands, late>>

\* A frame goes to the SDK: does it go after a stop?
CountLate(t) ==
    late' = [late EXCEPT ![t] = IF nStreamSts = "STOPED" THEN @ + 1 ELSE @]

\* RtmpSendVideo up to the call that sends.
SendVideo(t) ==
    /\ t \in VideoThreads
    /\ pc[t] = "locked"
    /\ pContext # Null
    /\ LET restart == pContext \in nVideoRestart
           nalus == frame[t].nalus
       IN /\ sps' = IF restart /\ SetsSps(nalus) THEN sps \cup {pContext} ELSE sps
          /\ pps' = IF restart /\ SetsPps(nalus) THEN pps \cup {pContext} ELSE pps
          /\ nVideoRestart' = IF SetsPps(nalus) THEN nVideoRestart \ {pContext}
                                                ELSE nVideoRestart
    /\ CountLate(t)
    /\ Goto(t, "sending")
    /\ UNCHANGED <<nStreamSts, mutex, pContext, made, heap, sdk, conn, aac,
                   nAudioRestart, lost, frame, faults, commands>>

\* RtmpSendAudio: the first frame of a context brings the AAC configuration,
\* before it is decoded.
ConfigureAudio ==
    /\ aac' = IF pContext \in nAudioRestart THEN aac \cup {pContext} ELSE aac
    /\ nAudioRestart' = nAudioRestart \ {pContext}
    /\ UNCHANGED <<pContext, made, heap, sdk, conn, sps, pps, nVideoRestart, lost>>

SendAudio(t) ==
    /\ t \in AudioThreads
    /\ pc[t] = "locked"
    /\ pContext # Null
    /\ ConfigureAudio
    /\ CountLate(t)
    /\ Goto(t, "sending")
    /\ UNCHANGED <<nStreamSts, mutex, frame, faults, commands>>

\* malloc or a decoder fails, with the context connected or not.
NothingToSend(t) ==
    /\ pc[t] = "locked"
    /\ pContext # Null
    /\ Fault
    /\ \/ t \in AudioThreads /\ ConfigureAudio
       \/ UNCHANGED contexts
    /\ Goto(t, "failed")
    /\ UNCHANGED <<nStreamSts, mutex, frame, commands, late>>

\* The blocking RtmpPubSend... call returns.
SendSucceeds(t) ==
    /\ pc[t] = "sending"
    /\ pContext \in conn
    /\ Unlock(t)
    /\ UNCHANGED <<nStreamSts, contexts, frame, faults, commands, late>>

SendFails(t) ==
    /\ pc[t] = "sending"
    /\ IF pContext \in conn THEN Fault ELSE UNCHANGED faults
    /\ Goto(t, "failed")
    /\ UNCHANGED <<nStreamSts, mutex, contexts, frame, commands, late>>

-------------------------------------------------------------------------------
\* RtmpReconnect.
\* Mutant: only the wrapper is freed.
DestroyKeepSdk(t) ==
    /\ pc[t] = "failed"
    /\ heap' = heap \ {pContext}
    /\ Goto(t, "destroyed")
    /\ UNCHANGED <<nStreamSts, mutex, pContext, made, sdk, conn, config, flags, lost,
                   frame, faults, commands, late>>

\* RtmpDestroy; app.pContext keeps the stale pointer.
Destroy(t) ==
    /\ pc[t] = "failed"
    /\ heap' = heap \ {pContext}
    /\ sdk' = sdk \ {pContext}
    /\ conn' = conn \ {pContext}
    /\ sps' = sps \ {pContext} /\ pps' = pps \ {pContext} /\ aac' = aac \ {pContext}
    /\ nVideoRestart' = nVideoRestart \ {pContext}
    /\ nAudioRestart' = nAudioRestart \ {pContext}
    /\ Goto(t, "destroyed")
    /\ UNCHANGED <<nStreamSts, mutex, pContext, made, lost, frame, faults, commands,
                   late>>

\* Mutant: the flags outlive the context.
NewContextKeepFlags(t) ==
    /\ pc[t] = "destroyed"
    /\ made' = made + 1
    /\ heap' = heap \cup {made'}
    /\ sdk' = sdk \cup {made'}
    /\ pContext' = made'
    /\ Goto(t, "connecting")
    /\ UNCHANGED <<nStreamSts, mutex, conn, config, flags, lost, frame, faults,
                   commands, late>>

NewContext(t) ==
    /\ pc[t] = "destroyed"
    /\ made' = made + 1
    /\ heap' = heap \cup {made'}
    /\ sdk' = sdk \cup {made'}
    /\ nVideoRestart' = nVideoRestart \cup {made'}
    /\ nAudioRestart' = nAudioRestart \cup {made'}
    /\ pContext' = made'
    /\ Goto(t, "connecting")
    /\ UNCHANGED <<nStreamSts, mutex, conn, config, lost, frame, faults, commands, late>>

\* Mutant: a failed RtmpNewContext leaves app.pContext as it was.
NewContextKeepPointer(t) ==
    /\ pc[t] = "destroyed"
    /\ Fault
    /\ UNCHANGED contexts
    /\ Unlock(t)
    /\ UNCHANGED <<nStreamSts, frame, commands, late>>

\* malloc fails, or RtmpPubNew or RtmpPubInit does and the RtmpContex is lost.
NewContextFails(t) ==
    /\ pc[t] = "destroyed"
    /\ Fault
    /\ \/ UNCHANGED <<made, heap, lost>>
       \/ /\ made' = made + 1
          /\ heap' = heap \cup {made'}
          /\ lost' = lost \cup {made'}
    /\ pContext' = Null
    /\ Unlock(t)
    /\ UNCHANGED <<nStreamSts, sdk, conn, config, flags, frame, commands, late>>

Connect(t) ==
    /\ pc[t] = "connecting"
    /\ conn' = conn \cup {pContext}
    /\ Unlock(t)
    /\ UNCHANGED <<nStreamSts, pContext, made, heap, sdk, config, flags, lost,
                   frame, faults, commands, late>>

ConnectFails(t) ==
    /\ pc[t] = "connecting"
    /\ Fault
    /\ Unlock(t)
    /\ UNCHANGED <<nStreamSts, contexts, frame, commands, late>>

InCallback(t) ==
    \/ SendNothing(t) \/ SendVideo(t) \/ SendAudio(t) \/ NothingToSend(t)
    \/ SendSucceeds(t) \/ SendFails(t)
    \/ Destroy(t) \/ NewContext(t) \/ NewContextFails(t)
    \/ Connect(t) \/ ConnectFails(t)

Next ==
    \/ Start \/ Stop
    \/ \E t \in Captures : Capture(t) \/ Lock(t) \/ InCallback(t)

Spec == Init /\ [][Next]_vars

\* The camera goes on capturing, now and then a key frame; a thread inside its
\* callback goes on; app.mutex is free most of the time, since a capture thread
\* sleeps until its next frame, so that nobody waits for it for ever.
KeyFrame(t) == \E f \in VideoFrames : f.key /\ CaptureFrame(t, f)
Fairness == \A t \in Captures :
    /\ SF_vars(KeyFrame(t))
    /\ SF_vars(Lock(t))
    /\ WF_vars(InCallback(t))
FairSpec == Spec /\ Fairness

-------------------------------------------------------------------------------
Places == {"idle", "waiting", "locked", "sending", "failed", "destroyed", "connecting"}
Inside == Places \ {"idle", "waiting"}

\* The type of every variable.
TypeOK ==
    /\ nStreamSts \in {"RUNNING", "STOPED"}
    /\ mutex \in Captures \cup {NoThread}
    /\ made \in Nat
    /\ pContext \in 0 .. made
    /\ heap \subseteq 1 .. made
    /\ sdk \subseteq 1 .. made
    /\ conn \subseteq 1 .. made
    /\ sps \subseteq 1 .. made /\ pps \subseteq 1 .. made /\ aac \subseteq 1 .. made
    /\ nVideoRestart \subseteq 1 .. made
    /\ nAudioRestart \subseteq 1 .. made
    /\ lost \subseteq 1 .. made
    /\ pc \in [Captures -> Places]
    /\ frame \in [Captures -> VideoFrames]
    /\ faults \in 0 .. MaxFaults
    /\ commands \in 0 .. MaxCommands
    /\ late \in [Captures -> Nat]

\* The SDK is not thread-safe (doc/Rtmp_SDK_Manual.md:288): one thread at a time
\* is between the lock and the unlock of a callback, reconnects included.
OneThreadInTheSdk == \A t, u \in Captures :
    pc[t] \in Inside /\ pc[u] \in Inside => t = u

\* A context used in a callback is allocated, and it is the only connection the
\* device holds open: neither a failed send nor a failed reconnect leaves a
\* dangling app.pContext for the next frame, or a second publisher.
UsesTheOneContext ==
    /\ sdk \subseteq {pContext} /\ conn \subseteq sdk
    /\ \A t \in Captures :
        pc[t] \in {"locked", "sending", "failed", "connecting"} =>
            pContext = Null \/ pContext \in heap \cap sdk

\* Whichever thread reconnected, and however often: a key frame goes out on a
\* context that has been given its SPS and PPS, and an audio frame on one that
\* has its AAC configuration ("call this function before the first audio packet",
\* rtmp_publish.h).
ConfiguredFirst == \A t \in Captures : pc[t] = "sending" =>
    /\ t \in VideoThreads /\ frame[t].key => pContext \in sps \cap pps
    /\ t \in AudioThreads => pContext \in aac

\* What a reconnect allocates and never frees is the RtmpContex of every
\* RtmpNewContext that failed half-way, and nothing else.
LeaksAreFailedNews == mutex = NoThread => heap = sdk \cup lost

\* A stop is not waited for: a thread that had read nStreamSts before it sends
\* the frame it holds, however long it waits for the lock, but no second one.
OneFrameAfterStop == \A t \in Captures : late[t] <= 1

\* Once nothing fails any more, a stream that runs gets its video through for
\* ever, decodable: on a connected context that has its SPS and PPS, whatever
\* state the failures left the context in.
StreamRecovers ==
    <>[](nStreamSts = "RUNNING") => \A t \in VideoThreads :
        []<>(pc[t] = "sending" /\ pContext \in conn \cap sps \cap pps)
===============================================================================
