--------------------------------- MODULE Device ---------------------------------
(***************************************************************************)
(* The device as the application sees it: CoreDevice of                    *)
(* src/src/sample/hal/dev_core.c, which passes each call on to the         *)
(* registered CaptureDevice, and the CaptureDevice of                      *)
(* devices/ipc_simulator.c over the capture threads of SimCamera.          *)
(*                                                                         *)
(* SimCamera begins where init has been called, once.  Here init is a call *)
(* like the others: it zeroes the cameras, whatever threads they have, and *)
(* gives them their files.  The calls come from main, which goes through   *)
(* the start-up of sample/main.c and leaves the device alone from then on; *)
(* or from an owner that makes them in any order; or, as the two calls     *)
(* about alarms share no state with the others, from a listener.           *)
(*                                                                         *)
(* videoCb and audioCb of the CaptureDevice are set by init too; no thread *)
(* has a file to read before.  getDevId and isAudioEnable change nothing.  *)
(***************************************************************************)
EXTENDS SimCamera, FiniteSets

CONSTANTS
    Devices, NoDevice,  \* the CaptureDevices; NULL
    MaxInits,           \* bound on the calls of init
    MaxTasks,           \* bound on the calls of registerAlarmCb
    MaxJpegs            \* bound on the calls of captureJpeg

ASSUME DeviceAssumption ==
    /\ NoDevice \notin Devices
    /\ MaxInits \in Nat /\ MaxTasks \in Nat /\ MaxJpegs \in Nat

VARIABLES
    pCaptureDevice,     \* of gCoreDevice
    caller, at,         \* "main", "owner" or "listener"; where main is
    audioEnable, files, \* what init has set; do the streams have their files
    alarmCallback,      \* is it set
    tasks,              \* what each AlarmTask reports next
    jpegs,              \* the CaptureJpegNotifyTasks that sleep
    told,               \* what alarmCallback was told last
    doubled,            \* history: it was told the same of a motion twice
    under,              \* history: init was called under capture threads
    inits, captures     \* history: the bounded counters

device == <<audioEnable, files>>
alarms == <<alarmCallback, tasks, jpegs, told, doubled>>
counters == <<under, inits, captures>>
fixed == <<pCaptureDevice, caller>>
extra == <<fixed, at, device, alarms, counters>>
allVars == <<vars, extra>>

\* The constructor of ipc_simulator.c registers the device before main, where the
\* simulator is built (__X86); elsewhere there is none.
DeviceInit ==
    /\ Init /\ ~subStreamEnable
    /\ pCaptureDevice \in Devices \cup {NoDevice}
    /\ caller \in {"main", "owner", "listener"} /\ at = "mqtt"
    /\ audioEnable = FALSE /\ files = FALSE
    /\ alarmCallback = FALSE /\ tasks = <<>> /\ jpegs = 0
    /\ told = "nothing" /\ doubled = FALSE
    /\ under = FALSE /\ inits = 0 /\ captures = 0

-------------------------------------------------------------------------------
\* CoreDevice: without a device nothing happens.
Core(call) ==
    IF pCaptureDevice = NoDevice THEN UNCHANGED <<vars, device, alarms, counters>>
    ELSE call

Alive == {t \in Threads : pc[t] \notin {"none", "ended"}}

\* SimDevInitIPC.  A thread that goes on does so with no callback.
SimDevInitIPC(sub) ==
    /\ todo = <<>>
    /\ inits < MaxInits /\ inits' = inits + 1
    /\ cb' = [c \in Cameras |-> FALSE]
    /\ isStop' = [c \in Cameras |-> FALSE]
    /\ tid' = [c \in Cameras |-> NoThread]
    /\ files' = TRUE
    /\ audioEnable' = TRUE
    /\ subStreamEnable' = sub
    /\ under' = (under \/ Alive # {})
    /\ UNCHANGED <<threads, todo, crashed, history, alarms, captures>>

\* SimDevStartStream: the audio only if it is enabled.
StartStream ==
    IF audioEnable THEN SimDevStartStream /\ UNCHANGED <<device, alarms, counters>>
    ELSE /\ todo = <<>>
         /\ todo' = <<Call("start", "video", "main")>>
         /\ last' = "start"
         /\ UNCHANGED <<subStreamEnable, streams, threads, crashed, again, device,
                        alarms, counters>>

StopStream == SimDevStopStream /\ UNCHANGED <<device, alarms, counters>>
DeInit == SimDevDeInitIPC /\ UNCHANGED <<device, alarms, counters>>

\* SimDevRegisterAlarmCb: one more AlarmTask each time.
RegisterAlarmCb ==
    /\ todo = <<>>
    /\ Len(tasks) < MaxTasks
    /\ alarmCallback' = TRUE
    /\ tasks' = Append(tasks, "SIM_DEV_MOTION_DETECT")
    /\ UNCHANGED <<vars, jpegs, told, doubled, device, counters>>

\* SimDevCaptureJpeg, which captures nothing: it starts the thread that says so.
CaptureJpeg ==
    /\ todo = <<>>
    /\ captures < MaxJpegs /\ captures' = captures + 1
    /\ jpegs' = jpegs + 1
    /\ UNCHANGED <<vars, alarmCallback, tasks, told, doubled, device, under, inits>>

-------------------------------------------------------------------------------
\* The other threads.

\* Mutant: both are reported as a motion.
AlarmOfAlways(code) == "ALARM_MOTION_DETECT"

\* SimDevAlarmCallback.
AlarmOf(code) ==
    IF code = "SIM_DEV_MOTION_DETECT" THEN "ALARM_MOTION_DETECT"
    ELSE "ALARM_MOTION_DETECT_DISAPPEAR"

\* AlarmTask number k, after some sleep.
AlarmTask(k) ==
    /\ told' = AlarmOf(tasks[k])
    /\ doubled' = (doubled \/ told' = told)
    /\ tasks' = [tasks EXCEPT ![k] = IF @ = "SIM_DEV_MOTION_DETECT"
                                     THEN "SIM_DEV_MOTION_DETECT_DISAPPEAR"
                                     ELSE "SIM_DEV_MOTION_DETECT"]
    /\ UNCHANGED <<vars, alarmCallback, jpegs, fixed, at, device, counters>>

\* CaptureJpegNotifyTask: the file it names was in the stack frame of
\* SimDevCaptureJpeg, which has returned 500 ms ago.
CaptureJpegNotifyTask ==
    /\ jpegs > 0 /\ jpegs' = jpegs - 1
    /\ UNCHANGED <<vars, alarmCallback, tasks, told, doubled, fixed, at, device, counters>>

\* Mutant: a capture thread does not look at isStop again.
CaptureDeaf(t) ==
    /\ \/ files /\ ReadFile(t)
       \/ ReadFails(t) \/ TakeFrame(t) \/ Rewind(t) \/ CallBack(t) \/ Return(t)
    /\ UNCHANGED extra

\* A capture thread, which reads its file only if it has one.
CaptureTask(t) ==
    /\ Capture(t)
    /\ pc[t] = "asleep" /\ pc'[t] = "loop" => files
    /\ UNCHANGED extra

\* The owner within a call.
Within ==
    /\ \E c \in Cameras :
        \/ StartAgain(c) \/ Start(c)
        \/ Stop(c) \/ Join(c) \/ JoinNothing(c) \/ Clear(c)
    /\ UNCHANGED extra

-------------------------------------------------------------------------------
\* main.

Step(from, to) == caller = "main" /\ at = from /\ at' = to

\* MqttNewContex, RtmpNewContext and RtmpConnect; main returns if one fails, also if
\* only the server could not be reached yet.
Prepare ==
    /\ \/ Step("mqtt", "rtmp") \/ Step("rtmp", "connect") \/ Step("connect", "init")
       \/ \E from \in {"mqtt", "rtmp", "connect"} : Step(from, "returned")
    /\ UNCHANGED <<vars, fixed, device, alarms, counters>>

MainInit ==
    /\ Step("init", "start")
    /\ Core(SimDevInitIPC(FALSE))
    /\ UNCHANGED fixed

\* startStream, and then EventLoop, whose calls of startStream and stopStream are
\* commented out.
MainStart ==
    /\ Step("start", "loop")
    /\ Core(StartStream)
    /\ UNCHANGED fixed

OwnerCalls ==
    /\ caller = "owner"
    /\ Core(\/ \E sub \in BOOLEAN : SimDevInitIPC(sub)
            \/ StartStream \/ StopStream \/ DeInit)
    /\ UNCHANGED <<fixed, at>>

ListenerCalls ==
    /\ caller = "listener"
    /\ Core(RegisterAlarmCb \/ CaptureJpeg)
    /\ UNCHANGED <<fixed, at>>

\* A program that has returned from main, or crashed, does nothing more.
DeviceNext ==
    /\ ~crashed /\ at # "returned"
    /\ \/ Prepare \/ MainInit \/ MainStart
       \/ OwnerCalls \/ ListenerCalls
       \/ Within
       \/ \E t \in Threads : CaptureTask(t)
       \/ \E k \in DOMAIN tasks : AlarmTask(k)
       \/ CaptureJpegNotifyTask

DeviceSpec == DeviceInit /\ [][DeviceNext]_allVars

\* The owner goes on within a call, and the capture threads run, as callbacks return.
DeviceFairSpec ==
    /\ DeviceSpec
    /\ WF_allVars(~crashed /\ at # "returned" /\ Within)
    /\ \A t \in Threads : WF_allVars(~crashed /\ at # "returned" /\ CaptureTask(t))

-------------------------------------------------------------------------------
\* In no order of the calls, sub-stream or not, before init or after, does the device
\* crash, unless init was called under capture threads, which loses their callbacks
\* (ipc_simulator.c:527), or stopStream twice (ipc_simulator.c:562); for main it never
\* does.
DeviceIsSafe == crashed => caller = "owner" /\ (under \/ again)

\* A motion is reported, and its end, by turns: alarmCallback is never told of two
\* motions without an end between them, unless it has been registered twice, which
\* has two tasks report to it (ipc_simulator.c:656).
AlarmsAlternate == doubled => Len(tasks) > 1

\* Each call returns, whatever calls came before it: a stop waits for a thread that
\* sees isStop, if only its callback returns.  In the model a start waits where
\* MaxThreads have been started.
CallsReturn ==
    todo # <<>> ~> \/ todo = <<>> \/ crashed
                   \/ created = MaxThreads /\ Head(todo).op = "start"
================================================================================
