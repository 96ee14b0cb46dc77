# TLA+ models of ipc-stream

ipc-stream makes an IP camera push its pictures and sound to an RTMP server when a message tells it to. The messages
come over MQTT. This directory holds TLA+ models of the parts of the program that keep state and share it between
threads, TLC configurations that check them on small instances, and theorems about them that TLAPS checks for all
instances. Source files are named below their directory `src/src`; `README.md` is that of the repository, `src/README.md`.

1. [The system](#1-the-system)
2. [Modules, state and actions](#2-modules-state-and-actions)
3. [Runs and bounds](#3-runs-and-bounds)
4. [Fairness](#4-fairness)
5. [Proofs](#5-proofs)
6. [Where the code and its documentation disagree](#6-where-the-code-and-its-documentation-disagree)
7. [What is not modelled](#7-what-is-not-modelled)
8. [Plan](#8-plan)

To repeat the checks: `tlc -config MCMessageQueue.cfg MCMessageQueue` for a run, `tlapm MessageQueueProofs.tla` for a
proof. `PROJECT.json` maps each definition to the lines it models and lists runs, hazards and theorems.

## 1. The system

### Threads

| thread | started by | does |
|---|---|---|
| main | - | `EventLoop` (`main.c`): receives commands from the control session, starts and stops the stream, answers |
| MQTT | `LinkNewMqttInstance` (`mqtt.c`) | `LinkMqttThread`: connects, waits for messages, pings, reconnects; runs `OnEvent` (`sig_ctl.c`) and `OnIOCtrlMessage` (`control.c`) |
| video, audio capture | `simdev_start_video`, `simdev_start_audio` (`ipc_simulator.c`) | read a recorded file and call the frame callbacks of `main.c` |
| log | `LinkInitLog` (`control.c`) | sends log lines; nothing in the repository starts it |
| alarm, JPEG | `simdev_register_alarm_cb`, `SimDevCaptureJpeg` (`ipc_simulator.c`) | report alarms; nothing in the repository starts them |

Two paths cross them. A command: broker -> MQTT thread -> `OnIOCtrlMessage` -> message queue -> main thread ->
`nStreamSts`; the answer goes back through `LinkMqttPublish`, on the main thread. A frame: capture thread -> frame
callback -> (under `app.mutex`) H.264 or ADTS decoder -> RTMP context -> `librtmp_sdk`. The two meet in
`app.nStreamSts` only.

### Components

| component | source | state | operations | what is hard | what makes it correct |
|---|---|---|---|---|---|
| Message queue | `libmqtt/queue.c` | ring of slots, two indices, a count, `bIsValid`, two mutexes, a condition variable | create, send, receive, timed receive, destroy | parked receivers, a single signal, memory freed under one lock of two | a drop-oldest FIFO; no lost wakeup; nothing freed under a receiver |
| Control sessions | `libmqtt/control.c` | table `Session[]`: `isUsed`, `pInstance`, `pQueue` | `LinkInitIOCtrl`, `LinkDinitIOCtrl`, `OnIOCtrlMessage`, `LinkRecvIOCtrl`, `LinkSendIOResponse` | no lock, two threads, subscriptions that fail half-way | messages reach the session of the application; slots come back |
| Signalling context | `sample/sig_ctl.c` | `nSession`, `mMqttContex`, the context | `MqttNewContex`, `MqttDestroyContex`, `MqttSend`, `OnEvent`, `OnMessage` | the connect event may come before the context is set, and after it is freed | a connect event gives the application a session; nothing freed is followed |
| Log channel | `libmqtt/control.c`, `log.c` | a session and a queue of its own | `LinkInitLog`, `LinkSendLog`, `LinkDinitLog`, `LinkLogThread` | a sender looks at `nSize` without a lock and is not held back at the end | the thread has its queue as long as it runs; an accepted message is not pushed out |
| MQTT instance | `libmqtt/mqtt.c` | `status`, `lastStatus`, `connected`, `isDestroying`, `mosq`, `listMutex`, the list of topics | `LinkMqttThread`, create, destroy, insert and delete a topic | a status that four functions write, retries; a detached thread that frees the instance | it always comes back; it is never stuck in `STATUS_CONNECTING`; it ends when asked |
| wolfMQTT adapter | `libmqtt/wolfmqtt/wolfmqtt.c` | the context: client, socket, `timeoutCount`, `connect.stat` | connect, publish, subscribe, unsubscribe, loop, `OnDisconnectCallback`, `OnMessageCallback`, init, dinit | the context is replaced inside the call that fails; another thread publishes | one context; a freed one is not followed |
| Socket layer | `libmqtt/mqttnet.c` | the descriptor | `NetConnect`, `NetRead`, `NetWrite`, `NetDisconnect` | errors read from `SO_ERROR` once they are gone | a lost connection is noticed |
| Streaming application | `sample/main.c` | `nStreamSts`, `pContext`, `mutex` | `EventLoop`, `VideoFrameCallBack`, `AudioFrameCallBack`, `RtmpReconnect` | two capture threads share a context that any of them may replace | one thread in the SDK; no stale context; the stream recovers |
| RTMP wrapper | `librtmp_wrapper/rtmp_wapper.c` | `RtmpContex`: `pPubCtx`, two restart flags | new, connect, send video, send audio, destroy | flags and configuration per context; every step may fail | configured before the first frame that needs it; no leak |
| H.264 frame decoder | `librtmp_wrapper/h264_decode.c` | an array of units, a pointer | `H264DecodeFrame`, `H264DecodeNalu` | reads past the end, sizes, overflow | exactly the units of the frame |
| ADTS decoder | `librtmp_wrapper/adts.c` | an array of units, a pointer | `AacDecodeAdts` | a loop that may stay or go back; lengths put together from `char` | exactly the frames of the buffer; it returns |
| Simulated camera | `sample/devices/ipc_simulator.c` | per stream: callback, `isStop`, `tid` | init, start, stop, deinit, capture threads, alarms, JPEG | stop against a thread in a callback; a stop decided by the other stream's `tid`; init twice | a thread is joined before its callback is cleared; every call returns |
| Device layer | `sample/hal/dev_core.c` | the registered device | delegation to it, or to none | the order of the calls | no order but two crashes the program |
| Logging, tracing | `sample/dbg.c`, `func_trace.c`, `libmqtt/log.c` | - | output | - | - |
| cJSON, wolfMQTT, librtmp_sdk | vendored or binary | - | external | - | modelled by what their calls return, where they matter |
| Tests | `src/src/tests` | - | the two decoders on recorded files | - | - |

The hazards, each at the line where it bites and with the properties that watch it, are in `PROJECT.json`.

## 2. Modules, state and actions

| module | models | proofs | extends / uses |
|---|---|---|---|
| `LossyQueue` | what the message queue promises | - | - |
| `MessageQueue` | the message queue | `MessageQueueProofs` | implements `LossyQueue` |
| `ControlSession` | control sessions, signalling context, receiving half of `EventLoop` | `ControlSessionProofs` | its queues are shown to behave as `LossyQueue` |
| `StreamApp` | frame callbacks, RTMP wrapper, the two commands | `StreamAppProofs` | - |
| `MqttInstance` | MQTT instance, adapter, socket layer | `MqttInstanceProofs` | - |
| `H264Decode` | H.264 frame decoder | `DecoderProofs` | - |
| `SimCamera` | the camera's streams and capture threads | `DeviceProofs` | - |
| `Device` | device layer, the camera's init, alarms and JPEG, the start-up of `main` | `DeviceProofs` | extends `SimCamera` |
| `AdtsDecode` | ADTS decoder, between the camera's AAC file and `RtmpSendAudio` | `DecoderProofs` | - |
| `InstanceLife` | creation and end of MQTT instances and contexts, their topics and reports | `InstanceLifeProofs` | - |
| `LogChannel` | log channel | `LogChannelProofs` | its queue is an instance of `LossyQueue` |

`MC<Module>` gives values to the constants for TLC. The definitions marked `Mutant` in a module are the code with a
plausible bug; no `Next` uses them. Each property has one that breaks it.

**MessageQueue.** The fields of the C struct are variables of the same name; `mutex` and `destroyMutex` hold the thread
that has them; `alive` says what `free` has given back. A thread's `pc` stands between two lock operations:
`SendCall/SendLock/SendStore` are `SendMessage` (in two steps because the slots are freed under `destroyMutex` only),
`ReceiveCall/ReceiveEnter/ReceiveMessage` the blocking receive, `ReceiveMessageTimeout/Timeout/ResumeTimeout` the timed
one, `DestroyCall/DestroyInvalidate/DestroySlots/DestroyFree` the destruction. `pthread_cond_wait` releases `mutex` and
parks in one step; a signal takes one thread out of `consumerCond`. `UseAfterFree` is a thread that uses memory already
given back; it goes to `fault`. The owners of a queue (`LinkDinitIOCtrl`, `LinkDinitLog`) clear `isUsed` before they
destroy it, and callers test it: that is `MayCall`. The callers that had passed the test before are the `LateCallers`.
With `LateCallers` empty no thread faults; the theorem `FaultsAreLate` says so for each thread.

**LossyQueue.** Put, take, take nothing, shut, close, reopen. `MessageQueue` implements it with `Contents`, the window
of the ring, for `items`.

**ControlSession.** `used`, `bound` and `pQueue` are the columns of the session table. A queue is `made`, `live`, `valid`
and has `items`; it is used through `Push`, `RecvTake`, `Shut` and `Close`, which are the actions of `LossyQueue`: what
`MessageQueue` was shown to implement. `Connect` is the connect event, after which the MQTT thread goes through
`LinkDinitIOCtrl` (`Dinit...`, `Shut`, `Close`) and `LinkInitIOCtrl` (`InitSlot`, `InitFails`, `Subscribe...`) one access
to the table at a time; `Deliver` is `OnIOCtrlMessage`. The main thread is `Recv...` (`LinkRecvIOCtrl`), `Handle...` (the
switch of `EventLoop`) and `Answer` (`LinkSendIOResponse`). A SUBSCRIBE is granted, refused, not answered in time, or
broken off; a queue may find no memory at any connect. The program asks for no clean session and always has the same
client id, so that the broker may know the subscription from an earlier run before this one has made it (`Init`), and
deliver to an application that has no session: `unserved` remembers a connect event that gave none.

**StreamApp.** A context is a number; `heap`, `sdk` and `conn` are the sets of those whose wrapper is allocated, whose
SDK object is, and that are connected; `sps`, `pps`, `aac` those that have been given their configuration. A capture
thread goes `idle -> waiting -> locked -> sending -> idle`, or `failed -> destroyed -> connecting -> idle` through
`RtmpReconnect`. Each call into the SDK is a step of its own, so that the other threads and the commands come in between.

**MqttInstance.** `mosq` is the pointer, `ctx[t]` the copy each thread follows, `live` what is allocated. `sock`, `stat`
and `answer` are the state of the socket of `mosq` and of its CONNECT. `MqttThread` is the loop of `LinkMqttThread`, call
by call; `Callback` is `OnDisconnectCallback`, run by whichever thread met the error, in the three steps between which
the other thread sees its effects; `Publisher` is `LinkMqttPublish` on the main thread. What the socket layer returns
for a dead connection is the point of the module: `NetConnectRefused`, `SendConnect`, `Published` show a refusal or a
failed write returning 0. `PingIsLate` is a broker that closes on a connected client because its PINGREQ is late, which
with the program's numbers it may. A context is one of the addresses in `Contexts`; a freed one may be handed out again
once no thread has a copy of it. `blame` records the accidents after which a freed context may be followed; the properties
that speak of a sound instance are conditional on it, and `FaultsExplained` says the list is complete -- for the
MQTT thread: the publishing thread copies `mosq` before it locks and may follow a freed context after any reconnect.

**H264Decode.** Pointers are offsets from the frame. One action per branch of the loop, two for what follows it. The
memory behind the frame is arbitrary, because the loop reads it.

**SimCamera.** The owner's calls are lists of `simdev_*` calls in `todo`. A capture thread is at one of `asleep` (the
`sleep(3)` before it reads its file), `loop`, `taken`, `inside` (the callback), `ended`. What the model makes visible:
`SimDevStopStream` stops only the video of the main stream; `SimDevDeInitIPC` only the second stream; a stop of the video
looks at the audio's `tid`; a video's last frame is never sent; an AAC file is played once and its thread then goes
round in silence, the time of a frame at a time.

**Device.** `SimCamera` begins where init has been called once; here init is a call like the others. `Core` is the
delegation of `dev_core.c`, which does nothing without a `CaptureDevice`. Who calls is a choice of the initial state:
`main` in its own order (`Prepare`, `MainInit`, `MainStart`); an owner in any order; or a listener, for the two calls
about alarms, which share no state with the rest. `CaptureTask` is `SimCamera`'s `Capture` where a thread has a file to
read only after init; `AlarmTask` and `CaptureJpegNotifyTask` are the two helpers' threads.

**AdtsDecode.** A file is the offsets of its frames and what their headers say, the last one possibly cut short; a pointer
is an offset. `HandFrame` is the camera, which gives out one frame at a time if a header's length more is there;
`HandFile` the unit test, which gives out a whole file. `Decode...` is the loop of `AacDecodeAdts`: at a frame of the
file, at other bytes (which may read as any header or none, but always as the same), or at memory too far before the file
to say. `ReadLength` is the arithmetic on `char`: its middle byte, negative from 128 on, makes the whole length negative.
`CopyUnit` and `Return` are `RtmpSendAudio`. The three fields of a length have fewer bits than in the code; their number
is a parameter.

**InstanceLife.** Where `MqttInstance` has one instance and follows its connection, this module has several and follows
their memory: `context`, `instance` and `mosq` say of each what is allocated. A thread, the user's or an instance's own,
is at `pc`, with its `copy` of `mosq`, which it takes before it locks `listMutex` (`Take`, `Call`) and follows after
(`UseFreed`). `Thread(i)` is `LinkMqttThread` again; a connection is made, refused or lost. `Callback(a)` is
`OnDisconnectCallback` on whichever thread met the error, with `back` to say where it returns to: the error is told
(`Report`), `lastStatus` is assigned after that (`Reported`), the client is closed, freed, which leaves the other thread's
copy dangling (`Dinit`), and made anew or not (`InitClient`, `InitFails`). A success is told in `OnEvent`, which
subscribes under the lock with all the errors this may meet, and `lastStatus` is assigned at its end (`EventEnds`);
`overlapped` remembers an error met in between. `New/Assign` are `MqttNewContex`, which starts the thread before it sets
`mMqttContex`; `Destroy` is `MqttDestroyContex`; `Call` to `CallUnlock` are `MqttSend`, `LinkMqttSubscribe` and
`LinkMqttUnsubscribe`, which hold the lock through their wait, the last with the loop of `DeleteNode` that never moves on:
no action is enabled there. `told` is what `OnEvent` was last told. A step that follows what is freed sets `crashed`, and
nothing happens any more; `accidents` names what may lead to it besides a freed context or a failed start.

**LogChannel.** `Receive/Wait/Resume/Publish` is `LinkLogThread`, `Look` (as `Refuse`, `Accept` or `LookAtNothing`) and
`Send`, `Overfill` and `PushOut`, or `SendNowhere`, the two halves of `LinkSendLog`; its calls of the queue are the
actions of `LossyQueue` by `INSTANCE`. Between `Overfill` and `PushOut` a sender on a full queue holds its mutex with `nSize`
one above the capacity (`Storing`), and a look, which takes no lock and asks whether they are equal, accepts. `raced` is the
set of senders beside whose look, or since it, another has stored.

## 3. Runs and bounds

| run | instance | shows | distinct states |
|---|---|---|---|
| `queue` | capacity 2, 2 senders, 1 timed and 1 blocking receiver, 2 messages, spurious wakeups, one sender and the timed receiver late, fair | wakeups, destruction, who may touch freed memory, refinement of `LossyQueue` | 117,000 |
| `session` | 2 slots, queues of 1, 3 queues, 3 connects, 2 messages, every outcome of a SUBSCRIBE, a kept subscription or none, early connect, no memory, fair | routing, accounting of slots, hearing, bad pointers only after a second connect, teardown, a start is obeyed unless a subscription failed or the connect event gave no session | 422,000 |
| `stream_app` | 1 video and 1 audio thread, key and plain frames, 4 faults, 3 commands, fair | one context, configuration, leaks, frames after a stop, recovery | 75,000 |
| `mqtt_instance` | `PingAt` 2, 3 faults, 2 publishes, reported write errors, late pings, fair | one context, no dead end, faults explained, losses noticed, reconnects | 199,000 |
| `mqtt_connack` | 1 fault | **violation**: success without CONNACK | - |
| `instance_life` | 2 contexts one after the other, 2 topics, 4 events (contexts made, calls and faults) together, fair | freed memory, truth of the reports, threads end, an instance hears | 359,000 |
| `h264_decode` | frames of 1 to 8 bytes of {0, 1}, 5 bytes behind them, room for 1 unit | units, tiling, overrun, overflow | 408,000 |
| `adts_decode` | files of 1 to 9 bytes in all divisions, headers of 2 and 3 bytes, lengths of 4 bits, room for 4 units, fair | reads and copies stay inside, the frames are found, the file is played to its last frame | 124,000 |
| `adts_signed` | the same | **violation**: a length is not read as it was meant | - |
| `sim_camera` | 2 frames of video, 1 of audio, 5 threads, with and without the second stream, fair | ownership of threads, the video plays on | 141,000 |
| `device` | 4 threads, a device or none, 1 init, 2 alarm tasks, 1 JPEG, fair | crashes explained, alarms by turns, calls return | 268,000 |
| `log_channel` | capacity 2, 2 senders, 5 messages, opened twice, fair | the thread has its queue, drops are races, a close returns | 53,000 |

Each run takes between two seconds and about three minutes.

Why these bounds do:

* Queue: capacity 2 is the smallest ring where the indices wrap apart from each other and an overwrite moves both; two
  senders contend for `mutex` while a third thread destroys; one receiver of each kind is enough to have one parked and
  one shut out by `destroyMutex`. The theorems hold for every capacity and set of threads.
* Sessions: with two slots the first can leak and the second serve, and then both leak; three connects are set up, tear
  down, set up again. Two messages overflow a queue of one, the first being the start the client waits for. The
  theorems hold for every capacity.
* StreamApp: a reconnect takes one fault to begin and up to three to fail in each of its steps; three commands are start,
  stop, start. The frames are those of the file of the camera; `CameraAssumption` says what is used of it.
* MQTT: `PingAt` is 11 in the code, and what matters of it is that the count can and need not get there. Three faults are
  enough for a reconnect to fail while it repairs a failure that came late. Two publishes give one before and one after
  the first context is gone.
* H264: a start code has four bytes at most, so that eight hold two of them, adjacent, overlapping or cut by the end.
  Of other bytes the scan sees only that they are neither 0 nor 1, in which the two differ from each other already; the
  theorems are for all bytes. Room for one unit makes an overflow possible in a frame of this length.
* SimCamera: two frames make a video that has an end and a beginning; five threads allow all four streams and a restart.
* Device: an owner that calls init late, after a start, is there already with one; four threads are both streams of the
  camera twice, or both streams of both. Two alarm tasks are the least that can disagree.
* ADTS: nine bytes hold four frames, so that the array fills and overflows, or three with gaps in what the decoder can
  read; the bits of a length are two, one and one, so that half of the lengths read negative, by more than a frame and by less. Bytes
  that are no header read as one of length 0, as one that leads back on to a frame, or past the end. `HeaderAssumption`: of
  the two lengths a header can have, 7 and 9, neither is twice the other or more.
* InstanceLife: two contexts are there one after the other, the older one's thread outliving it. An event is a context
  made, a call of the user, or what the network, the broker or malloc do wrong: a failed start, a refused connect, an
  error in any call, an unanswered SUBSCRIBE, no memory for a client or a session. Four are one context with any three of
  calls and faults (a call that meets an error while the thread meets another) or two with two. Contexts at the same time
  (`Together`) are left to the safety theorems, which hold for any number of each; they share `mMqttContex` only.
* LogChannel: two senders pass one free place of a queue of two; five messages fill it and go round. A second opening
  meets a sender of the first.

`CHECK_DEADLOCK FALSE` is set where the system may really stop (a fault or crash, a function that returns, a loop that
spins, no commands left), and the cfg says which. The MQTT model has its own stuttering step for a crash, so that deadlock is checked.

The program itself bounds none of `connects`, `sent`, `faults`, `commands`, `publishes`, `events`, `made`, `inits`,
`MaxThreads`, `MaxTasks`, `MaxJpegs`. The bounds are in the guards, named, and the theorems hold for all their values.

## 4. Fairness

* `MessageQueue`: weak fairness of each thread inside a call, timers included; nobody is obliged to begin a call and no
  spurious wakeup is promised. A lock that is free is in the end taken.
* `ControlSession`: weak fairness of the MQTT thread and of the main thread. The network owes nothing: that it stays up
  is a premise of the properties.
* `StreamApp`: weak fairness inside a callback (SDK calls return, with success or not). Strong fairness of taking
  `app.mutex` and of key frames: a capture thread sleeps between two frames, so that the mutex is free over and over, and
  the camera sends a key frame now and then whatever else it sends.
* `MqttInstance`: weak fairness of both threads, of TCP giving up on a peer that does not acknowledge (`GiveUp`) and of
  the broker closing a connection it has refused, or one that goes on waiting for a CONNACK it has dropped, and so is
  silent for 1.5 keep-alive periods (`BrokerCloses`, what MQTT prescribes). That it closes on a connected client whose
  ping is late (`PingIsLate`) is allowed and not obliged: the keep-alive is 10 s (`sig_ctl.c:89`), the ping goes out after 11
  idle passes of about 1.5 s, some 16 s, and a broker may be strict about the 15 s or not. Hence `Reconnects` promises a
  connection again and again, and one that lasts unless the broker keeps closing on late pings.
* `SimCamera`: weak fairness of each capture thread, its callback included. The owner is free.
* `Device`: the same, and of the owner within a call: a step is possible unless it waits for a thread. Nobody has to make
  a call.
* `AdtsDecode`: weak fairness of the whole, which is one thread.
* `InstanceLife`: weak fairness of each instance's thread (the waits of the client library end) and of the user within a
  call: it comes back, unless the lock stays taken or `DeleteNode` has it. It need not make any call. Weak is enough where
  a thread waits for `listMutex`: it is contended by a user whose calls are bounded. In the program a user that calls
  without end could starve the thread; pthread mutexes promise nothing there.
* `LogChannel`: weak fairness of `LinkLogThread`, of the owner within `LinkDinitLog`, and of a sender that holds the queue's
  mutex. Senders are free otherwise.

## 5. Proofs

Every listed theorem has the form `Spec => []P` or `Spec => [][A]_vars` (`DeviceSpec` for Device), or states a refinement
or what an operator computes, for all values of the constants under the assumptions named in the modules. Each module of
proofs has one inductive invariant (theorem `Inductive`; `DeviceInductive` for Device, `AdtsInductive` for the ADTS
decoder), from which the others follow.

* **Queue** (`TypeCorrect`, `RingConsistent`, `SingleReceiver`, `WakeupsNotLost`, `FaultsAreLate`, `FreeIsSafe`,
  `Refinement`, `DeadlockFree`, `DestroyIsNotStuck`, `DestroyEnds`). Added to the properties: where each kind of thread may
  be (`Roles`), what `alive` says of the destroyer (`Life`), that a sender past its lock owns `mutex` and has a message, and that callers who are held back are outside
  while the queue is freed (`HeldBack`). `WakeupsNotLost` rests on `SingleReceiver`: since one receiver at a time is
  inside, the one signal goes to it. `Refinement` maps each step to a step of `LossyQueue` or a stutter. What
  `DestroyTerminates` says beyond fairness is proved for any number of threads: a lock that is taken has a holder inside
  (`LocksAreHeld`), so that the two locks and the wait under one of them make no deadlock (`DeadlockFree`); a destroyer waits
  only for a receiver that can go on (`DestroyIsNotStuck`); and each step anybody takes once the queue is shut is the
  destroyer's or brings this receiver nearer to its return (`DestroyEnds`, with `StepsLeft` as the measure).
* **Sessions** (`RoutingIsSafe`, `SlotsExplained`, `HeardExactly`, `FirstConnectIsSafe`, `QueuesAreLossy`). The used slots
  are the failed ones, an initial segment of the table, and the slot at hand (`SlotInv`); this is why one failed
  subscription shadows all later sessions, and why nothing else does. `QueuesAreLossy` joins this module to the one before:
  for each address the queue there, as its users see it, takes steps of `LossyQueue` only, though the table that leads to it
  is written and read without a lock. The mapping takes an address for an open, empty queue until one is made there, and
  what `EventLoop` took for its result until it is handled. No run checks this one: TLC cannot take a property for each address.
* **Streaming** (`SdkIsLocked`, `ContextIsLive`, `Configuration`, `LeaksExplained`, `StopTakesHold`). The holder of
  `app.mutex` is the only thread inside; `pContext` is NULL or the SDK's one context, except in `RtmpReconnect`; a context
  whose restart flag is down has been configured (`Configured`); a thread that has sent after a stop holds no
  further frame (`Late`).
* **MQTT** (`NeverStuck`, `ContextIsOne`, `FaultsAreExplained`, `LibraryIsLocked`). A thread in a guarded call or in the
  callback of one holds `listMutex`; until `blame` is non-empty only the MQTT thread replaces `mosq`, so that its copy is
  `mosq` wherever it is followed.
* **H.264** (`EveryUnitFound`, `Tiling`, `Overrun`, `Overflow`). The loop invariant: the units stand behind the codes
  that begin before `pStart`, each took three bytes, and `pStart` is not in the middle of a code of four bytes.
* **ADTS** (`DecoderStaysInside`, `DecoderFindsFrames`, `OnlyLongFramesMisread`, `AudioInOrder`, `AudioAdvances`). The
  frames of a file are an initial segment of it, one behind the other (`Divided`); while a buffer is decoded, `pSyncWord`
  is at the start of one of its frames and the units are the frames before it (`Handed`, `InStep`), and the entries copied
  fit what was handed over (`CopiesFit`). What a length is read as is shown equal to its meaning for all lengths when
  `char` is unsigned (`ReadAsMeant`); `OnlyLongFramesMisread` says that where `char` is signed, only a frame whose
  length has a middle byte of 128 or more can send the decoder wrong. `PlaysToTheLast` itself is liveness; what it rests on apart from
  fairness is proved: what was sent is always the first frames of the file, in order (`AudioInOrder`), and every step
  brings the file nearer to its end or the call nearer to its return (`AudioAdvances`).
* **Camera** (`Ownership`, `SafeStops`, and `TypeCorrect`, which says too that no thread reads past the end of its file).
  The audio of a stream has a thread when its video has, except in the middle of a start or stop (`Pairs`): that is what
  makes a stop of the video that looks at the audio's `tid` right. It takes an invariant of the calls still to make
  (`Shapes`). `SafeStops` adds the order of the owner's calls (`Orderly`).
* **Device** (`DeviceSafety`, `AlarmsByTurns`). Until an init comes under running threads, the camera is as its own
  invariant says, or, before init, as `Early` says: only the video has a thread, which finds no file, and no audio has
  one, so that nobody is joined. An init that meets no thread leads from either to the former. `MainInv`: `main` has
  started nothing when it calls init. One `AlarmTask` never reports next what it has reported last (`AlarmInv`).
* **Instances** (`EventsAreTrue`, `CrashesHaveCauses`, `NoCircle`, `HangStays`). `CopyInv` is the heart: a copy of `mosq` is
  good as long as `mosq` is, and one that dangles is in the hands of a thread that is freeing the client itself, or an
  accident has been noted. `ClientInv`: a client is freed only where another is about to be made, at the end, or with no
  memory for the next. `ContextInv` says that a context whose instance was made is freed only with `isDestroying` set, which
  is why a destruction is needed for `mMqttContex` to dangle, and that a call without haste meets an instance whose
  `LinkMqttInit` is over. `StatusInv` says between which steps `told`, `lastStatus` and `connected` may disagree: while a
  success is being told, without an overlap, nobody is in `OnDisconnectCallback`. `LockInv` ties `listMutex` to the place of its
  holder, through the waits and the callbacks that happen under it; from it, whoever waits for `listMutex` waits for a
  thread that is inside it and waits for no lock, so that there is no circle (`NoCircle`), and an instance whose user is in
  the endless loop of `DeleteNode` stays silent for good (`HangStays`).
* **Log channel** (`QueueOutlivesThread`, `DropsExplained`). `LifeInv` ties the owner's place to the thread's and the
  queue's: it is shut only between the join and the next opening. `RaceInv` says that a sender beside which nobody
  was storing when it looked, nor since, still has its free place, as only senders fill the queue; and that a sender that
  has found none is one that was raced.

Checked by TLC only: all liveness (`DestroyTerminates`, `ConnectHandled`, `ObeyedUnlessOneFailed`, `StreamRecovers`,
`LossNoticed`, `Reconnects`, `VideoPlaysOn`, `PlaysToTheLast`, `ThreadEnds`, `HearsUnlessHung`, `DinitReturns`,
`CallsReturn`), as the provers used here do not handle fairness and `ENABLED`.

## 6. Where the code and its documentation disagree

| run | the documentation | the code |
|---|---|---|
| `mqtt_connack` | `wolfmqtt.c:353`: "Send Connect and wait for Connect Ack" | a connection that was refused is reported as made, because a failed write returns 0 |
| `adts_signed` | `adts.c:36`: "nAacFrameLen = headerlen + aacDataLen" | where `char` is signed, a length whose middle byte is 128 or more reads negative, and the decoder goes back |

Other disagreements show in properties that hold because they name the exception:

* `queue.c:144` says "if queue is empty, wait for events until timeout"; the wait is made once (`queue.c:152`), so that any
  wakeup ends the call. `Resume` of `LogChannel` and `RecvNothing` of `ControlSession` are such calls.
* `src/README.md:28` has `pushLiveStart` start the stream and `pushSucceed` sent. After a subscription whose answer is late
  the slot leaks (`control.c:73`), gets all messages from then on, and nobody reads it (`ObeyedUnlessOneFailed`). A start is
  lost too that the broker delivers for a subscription it has kept, when the connect event came before the context was set
  or found no memory.
* `src/README.md:29` has `pushLiveStop` stop the stream. A callback that has read `nStreamSts` (`main.c:139`) sends its frame
  afterwards, one for each capture thread (`OneFrameAfterStop`).
* `doc/Quick_Start_Guide.md:51` has `stopStream` stop video and audio; the simulator's stops the video of the main stream
  only (`SimDevStopStream`).

Seen while modelling and stated by properties that hold: what a reconnect leaks is the wrapper of each `RtmpNewContext`
that failed half-way (`LeaksAreFailedNews`); a second connect event may make the main thread follow a pointer that is
gone (`FaultsNeedReconnect`); the last of several H.264 units reaches past the frame (`OnlyTheLastOverruns`); stopping
the camera twice joins thread 0 and an init under running threads loses their callbacks (`DeviceIsSafe`); the accidents
in `blame`; the ways a crash comes about that `CrashesExplained` names; an error met while a success is being told
leaves behind the wrong report (`ToldTheTruth`); an unsubscription from any but the first topic hangs the instance
(`HearsUnlessHung`); the last AAC frame of a file is never sent (`PlaysToTheLast`).

## 7. What is not modelled

* In the MQTT part: TLS (not compiled in), QoS above 0 and packet ids, and time: how long the passes take that the
  keep-alive counts (`wolfmqtt.c:406`) is not seen, and the broker may find any ping late. Packets are whole: what becomes of one that was read half when
  `LinkMqttLoop` drops its copy of the client (`wolfmqtt.c:399`) depends on the framing in wolfMQTT, which is external.
  `mqttnet.c` is modelled by what its functions return; its ports to other systems and to MQTT-SN are not.
  `LinkMqttSubscribe` writes `ctx->subscribe` before it takes the lock (`wolfmqtt.c:100`): two subscriptions at once may spoil
  each other's packet, which no model has.
* Errors of `pthread_create` and of the queue's `malloc` in `LinkInitLog`, which leave everything as it was.
* In the application: what the frames contain beyond their units, and the copying of video data.
* In the camera: H.265 and G.711 (no call selects them), pacing and timestamps, and which of the two
  streams a frame is said to come from, which `main.c` does not look at. The name that
  `SimDevCaptureJpeg` leaves on its stack (`ipc_simulator.c:812`): the callback in the repository does not read it.
* Logging and tracing have no state that others read; cJSON is used under `#if 0` only. wolfMQTT
  and librtmp_sdk are external: their calls work or fail as the code that calls them can see.
* Nothing is stored, so that there is no recovery after a crash to model.

## 8. Plan

Order by importance. Written, checked and proved: 1 to 10.

1. `MessageQueue` with `LossyQueue`: everything else hands its messages through it.
2. `ControlSession`: how a command arrives.
3. `StreamApp`: how a frame leaves.
4. `MqttInstance`: what keeps the first alive.
5. `H264Decode`.
6. `SimCamera`.
7. `AdtsDecode`: the frames of a file, found and played.
8. `InstanceLife`: who frees what, and who still looks at it.
9. `LogChannel`: the second user of the queue.
10. `Device`: the order of calls that `SimCamera` takes for granted.
11. `LinkEvents`: an abstract view of `MqttInstance` and of `InstanceLife`, connects and disconnects only, whose steps are the
    `Connect` and `Disconnect` of `ControlSession`, late and repeated reports included; a refinement and a theorem.
12. `CameraStream`, `SimCamera` composed with `StreamApp`: `stopStream` against a callback that waits for a reconnect under
    `app.mutex` (`main.c:221` warns that it will block).
13. `KeepAlive`: the count of timeouts with the passes of the loop as its clock; which pings are late, where `PingIsLate`
    takes any for it.
