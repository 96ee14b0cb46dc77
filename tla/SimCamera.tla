-------------------------------- MODULE SimCamera --------------------------------
(***************************************************************************)
(* The simulated camera of src/src/sample/devices/ipc_simulator.c: its     *)
(* capture threads, which play a recorded file into the callbacks of the   *)
(* application, and the calls of CaptureDevice that start and stop them.   *)
(*                                                                         *)
(* One thread, the owner, makes the calls; each is a list of calls of      *)
(* simdev_*, done one after the other.  A stop decides by the tid of the   *)
(* AUDIO stream whether to join, also when it stops the video              *)
(* (ipc_simulator.c:562).  isAac is always 1 and isH265 of a video stream  *)
(* always 0, since nothing calls simdev_set_audio_format and               *)
(* simdev_set_video_format sets the audio stream's.                        *)
(***************************************************************************)
EXTENDS Integers, Sequences

CONSTANTS
    VideoFrames, AudioFrames,   \* the frames in the video; those it plays of the audio
    MaxThreads                  \* bound on the threads ever created

ASSUME FrameAssumption ==
    /\ VideoFrames \in Nat \ {0, 1}
    /\ AudioFrames \in Nat
    /\ MaxThreads \in Nat

Streams == {"main", "sub"}
Cameras == {"video", "audio"} \X Streams
Threads == 1 .. MaxThreads
NoThread == 0

VARIABLES
    subStreamEnable,
    cb, isStop, tid,        \* of each Stream: is the callback set, ...
    created,                \* the number of threads created so far
    of, pc, offset,         \* of each thread: its Stream, place and frame
    todo,                   \* the calls of simdev_* the owner is to make yet
    crashed,                \* a NULL callback called, or thread 0 joined
    last, again             \* of the owner: start or stop last, and a stop twice

streams == <<cb, isStop, tid>>
threads == <<created, of, pc, offset>>
history == <<last, again>>
vars == <<subStreamEnable, streams, threads, todo, crashed, history>>

\* SimDevInitIPC has been called, once.
Init ==
    /\ subStreamEnable \in BOOLEAN
    /\ cb = [c \in Cameras |-> FALSE]
    /\ isStop = [c \in Cameras |-> FALSE]
    /\ tid = [c \in Cameras |-> NoThread]
    /\ created = 0
    /\ of = [t \in Threads |-> <<"video", "main">>]
    /\ pc = [t \in Threads |-> "none"]
    /\ offset = [t \in Threads |-> 0]
    /\ todo = <<>>
    /\ crashed = FALSE
    /\ last = "stop" /\ again = FALSE

-------------------------------------------------------------------------------
\* The owner's calls.  audioEnable is 1 from SimDevInitIPC on.

Call(op, kind, stream) == [op |-> op, c |-> <<kind, stream>>]

SimDevStartStream ==
    /\ todo = <<>>
    /\ todo' = IF subStreamEnable
               THEN <<Call("start", "video", "main"), Call("start", "audio", "main"),
                      Call("start", "video", "sub"), Call("start", "audio", "sub")>>
               ELSE <<Call("start", "video", "main"), Call("start", "audio", "main")>>
    /\ last' = "start"
    /\ UNCHANGED <<subStreamEnable, streams, threads, crashed, again>>

\* Only the video of the main stream.
SimDevStopStream ==
    /\ todo = <<>>
    /\ todo' = <<Call("stop", "video", "main")>>
    /\ again' = (again \/ last = "stop")
    /\ last' = "stop"
    /\ UNCHANGED <<subStreamEnable, streams, threads, crashed>>

\* Mutant: the audio is stopped first.
SimDevDeInitAudioFirst ==
    /\ todo = <<>>
    /\ todo' = <<Call("stop", "audio", "sub"), Call("stop", "video", "sub")>>
    /\ UNCHANGED <<subStreamEnable, streams, threads, crashed, history>>

\* Only the second stream.
SimDevDeInitIPC ==
    /\ todo = <<>>
    /\ todo' = <<Call("stop", "video", "sub"), Call("stop", "audio", "sub")>>
    /\ UNCHANGED <<subStreamEnable, streams, threads, crashed, history>>

\* The call the owner is in: op on the Stream c.
Doing(op, c) == todo # <<>> /\ Head(todo) = [op |-> op, c |-> c]

\* simdev_start_video and simdev_start_audio.
StartAgain(c) ==
    /\ Doing("start", c) /\ cb[c]
    /\ todo' = Tail(todo)
    /\ UNCHANGED <<subStreamEnable, streams, threads, crashed, history>>

Start(c) ==
    /\ Doing("start", c) /\ ~cb[c]
    /\ created < MaxThreads
    /\ LET t == created + 1
       IN  /\ created' = t
           /\ tid' = [tid EXCEPT ![c] = t]
           /\ of' = [of EXCEPT ![t] = c]
           /\ pc' = [pc EXCEPT ![t] = "asleep"]
    /\ cb' = [cb EXCEPT ![c] = TRUE]
    /\ isStop' = [isStop EXCEPT ![c] = FALSE]
    /\ todo' = Tail(todo)
    /\ UNCHANGED <<subStreamEnable, offset, crashed, history>>

\* simdev_stop_video and simdev_stop_audio up to the join, if there is one.
Stop(c) ==
    /\ Doing("stop", c)
    /\ isStop' = [isStop EXCEPT ![c] = TRUE]
    /\ LET next == IF tid[<<"audio", c[2]>>] # NoThread THEN "join" ELSE "clear"
       IN  todo' = [todo EXCEPT ![1].op = next]
    /\ UNCHANGED <<subStreamEnable, cb, tid, threads, crashed, history>>

\* pthread_join: of a thread that has ended, or of thread 0.
Join(c) ==
    /\ Doing("join", c)
    /\ tid[c] # NoThread /\ pc[tid[c]] = "ended"
    /\ todo' = [todo EXCEPT ![1].op = "clear"]
    /\ UNCHANGED <<subStreamEnable, streams, threads, crashed, history>>

JoinNothing(c) ==
    /\ Doing("join", c)
    /\ tid[c] = NoThread
    /\ crashed' = TRUE
    /\ UNCHANGED <<subStreamEnable, streams, threads, todo, history>>

\* The rest of the stop.
Clear(c) ==
    /\ Doing("clear", c)
    /\ cb' = [cb EXCEPT ![c] = FALSE]
    /\ tid' = [tid EXCEPT ![c] = NoThread]
    /\ todo' = Tail(todo)
    /\ UNCHANGED <<subStreamEnable, isStop, threads, crashed, history>>

-------------------------------------------------------------------------------
\* A capture thread: start_video_file_test or start_audio_file_test.

Video(t) == of[t][1] = "video"

Go(t, from, to) ==
    /\ pc[t] = from
    /\ pc' = [pc EXCEPT ![t] = to]
    /\ UNCHANGED <<subStreamEnable, streams, created, of, todo, history>>

\* sleep(3) and readFileToBuf, which may find no file.
ReadFile(t) == Go(t, "asleep", "loop") /\ UNCHANGED <<offset, crashed>>
ReadFails(t) == Go(t, "asleep", "ended") /\ UNCHANGED <<offset, crashed>>

\* The loop ends.
Leave(t) ==
    /\ isStop[of[t]]
    /\ Go(t, "loop", "ended")
    /\ UNCHANGED <<offset, crashed>>

\* There is a frame at offset.  The last one of a video file is never taken: its
\* end has to be before the end of the file.
TakeFrame(t) ==
    /\ ~isStop[of[t]]
    /\ offset[t] < IF Video(t) THEN VideoFrames - 1 ELSE AudioFrames
    /\ Go(t, "loop", "taken")
    /\ UNCHANGED <<offset, crashed>>

\* Mutant: the video stays at its end, as the audio does.
RewindNothing(t) ==
    /\ ~isStop[of[t]]
    /\ Video(t) /\ offset[t] > VideoFrames - 1
    /\ Go(t, "loop", "loop")
    /\ offset' = [offset EXCEPT ![t] = 0]
    /\ UNCHANGED crashed

\* At its end a video file begins again.  An AAC file does not: its thread goes
\* round without a callback until it is stopped.
Rewind(t) ==
    /\ ~isStop[of[t]]
    /\ Video(t) /\ offset[t] >= VideoFrames - 1
    /\ Go(t, "loop", "loop")
    /\ offset' = [offset EXCEPT ![t] = 0]
    /\ UNCHANGED crashed

\* dataCallback, through the pointer in the Stream, whether it is NULL or not.
CallBack(t) ==
    /\ Go(t, "taken", IF cb[of[t]] THEN "inside" ELSE "ended")
    /\ crashed' = ~cb[of[t]]
    /\ UNCHANGED offset

\* The callback returns 0, as SimDevVideoGetFrameCb and SimDevAudioGetFrameCb
\* always do.
Return(t) ==
    /\ Go(t, "inside", "loop")
    /\ offset' = [offset EXCEPT ![t] = @ + 1]
    /\ UNCHANGED crashed

-------------------------------------------------------------------------------
Owner ==
    \/ SimDevStartStream \/ SimDevStopStream \/ SimDevDeInitIPC
    \/ \E c \in Cameras :
        \/ StartAgain(c) \/ Start(c)
        \/ Stop(c) \/ Join(c) \/ JoinNothing(c) \/ Clear(c)

Capture(t) ==
    \/ ReadFile(t) \/ ReadFails(t)
    \/ Leave(t) \/ TakeFrame(t) \/ Rewind(t)
    \/ CallBack(t) \/ Return(t)

\* A crash is of the whole program.
Next == ~crashed /\ (Owner \/ \E t \in Threads : Capture(t))

Spec == Init /\ [][Next]_vars

\* A capture thread runs on, and the application's callback returns.
FairSpec == Spec /\ \A t \in Threads : WF_vars(~crashed /\ Capture(t))

-------------------------------------------------------------------------------
Calls == [op : {"start", "stop", "join", "clear"}, c : Cameras]

\* Types; and that no capture thread reads past the end of its file.
TypeOK ==
    /\ subStreamEnable \in BOOLEAN
    /\ cb \in [Cameras -> BOOLEAN] /\ isStop \in [Cameras -> BOOLEAN]
    /\ tid \in [Cameras -> {NoThread} \cup Threads]
    /\ created \in 0 .. MaxThreads
    /\ of \in [Threads -> Cameras]
    /\ pc \in [Threads -> {"none", "asleep", "loop", "taken", "inside", "ended"}]
    /\ offset \in [Threads -> Nat]
    /\ \A t \in Threads :
        offset[t] <= IF Video(t) THEN VideoFrames - 1 ELSE AudioFrames
    /\ todo \in Seq(Calls)
    /\ crashed \in BOOLEAN
    /\ last \in {"start", "stop"} /\ again \in BOOLEAN

\* Every running capture thread is the one its Stream knows, and finds its
\* callback set: no two threads play into one stream after a restart, and none
\* calls NULL, although a stop of a video looks at the tid of the audio.
CapturesAreOwned ==
    \A t \in Threads : pc[t] \notin {"none", "ended"} =>
        tid[of[t]] = t /\ cb[of[t]]

\* The program crashes only when the owner stops a stream it has not started
\* since the last stop: the audio's tid is there, the video's is not.
StopsAreSafe == crashed => again

\* A video goes on, from the end of its file to the beginning, until it is
\* stopped.
VideoPlaysOn ==
    \A t \in Threads :
        pc[t] = "loop" /\ Video(t) ~> pc[t] \in {"inside", "ended"} \/ crashed
===============================================================================
