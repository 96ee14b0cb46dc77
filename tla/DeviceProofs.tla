------------------------------- MODULE DeviceProofs -------------------------------
(***************************************************************************)
(* Proofs about SimCamera, for files of any length and any number of       *)
(* threads, and about Device over it.                                      *)
(*                                                                         *)
(* What makes the properties inductive: the audio of a stream is started   *)
(* right after its video and stopped right after it, or never, so that at  *)
(* a stop of a video the tid of the audio is there whenever the video's    *)
(* is.  That takes an invariant of the owner's calls still to come.        *)
(* Before init only the video is started, and no thread gets as far as a   *)
(* frame; init under threads that run gives all this up.                   *)
(***************************************************************************)
EXTENDS Device, TLAPS

StopOps == {"stop", "join", "clear"}

\* What the owner may have to do yet: the rest of a start, with both streams or
\* with the main one, or the rest of a stop.
VM == Call("start", "video", "main")
AM == Call("start", "audio", "main")
VS == Call("start", "video", "sub")
AS == Call("start", "audio", "sub")

Both == <<VM, AM, VS, AS>>
BothLeft == <<AM, VS, AS>>
Main == <<VM, AM>>
MainLeft == <<AM>>
Sub == <<VS, AS>>
SubLeft == <<AS>>

StopsMain(s) == \E op \in StopOps : s = <<Call(op, "video", "main")>>
StopsSub(s) ==
    \E op \in StopOps : s = <<Call(op, "video", "sub"), Call("stop", "audio", "sub")>>
StopsSubLeft(s) == \E op \in StopOps : s = <<Call(op, "audio", "sub")>>

Shapes ==
    {s \in Seq(Calls) :
        \/ s \in {<<>>, Both, BothLeft, Main, MainLeft, Sub, SubLeft}
        \/ StopsMain(s) \/ StopsSub(s) \/ StopsSubLeft(s)}

\* The owner is to make this call now.
Now(op, kind, stream) == Doing(op, <<kind, stream>>)

\* A running thread is the one its Stream knows; the callback is set exactly if
\* there is a thread, and threads are numbered as they are created.
Owned ==
    /\ \A c \in Cameras :
        /\ cb[c] <=> tid[c] # NoThread
        /\ tid[c] # NoThread => of[tid[c]] = c
        /\ tid[c] <= created
    /\ \A t \in Threads :
        /\ pc[t] \notin {"none", "ended"} => tid[of[t]] = t
        /\ t > created => pc[t] = "none" /\ offset[t] = 0

\* A frame that has been taken is in the file.
Taken ==
    \A t \in Threads : pc[t] \in {"taken", "inside"} =>
        offset[t] < IF Video(t) THEN VideoFrames - 1 ELSE AudioFrames

\* The video of a stream has a thread if and only if its audio has, except in the
\* middle of a start or a stop; and what that means for the call at hand.
VideoMain == tid[<<"video", "main">>]
AudioMain == tid[<<"audio", "main">>]
VideoSub == tid[<<"video", "sub">>]
AudioSub == tid[<<"audio", "sub">>]
StopsAudio == \E op \in StopOps : Now(op, "audio", "sub")

Pairs ==
    /\ VideoMain # NoThread /\ AudioMain = NoThread => Now("start", "audio", "main")
    /\ VideoSub # NoThread /\ AudioSub = NoThread => Now("start", "audio", "sub")
    /\ VideoSub = NoThread /\ AudioSub # NoThread => StopsAudio
    /\ StopsAudio => VideoSub = NoThread
    /\ Now("start", "audio", "main") => VideoMain # NoThread
    /\ Now("start", "audio", "sub") => VideoSub # NoThread
    /\ Now("join", "video", "sub") => VideoSub # NoThread
    /\ Now("join", "audio", "sub") => AudioSub # NoThread

\* Of the owner who stops the main stream only after a start; or after an init, which
\* leaves the audio without a thread too.
Orderly ==
    /\ last = "start" =>
        VideoMain # NoThread \/ AudioMain = NoThread \/ Now("start", "video", "main")
    /\ Now("stop", "video", "main") =>
        VideoMain # NoThread \/ AudioMain = NoThread \/ again
    /\ Now("join", "video", "main") => VideoMain # NoThread \/ again
    /\ \A op \in StopOps : Now(op, "video", "main") => last = "stop"

\* A Stream is cleared when its thread has ended.
Cleared ==
    \A c \in Cameras : Doing("clear", c) /\ tid[c] # NoThread => pc[tid[c]] = "ended"

IInv ==
    /\ TypeOK /\ todo \in Shapes
    /\ Owned /\ Taken /\ Pairs /\ Orderly /\ Cleared
    /\ StopsAreSafe

-------------------------------------------------------------------------------
\* The starts are lists of calls.
LEMMA StartShapes ==
    /\ Both \in Shapes /\ BothLeft \in Shapes /\ Main \in Shapes /\ MainLeft \in Shapes
    /\ Sub \in Shapes /\ SubLeft \in Shapes /\ <<>> \in Shapes
<1>1. VM \in Calls /\ AM \in Calls /\ VS \in Calls /\ AS \in Calls
  BY DEF VM, AM, VS, AS, Call, Calls, Cameras, Streams
<1>2. ASSUME NEW x \in Calls, NEW y \in Calls, NEW z \in Calls, NEW w \in Calls
      PROVE  /\ <<x>> \in Seq(Calls) /\ <<x, y>> \in Seq(Calls)
             /\ <<x, y, z>> \in Seq(Calls) /\ <<x, y, z, w>> \in Seq(Calls)
  OBVIOUS
<1>3. /\ Both \in Seq(Calls) /\ BothLeft \in Seq(Calls) /\ Main \in Seq(Calls)
      /\ MainLeft \in Seq(Calls) /\ Sub \in Seq(Calls) /\ SubLeft \in Seq(Calls)
  BY <1>1, <1>2, Zenon DEF Both, BothLeft, Main, MainLeft, Sub, SubLeft
<1>4. <<>> \in Seq(Calls)
  OBVIOUS
<1> QED BY <1>3, <1>4, Zenon DEF Shapes

\* The stops are.
LEMMA StopShapes ==
    ASSUME NEW op \in StopOps
    PROVE  /\ <<Call(op, "video", "main")>> \in Shapes
           /\ <<Call(op, "video", "sub"), Call("stop", "audio", "sub")>> \in Shapes
           /\ <<Call(op, "audio", "sub")>> \in Shapes
<1>1. /\ Call(op, "video", "main") \in Calls /\ Call(op, "video", "sub") \in Calls
      /\ Call(op, "audio", "sub") \in Calls /\ Call("stop", "audio", "sub") \in Calls
  BY DEF Call, Calls, Cameras, Streams, StopOps
<1>2. ASSUME NEW x \in Calls, NEW y \in Calls
      PROVE  <<x>> \in Seq(Calls) /\ <<x, y>> \in Seq(Calls)
  OBVIOUS
<1> QED BY <1>1, <1>2, Zenon DEF Shapes, StopsMain, StopsSub, StopsSubLeft

\* The first call of a start, and the rest of it.
LEMMA StartCalls ==
    /\ Both # <<>> /\ Head(Both) = VM /\ Tail(Both) = BothLeft
    /\ BothLeft # <<>> /\ Head(BothLeft) = AM /\ Tail(BothLeft) = Sub
    /\ Main # <<>> /\ Head(Main) = VM /\ Tail(Main) = MainLeft
    /\ MainLeft # <<>> /\ Head(MainLeft) = AM /\ Tail(MainLeft) = <<>>
    /\ Sub # <<>> /\ Head(Sub) = VS /\ Tail(Sub) = SubLeft
    /\ SubLeft # <<>> /\ Head(SubLeft) = AS /\ Tail(SubLeft) = <<>>
<1>1. Both # <<>> /\ Head(Both) = VM
  BY DEF Both
<1>7. Tail(Both) = BothLeft
  BY DEF Both, BothLeft
<1>2. BothLeft # <<>> /\ Head(BothLeft) = AM
  BY DEF BothLeft
<1>8. Tail(BothLeft) = Sub
  BY DEF BothLeft, Sub
<1>3. Main # <<>> /\ Head(Main) = VM
  BY DEF Main
<1>9. Tail(Main) = MainLeft
  BY DEF Main, MainLeft
<1>4. MainLeft # <<>> /\ Head(MainLeft) = AM
  BY DEF MainLeft
<1>10. Tail(MainLeft) = <<>>
  BY DEF MainLeft
<1>5. Sub # <<>> /\ Head(Sub) = VS
  BY DEF Sub
<1>11. Tail(Sub) = SubLeft
  BY DEF Sub, SubLeft
<1>6. SubLeft # <<>> /\ Head(SubLeft) = AS
  BY DEF SubLeft
<1>12. Tail(SubLeft) = <<>>
  BY DEF SubLeft
<1> QED BY <1>1, <1>2, <1>3, <1>4, <1>5, <1>6, <1>7, <1>8, <1>9, <1>10, <1>11, <1>12

\* What comes first, and what is left after it.
StartsVideo(s, x) ==
    /\ Head(s) = Call("start", "video", x)
    /\ Tail(s) \in Shapes /\ Tail(s) # <<>>
    /\ Head(Tail(s)) = Call("start", "audio", x)

StartsAudio(s, x) ==
    /\ Head(s) = Call("start", "audio", x)
    /\ Tail(s) \in Shapes
    /\ Tail(s) = <<>> \/ Head(Tail(s)) = Call("start", "video", "sub")

LEMMA ShapeCases ==
    ASSUME NEW s \in Shapes, s # <<>>
    PROVE  \/ \E x \in Streams : StartsVideo(s, x) \/ StartsAudio(s, x)
           \/ StopsMain(s) \/ StopsSub(s) \/ StopsSubLeft(s)
<1>1. "main" \in Streams /\ "sub" \in Streams
  BY DEF Streams
<1>2. s \in {Both, Main} => StartsVideo(s, "main")
  BY StartShapes, StartCalls, Zenon DEF StartsVideo, VM, AM
<1>3. s = Sub => StartsVideo(s, "sub")
  BY StartShapes, StartCalls, Zenon DEF StartsVideo, VS, AS
<1>4. s \in {BothLeft, MainLeft} => StartsAudio(s, "main")
  BY StartShapes, StartCalls, Zenon DEF StartsAudio, AM, VS
<1>5. s = SubLeft => StartsAudio(s, "sub")
  BY StartShapes, StartCalls, Zenon DEF StartsAudio, AS
<1> QED BY <1>1, <1>2, <1>3, <1>4, <1>5, Zenon DEF Shapes

-------------------------------------------------------------------------------
\* Calls are told apart by what they are of.
LEMMA CallsDiffer ==
    \A op1, op2, k1, k2, x1, x2 :
        Call(op1, k1, x1) = Call(op2, k2, x2) <=> op1 = op2 /\ k1 = k2 /\ x1 = x2
BY DEF Call

\* The Streams.
LEMMA TheCameras ==
    /\ Cameras = {<<"video", "main">>, <<"audio", "main">>, <<"video", "sub">>, <<"audio", "sub">>}
    /\ \A k1, k2, x1, x2 : <<k1, x1>> = <<k2, x2>> <=> k1 = k2 /\ x1 = x2
BY DEF Cameras, Streams

LEMMA InitIInv == Init => IInv
<1> SUFFICES ASSUME Init PROVE IInv
  OBVIOUS
<1> USE FrameAssumption DEF Init
<1>1. todo = <<>> /\ todo \in Shapes
  BY StartShapes
<1>2. TypeOK
  <2>1. todo \in Seq(Calls)
    BY <1>1 DEF Shapes
  <2>2. \A t \in Threads : offset[t] <= IF Video(t) THEN VideoFrames - 1 ELSE AudioFrames
    OBVIOUS
  <2>3. of \in [Threads -> Cameras]
    BY TheCameras
  <2>4. pc \in [Threads -> {"none", "asleep", "loop", "taken", "inside", "ended"}]
    OBVIOUS
  <2>5. created \in 0 .. MaxThreads /\ offset \in [Threads -> Nat]
    OBVIOUS
  <2>6. tid \in [Cameras -> {NoThread} \cup Threads]
    OBVIOUS
  <2>7. /\ subStreamEnable \in BOOLEAN
        /\ cb \in [Cameras -> BOOLEAN] /\ isStop \in [Cameras -> BOOLEAN]
        /\ crashed \in BOOLEAN /\ last \in {"start", "stop"} /\ again \in BOOLEAN
    OBVIOUS
  <2> QED BY <2>1, <2>2, <2>3, <2>4, <2>5, <2>6, <2>7, Zenon DEF TypeOK
<1>3. Owned /\ Taken
  BY DEF Owned, Taken, NoThread, Threads
<1>4. Pairs
  BY <1>1, TheCameras DEF Pairs, VideoMain, AudioMain, VideoSub, AudioSub, StopsAudio, Now, Doing, NoThread
<1>5. Orderly /\ Cleared /\ StopsAreSafe
  BY <1>1 DEF Orderly, Cleared, StopsAreSafe, Now, Doing
<1> QED BY <1>1, <1>2, <1>3, <1>4, <1>5 DEF IInv

\* A step of a capture thread goes on to where it may go on to.
LEMMA CaptureStep ==
    ASSUME IInv, NEW t \in Threads, Capture(t)
    PROVE  IInv'
<1> USE DEF IInv
<1>1. PICK from \in {"asleep", "loop", "taken", "inside"},
           to \in {"asleep", "loop", "taken", "inside", "ended"} :
        /\ pc[t] = from
        /\ pc' = [pc EXCEPT ![t] = to]
        /\ UNCHANGED <<subStreamEnable, streams, created, of, todo, history>>
  BY DEF Capture, ReadFile, ReadFails, Leave, TakeFrame, Rewind, CallBack, Return, Go
<1>2. /\ UNCHANGED <<subStreamEnable, cb, isStop, tid, created, of, todo, last, again>>
      /\ pc[t] = from /\ pc[t] \notin {"none", "ended"}
      /\ pc' = [pc EXCEPT ![t] = to] /\ to # "none"
      /\ pc \in [Threads -> {"none", "asleep", "loop", "taken", "inside", "ended"}]
  BY <1>1 DEF streams, history, TypeOK
<1>3. /\ crashed' = crashed \/ (crashed' = FALSE /\ crashed' \in BOOLEAN)
      /\ crashed' \in BOOLEAN
  <2>1. cb[of[t]]
    BY <1>2 DEF Owned, TypeOK, Threads, NoThread
  <2> QED BY <2>1 DEF Capture, ReadFile, ReadFails, Leave, TakeFrame, Rewind, CallBack, Return, TypeOK
<1>4. \A u \in Threads : Video(u)' = Video(u)
  BY <1>2 DEF Video
<1>5. /\ offset' \in [Threads -> Nat]
      /\ \A u \in Threads : u # t => offset'[u] = offset[u]
      /\ offset'[t] <= IF Video(t) THEN VideoFrames - 1 ELSE AudioFrames
      /\ to \in {"taken", "inside"} =>
            offset'[t] < IF Video(t) THEN VideoFrames - 1 ELSE AudioFrames
  <2> USE FrameAssumption
  <2>1. CASE ReadFile(t) \/ ReadFails(t) \/ Leave(t)
    BY <2>1, <1>1 DEF ReadFile, ReadFails, Leave, Go, TypeOK
  <2>2. CASE TakeFrame(t)
    BY <2>2, <1>1 DEF TakeFrame, Go, TypeOK
  <2>3. CASE Rewind(t)
    BY <2>3, <1>1 DEF Rewind, Go, TypeOK
  <2>4. CASE CallBack(t)
    BY <2>4, <1>1 DEF CallBack, Go, TypeOK, Taken
  <2>5. CASE Return(t)
    <3>1. offset[t] \in Nat /\ offset[t] < IF Video(t) THEN VideoFrames - 1 ELSE AudioFrames
      BY <2>5 DEF Return, Go, TypeOK, Taken
    <3>2. offset' = [offset EXCEPT ![t] = offset[t] + 1] /\ to = "loop"
      BY <2>5, <1>1 DEF Return, Go, TypeOK
    <3> QED BY <3>1, <3>2 DEF TypeOK
  <2> QED BY <2>1, <2>2, <2>3, <2>4, <2>5 DEF Capture
<1>6. TypeOK' /\ (todo \in Shapes)'
  BY <1>2, <1>3, <1>4, <1>5, <1>1 DEF TypeOK
<1>7. Owned' /\ Taken'
  <2>1. t <= created
    BY <1>2 DEF Owned, Threads, TypeOK
  <2>2. Owned'
    BY <1>2, <1>5, <2>1 DEF Owned, Threads, TypeOK
  <2>3. Taken'
    BY <1>1, <1>2, <1>4, <1>5 DEF Taken
  <2> QED BY <2>2, <2>3
<1>8. Pairs' /\ Orderly'
  BY <1>2 DEF Pairs, VideoMain, AudioMain, VideoSub, AudioSub, StopsAudio, Now, Doing, Orderly
<1>9. Cleared'
  BY <1>2 DEF Cleared, Doing, TypeOK
<1>10. StopsAreSafe'
  BY <1>2, <1>3 DEF StopsAreSafe
<1> QED BY <1>6, <1>7, <1>8, <1>9, <1>10

-------------------------------------------------------------------------------
\* The owner makes one call at a time.
LEMMA OneCall ==
    ASSUME NEW op1, NEW op2, NEW c1, NEW c2, Doing(op1, c1), Doing(op2, c2)
    PROVE  op1 = op2 /\ c1 = c2
BY DEF Doing

\* What a list of calls makes the owner do.
LEMMA DoingFirst ==
    ASSUME NEW op, NEW k, NEW x, todo # <<>>, Head(todo) = Call(op, k, x)
    PROVE  Doing(op, <<k, x>>)
BY DEF Doing, Call

LEMMA DoingNext ==
    ASSUME NEW op, NEW k, NEW x, todo' # <<>>, Head(todo') = Call(op, k, x)
    PROVE  Doing(op, <<k, x>>)'
BY DEF Doing, Call

\* An owner with nothing to do is called.
LEMMA BeginStep ==
    ASSUME IInv, SimDevStartStream \/ SimDevStopStream \/ SimDevDeInitIPC
    PROVE  IInv'
<1> USE DEF IInv
<1>1. /\ todo = <<>>
      /\ UNCHANGED <<subStreamEnable, cb, isStop, tid, created, of, pc, offset, crashed>>
  BY DEF SimDevStartStream, SimDevStopStream, SimDevDeInitIPC, streams, threads
<1>2. \A op, c : ~Doing(op, c)
  BY <1>1 DEF Doing
<1>3. \/ /\ Doing("start", <<"video", "main">>)'
         /\ last' = "start" /\ again' = again
      \/ /\ Doing("stop", <<"video", "main">>)'
         /\ again' = (again \/ last = "stop") /\ last' = "stop"
      \/ /\ Doing("stop", <<"video", "sub">>)'
         /\ last' = last /\ again' = again
  <2>1. CASE SimDevStartStream
    <3>1. todo' = Both \/ todo' = Main
      BY <2>1 DEF SimDevStartStream, Both, Main, VM, AM, VS, AS
    <3>2. todo' # <<>> /\ Head(todo') = VM
      BY <3>1, StartCalls
    <3> QED BY <2>1, <3>2, DoingNext DEF SimDevStartStream, VM
  <2>2. CASE SimDevStopStream
    <3>1. todo' # <<>> /\ Head(todo') = Call("stop", "video", "main")
      BY <2>2 DEF SimDevStopStream
    <3> QED BY <2>2, <3>1, DoingNext DEF SimDevStopStream
  <2>3. CASE SimDevDeInitIPC
    <3>1. todo' # <<>> /\ Head(todo') = Call("stop", "video", "sub")
      BY <2>3 DEF SimDevDeInitIPC
    <3> QED BY <2>3, <3>1, DoingNext DEF SimDevDeInitIPC, history
  <2> QED BY <2>1, <2>2, <2>3
<1>4. todo' \in Shapes
  <2>1. "stop" \in StopOps
    BY DEF StopOps
  <2>2. CASE SimDevStartStream
    BY <2>2, StartShapes DEF SimDevStartStream, Both, Main, VM, AM, VS, AS
  <2> QED BY <2>1, <2>2, StopShapes DEF SimDevStopStream, SimDevDeInitIPC
<1>5. TypeOK'
  <2>1. last' \in {"start", "stop"} /\ again' \in BOOLEAN
    BY <1>3 DEF TypeOK
  <2>2. (todo \in Seq(Calls))'
    BY <1>4 DEF Shapes
  <2> QED BY <1>1, <2>1, <2>2 DEF TypeOK, Video
<1>6. Owned' /\ Taken'
  BY <1>1 DEF Owned, Taken, Video
<1>7. \A op, c : Doing(op, c)' =>
        op \in {"start", "stop"} /\ c[1] = "video"
  BY <1>3 DEF Doing
<1>8. Pairs'
  <2>1. \A op, x : ~Now(op, "audio", x)' /\ ~Now("join", "video", x)'
    BY <1>7 DEF Now
  <2>2. ~StopsAudio'
    BY <2>1 DEF StopsAudio
  <2>3. \A op, k, x : ~Now(op, k, x)
    BY <1>2 DEF Now
  <2>4. ~StopsAudio
    BY <2>3 DEF StopsAudio
  <2> QED BY <1>1, <2>1, <2>2, <2>3, <2>4 DEF Pairs, VideoMain, AudioMain, VideoSub, AudioSub
<1>9. Orderly'
  <2>1. last = "start" => VideoMain # NoThread \/ AudioMain = NoThread
    BY <1>2 DEF Orderly, Now
  <2>2. last \in {"start", "stop"} /\ again \in BOOLEAN
    BY DEF TypeOK
  <2>3. VideoMain' = VideoMain /\ AudioMain' = AudioMain
    BY <1>1 DEF VideoMain, AudioMain
  <2>4. CASE Doing("start", <<"video", "main">>)' /\ last' = "start" /\ again' = again
    BY <2>4 DEF Orderly, Now, Doing, StopOps
  <2>5. CASE /\ Doing("stop", <<"video", "main">>)'
             /\ again' = (again \/ last = "stop") /\ last' = "stop"
    <3>1. ~Now("join", "video", "main")'
      BY <2>5 DEF Now, Doing
    <3> QED BY <2>1, <2>2, <2>3, <2>5, <3>1 DEF Orderly, Now
  <2>6. CASE Doing("stop", <<"video", "sub">>)' /\ last' = last /\ again' = again
    BY <2>1, <2>3, <2>6 DEF Orderly, Now, Doing
  <2> QED BY <1>3, <2>4, <2>5, <2>6
<1>10. Cleared'
  BY <1>7 DEF Cleared
<1>11. StopsAreSafe'
  BY <1>1, <1>3 DEF StopsAreSafe
<1> QED BY <1>4, <1>5, <1>6, <1>8, <1>9, <1>10, <1>11

\* What follows a start: of a video, the start of its audio; of an audio, nothing
\* or the start of the second video.
LEMMA AfterStart ==
    ASSUME IInv, NEW c \in Cameras, Doing("start", c), todo' = Tail(todo)
    PROVE  /\ todo' \in Shapes
           /\ \/ \E x \in Streams : /\ c = <<"video", x>>
                                    /\ Doing("start", <<"audio", x>>)'
              \/ \E x \in Streams :
                    /\ c = <<"audio", x>>
                    /\ todo' = <<>> \/ Doing("start", <<"video", "sub">>)'
<1>1. todo \in Shapes /\ todo # <<>> /\ Head(todo) = [op |-> "start", c |-> c]
  BY DEF IInv, Doing
<1>2. ~StopsMain(todo) /\ ~StopsSub(todo) /\ ~StopsSubLeft(todo)
  BY <1>1 DEF StopsMain, StopsSub, StopsSubLeft, StopOps, Call
<1>3. PICK x \in Streams : StartsVideo(todo, x) \/ StartsAudio(todo, x)
  BY <1>1, <1>2, ShapeCases
<1>4. CASE StartsVideo(todo, x)
  BY <1>1, <1>4, DoingNext DEF StartsVideo, Call
<1>5. CASE StartsAudio(todo, x)
  BY <1>1, <1>5, DoingNext DEF StartsAudio, Call
<1> QED BY <1>3, <1>4, <1>5

\* The calls still to come are in order after a start, of a stream that now has a
\* thread.
LEMMA StartKeepsOrder ==
    ASSUME IInv, NEW c \in Cameras, Doing("start", c), todo' = Tail(todo),
           \A d \in Cameras : d # c => tid'[d] = tid[d],
           tid'[c] # NoThread, UNCHANGED history
    PROVE  Pairs' /\ Orderly' /\ Cleared'
<1> USE DEF IInv
<1>1. /\ <<"video", "main">> \in Cameras /\ <<"audio", "main">> \in Cameras
      /\ <<"video", "sub">> \in Cameras /\ <<"audio", "sub">> \in Cameras
  BY TheCameras
<1>2. \A op, d : Doing(op, d) => op = "start" /\ d = c
  BY DEF Doing
<1>3. \A op, d : Doing(op, d)' => op = "start"
  BY AfterStart DEF Doing
<1>4. ~StopsAudio /\ ~StopsAudio'
  BY <1>2, <1>3 DEF StopsAudio, Now, StopOps
<1>5. Pairs'
  <2>1. PICK x \in Streams : \/ c = <<"video", x>> /\ Doing("start", <<"audio", x>>)'
                             \/ /\ c = <<"audio", x>>
                                /\ todo' = <<>> \/ Doing("start", <<"video", "sub">>)'
    BY AfterStart
  <2>2. CASE c = <<"video", x>> /\ Doing("start", <<"audio", x>>)'
    <3>1. \A y : Now("start", "audio", y)' <=> y = x
      BY <2>2 DEF Now, Doing
    <3>2. \A y : ~Now("start", "audio", y) /\ ~Now("join", "audio", y)'
                                          /\ ~Now("join", "video", y)'
      BY <1>2, <1>3, <2>2 DEF Now
    <3>3. AudioMain' = AudioMain /\ AudioSub' = AudioSub
      BY <1>1, <2>2 DEF AudioMain, AudioSub
    <3>4. CASE x = "main"
      BY <1>1, <1>4, <2>2, <3>1, <3>2, <3>3, <3>4
        DEF Pairs, VideoMain, AudioMain, VideoSub, AudioSub
    <3>5. CASE x = "sub"
      BY <1>1, <1>4, <2>2, <3>1, <3>2, <3>3, <3>5
        DEF Pairs, VideoMain, AudioMain, VideoSub, AudioSub
    <3> QED BY <3>4, <3>5 DEF Streams
  <2>3. CASE /\ c = <<"audio", x>>
             /\ todo' = <<>> \/ Doing("start", <<"video", "sub">>)'
    <3>1. \A y : ~Now("start", "audio", y)' /\ ~Now("join", "audio", y)'
                                           /\ ~Now("join", "video", y)'
      BY <2>3 DEF Now, Doing
    <3>2. \A y : Now("start", "audio", y) => y = x
      BY <1>2, <2>3 DEF Now
    <3>3. VideoMain' = VideoMain /\ VideoSub' = VideoSub
      BY <1>1, <2>3 DEF VideoMain, VideoSub
    <3>4. CASE x = "main"
      BY <1>1, <1>4, <2>3, <3>1, <3>2, <3>3, <3>4
        DEF Pairs, VideoMain, AudioMain, VideoSub, AudioSub
    <3>5. CASE x = "sub"
      <4>1. Now("start", "audio", "sub")
        BY <2>3, <3>5 DEF Now
      <4> QED BY <1>1, <1>4, <2>3, <3>1, <3>2, <3>3, <3>5, <4>1
            DEF Pairs, VideoMain, AudioMain, VideoSub, AudioSub
    <3> QED BY <3>4, <3>5 DEF Streams
  <2> QED BY <2>1, <2>2, <2>3
<1>6. Orderly'
  <2>1. last' = last /\ again' = again
    BY DEF history
  <2>2. \A y : ~Now("stop", "video", y)' /\ ~Now("join", "video", y)'
    BY <1>3 DEF Now
  <2>3. /\ VideoMain # NoThread \/ Now("start", "video", "main") => VideoMain' # NoThread
        /\ AudioMain = NoThread => VideoMain' # NoThread \/ AudioMain' = NoThread
    <3>1. Now("start", "audio", "main") => VideoMain' # NoThread
      BY <1>1, <1>2 DEF Pairs, VideoMain, Now
    <3>2. CASE c = <<"audio", "main">>
      BY <1>1, <1>2, <3>1, <3>2 DEF VideoMain, Now
    <3>3. CASE c # <<"audio", "main">>
      BY <1>1, <1>2, <3>3 DEF VideoMain, AudioMain, Now
    <3> QED BY <3>2, <3>3
  <2>4. \A op \in StopOps : ~Now(op, "video", "main")'
    BY <1>3 DEF Now, StopOps
  <2> QED BY <2>1, <2>2, <2>3, <2>4 DEF Orderly
<1>7. Cleared'
  BY <1>3 DEF Cleared
<1> QED BY <1>5, <1>6, <1>7

LEMMA StartStep ==
    ASSUME IInv, NEW c \in Cameras, StartAgain(c) \/ Start(c)
    PROVE  IInv'
<1> USE DEF IInv
<1>1. /\ Doing("start", c) /\ todo' = Tail(todo)
      /\ UNCHANGED <<subStreamEnable, offset, crashed, last, again>> /\ UNCHANGED history
  BY DEF StartAgain, Start, threads, history
<1>2. todo' \in Shapes /\ todo' \in Seq(Calls)
  BY <1>1, AfterStart DEF Shapes
<1>3. CASE StartAgain(c)
  <2>1. UNCHANGED <<cb, isStop, tid, created, of, pc>> /\ cb[c]
    BY <1>3 DEF StartAgain, streams, threads
  <2>2. TypeOK' /\ Owned' /\ Taken'
    BY <1>1, <1>2, <2>1 DEF TypeOK, Owned, Taken, Video
  <2>3. tid'[c] # NoThread
    BY <2>1 DEF Owned
  <2> QED BY <1>1, <1>2, <2>1, <2>2, <2>3, StartKeepsOrder DEF StopsAreSafe
<1>4. CASE Start(c)
  <2> DEFINE t == created + 1
  <2>1. /\ ~cb[c] /\ created < MaxThreads /\ created' = t
        /\ tid' = [tid EXCEPT ![c] = t] /\ of' = [of EXCEPT ![t] = c]
        /\ pc' = [pc EXCEPT ![t] = "asleep"]
        /\ cb' = [cb EXCEPT ![c] = TRUE] /\ isStop' = [isStop EXCEPT ![c] = FALSE]
    BY <1>4 DEF Start
  <2>2. t \in Threads /\ t # NoThread /\ created \in Nat
    BY <2>1, FrameAssumption DEF TypeOK, Threads, NoThread
  <2>3. pc[t] = "none" /\ offset[t] = 0 /\ tid[c] = NoThread
    BY <2>1, <2>2 DEF Owned
  <2> HIDE DEF t
  <2>4. TypeOK'
    <3>1. \A u \in Threads :
            offset'[u] <= IF of'[u][1] = "video" THEN VideoFrames - 1 ELSE AudioFrames
      BY <1>1, <2>1, <2>2, <2>3, FrameAssumption DEF TypeOK, Video
    <3>2. created' \in 0 .. MaxThreads
      BY <2>1, <2>2, FrameAssumption DEF t
    <3> QED BY <1>1, <1>2, <2>1, <2>2, <3>1, <3>2 DEF TypeOK, Video
  <2>5. Owned'
    <3>1. \A d \in Cameras : tid[d] # t /\ tid[d] <= created /\ tid[d] \in Nat
      BY <2>2 DEF Owned, TypeOK, Threads, NoThread, t
    <3>2. ASSUME NEW d \in Cameras
          PROVE  /\ cb'[d] <=> tid'[d] # NoThread
                 /\ tid'[d] # NoThread => of'[tid'[d]] = d
                 /\ tid'[d] <= created'
      BY <2>1, <2>2, <3>1 DEF Owned, TypeOK, t
    <3>3. ASSUME NEW u \in Threads
          PROVE  /\ pc'[u] \notin {"none", "ended"} => tid'[of'[u]] = u
                 /\ u > created' => pc'[u] = "none" /\ offset'[u] = 0
      <4>1. CASE u = t
        BY <2>1, <2>2, <4>1 DEF TypeOK, t
      <4>2. CASE u # t
        <5>1. pc'[u] = pc[u] /\ of'[u] = of[u] /\ of[u] \in Cameras /\ u # NoThread
              /\ offset'[u] = offset[u]
          BY <1>1, <2>1, <2>2, <4>2 DEF TypeOK, Threads, NoThread
        <5>2. pc[u] \notin {"none", "ended"} => tid'[of[u]] = u
          BY <2>1, <2>3, <5>1 DEF Owned, TypeOK
        <5>3. u > created' => u > created
          BY <2>1, <2>2 DEF Threads, t
        <5> QED BY <5>1, <5>2, <5>3 DEF Owned
      <4> QED BY <4>1, <4>2
    <3> QED BY <3>2, <3>3 DEF Owned
  <2>6. Taken'
    BY <1>1, <2>1, <2>2 DEF Taken, Video, TypeOK
  <2>7. /\ \A d \in Cameras : d # c => tid'[d] = tid[d]
        /\ tid'[c] # NoThread
    BY <2>1, <2>2 DEF TypeOK
  <2> QED BY <1>1, <1>2, <2>4, <2>5, <2>6, <2>7, StartKeepsOrder DEF StopsAreSafe
<1> QED BY <1>3, <1>4

\* A list of stops, with another op of its first call.
WithOp(s, p) == [s EXCEPT ![1].op = p]

LEMMA OtherOp ==
    ASSUME NEW op, NEW p, NEW k, NEW x
    PROVE  WithOp(<<Call(op, k, x)>>, p) = <<Call(p, k, x)>>
<1>1. [Call(op, k, x) EXCEPT !.op = p] = Call(p, k, x)
  BY DEF Call
<1>2. \A a, d : [<<a>> EXCEPT ![1] = d] = <<d>>
  OBVIOUS
<1>3. <<Call(op, k, x)>>[1] = Call(op, k, x)
  OBVIOUS
<1> QED BY <1>1, <1>2, <1>3 DEF WithOp

LEMMA OtherOpOfTwo ==
    ASSUME NEW op, NEW p, NEW k, NEW x, NEW b
    PROVE  WithOp(<<Call(op, k, x), b>>, p) = <<Call(p, k, x), b>>
<1>1. [Call(op, k, x) EXCEPT !.op = p] = Call(p, k, x)
  BY DEF Call
<1>2. \A a, d : [<<a, b>> EXCEPT ![1] = d] = <<d, b>>
  OBVIOUS
<1>3. <<Call(op, k, x), b>>[1] = Call(op, k, x)
  OBVIOUS
<1> QED BY <1>1, <1>2, <1>3 DEF WithOp

\* What a stop is of, and what is left after it.
LEMMA AtStop ==
    ASSUME todo \in Shapes, NEW c \in Cameras, NEW op \in StopOps, Doing(op, c)
    PROVE  /\ c \in {<<"video", "main">>, <<"video", "sub">>, <<"audio", "sub">>}
           /\ \A p \in StopOps :
                todo' = WithOp(todo, p) => todo' \in Shapes /\ Doing(p, c)'
           /\ todo' = Tail(todo) =>
                /\ todo' \in Shapes
                /\ c = <<"video", "sub">> => Doing("stop", <<"audio", "sub">>)'
                /\ c # <<"video", "sub">> => todo' = <<>>
<1>1. todo \in Shapes /\ todo # <<>> /\ Head(todo) = [op |-> op, c |-> c]
  BY DEF Doing
<1>2. \A x : ~StartsVideo(todo, x) /\ ~StartsAudio(todo, x)
  BY <1>1 DEF StartsVideo, StartsAudio, Call, StopOps
<1>3. \/ todo = <<Call(op, "video", "main")>>
      \/ todo = <<Call(op, "video", "sub"), Call("stop", "audio", "sub")>>
      \/ todo = <<Call(op, "audio", "sub")>>
  <2>1. StopsMain(todo) \/ StopsSub(todo) \/ StopsSubLeft(todo)
    BY <1>1, <1>2, ShapeCases
  <2> QED BY <1>1, <2>1 DEF StopsMain, StopsSub, StopsSubLeft, Call
<1>4. "stop" \in StopOps
  BY DEF StopOps
<1>5. CASE todo = <<Call(op, "video", "main")>>
  <2>1. c = <<"video", "main">> /\ Tail(todo) = <<>>
    BY <1>1, <1>5 DEF Call
  <2>2. ASSUME NEW p \in StopOps, todo' = WithOp(todo, p)
        PROVE  todo' \in Shapes /\ Doing(p, c)'
    <3>1. todo' = <<Call(p, "video", "main")>>
      <4>1. WithOp(todo, p) = WithOp(<<Call(op, "video", "main")>>, p)
        BY <1>5, Zenon
      <4> QED BY <2>2, <4>1, OtherOp
    <3>2. todo' # <<>> /\ Head(todo') = Call(p, "video", "main")
      BY <3>1
    <3>3. todo' \in Shapes
      BY <3>1, StopShapes, Zenon
    <3> QED BY <2>1, <3>2, <3>3, DoingNext, Zenon
  <2> QED BY <2>1, <2>2, StartShapes
<1>6. CASE todo = <<Call(op, "video", "sub"), Call("stop", "audio", "sub")>>
  <2>1. c = <<"video", "sub">> /\ Tail(todo) = <<Call("stop", "audio", "sub")>>
    BY <1>1, <1>6 DEF Call
  <2>2. ASSUME NEW p \in StopOps, todo' = WithOp(todo, p)
        PROVE  todo' \in Shapes /\ Doing(p, c)'
    <3>1. todo' = <<Call(p, "video", "sub"), Call("stop", "audio", "sub")>>
      <4>1. WithOp(todo, p) = WithOp(<<Call(op, "video", "sub"), Call("stop", "audio", "sub")>>, p)
        BY <1>6, Zenon
      <4>2. WithOp(<<Call(op, "video", "sub"), Call("stop", "audio", "sub")>>, p)
              = <<Call(p, "video", "sub"), Call("stop", "audio", "sub")>>
        BY OtherOpOfTwo
      <4> QED BY <2>2, <4>1, <4>2, Zenon
    <3>2. todo' # <<>> /\ Head(todo') = Call(p, "video", "sub")
      BY <3>1
    <3>3. todo' \in Shapes
      BY <3>1, StopShapes, Zenon
    <3> QED BY <2>1, <3>2, <3>3, DoingNext, Zenon
  <2>3. ASSUME todo' = Tail(todo)
        PROVE  todo' \in Shapes /\ Doing("stop", <<"audio", "sub">>)'
    <3>1. todo' = <<Call("stop", "audio", "sub")>>
      BY <2>1, <2>3, Zenon
    <3>2. todo' # <<>> /\ Head(todo') = Call("stop", "audio", "sub")
      BY <3>1
    <3>3. todo' \in Shapes
      BY <1>4, <3>1, StopShapes, Zenon
    <3> QED BY <3>2, <3>3, DoingNext, Zenon
  <2> QED BY <2>1, <2>2, <2>3
<1>7. CASE todo = <<Call(op, "audio", "sub")>>
  <2>1. c = <<"audio", "sub">> /\ Tail(todo) = <<>>
    BY <1>1, <1>7 DEF Call
  <2>2. ASSUME NEW p \in StopOps, todo' = WithOp(todo, p)
        PROVE  todo' \in Shapes /\ Doing(p, c)'
    <3>1. todo' = <<Call(p, "audio", "sub")>>
      <4>1. WithOp(todo, p) = WithOp(<<Call(op, "audio", "sub")>>, p)
        BY <1>7, Zenon
      <4> QED BY <2>2, <4>1, OtherOp
    <3>2. todo' # <<>> /\ Head(todo') = Call(p, "audio", "sub")
      BY <3>1
    <3>3. todo' \in Shapes
      BY <3>1, StopShapes, Zenon
    <3> QED BY <2>1, <3>2, <3>3, DoingNext, Zenon
  <2> QED BY <2>1, <2>2, StartShapes
<1> QED BY <1>3, <1>5, <1>6, <1>7

\* The owner waits in a stop, or looks whom to wait for.
LEMMA StopStep ==
    ASSUME IInv, NEW c \in Cameras, Stop(c) \/ Join(c)
    PROVE  IInv'
<1> USE DEF IInv
<1>1. PICK op \in {"stop", "join"}, p \in {"join", "clear"} :
        /\ Doing(op, c) /\ todo' = WithOp(todo, p)
        /\ UNCHANGED <<subStreamEnable, cb, tid, created, of, pc, offset, crashed, last, again>>
        /\ isStop' \in [Cameras -> BOOLEAN]
        /\ p = "join" => op = "stop" /\ tid[<<"audio", c[2]>>] # NoThread
        /\ p = "clear" => \/ tid[c] # NoThread /\ pc[tid[c]] = "ended"
                          \/ op = "stop" /\ tid[<<"audio", c[2]>>] = NoThread
  <2>1. CASE Stop(c)
    BY <2>1 DEF Stop, WithOp, streams, threads, history, TypeOK
  <2>2. CASE Join(c)
    BY <2>2 DEF Join, WithOp, streams, threads, history, TypeOK
  <2> QED BY <2>1, <2>2
<1>2. /\ c \in {<<"video", "main">>, <<"video", "sub">>, <<"audio", "sub">>}
      /\ todo' \in Shapes /\ Doing(p, c)'
  <2>1. op \in StopOps /\ p \in StopOps
    BY DEF StopOps
  <2> QED BY <1>1, <2>1, AtStop
<1>3. TypeOK' /\ Owned' /\ Taken'
  BY <1>1, <1>2 DEF TypeOK, Owned, Taken, Video, Shapes
<1>4. /\ \A o, k, x : Now(o, k, x) => o = op /\ c = <<k, x>>
      /\ \A o, k, x : Now(o, k, x)' => o = p /\ c = <<k, x>>
      /\ c = <<"video", "main">> => Now(op, "video", "main")
      /\ c = <<"audio", "sub">> => Now(op, "audio", "sub") /\ Now(p, "audio", "sub")'
      /\ c = <<"video", "sub">> => Now(op, "video", "sub")
  BY <1>1, <1>2 DEF Now, Doing
<1>5. /\ VideoMain' = VideoMain /\ AudioMain' = AudioMain
      /\ VideoSub' = VideoSub /\ AudioSub' = AudioSub
  BY <1>1 DEF VideoMain, AudioMain, VideoSub, AudioSub
<1>6. /\ StopsAudio <=> c = <<"audio", "sub">>
      /\ StopsAudio' <=> c = <<"audio", "sub">>
  BY <1>4 DEF StopsAudio, StopOps
<1>7. Pairs'
  <2>1. \A x : ~Now("start", "audio", x) /\ ~Now("start", "audio", x)'
    BY <1>4
  <2>2. Now("join", "video", "sub")' => VideoSub # NoThread
    <3> SUFFICES ASSUME Now("join", "video", "sub")' PROVE VideoSub # NoThread
      OBVIOUS
    <3>1. p = "join" /\ c = <<"video", "sub">>
      BY <1>4
    <3>2. AudioSub # NoThread
      BY <1>1, <3>1 DEF AudioSub
    <3> QED BY <1>6, <3>1, <3>2 DEF Pairs
  <2>3. Now("join", "audio", "sub")' => AudioSub # NoThread
    BY <1>1, <1>4 DEF AudioSub
  <2> QED BY <1>5, <1>6, <2>1, <2>2, <2>3 DEF Pairs
<1>8. Orderly'
  <2>1. ~Now("start", "video", "main")
    BY <1>4
  <2>2. /\ ~Now("stop", "video", "main")'
        /\ Now("join", "video", "main")' => VideoMain # NoThread \/ again
    <3>1. ~Now("stop", "video", "main")'
      BY <1>4
    <3>2. ASSUME Now("join", "video", "main")'
          PROVE  VideoMain # NoThread \/ again
      <4>1. p = "join" /\ c = <<"video", "main">>
        BY <1>4, <3>2
      <4>2. Now("stop", "video", "main") /\ AudioMain # NoThread
        BY <1>1, <1>4, <4>1 DEF AudioMain
      <4> QED BY <4>2 DEF Orderly
    <3> QED BY <3>1, <3>2
  <2>3. \A o \in StopOps : Now(o, "video", "main")' => last = "stop"
    BY <1>4 DEF Orderly, StopOps
  <2> QED BY <1>1, <1>5, <2>1, <2>2, <2>3 DEF Orderly
<1>9. Cleared'
  <2> SUFFICES ASSUME NEW d \in Cameras, Doing("clear", d)', tid[d] # NoThread
               PROVE  pc[tid[d]] = "ended"
    BY <1>1 DEF Cleared
  <2>1. p = "clear" /\ d = c
    BY <1>2 DEF Doing
  <2>2. CASE op = "stop" /\ tid[<<"audio", c[2]>>] = NoThread
    <3>1. \A x : ~Now("start", "audio", x)
      BY <1>4
    <3> QED BY <1>2, <2>1, <2>2, <3>1 DEF Pairs, VideoMain, AudioMain, VideoSub, AudioSub
  <2> QED BY <1>1, <2>1, <2>2
<1> QED BY <1>1, <1>2, <1>3, <1>7, <1>8, <1>9 DEF StopsAreSafe

\* Thread 0 is joined by a second stop only.
LEMMA JoinNothingStep ==
    ASSUME IInv, NEW c \in Cameras, JoinNothing(c)
    PROVE  IInv'
<1> USE DEF IInv
<1>1. /\ Doing("join", c) /\ tid[c] = NoThread /\ crashed' = TRUE
      /\ UNCHANGED <<subStreamEnable, cb, isStop, tid, created, of, pc, offset, todo, last, again>>
  BY DEF JoinNothing, streams, threads, history
<1>2. c \in {<<"video", "main">>, <<"video", "sub">>, <<"audio", "sub">>}
  BY <1>1, AtStop DEF StopOps
<1>3. again
  <2>1. c = <<"video", "main">> => Now("join", "video", "main") /\ VideoMain = NoThread
    BY <1>1 DEF Now, VideoMain
  <2>2. c = <<"video", "sub">> => Now("join", "video", "sub") /\ VideoSub = NoThread
    BY <1>1 DEF Now, VideoSub
  <2>3. c = <<"audio", "sub">> => Now("join", "audio", "sub") /\ AudioSub = NoThread
    BY <1>1 DEF Now, AudioSub
  <2> QED BY <1>2, <2>1, <2>2, <2>3 DEF Pairs, Orderly
<1>4. TypeOK' /\ (todo \in Shapes)' /\ Owned' /\ Taken'
  BY <1>1 DEF TypeOK, Owned, Taken, Video
<1>5. Pairs' /\ Orderly' /\ Cleared'
  BY <1>1 DEF Pairs, VideoMain, AudioMain, VideoSub, AudioSub, StopsAudio, Orderly, Cleared, Now, Doing
<1> QED BY <1>1, <1>3, <1>4, <1>5 DEF StopsAreSafe

\* A stop ends.
LEMMA ClearStep ==
    ASSUME IInv, NEW c \in Cameras, Clear(c)
    PROVE  IInv'
<1> USE DEF IInv
<1>1. /\ Doing("clear", c) /\ todo' = Tail(todo)
      /\ cb' = [cb EXCEPT ![c] = FALSE] /\ tid' = [tid EXCEPT ![c] = NoThread]
      /\ UNCHANGED <<subStreamEnable, isStop, created, of, pc, offset, crashed, last, again>>
  BY DEF Clear, threads, history
<1>2. /\ c \in {<<"video", "main">>, <<"video", "sub">>, <<"audio", "sub">>}
      /\ todo' \in Shapes
      /\ c = <<"video", "sub">> => Doing("stop", <<"audio", "sub">>)'
      /\ c # <<"video", "sub">> => todo' = <<>>
  BY <1>1, AtStop DEF StopOps
<1>3. TypeOK' /\ Taken'
  BY <1>1, <1>2 DEF TypeOK, Taken, Video, Shapes
<1>4. Owned'
  <2>1. ASSUME NEW d \in Cameras
        PROVE  /\ cb'[d] <=> tid'[d] # NoThread
               /\ tid'[d] # NoThread => of[tid'[d]] = d
               /\ tid'[d] <= created
    BY <1>1 DEF Owned, TypeOK, NoThread
  <2>2. ASSUME NEW u \in Threads, pc[u] \notin {"none", "ended"}
        PROVE  tid'[of[u]] = u
    <3>1. tid[of[u]] = u /\ u # NoThread /\ of[u] \in Cameras
      BY <2>2 DEF Owned, TypeOK, Threads, NoThread
    <3>2. of[u] # c
      BY <1>1, <2>2, <3>1 DEF Cleared
    <3> QED BY <1>1, <3>1, <3>2 DEF TypeOK
  <2> QED BY <1>1, <2>1, <2>2 DEF Owned
<1>5. /\ \A o, k, x : Now(o, k, x) => o = "clear" /\ c = <<k, x>>
      /\ \A o, k, x : Now(o, k, x)' =>
            o = "stop" /\ <<k, x>> = <<"audio", "sub">> /\ c = <<"video", "sub">>
      /\ c = <<"video", "sub">> => Now("stop", "audio", "sub")'
      /\ c = <<"audio", "sub">> => Now("clear", "audio", "sub")
      /\ c = <<"video", "main">> => Now("clear", "video", "main")
  BY <1>1, <1>2 DEF Now, Doing
<1>6. /\ StopsAudio <=> c = <<"audio", "sub">>
      /\ StopsAudio' <=> c = <<"video", "sub">>
  BY <1>5 DEF StopsAudio, StopOps
<1>7. /\ AudioMain' = AudioMain
      /\ VideoMain' = IF c = <<"video", "main">> THEN NoThread ELSE VideoMain
      /\ VideoSub' = IF c = <<"video", "sub">> THEN NoThread ELSE VideoSub
      /\ AudioSub' = IF c = <<"audio", "sub">> THEN NoThread ELSE AudioSub
  BY <1>1, <1>2, TheCameras DEF TypeOK, VideoMain, AudioMain, VideoSub, AudioSub
<1>8. Pairs'
  <2>1. \A o, x : ~Now("start", "audio", x) /\ ~Now("start", "audio", x)'
                /\ ~Now("join", o, x)'
    BY <1>5
  <2> QED BY <1>2, <1>6, <1>7, <2>1 DEF Pairs
<1>9. Orderly'
  <2>1. last = "start" =>
            c # <<"video", "main">> /\ (VideoMain # NoThread \/ AudioMain = NoThread)
    BY <1>5 DEF Orderly, StopOps
  <2>2. \A o : ~Now(o, "video", "main")'
    BY <1>5
  <2> QED BY <1>1, <1>7, <2>1, <2>2 DEF Orderly
<1>10. Cleared'
  BY <1>2 DEF Cleared, Doing
<1> QED BY <1>1, <1>2, <1>3, <1>4, <1>8, <1>9, <1>10 DEF StopsAreSafe

LEMMA Stutter ==
    ASSUME IInv, UNCHANGED vars
    PROVE  IInv'
BY DEF vars, streams, threads, history, IInv, TypeOK, Owned, Taken, Pairs, Orderly,
    Cleared, StopsAreSafe, VideoMain, AudioMain, VideoSub, AudioSub, StopsAudio, Now, Doing,
    Video

-------------------------------------------------------------------------------
\* IInv holds in every state, whatever the calls and the threads do.
THEOREM Inductive == Spec => []IInv
<1>1. IInv /\ [Next]_vars => IInv'
  <2> SUFFICES ASSUME IInv, [Next]_vars PROVE IInv'
    OBVIOUS
  <2>1. CASE SimDevStartStream \/ SimDevStopStream \/ SimDevDeInitIPC
    BY <2>1, BeginStep
  <2>2. ASSUME NEW c \in Cameras, StartAgain(c) \/ Start(c)
        PROVE  IInv'
    BY <2>2, StartStep
  <2>3. ASSUME NEW c \in Cameras, Stop(c) \/ Join(c)
        PROVE  IInv'
    BY <2>3, StopStep
  <2>4. ASSUME NEW c \in Cameras, JoinNothing(c)
        PROVE  IInv'
    BY <2>4, JoinNothingStep
  <2>5. ASSUME NEW c \in Cameras, Clear(c)
        PROVE  IInv'
    BY <2>5, ClearStep
  <2>6. ASSUME NEW t \in Threads, Capture(t)
        PROVE  IInv'
    BY <2>6, CaptureStep
  <2>7. CASE UNCHANGED vars
    BY <2>7, Stutter
  <2> QED BY <2>1, <2>2, <2>3, <2>4, <2>5, <2>6, <2>7 DEF Next, Owner
<1> QED BY <1>1, InitIInv, PTL DEF Spec

\* The types; and that no capture thread reads past the end of its file.
THEOREM TypeCorrect == Spec => []TypeOK
BY Inductive, PTL DEF IInv

\* However the calls interleave with the capture threads, each running thread is
\* the one its stream knows and its callback is set.
THEOREM Ownership == Spec => []CapturesAreOwned
<1>1. IInv => CapturesAreOwned
  <2> SUFFICES ASSUME IInv, NEW t \in Threads, pc[t] \notin {"none", "ended"}
               PROVE  tid[of[t]] = t /\ cb[of[t]]
    BY DEF CapturesAreOwned
  <2> QED BY DEF IInv, Owned, TypeOK, Threads, NoThread
<1> QED BY <1>1, Inductive, PTL

\* Only an owner who stops the main stream twice in a row crashes the program.
THEOREM SafeStops == Spec => []StopsAreSafe
BY Inductive, PTL DEF IInv

-------------------------------------------------------------------------------
\* Device.  Before init: the one call to come may be the start of the video; no thread
\* has a file, and no audio a thread, so that nobody is waited for.
Only == <<VM>>

Early ==
    /\ TypeOK
    /\ todo \in Shapes \cup {Only}
    /\ \A op, c : Doing(op, c) => op \in {"stop", "clear"} \/ (op = "start" /\ todo = Only)
    /\ \A x \in Streams : tid[<<"audio", x>>] = NoThread
    /\ \A t \in Threads :
        /\ pc[t] \in {"none", "asleep", "ended"}
        /\ t > created => pc[t] = "none" /\ offset[t] = 0
    /\ ~crashed

Motions == {"SIM_DEV_MOTION_DETECT", "SIM_DEV_MOTION_DETECT_DISAPPEAR"}

DeviceTypeOK ==
    /\ pCaptureDevice \in Devices \cup {NoDevice}
    /\ caller \in {"main", "owner", "listener"}
    /\ at \in {"mqtt", "rtmp", "connect", "init", "start", "loop", "returned"}
    /\ audioEnable \in BOOLEAN /\ files = audioEnable
    /\ alarmCallback \in BOOLEAN
    /\ tasks \in Seq(Motions)
    /\ jpegs \in Nat
    /\ told \in {"nothing", "ALARM_MOTION_DETECT", "ALARM_MOTION_DETECT_DISAPPEAR"}
    /\ doubled \in BOOLEAN /\ under \in BOOLEAN
    /\ inits \in 0 .. MaxInits /\ captures \in 0 .. MaxJpegs

\* A single AlarmTask reports next what it has not reported last.
AlarmInv ==
    /\ tasks = <<>> => told = "nothing"
    /\ Len(tasks) = 1 => told # AlarmOf(tasks[1])
    /\ AlarmsAlternate

\* main starts no stream before init, and neither stops one nor inits twice.
MainInv ==
    /\ caller # "owner" => ~again /\ ~under
    /\ caller = "main" /\ at \in {"mqtt", "rtmp", "connect", "init"} =>
        todo = <<>> /\ Alive = {}

\* Until an init goes wrong, the camera is as Early or IInv say.
CameraInv == under \/ (IF files THEN IInv ELSE Early)

DeviceInv == DeviceTypeOK /\ AlarmInv /\ MainInv /\ CameraInv

-------------------------------------------------------------------------------
\* What a step of Device is to the camera.
Quiet == UNCHANGED <<vars, files, audioEnable, under>>

LEMMA StepCases ==
    ASSUME DeviceNext
    PROVE  \/ Quiet
           \/ \E sub \in BOOLEAN : SimDevInitIPC(sub)
           \/ StartStream \/ StopStream \/ DeInit
           \/ Within
           \/ \E t \in Threads : CaptureTask(t)
<1> USE DEF device, alarms, counters, fixed
<1>1. Prepare => Quiet
  BY DEF Prepare, Quiet
<1>2. MainInit => Quiet \/ \E sub \in BOOLEAN : SimDevInitIPC(sub)
  BY DEF MainInit, Core, Quiet
<1>3. MainStart => Quiet \/ StartStream
  BY DEF MainStart, Core, Quiet
<1>4. OwnerCalls => \/ Quiet
                    \/ \E sub \in BOOLEAN : SimDevInitIPC(sub)
                    \/ StartStream \/ StopStream \/ DeInit
  BY DEF OwnerCalls, Core, Quiet
<1>5. ListenerCalls => Quiet
  BY DEF ListenerCalls, Core, RegisterAlarmCb, CaptureJpeg, Quiet
<1>6. ASSUME NEW k \in DOMAIN tasks
      PROVE  AlarmTask(k) => Quiet
  BY DEF AlarmTask, Quiet
<1>7. CaptureJpegNotifyTask => Quiet
  BY DEF CaptureJpegNotifyTask, Quiet
<1> QED BY <1>1, <1>2, <1>3, <1>4, <1>5, <1>6, <1>7 DEF DeviceNext

\* init with no thread running, whatever was there before.
LEMMA InitStep ==
    ASSUME TypeOK, NEW sub \in BOOLEAN, SimDevInitIPC(sub), Alive = {}, ~crashed,
           \A t \in Threads : t > created => pc[t] = "none" /\ offset[t] = 0
    PROVE  IInv'
<1>1. /\ todo' = <<>>
      /\ cb' = [c \in Cameras |-> FALSE] /\ isStop' = [c \in Cameras |-> FALSE]
      /\ tid' = [c \in Cameras |-> NoThread] /\ subStreamEnable' = sub
      /\ UNCHANGED <<created, of, pc, offset, crashed, last, again>>
  BY DEF SimDevInitIPC, threads, history
<1>2. \A t \in Threads : pc[t] \in {"none", "ended"}
  BY DEF Alive
<1>3. todo' \in Shapes /\ todo' \in Seq(Calls)
  BY <1>1, StartShapes DEF Shapes
<1>4. TypeOK'
  BY <1>1, <1>3 DEF TypeOK, Video
<1>5. Owned' /\ Taken'
  <2>1. Taken'
    BY <1>1, <1>2 DEF Taken
  <2>2. \A c \in Cameras : ~cb'[c] /\ tid'[c] = NoThread /\ tid'[c] <= created'
    BY <1>1 DEF NoThread, TypeOK
  <2>3. ASSUME NEW t \in Threads
        PROVE  /\ pc'[t] \in {"none", "ended"}
               /\ t > created' => pc'[t] = "none" /\ offset'[t] = 0
    BY <1>1, <1>2
  <2>4. Owned'
    <3>1. ASSUME NEW c \in Cameras
          PROVE  /\ cb'[c] <=> tid'[c] # NoThread
                 /\ tid'[c] # NoThread => of'[tid'[c]] = c
                 /\ tid'[c] <= created'
      BY <2>2
    <3>2. ASSUME NEW t \in Threads
          PROVE  /\ pc'[t] \notin {"none", "ended"} => tid'[of'[t]] = t
                 /\ t > created' => pc'[t] = "none" /\ offset'[t] = 0
      BY <2>3, Zenon
    <3> QED BY <3>1, <3>2 DEF Owned
  <2> QED BY <2>1, <2>4
<1>6. \A op, c : ~Doing(op, c)'
  BY <1>1 DEF Doing
<1>7. VideoMain' = NoThread /\ AudioMain' = NoThread /\ VideoSub' = NoThread
      /\ AudioSub' = NoThread
  BY <1>1, TheCameras DEF VideoMain, AudioMain, VideoSub, AudioSub
<1>8. Pairs' /\ Orderly' /\ Cleared' /\ StopsAreSafe'
  BY <1>1, <1>6, <1>7 DEF Pairs, Orderly, Cleared, StopsAreSafe, Now, StopsAudio
<1> QED BY <1>3, <1>4, <1>5, <1>8 DEF IInv

\* A call before init.
LEMMA EarlyBegin ==
    ASSUME Early, ~audioEnable, StartStream \/ StopStream \/ DeInit
    PROVE  Early'
<1> USE DEF Early
<1>1. /\ UNCHANGED <<subStreamEnable, cb, isStop, tid, created, of, pc, offset, crashed>>
      /\ last' \in {"start", "stop"} /\ again' \in BOOLEAN
  BY DEF StartStream, StopStream, DeInit, SimDevStopStream, SimDevDeInitIPC, streams, threads,
     history, TypeOK
<1>2. /\ todo' \in Shapes \cup {Only} /\ todo' \in Seq(Calls)
      /\ todo' # <<>>
      /\ Head(todo').op = "stop" \/ (Head(todo').op = "start" /\ todo' = Only)
  <2>1. CASE StartStream
    <3>1. todo' = Only
      BY <2>1 DEF StartStream, Only, VM
    <3>2. VM \in Calls /\ VM.op = "start"
      BY DEF VM, Call, Calls, Cameras, Streams
    <3>3. Only \in Seq(Calls) /\ Only # <<>> /\ Head(Only) = VM
      BY <3>2 DEF Only
    <3> QED BY <3>1, <3>2, <3>3
  <2>2. CASE StopStream
    <3>1. todo' = <<Call("stop", "video", "main")>>
      BY <2>2 DEF StopStream, SimDevStopStream
    <3>2. todo' \in Shapes
      BY <3>1, StopShapes DEF StopOps
    <3>3. todo' # <<>> /\ Head(todo') = Call("stop", "video", "main")
      BY <3>1
    <3> QED BY <3>2, <3>3 DEF Shapes, Call
  <2>3. CASE DeInit
    <3>1. todo' = <<Call("stop", "video", "sub"), Call("stop", "audio", "sub")>>
      BY <2>3 DEF DeInit, SimDevDeInitIPC
    <3>2. todo' \in Shapes
      BY <3>1, StopShapes DEF StopOps
    <3>3. todo' # <<>> /\ Head(todo') = Call("stop", "video", "sub")
      BY <3>1
    <3> QED BY <3>2, <3>3 DEF Shapes, Call
  <2> QED BY <2>1, <2>2, <2>3
<1>3. TypeOK'
  BY <1>1, <1>2 DEF TypeOK, Video
<1>4. \A op, c : Doing(op, c)' =>
        op \in {"stop", "clear"} \/ (op = "start" /\ todo' = Only)
  BY <1>2 DEF Doing
<1> QED BY <1>1, <1>2, <1>3, <1>4

\* The start of the video, before init, and its stop, which waits for nobody.
LEMMA EarlyWithin ==
    ASSUME Early, Within
    PROVE  Early'
<1> USE DEF Early
<1>1. PICK c \in Cameras :
        StartAgain(c) \/ Start(c) \/ Stop(c) \/ Join(c) \/ JoinNothing(c) \/ Clear(c)
  BY DEF Within
<1>2. ~Doing("join", c)
  OBVIOUS
<1>3. CASE StartAgain(c) \/ Start(c)
  <2>1. Doing("start", c) /\ todo' = Tail(todo)
    BY <1>3 DEF StartAgain, Start
  <2>2. todo = Only
    BY <2>1
  <2>3. c = <<"video", "main">> /\ todo' = <<>>
    <3>1. Head(Only) = VM /\ Tail(Only) = <<>>
      BY DEF Only
    <3> QED BY <2>1, <2>2, <3>1 DEF Doing, VM, Call
  <2>4. todo' \in Shapes /\ todo' \in Seq(Calls) /\ \A op, d : ~Doing(op, d)'
    BY <2>3, StartShapes DEF Shapes, Doing
  <2>5. CASE StartAgain(c)
    <3>1. UNCHANGED <<subStreamEnable, cb, isStop, tid, created, of, pc, offset, crashed,
                      last, again>>
      BY <2>5 DEF StartAgain, streams, threads, history
    <3> QED BY <2>4, <3>1 DEF TypeOK, Video
  <2>6. CASE Start(c)
    <3> DEFINE t == created + 1
    <3>1. /\ created < MaxThreads /\ created' = t
          /\ tid' = [tid EXCEPT ![c] = t] /\ of' = [of EXCEPT ![t] = c]
          /\ pc' = [pc EXCEPT ![t] = "asleep"]
          /\ cb' = [cb EXCEPT ![c] = TRUE] /\ isStop' = [isStop EXCEPT ![c] = FALSE]
          /\ UNCHANGED <<subStreamEnable, offset, crashed, last, again>>
      BY <2>6 DEF Start, history
    <3>2. t \in Threads /\ created \in Nat /\ offset[t] = 0
      BY <3>1, FrameAssumption DEF TypeOK, Threads
    <3>3. TypeOK'
      <4>1. \A u \in Threads :
              offset'[u] <= IF of'[u][1] = "video" THEN VideoFrames - 1 ELSE AudioFrames
        BY <3>1, <3>2, FrameAssumption DEF TypeOK, Video
      <4>2. created' \in 0 .. MaxThreads
        BY <3>1, <3>2, FrameAssumption
      <4> QED BY <2>4, <3>1, <3>2, <4>1, <4>2 DEF TypeOK, Video
    <3>4. \A x \in Streams : tid'[<<"audio", x>>] = NoThread
      BY <2>3, <3>1, TheCameras DEF TypeOK, Streams
    <3>5. ASSUME NEW u \in Threads
          PROVE  /\ pc'[u] \in {"none", "asleep", "ended"}
                 /\ u > created' => pc'[u] = "none" /\ offset'[u] = 0
      <4>1. u > created' => u > created /\ u # t
        BY <3>1, <3>2 DEF Threads
      <4> QED BY <3>1, <3>2, <4>1 DEF TypeOK
    <3> QED BY <2>4, <3>1, <3>3, <3>4, <3>5
  <2> QED BY <1>3, <2>5, <2>6
<1>4. CASE Stop(c)
  <2>1. /\ Doing("stop", c) /\ isStop' \in [Cameras -> BOOLEAN]
        /\ UNCHANGED <<subStreamEnable, cb, tid, created, of, pc, offset, crashed, last, again>>
    BY <1>4 DEF Stop, threads, history, TypeOK
  <2>2. todo \in Shapes
    <3>1. Only # <<>> /\ Head(Only) = VM /\ VM.op = "start"
      BY DEF Only, VM, Call
    <3> QED BY <2>1, <3>1 DEF Doing
  <2>3. todo' = WithOp(todo, "clear")
    <3>1. tid[<<"audio", c[2]>>] = NoThread
      BY DEF Cameras, Streams
    <3> QED BY <1>4, <3>1 DEF Stop, WithOp
  <2>4. todo' \in Shapes /\ Doing("clear", c)'
    <3>1. "stop" \in StopOps /\ "clear" \in StopOps
      BY DEF StopOps
    <3> QED BY <2>1, <2>2, <2>3, <3>1, AtStop
  <2>5. TypeOK'
    BY <2>1, <2>4 DEF TypeOK, Video, Shapes
  <2>6. \A op, d : Doing(op, d)' => op = "clear"
    BY <2>4 DEF Doing
  <2> QED BY <2>1, <2>4, <2>5, <2>6
<1>5. CASE Clear(c)
  <2>1. /\ Doing("clear", c) /\ todo' = Tail(todo)
        /\ cb' = [cb EXCEPT ![c] = FALSE] /\ tid' = [tid EXCEPT ![c] = NoThread]
        /\ UNCHANGED <<subStreamEnable, isStop, created, of, pc, offset, crashed, last, again>>
    BY <1>5 DEF Clear, threads, history
  <2>2. todo \in Shapes
    <3>1. Only # <<>> /\ Head(Only) = VM /\ VM.op = "start"
      BY DEF Only, VM, Call
    <3> QED BY <2>1, <3>1 DEF Doing
  <2>3. /\ todo' \in Shapes
        /\ todo' = <<>> \/ Doing("stop", <<"audio", "sub">>)'
    <3>1. "clear" \in StopOps
      BY DEF StopOps
    <3> QED BY <2>1, <2>2, <3>1, AtStop
  <2>4. TypeOK'
    BY <2>1, <2>3 DEF TypeOK, Video, Shapes
  <2>5. \A op, d : Doing(op, d)' => op = "stop"
    BY <2>3 DEF Doing
  <2>6. \A x \in Streams : tid'[<<"audio", x>>] = NoThread
    <3>1. \A x \in Streams : <<"audio", x>> \in Cameras
      BY DEF Cameras
    <3> QED BY <2>1, <3>1 DEF TypeOK
  <2> QED BY <2>1, <2>3, <2>4, <2>5, <2>6
<1> QED BY <1>1, <1>2, <1>3, <1>4, <1>5 DEF Join, JoinNothing

\* A thread finds no file before init.
LEMMA EarlyCapture ==
    ASSUME Early, ~files, NEW t \in Threads, CaptureTask(t)
    PROVE  Early'
<1> USE DEF Early
<1>1. ReadFails(t)
  <2>1. Capture(t) /\ ~ReadFile(t)
    BY DEF CaptureTask, ReadFile, Go, TypeOK
  <2>2. pc[t] \in {"none", "asleep", "ended"}
    OBVIOUS
  <2> QED BY <2>1, <2>2 DEF Capture, Leave, TakeFrame, Rewind, CallBack, Return, Go
<1>2. /\ UNCHANGED <<subStreamEnable, cb, isStop, tid, created, of, todo, last, again, offset,
                     crashed>>
      /\ pc[t] = "asleep" /\ pc' = [pc EXCEPT ![t] = "ended"]
  BY <1>1 DEF ReadFails, Go, streams, history
<1>3. TypeOK'
  BY <1>2 DEF TypeOK, Video
<1>4. \A op, c : Doing(op, c)' = Doing(op, c)
  BY <1>2 DEF Doing
<1>5. \A u \in Threads :
        /\ pc'[u] \in {"none", "asleep", "ended"}
        /\ u > created' => pc'[u] = "none" /\ offset'[u] = 0
  BY <1>2 DEF TypeOK
<1> QED BY <1>2, <1>3, <1>4, <1>5

LEMMA EarlyStutter ==
    ASSUME Early, UNCHANGED vars
    PROVE  Early'
BY DEF Early, vars, streams, threads, history, TypeOK, Doing, Video

-------------------------------------------------------------------------------
\* The parts of DeviceInv.
LEMMA DeviceInitInv == DeviceInit => DeviceInv
<1> SUFFICES ASSUME DeviceInit PROVE DeviceInv
  OBVIOUS
<1> USE DeviceAssumption DEF DeviceInit
<1>1. IInv
  BY InitIInv
<1>2. DeviceTypeOK
  <2>1. tasks \in Seq(Motions)
    OBVIOUS
  <2>2. inits \in 0 .. MaxInits /\ captures \in 0 .. MaxJpegs /\ jpegs \in Nat
    OBVIOUS
  <2> QED BY <2>1, <2>2 DEF DeviceTypeOK
<1>3. AlarmInv
  BY DEF AlarmInv, AlarmsAlternate
<1>4. todo = <<>> /\ ~again /\ ~crashed /\ \A t \in Threads : pc[t] = "none" /\ offset[t] = 0
  BY DEF Init
<1>5. MainInv
  BY <1>4 DEF MainInv, Alive
<1>6. Early
  <2>1. \A x \in Streams : tid[<<"audio", x>>] = NoThread
    BY TheCameras DEF Init, Streams
  <2>2. \A op, c : ~Doing(op, c)
    BY <1>4 DEF Doing
  <2> QED BY <1>1, <1>4, <2>1, <2>2 DEF Early, IInv
<1> QED BY <1>2, <1>3, <1>5, <1>6 DEF DeviceInv, CameraInv

\* What happens to the camera, before init and after it.
LEMMA CameraStep ==
    ASSUME DeviceInv, DeviceNext
    PROVE  CameraInv'
<1> USE DEF DeviceInv
<1>1. audioEnable = files /\ files \in BOOLEAN /\ under \in BOOLEAN /\ ~crashed
  BY DEF DeviceTypeOK, DeviceNext
<1>2. CASE Quiet
  <2>1. UNCHANGED vars /\ files' = files /\ under' = under
    BY <1>2 DEF Quiet
  <2> QED BY <2>1, Stutter, EarlyStutter DEF CameraInv
<1>3. ASSUME NEW sub \in BOOLEAN, SimDevInitIPC(sub)
      PROVE  CameraInv'
  <2>1. files' = TRUE /\ under' = (under \/ Alive # {})
    BY <1>3 DEF SimDevInitIPC
  <2>2. CASE ~under /\ Alive = {}
    <3>1. TypeOK /\ \A t \in Threads : t > created => pc[t] = "none" /\ offset[t] = 0
      BY <1>1, <2>2 DEF CameraInv, IInv, Owned, Early
    <3>2. IInv'
      BY <1>1, <1>3, <2>2, <3>1, InitStep
    <3> QED BY <2>1, <3>2 DEF CameraInv
  <2> QED BY <1>1, <2>1, <2>2 DEF CameraInv
<1>4. CASE StartStream \/ StopStream \/ DeInit
  <2>1. files' = files /\ under' = under
    BY <1>4 DEF StartStream, StopStream, DeInit, device, counters
  <2>2. CASE under
    BY <2>1, <2>2 DEF CameraInv
  <2>3. CASE ~under /\ files
    <3>1. SimDevStartStream \/ SimDevStopStream \/ SimDevDeInitIPC
      BY <1>1, <1>4, <2>3 DEF StartStream, StopStream, DeInit
    <3> QED BY <2>1, <2>3, <3>1, BeginStep DEF CameraInv
  <2>4. CASE ~under /\ ~files
    BY <1>1, <1>4, <2>1, <2>4, EarlyBegin DEF CameraInv
  <2> QED BY <1>1, <2>2, <2>3, <2>4
<1>5. CASE Within
  <2>1. files' = files /\ under' = under
    BY <1>5 DEF Within, extra, device, counters
  <2>2. CASE under
    BY <2>1, <2>2 DEF CameraInv
  <2>3. CASE ~under /\ files
    <3>1. IInv
      BY <2>3 DEF CameraInv
    <3>2. IInv'
      BY <1>5, <3>1, StartStep, StopStep, JoinNothingStep, ClearStep DEF Within
    <3> QED BY <2>1, <2>3, <3>2 DEF CameraInv
  <2>4. CASE ~under /\ ~files
    BY <1>5, <2>1, <2>4, EarlyWithin DEF CameraInv
  <2> QED BY <1>1, <2>2, <2>3, <2>4
<1>6. ASSUME NEW t \in Threads, CaptureTask(t)
      PROVE  CameraInv'
  <2>1. files' = files /\ under' = under /\ Capture(t)
    BY <1>6 DEF CaptureTask, extra, device, counters
  <2>2. CASE under
    BY <2>1, <2>2 DEF CameraInv
  <2>3. CASE ~under /\ files
    BY <2>1, <2>3, CaptureStep DEF CameraInv
  <2>4. CASE ~under /\ ~files
    BY <1>6, <2>1, <2>4, EarlyCapture DEF CameraInv
  <2> QED BY <1>1, <2>2, <2>3, <2>4
<1> QED BY <1>2, <1>3, <1>4, <1>5, <1>6, StepCases

\* What a step of Device is to the alarms.
AlarmsQuiet == UNCHANGED <<alarmCallback, tasks, told, doubled>>

LEMMA AlarmCases ==
    ASSUME DeviceNext
    PROVE  \/ AlarmsQuiet
           \/ RegisterAlarmCb
           \/ \E k \in DOMAIN tasks : AlarmTask(k)
<1> USE DEF AlarmsQuiet, alarms, extra
<1>1. Prepare => AlarmsQuiet
  BY DEF Prepare
<1>2. MainInit => AlarmsQuiet
  BY DEF MainInit, Core, SimDevInitIPC
<1>3. MainStart => AlarmsQuiet
  BY DEF MainStart, Core, StartStream
<1>4. OwnerCalls => AlarmsQuiet
  BY DEF OwnerCalls, Core, SimDevInitIPC, StartStream, StopStream, DeInit
<1>5. ListenerCalls => AlarmsQuiet \/ RegisterAlarmCb
  BY DEF ListenerCalls, Core, CaptureJpeg
<1>6. Within => AlarmsQuiet
  BY DEF Within
<1>7. ASSUME NEW t \in Threads
      PROVE  CaptureTask(t) => AlarmsQuiet
  BY DEF CaptureTask
<1>8. CaptureJpegNotifyTask => AlarmsQuiet
  BY DEF CaptureJpegNotifyTask
<1> QED BY <1>1, <1>2, <1>3, <1>4, <1>5, <1>6, <1>7, <1>8 DEF DeviceNext

LEMMA AlarmStep ==
    ASSUME DeviceTypeOK, AlarmInv, DeviceNext
    PROVE  /\ AlarmInv'
           /\ alarmCallback' \in BOOLEAN /\ doubled' \in BOOLEAN
           /\ tasks' \in Seq(Motions)
           /\ told' \in {"nothing", "ALARM_MOTION_DETECT", "ALARM_MOTION_DETECT_DISAPPEAR"}
<1> USE DEF DeviceTypeOK, AlarmInv, AlarmsAlternate
<1>1. CASE AlarmsQuiet
  BY <1>1 DEF AlarmsQuiet, AlarmOf
<1>2. CASE RegisterAlarmCb
  <2>1. /\ tasks' = Append(tasks, "SIM_DEV_MOTION_DETECT") /\ alarmCallback' = TRUE
        /\ told' = told /\ doubled' = doubled
    BY <1>2 DEF RegisterAlarmCb
  <2>2. /\ tasks' \in Seq(Motions) /\ Len(tasks') = Len(tasks) + 1 /\ Len(tasks) \in Nat
        /\ tasks' # <<>> /\ tasks'[Len(tasks) + 1] = "SIM_DEV_MOTION_DETECT"
        /\ Len(tasks) = 0 => tasks = <<>>
    BY <2>1 DEF Motions
  <2> QED BY <2>1, <2>2 DEF AlarmOf
<1>3. ASSUME NEW k \in DOMAIN tasks, AlarmTask(k)
      PROVE  /\ AlarmInv'
             /\ alarmCallback' \in BOOLEAN /\ doubled' \in BOOLEAN
             /\ tasks' \in Seq(Motions)
             /\ told' \in {"nothing", "ALARM_MOTION_DETECT", "ALARM_MOTION_DETECT_DISAPPEAR"}
  <2> DEFINE m == IF tasks[k] = "SIM_DEV_MOTION_DETECT" THEN "SIM_DEV_MOTION_DETECT_DISAPPEAR"
                  ELSE "SIM_DEV_MOTION_DETECT"
  <2>1. /\ told' = AlarmOf(tasks[k]) /\ doubled' = (doubled \/ told' = told)
        /\ tasks' = [tasks EXCEPT ![k] = m] /\ alarmCallback' = alarmCallback
    BY <1>3 DEF AlarmTask
  <2>2. /\ tasks' \in Seq(Motions) /\ Len(tasks') = Len(tasks) /\ tasks # <<>>
        /\ tasks' # <<>> /\ tasks'[k] = m /\ k \in 1 .. Len(tasks) /\ Len(tasks) \in Nat
    BY <2>1 DEF Motions
  <2>3. Len(tasks) = 1 => k = 1
    BY <2>2
  <2>4. AlarmOf(tasks[k]) # AlarmOf(m)
    BY DEF AlarmOf
  <2>5. Len(tasks') = 1 => told' # AlarmOf(tasks'[1])
    BY <2>1, <2>2, <2>3, <2>4
  <2>6. doubled' => Len(tasks') > 1
    <3>1. CASE Len(tasks) = 1
      BY <2>1, <2>2, <2>3, <3>1
    <3>2. CASE Len(tasks) # 1
      BY <2>2, <3>2
    <3> QED BY <3>1, <3>2
  <2>7. told' \in {"ALARM_MOTION_DETECT", "ALARM_MOTION_DETECT_DISAPPEAR"}
    BY <2>1 DEF AlarmOf
  <2> QED BY <2>1, <2>2, <2>5, <2>6, <2>7
<1> QED BY <1>1, <1>2, <1>3, AlarmCases

\* What a step of Device is to who calls it.
LEMMA MainStep ==
    ASSUME DeviceInv, DeviceNext
    PROVE  /\ MainInv'
           /\ caller' = caller /\ pCaptureDevice' = pCaptureDevice
           /\ at' \in {"mqtt", "rtmp", "connect", "init", "start", "loop", "returned"}
<1> USE DEF DeviceInv, DeviceTypeOK, MainInv, Step, fixed
<1>1. CASE Prepare
  <2>1. UNCHANGED <<todo, pc, again, under>>
    BY <1>1 DEF Prepare, vars, threads, history, counters
  <2> QED BY <1>1, <2>1 DEF Prepare, Alive
<1>2. CASE MainInit
  <2>1. at = "init" /\ at' = "start" /\ caller' = caller /\ pCaptureDevice' = pCaptureDevice
        /\ caller = "main" /\ Alive = {}
    BY <1>2 DEF MainInit
  <2>2. again' = again /\ under' = under
    BY <1>2, <2>1 DEF MainInit, Core, SimDevInitIPC, vars, history, counters
  <2> QED BY <2>1, <2>2
<1>3. CASE MainStart
  <2>1. at = "start" /\ at' = "loop" /\ caller' = caller /\ pCaptureDevice' = pCaptureDevice
    BY <1>3 DEF MainStart
  <2>2. again' = again /\ under' = under
    BY <1>3 DEF MainStart, Core, StartStream, SimDevStartStream, vars, history, counters
  <2> QED BY <2>1, <2>2
<1>4. CASE OwnerCalls
  BY <1>4 DEF OwnerCalls
<1>5. CASE ListenerCalls
  <2>1. caller = "listener" /\ UNCHANGED <<caller, pCaptureDevice, at>>
    BY <1>5 DEF ListenerCalls
  <2>2. again' = again /\ under' = under
    BY <1>5 DEF ListenerCalls, Core, RegisterAlarmCb, CaptureJpeg, vars, history, counters
  <2> QED BY <2>1, <2>2
<1>6. CASE Within
  <2>1. UNCHANGED <<caller, pCaptureDevice, at, under>> /\ todo # <<>>
    BY <1>6 DEF Within, StartAgain, Start, Stop, Join, JoinNothing, Clear, Doing, extra, counters
  <2>2. again' = again
    BY <1>6 DEF Within, StartAgain, Start, Stop, Join, JoinNothing, Clear, history
  <2> QED BY <2>1, <2>2
<1>7. ASSUME NEW t \in Threads, CaptureTask(t)
      PROVE  /\ MainInv'
             /\ caller' = caller /\ pCaptureDevice' = pCaptureDevice
             /\ at' \in {"mqtt", "rtmp", "connect", "init", "start", "loop", "returned"}
  <2>1. UNCHANGED <<caller, pCaptureDevice, at, under>>
    BY <1>7 DEF CaptureTask, extra, counters
  <2>2. again' = again /\ t \in Alive
    BY <1>7 DEF CaptureTask, Capture, ReadFile, ReadFails, Leave, TakeFrame, Rewind, CallBack,
        Return, Go, history, Alive
  <2> QED BY <2>1, <2>2
<1>8. ASSUME NEW k \in DOMAIN tasks, AlarmTask(k) \/ CaptureJpegNotifyTask
      PROVE  UNCHANGED <<vars, caller, pCaptureDevice, at, under>>
  BY <1>8 DEF AlarmTask, CaptureJpegNotifyTask, counters
<1>9. CASE CaptureJpegNotifyTask
  BY <1>9 DEF CaptureJpegNotifyTask, counters, vars, threads, history, Alive
<1>10. ASSUME UNCHANGED <<vars, caller, pCaptureDevice, at, under>>
       PROVE  MainInv'
  BY <1>10 DEF vars, threads, history, Alive
<1> QED BY <1>1, <1>2, <1>3, <1>4, <1>5, <1>6, <1>7, <1>8, <1>9, <1>10 DEF DeviceNext

\* The bounded counters, and what init has set.
LEMMA CounterStep ==
    ASSUME DeviceTypeOK, DeviceNext
    PROVE  /\ audioEnable' \in BOOLEAN /\ files' = audioEnable'
           /\ jpegs' \in Nat /\ under' \in BOOLEAN
           /\ inits' \in 0 .. MaxInits /\ captures' \in 0 .. MaxJpegs
<1> DEFINE Good == /\ audioEnable' \in BOOLEAN /\ files' = audioEnable'
                   /\ jpegs' \in Nat /\ under' \in BOOLEAN
                   /\ inits' \in 0 .. MaxInits /\ captures' \in 0 .. MaxJpegs
           Same == UNCHANGED <<audioEnable, files, jpegs, under, inits, captures>>
<1> USE DeviceAssumption DEF DeviceTypeOK, device, alarms, counters
<1>1. Same => Good
  OBVIOUS
<1>2. ASSUME NEW sub \in BOOLEAN
      PROVE  SimDevInitIPC(sub) => Good
  BY DEF SimDevInitIPC
<1>3. StartStream \/ StopStream \/ DeInit \/ RegisterAlarmCb => Same
  BY DEF StartStream, StopStream, DeInit, RegisterAlarmCb
<1>4. CaptureJpeg => Good
  BY DEF CaptureJpeg
<1> HIDE DEF Good, Same
<1>5. Prepare => Good
  BY <1>1 DEF Prepare, Same
<1>6. MainInit => Good
  BY <1>1, <1>2 DEF MainInit, Core, Same
<1>7. MainStart => Good
  BY <1>1, <1>3 DEF MainStart, Core, Same
<1>8. OwnerCalls => Good
  BY <1>1, <1>2, <1>3 DEF OwnerCalls, Core, Same
<1>9. ListenerCalls => Good
  BY <1>1, <1>3, <1>4 DEF ListenerCalls, Core, Same
<1>10. Within => Good
  BY <1>1 DEF Within, extra, Same
<1>11. ASSUME NEW t \in Threads
       PROVE  CaptureTask(t) => Good
  BY <1>1 DEF CaptureTask, extra, Same
<1>12. ASSUME NEW k \in DOMAIN tasks
       PROVE  AlarmTask(k) => Good
  BY <1>1 DEF AlarmTask, Same
<1>13. CaptureJpegNotifyTask => Good
  BY DEF CaptureJpegNotifyTask, Good
<1>14. Good
  BY <1>5, <1>6, <1>7, <1>8, <1>9, <1>10, <1>11, <1>12, <1>13 DEF DeviceNext
<1> QED BY <1>14 DEF Good

-------------------------------------------------------------------------------
\* DeviceInv holds in every state, whoever calls the device and in whatever order.
THEOREM DeviceInductive == DeviceSpec => []DeviceInv
<1>1. DeviceInv /\ [DeviceNext]_allVars => DeviceInv'
  <2> SUFFICES ASSUME DeviceInv, [DeviceNext]_allVars PROVE DeviceInv'
    OBVIOUS
  <2>1. CASE DeviceNext
    <3>1. DeviceTypeOK'
      BY <2>1, AlarmStep, MainStep, CounterStep DEF DeviceInv, DeviceTypeOK
    <3> QED BY <2>1, <3>1, AlarmStep, MainStep, CameraStep DEF DeviceInv
  <2>2. CASE UNCHANGED allVars
    <3>1. UNCHANGED vars /\ UNCHANGED extra
      BY <2>2 DEF allVars
    <3>2. /\ UNCHANGED <<pCaptureDevice, caller, at, audioEnable, files, alarmCallback, tasks,
                         jpegs, told, doubled, under, inits, captures>>
          /\ UNCHANGED <<todo, pc, again>>
      BY <3>1 DEF extra, fixed, device, alarms, counters, vars, threads, history
    <3>3. DeviceTypeOK' /\ AlarmInv' /\ MainInv'
      BY <3>2 DEF DeviceInv, DeviceTypeOK, AlarmInv, AlarmsAlternate, AlarmOf, MainInv, Alive
    <3>4. CameraInv'
      BY <3>1, <3>2, Stutter, EarlyStutter DEF DeviceInv, CameraInv, DeviceTypeOK
    <3> QED BY <3>3, <3>4 DEF DeviceInv
  <2> QED BY <2>1, <2>2
<1> QED BY <1>1, DeviceInitInv, PTL DEF DeviceSpec

\* Only an owner that calls init under capture threads, or stopStream twice, crashes
\* the device; main never does.
THEOREM DeviceSafety == DeviceSpec => []DeviceIsSafe
<1>1. DeviceInv => DeviceIsSafe
  BY DEF DeviceInv, MainInv, CameraInv, IInv, Early, StopsAreSafe, DeviceIsSafe
<1> QED BY <1>1, DeviceInductive, PTL

\* A single AlarmTask reports a motion and its end by turns.
THEOREM AlarmsByTurns == DeviceSpec => []AlarmsAlternate
BY DeviceInductive, PTL DEF DeviceInv, AlarmInv
==================================================================================
