------------------------------- MODULE AdtsDecode -------------------------------
(***************************************************************************)
(* The way of an AAC file to RTMP: start_audio_file_test of                *)
(* src/src/sample/devices/ipc_simulator.c walks it frame by frame,         *)
(* RtmpSendAudio has AacDecodeAdts of src/src/librtmp_wrapper/adts.c look  *)
(* for the ADTS frames in what it is given, and copies their data.         *)
(*                                                                         *)
(* A pointer is its offset in the file.  Both parsers put                  *)
(* aac_frame_length together from the low two bits of one byte, the whole  *)
(* of the next and the top three of a third; the camera from unsigned      *)
(* bytes, the decoder from char.  Where char is signed the middle byte is  *)
(* negative from its half on, and being or-ed in it makes the whole length *)
(* negative: the loop goes back, to bytes that are no header of a frame.   *)
(*                                                                         *)
(* The callbacks return 0, and what RtmpPubSendAudioFrame makes of the     *)
(* data is a matter of StreamApp.                                          *)
(***************************************************************************)
EXTENDS Integers, Sequences, FiniteSetsExt

CONSTANTS
    Low, Mid, High,     \* the values of the three parts of a length: 8, 256, 4
    SignedChar,         \* is char signed, as on x86
    HeaderLens,         \* of an ADTS header, without and with CRC: 7 and 9
    MaxBytes,           \* bound on the size of the file
    MaxBack,            \* bound on how far before the file memory is looked at
    StrayLens,          \* the lengths that bytes which are no header may read as
    Room                \* MAX_ADTS_PER_FRAME, and the room of the unit test

ASSUME WidthAssumption ==
    /\ Low \in Nat \ {0} /\ Mid \in Nat \ {0} /\ High \in Nat \ {0}
    /\ SignedChar \in BOOLEAN

ASSUME FileAssumption ==
    /\ HeaderLens \subseteq Nat \ {0} /\ HeaderLens # {}
    /\ MaxBytes \in Nat /\ MaxBack \in Nat
    /\ StrayLens \subseteq 0 .. Low * Mid * High - 1
    /\ Room \in Nat \ {0}

\* A header is never as short as half of another.
ASSUME HeaderAssumption == \A m, n \in HeaderLens : m < 2 * n

VARIABLES
    file, size,     \* the header at each frame's offset; the bytes of the file
    seen,           \* what the decoder found elsewhere: a header, or NoSync
    caller,         \* "camera", or "test": the unit test of adts.c
    audioOffset,    \* of the camera
    stage,          \* "walk", "decode", "ok", "overflow", "astray"
    from, nLen,     \* the buffer the decoder was given
    pSyncWord, units,  \* of AacDecodeAdts
    copies, written,    \* of RtmpSendAudio: units looked at, bytes written to pBuf
    sent            \* history: the buffers that RTMP was given whole

input == <<file, size, caller>>
decoder == <<seen, pSyncWord, units>>
copier == <<copies, written>>
adtsVars == <<input, decoder, audioOffset, stage, from, nLen, copier, sent>>

NoSync == [len |-> 0, head |-> 0]
Headers(lens) == [len : lens, head : HeaderLens]
MaxLength == Low * Mid * High - 1

\* The frames lie one behind the other from 0 on; the last may be cut short.
AdtsInit ==
    /\ size \in 1 .. MaxBytes
    /\ \E starts \in SUBSET (0 .. size - 1) :
        LET last == Max(starts)
            end(p) == Min({q \in starts \cup {size} : q > p})
        IN  /\ 0 \in starts
            /\ \E head \in [starts -> HeaderLens], len \in size - last .. MaxLength :
                file = [p \in starts |-> [len |-> IF p = last THEN len ELSE end(p) - p,
                                          head |-> head[p]]]
    /\ \A p \in DOMAIN file : file[p].len \in file[p].head .. MaxLength
    /\ seen = [p \in {} |-> NoSync]
    /\ caller \in {"camera", "test"}
    /\ audioOffset = 0
    /\ stage = "walk"
    /\ from = 0 /\ nLen = 0 /\ pSyncWord = 0 /\ units = <<>>
    /\ copies = 0 /\ written = 0
    /\ sent = <<>>

-------------------------------------------------------------------------------
\* The camera.

HandOver(p, n) ==
    /\ stage' = "decode"
    /\ from' = p /\ nLen' = n
    /\ pSyncWord' = p /\ units' = <<>>
    /\ copies' = 0 /\ written' = 0
    /\ UNCHANGED <<input, seen, audioOffset, sent>>

\* Mutant: the frame need not be there to its end.
HandFrameUnchecked ==
    /\ caller = "camera" /\ stage = "walk"
    /\ LET h == file[audioOffset]
       IN  /\ audioOffset + Min(HeaderLens) <= size
           /\ HandOver(audioOffset, h.len)

\* One frame, if that many bytes are there and a header's length more.
HandFrame ==
    /\ caller = "camera" /\ stage = "walk"
    /\ LET h == file[audioOffset]
       IN  /\ audioOffset + Min(HeaderLens) <= size
           /\ audioOffset + h.head + h.len <= size
           /\ HandOver(audioOffset, h.len)

\* The unit test hands over a file of whole frames at once.
HandFile ==
    /\ caller = "test" /\ stage = "walk"
    /\ LET last == Max(DOMAIN file)
       IN  last + file[last].len = size
    /\ HandOver(0, size)

-------------------------------------------------------------------------------
\* AacDecodeAdts.

\* nAacFrameLen, from the three bytes of a header that says len.
ReadLength(len) ==
    LET mid == (len \div Low) % Mid
    IN  IF SignedChar /\ mid >= Mid \div 2 THEN (mid - Mid) * Low + (len % Low) ELSE len

\* Mutant: the header is counted as data.
FoundWithHeader(h) ==
    /\ units' = Append(units, [addr |-> pSyncWord + h.head, size |-> ReadLength(h.len)])
    /\ pSyncWord' = pSyncWord + ReadLength(h.len)
    /\ stage' = IF Len(units') >= Room THEN "overflow" ELSE "decode"

\* Mutant: the decoder moves on by the data only.
FoundByData(h) ==
    /\ units' = Append(units,
                    [addr |-> pSyncWord + h.head, size |-> ReadLength(h.len) - h.head])
    /\ pSyncWord' = pSyncWord + ReadLength(h.len) - h.head
    /\ stage' = IF Len(units') >= Room THEN "overflow" ELSE "decode"

\* A sync word at pSyncWord, with header h.  The array counts as full as soon as its
\* last element is in use.
Found(h) ==
    /\ units' = Append(units,
                    [addr |-> pSyncWord + h.head, size |-> ReadLength(h.len) - h.head])
    /\ pSyncWord' = pSyncWord + ReadLength(h.len)
    /\ stage' = IF Len(units') >= Room THEN "overflow" ELSE "decode"

Decoding == stage = "decode" /\ pSyncWord < from + nLen

DecodeFrame ==
    /\ Decoding
    /\ pSyncWord \in DOMAIN file
    /\ Found(file[pSyncWord])
    /\ UNCHANGED <<input, seen, audioOffset, from, nLen, copier, sent>>

\* Bytes that are no header of the file.  Without a sync word there the loop stays
\* where it is: nothing happens any more.
DecodeStray ==
    /\ Decoding
    /\ pSyncWord \notin DOMAIN file /\ pSyncWord >= -MaxBack
    /\ \E h \in IF pSyncWord \in DOMAIN seen THEN {seen[pSyncWord]}
                ELSE {NoSync} \cup Headers(StrayLens) :
        /\ seen' = [p \in DOMAIN seen \cup {pSyncWord} |-> IF p = pSyncWord THEN h ELSE seen[p]]
        /\ IF h = NoSync THEN UNCHANGED <<units, pSyncWord, stage>> ELSE Found(h)
    /\ UNCHANGED <<input, audioOffset, from, nLen, copier, sent>>

\* Too far off to say what is there.
DecodeAstray ==
    /\ Decoding
    /\ pSyncWord < -MaxBack
    /\ stage' = "astray"
    /\ UNCHANGED <<input, decoder, audioOffset, from, nLen, copier, sent>>

DecodeEnds ==
    /\ stage = "decode" /\ pSyncWord >= from + nLen
    /\ stage' = "ok"
    /\ UNCHANGED <<input, decoder, audioOffset, from, nLen, copier, sent>>

-------------------------------------------------------------------------------
\* RtmpSendAudio, for the camera.

\* memcpy of the next unit, if it has any data.
CopyUnit ==
    /\ caller = "camera" /\ stage = "ok"
    /\ copies < Len(units)
    /\ copies' = copies + 1
    /\ LET n == units[copies + 1].size
       IN  written' = written + IF n > 0 THEN n ELSE 0
    /\ UNCHANGED <<input, decoder, audioOffset, stage, from, nLen, sent>>

\* What was copied goes to RTMP, or nothing does: either way the camera goes on to
\* the next frame.
Return ==
    /\ caller = "camera"
    /\ \/ stage = "ok" /\ copies = Len(units) /\ sent' = Append(sent, from)
       \/ stage = "overflow" /\ UNCHANGED sent
    /\ stage' = "walk"
    /\ audioOffset' = audioOffset + nLen
    /\ UNCHANGED <<input, decoder, from, nLen, copier>>

-------------------------------------------------------------------------------
AdtsNext ==
    \/ HandFrame \/ HandFile
    \/ DecodeFrame \/ DecodeStray \/ DecodeAstray \/ DecodeEnds
    \/ CopyUnit \/ Return

\* One thread, which runs.
AdtsSpec == AdtsInit /\ [][AdtsNext]_adtsVars /\ WF_adtsVars(AdtsNext)

-------------------------------------------------------------------------------
Header == Headers(Nat)
Unit == [addr : Int, size : Int]

AdtsTypeOK ==
    /\ size \in 1 .. MaxBytes
    /\ DOMAIN file \subseteq 0 .. size - 1 /\ file \in [DOMAIN file -> Header]
    /\ DOMAIN seen \subseteq Int /\ seen \in [DOMAIN seen -> Header \cup {NoSync}]
    /\ caller \in {"camera", "test"}
    /\ audioOffset \in Nat /\ from \in Nat /\ nLen \in Nat
    /\ stage \in {"walk", "decode", "ok", "overflow", "astray"}
    /\ pSyncWord \in Int /\ units \in Seq(Unit)
    /\ copies \in 0 .. Len(units) /\ written \in Nat
    /\ sent \in Seq(Nat)

\* The frames of the buffer.
Given == {p \in DOMAIN file : from <= p /\ p < from + nLen}

\* Does the decoder read the length at p as it was meant?
Plain(p) == ReadLength(file[p].len) = file[p].len

\* The camera is always at the beginning of a frame, and gives the decoder bytes of the
\* file only.  Of frames whose lengths it can read the decoder never goes out of the
\* buffer, and RtmpSendAudio copies no more than it has allocated (rtmp_wapper.c:156),
\* nowhere near the data that is not there.  The array of units is never overrun.
StaysInside ==
    /\ audioOffset \in DOMAIN file
    /\ from + nLen <= size
    /\ Len(units) <= Room
    /\ (\A p \in Given : Plain(p)) =>
        /\ pSyncWord \in from .. from + nLen
        /\ \A i \in DOMAIN units :
            /\ units[i].size >= 0
            /\ units[i].addr + units[i].size <= from + nLen
        /\ written <= nLen

\* A decoder that comes to the end has found the frames of the buffer, each of them
\* once and in their order, and of each the data between the header and the next
\* frame (adts.c:36, "nAacFrameLen = headerlen + aacDataLen"); unless char is signed
\* and one of the lengths reads negative.
FramesFound ==
    stage = "ok" /\ (\A p \in Given : Plain(p)) =>
        /\ Len(units) = Cardinality(Given)
        /\ \A i \in DOMAIN units : \E p \in Given :
            /\ units[i].addr = p + file[p].head
            /\ units[i].addr + units[i].size = p + file[p].len
            /\ Cardinality({q \in Given : q < p}) = i - 1

\* The same without the exception.  The code does not ensure this where char is
\* signed.
LengthsAreRead ==
    \A i \in DOMAIN units : \E p \in Given :
        /\ units[i].addr = p + file[p].head
        /\ units[i].addr + units[i].size = p + file[p].len

\* The frames with as many bytes behind them as their header has.
Playable == {p \in DOMAIN file : p + file[p].head + file[p].len <= size}

\* The camera's audio is sent frame by frame, each once and in order, up to the first
\* frame without that many bytes behind it, the last at the latest: that one is never
\* sent, and there the camera stays, silent (ipc_simulator.c:422).  Neither the
\* decoder nor an array that is full stops it before, so long as the decoder can read
\* every length.
PlaysToTheLast ==
    caller = "camera" /\ (\A p \in DOMAIN file : Plain(p)) =>
        <>[](/\ audioOffset \notin Playable
             /\ {sent[i] : i \in DOMAIN sent} = Playable
             /\ \A i \in DOMAIN sent : i > 1 => sent[i - 1] < sent[i])
================================================================================
