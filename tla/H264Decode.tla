------------------------------- MODULE H264Decode -------------------------------
(***************************************************************************)
(* H264DecodeFrame and H264DecodeNalu of src/src/librtmp_wrapper/          *)
(* h264_decode.c: the scan of a frame for start codes, 00 00 01 or         *)
(* 00 00 00 01, that fills an array of NAL units.                          *)
(*                                                                         *)
(* A pointer is its offset from _pFrame.  The loop runs up to and including*)
(* pEnd and reads four bytes at a time, so that memory goes on after the   *)
(* frame: there the caller's file buffer holds the length of the next      *)
(* frame.  DECODE_BUF_OVERFLOW stops nothing, since ret is unsigned; the   *)
(* array is therefore as long as the scan makes it.                        *)
(***************************************************************************)
EXTENDS Integers

CONSTANTS
    Bytes,          \* the bytes that occur
    MaxLen,         \* bound on _nLen
    MaxNalus        \* *_pSize, the caller's room: MAX_NALUS_PER_FRAME

ASSUME BoundAssumption ==
    /\ Bytes \subseteq 0 .. 255
    /\ MaxLen \in Nat \ {0}
    /\ MaxNalus \in Nat \ {0}

VARIABLES
    memory,         \* the bytes from _pFrame on
    len,            \* _nLen
    pStart,
    nIndex, nalus,  \* the units found, numbered from 0
    phase           \* "scan", "done", or "stray": written to in front of nalus

frame == <<memory, len>>
vars == <<frame, pStart, nIndex, nalus, phase>>

Init ==
    /\ len \in 1 .. MaxLen
    /\ memory \in [0 .. MaxLen + 4 -> Bytes]
    /\ pStart = 0
    /\ nIndex = 0
    /\ nalus = [i \in {} |-> i]
    /\ phase = "scan"

-------------------------------------------------------------------------------
ShortCode(p) == memory[p] = 0 /\ memory[p + 1] = 0 /\ memory[p + 2] = 1
LongCode(p) == memory[p] = 0 /\ ShortCode(p + 1)

\* Mutant: the size of the unit before takes in the start code.
DecodeNaluWithCode(pData, nStartCodeLen) ==
    /\ nalus' = [i \in 0 .. nIndex |->
                    IF i = nIndex
                    THEN [addr |-> pData, size |-> 0, type |-> memory[pData] % 32]
                    ELSE IF i = nIndex - 1
                    THEN [nalus[i] EXCEPT !.size = pData - nalus[i].addr]
                    ELSE nalus[i]]
    /\ nIndex' = nIndex + 1

\* H264DecodeNalu: a new unit, and the size of the one before it.
DecodeNalu(pData, nStartCodeLen) ==
    /\ nalus' = [i \in 0 .. nIndex |->
                    IF i = nIndex
                    THEN [addr |-> pData, size |-> 0, type |-> memory[pData] % 32]
                    ELSE IF i = nIndex - 1
                    THEN [nalus[i] EXCEPT !.size = pData - nalus[i].addr - nStartCodeLen]
                    ELSE nalus[i]]
    /\ nIndex' = nIndex + 1

\* Mutant: the scan goes on without having moved past the code.
FindLongInPlace ==
    /\ phase = "scan" /\ pStart <= len
    /\ LongCode(pStart)
    /\ pStart' = pStart + 1
    /\ DecodeNalu(pStart + 4, 4)
    /\ UNCHANGED <<frame, phase>>

\* One pass of the loop.
FindLong ==
    /\ phase = "scan" /\ pStart <= len
    /\ LongCode(pStart)
    /\ pStart' = pStart + 4
    /\ DecodeNalu(pStart + 4, 4)
    /\ UNCHANGED <<frame, phase>>

FindShort ==
    /\ phase = "scan" /\ pStart <= len
    /\ ~LongCode(pStart) /\ ShortCode(pStart)
    /\ pStart' = pStart + 3
    /\ DecodeNalu(pStart + 3, 3)
    /\ UNCHANGED <<frame, phase>>

\* Mutant: four bytes without a start code are skipped at once.
SkipFour ==
    /\ phase = "scan" /\ pStart <= len
    /\ ~LongCode(pStart) /\ ~ShortCode(pStart)
    /\ pStart' = pStart + 4
    /\ UNCHANGED <<frame, nIndex, nalus, phase>>

Skip ==
    /\ phase = "scan" /\ pStart <= len
    /\ ~LongCode(pStart) /\ ~ShortCode(pStart)
    /\ pStart' = pStart + 1
    /\ UNCHANGED <<frame, nIndex, nalus, phase>>

\* Mutant: the size is counted from the frame on.
FinishFromFrame ==
    /\ phase = "scan" /\ pStart > len
    /\ nIndex > 0
    /\ nalus' = [nalus EXCEPT ![nIndex - 1].size = len + 1]
    /\ phase' = "done"
    /\ UNCHANGED <<frame, pStart, nIndex>>

\* The size of the last unit: of all the rest of the frame, from the unit before
\* it if there is one.
Finish ==
    /\ phase = "scan" /\ pStart > len
    /\ nIndex > 0
    /\ nalus' = [nalus EXCEPT ![nIndex - 1].size =
                    len - nalus[IF nIndex = 1 THEN 0 ELSE nIndex - 2].addr]
    /\ phase' = "done"
    /\ UNCHANGED <<frame, pStart, nIndex>>

\* No start code: the assignment is to _pNalus[-1].
FinishEmpty ==
    /\ phase = "scan" /\ pStart > len
    /\ nIndex = 0
    /\ phase' = "stray"
    /\ UNCHANGED <<frame, pStart, nIndex, nalus>>

Next == FindLong \/ FindShort \/ Skip \/ Finish \/ FinishEmpty

Spec == Init /\ [][Next]_vars

-------------------------------------------------------------------------------
NalUnit == [addr : 0 .. len + 4, size : Int, type : 0 .. 31]

\* Types: among them, that no byte is read more than five after the frame.
TypeOK ==
    /\ len \in 1 .. MaxLen
    /\ memory \in [0 .. MaxLen + 4 -> Bytes]
    /\ pStart \in 0 .. len + 4
    /\ nIndex \in Nat
    /\ nalus \in [0 .. nIndex - 1 -> NalUnit]
    /\ phase \in {"scan", "done", "stray"}

\* The reference: where the three bytes 00 00 01 are, counting what a 00 at pEnd
\* may begin.
Codes ==
    {c \in 0 .. len + 1 : ShortCode(c) /\ (c <= len \/ memory[c - 1] = 0)}

\* The scan finds a unit behind every start code and behind nothing else.
FindsEveryUnit ==
    phase # "scan" =>
        {nalus[i].addr : i \in 0 .. nIndex - 1} = {c + 3 : c \in Codes}

\* Every unit but the last reaches exactly to the start code of the next.
UnitsAreTiled ==
    \A i \in 0 .. nIndex - 2 :
        LET end == nalus[i].addr + nalus[i].size
        IN  /\ nalus[i].size >= 0
            /\ \/ LongCode(end) /\ nalus[i + 1].addr = end + 4
               \/ ShortCode(end) /\ nalus[i + 1].addr = end + 3

\* A unit that reaches past the frame is the last of several (h264_decode.c:74);
\* even then its size is less than the frame's, so that one slice fits in what
\* RtmpSendVideo allocates (rtmp_wapper.c:63).
OnlyTheLastOverruns ==
    phase = "done" =>
        \A i \in 0 .. nIndex - 1 :
            /\ nalus[i].addr + nalus[i].size > len => nIndex > 1 /\ i = nIndex - 1
            /\ nalus[i].size < len

\* The caller's array is overrun, unnoticed (h264_decode.c:55), by long frames only.
OverflowNeedsLongFrame ==
    nIndex > MaxNalus => len >= 3 * MaxNalus - 1

===============================================================================
