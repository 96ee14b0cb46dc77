----------------------------- MODULE DecoderProofs -----------------------------
(***************************************************************************)
(* Proofs about the two decoders of librtmp_wrapper: H264Decode, for       *)
(* frames of every length, of every bytes, and AdtsDecode, for files of    *)
(* every size and headers with lengths of every width; and arrays of every *)
(* size for both.                                                          *)
(*                                                                         *)
(* H264Decode's loop invariant: the units found stand behind the start     *)
(* codes that begin before pStart, each of them has taken three bytes or   *)
(* more, and pStart is not in the middle of a start code of four bytes --  *)
(* which is why the three bytes after a 00 are found as part of four, and  *)
(* why the bound of the scan lets through one code past pEnd.              *)
(*                                                                         *)
(* AdtsDecode's: so long as the lengths can be read, pSyncWord is at a     *)
(* frame of the buffer or at its end, and the units are the frames before  *)
(* it.                                                                     *)
(***************************************************************************)
EXTENDS H264Decode, AdtsDecode, TLAPS, FiniteSetTheorems, WellFoundedInduction

\* Every unit stands behind a start code, before or at pStart.
Sound == \A i \in 0 .. nIndex - 1 :
    /\ nalus[i].addr - 3 \in Codes
    /\ nalus[i].addr <= pStart

\* Every start code that begins before pStart has its unit.
AllFound == \A c \in Codes :
    c < pStart => \E i \in 0 .. nIndex - 1 : nalus[i].addr = c + 3

\* The byte before pStart does not make a long code with those from pStart on.
Aligned == pStart > 0 => ~LongCode(pStart - 1)

\* Every unit but the last ends in the frame.
Inner == \A i \in 0 .. nIndex - 2 : nalus[i].addr + nalus[i].size <= len

\* What each phase adds.
Phases ==
    /\ phase # "scan" => pStart > len
    /\ phase = "done" => /\ nIndex > 0
                         /\ nalus[nIndex - 1].size =
                                len - nalus[IF nIndex = 1 THEN 0 ELSE nIndex - 2].addr

IInv ==
    /\ TypeOK /\ Sound /\ AllFound /\ Aligned /\ Inner /\ UnitsAreTiled
    /\ 3 * nIndex <= pStart
    /\ Phases

\* The bytes that the scan reads are bytes.
LEMMA MemoryRead ==
    ASSUME TypeOK, NEW p \in 0 .. len + 4
    PROVE  memory[p] \in 0 .. 255
<1>1. len \in 1 .. MaxLen /\ MaxLen \in Nat /\ memory \in [0 .. MaxLen + 4 -> Bytes]
  BY BoundAssumption DEF TypeOK
<1>2. p \in 0 .. MaxLen + 4
  BY <1>1
<1>3. memory[p] \in Bytes
  BY <1>1, <1>2
<1> QED BY <1>3, BoundAssumption

\* IInv holds when the scan begins.
LEMMA InitIInv == Init => IInv
<1> SUFFICES ASSUME Init PROVE IInv
  OBVIOUS
<1> USE BoundAssumption DEF Init
<1>1. TypeOK
  <2>1. nalus \in [0 .. nIndex - 1 -> NalUnit]
    OBVIOUS
  <2>2. pStart \in 0 .. len + 4
    OBVIOUS
  <2> QED BY <2>1, <2>2 DEF TypeOK
<1>2. Sound /\ AllFound /\ Aligned /\ Inner /\ UnitsAreTiled
  BY DEF Sound, AllFound, Aligned, Inner, UnitsAreTiled, Codes
<1> QED BY <1>1, <1>2 DEF IInv, Phases

\* A start code of k bytes at pStart is answered with one unit behind it.
LEMMA UnitStep ==
    ASSUME IInv, phase = "scan", pStart <= len, NEW k \in {3, 4},
           IF k = 4 THEN LongCode(pStart) ELSE ShortCode(pStart) /\ ~LongCode(pStart),
           pStart' = pStart + k, DecodeNalu(pStart + k, k),
           UNCHANGED <<frame, phase>>
    PROVE  IInv'
<1> DEFINE u == pStart + k
<1> USE DEF frame
<1>1. TypeOK /\ len \in Nat /\ pStart \in Nat /\ nIndex \in Nat
  BY BoundAssumption DEF IInv, TypeOK
<1>2. /\ nIndex' = nIndex + 1
      /\ nalus'[nIndex].addr = u /\ nalus'[nIndex].size = 0
      /\ \A i \in 0 .. nIndex - 1 : nalus'[i].addr = nalus[i].addr
      /\ \A i \in 0 .. nIndex - 2 : nalus'[i] = nalus[i]
      /\ nIndex > 0 => nalus'[nIndex - 1].size = pStart - nalus[nIndex - 1].addr
  <2>1. \A i \in 0 .. nIndex - 1 : nalus[i] \in NalUnit
    BY <1>1 DEF TypeOK
  <2>2. nIndex' = nIndex + 1
    BY DEF DecodeNalu
  <2>3. nalus'[nIndex] = [addr |-> u, size |-> 0, type |-> memory[u] % 32]
    BY <1>1 DEF DecodeNalu
  <2>4. ASSUME NEW i \in 0 .. nIndex - 2
        PROVE  nalus'[i] = nalus[i]
    BY <1>1, <2>4 DEF DecodeNalu
  <2>5. nIndex > 0 => nalus'[nIndex - 1] =
            [nalus[nIndex - 1] EXCEPT !.size = u - nalus[nIndex - 1].addr - k]
    BY <1>1 DEF DecodeNalu
  <2>6. nIndex > 0 => /\ nalus'[nIndex - 1].addr = nalus[nIndex - 1].addr
                      /\ nalus'[nIndex - 1].size = pStart - nalus[nIndex - 1].addr
    BY <1>1, <2>1, <2>5 DEF NalUnit
  <2> QED BY <1>1, <2>2, <2>3, <2>4, <2>6
<1>3. TypeOK'
  <2>1. memory[u] \in 0 .. 255 /\ memory[u] % 32 \in 0 .. 31
    BY <1>1, MemoryRead
  <2>2. [addr |-> u, size |-> 0, type |-> memory[u] % 32] \in NalUnit
    BY <1>1, <2>1 DEF NalUnit
  <2>3. \A i \in 0 .. nIndex - 1 :
            nalus[i] \in NalUnit /\ [nalus[i] EXCEPT !.size = u - nalus[i].addr - k] \in NalUnit
    <3> SUFFICES ASSUME NEW i \in 0 .. nIndex - 1
                 PROVE  nalus[i] \in NalUnit
                        /\ [nalus[i] EXCEPT !.size = u - nalus[i].addr - k] \in NalUnit
      OBVIOUS
    <3>1. nalus[i] \in NalUnit
      BY <1>1 DEF TypeOK
    <3> QED BY <1>1, <3>1 DEF NalUnit
  <2>4. nalus' \in [0 .. nIndex -> NalUnit]
    BY <1>1, <2>2, <2>3 DEF DecodeNalu
  <2>5. NalUnit' = NalUnit
    BY DEF NalUnit
  <2>6. nalus' \in [0 .. nIndex' - 1 -> NalUnit']
    BY <1>1, <1>2, <2>4, <2>5
  <2>7. pStart' \in 0 .. len' + 4
    BY <1>1
  <2> QED BY <1>1, <1>2, <2>6, <2>7 DEF TypeOK
<1>4. Codes' = Codes
  BY DEF Codes, ShortCode
<1>5. u - 3 \in Codes /\ \A c \in Codes : c < u /\ c >= pStart => c = u - 3
  <2>1. CASE k = 4
    BY <1>1, <2>1 DEF Codes, LongCode, ShortCode
  <2>2. CASE k = 3
    BY <1>1, <2>2 DEF Codes, LongCode, ShortCode
  <2>3. k = 3 \/ k = 4
    OBVIOUS
  <2> QED BY ONLY <2>1, <2>2, <2>3
<1>6. \A i \in 0 .. nIndex - 1 : nalus[i].addr \in Int /\ nalus[i].size \in Int /\ nalus[i].addr <= pStart
  BY <1>1 DEF IInv, TypeOK, NalUnit, Sound
<1>7. Sound'
  <2> SUFFICES ASSUME NEW i \in 0 .. nIndex
               PROVE  nalus'[i].addr - 3 \in Codes /\ nalus'[i].addr <= u
    BY <1>1, <1>2, <1>4 DEF Sound
  <2>1. CASE i = nIndex
    BY <1>1, <1>2, <1>5, <2>1
  <2>2. CASE i < nIndex
    <3>1. nalus[i].addr - 3 \in Codes /\ nalus'[i].addr = nalus[i].addr
      BY <1>1, <1>2, <2>2 DEF IInv, Sound
    <3> QED BY <1>1, <1>6, <2>2, <3>1
  <2> QED BY <1>1, <2>1, <2>2
<1>8. AllFound'
  <2> SUFFICES ASSUME NEW c \in Codes, c < u
               PROVE  \E i \in 0 .. nIndex : nalus'[i].addr = c + 3
    BY <1>1, <1>2, <1>4 DEF AllFound
  <2>1. c \in Int
    BY <1>1 DEF Codes
  <2>2. CASE c < pStart
    BY <1>1, <1>2, <2>1, <2>2 DEF IInv, AllFound
  <2>3. CASE c >= pStart
    BY <1>1, <1>2, <1>5, <2>1, <2>3
  <2> QED BY <1>1, <2>1, <2>2, <2>3
<1>9. Aligned'
  <2>1. memory[u - 1] = 1
    BY <1>1 DEF LongCode, ShortCode
  <2> QED BY <1>1, <2>1 DEF Aligned, LongCode
<1>10. Inner'
  <2> SUFFICES ASSUME NEW i \in 0 .. nIndex - 1
               PROVE  nalus'[i].addr + nalus'[i].size <= len
    BY <1>1, <1>2 DEF Inner
  <2>1. CASE i = nIndex - 1
    BY <1>1, <1>2, <1>6, <2>1
  <2>2. CASE i < nIndex - 1
    BY <1>1, <1>2, <2>2 DEF IInv, Inner
  <2> QED BY <1>1, <2>1, <2>2
<1>11. UnitsAreTiled'
  <2> DEFINE end(i) == nalus'[i].addr + nalus'[i].size
  <2> SUFFICES ASSUME NEW i \in 0 .. nIndex - 1
               PROVE  /\ nalus'[i].size >= 0
                      /\ \/ LongCode(end(i)) /\ nalus'[i + 1].addr = end(i) + 4
                         \/ ShortCode(end(i)) /\ nalus'[i + 1].addr = end(i) + 3
    BY <1>1, <1>2 DEF UnitsAreTiled, LongCode, ShortCode
  <2>1. CASE i = nIndex - 1
    <3>1. end(i) = pStart /\ nalus'[i].size >= 0 /\ nalus'[i + 1].addr = pStart + k
      BY <1>1, <1>2, <1>6, <2>1
    <3> HIDE DEF end
    <3> QED BY <3>1
  <2>2. CASE i < nIndex - 1
    <3>1. i \in 0 .. nIndex - 2 /\ i + 1 \in 0 .. nIndex - 1
      BY <1>1, <2>2
    <3>2. nalus'[i] = nalus[i] /\ nalus'[i + 1].addr = nalus[i + 1].addr
      BY <1>2, <3>1
    <3> QED BY <3>1, <3>2 DEF IInv, UnitsAreTiled
  <2> QED BY <1>1, <2>1, <2>2
<1>12. 3 * nIndex' <= pStart' /\ Phases'
  BY <1>1, <1>2 DEF IInv, Phases
<1> QED BY <1>3, <1>7, <1>8, <1>9, <1>10, <1>11, <1>12 DEF IInv

\* Every step keeps IInv.
LEMMA StepIInv == IInv /\ [Next]_vars => IInv'
<1> SUFFICES ASSUME IInv, [Next]_vars PROVE IInv'
  OBVIOUS
<1>1. TypeOK /\ len \in Nat /\ pStart \in Nat /\ nIndex \in Nat
  BY BoundAssumption DEF IInv, TypeOK
<1>2. CASE FindLong
  BY <1>2, UnitStep DEF FindLong
<1>3. CASE FindShort
  BY <1>3, UnitStep DEF FindShort
<1>4. CASE Skip
  <2> USE <1>1, <1>4 DEF Skip, frame
  <2>1. pStart' = pStart + 1 /\ phase' = "scan"
    OBVIOUS
  <2>2. TypeOK'
    BY DEF TypeOK, NalUnit
  <2>3. Codes' = Codes
    BY DEF Codes, ShortCode
  <2>4. Sound'
    BY <2>3 DEF IInv, Sound, TypeOK, NalUnit
  <2>5. AllFound'
    <3> SUFFICES ASSUME NEW c \in Codes, c < pStart + 1
                 PROVE  \E i \in 0 .. nIndex - 1 : nalus[i].addr = c + 3
      BY <2>3 DEF AllFound
    <3>1. c # pStart /\ c \in Int
      BY DEF Codes
    <3> QED BY <3>1 DEF IInv, AllFound
  <2>6. Aligned'
    BY DEF Aligned, LongCode, ShortCode
  <2>7. Inner' /\ UnitsAreTiled'
    BY DEF IInv, Inner, UnitsAreTiled, LongCode, ShortCode
  <2>8. 3 * nIndex' <= pStart' /\ Phases'
    BY <2>1 DEF IInv, Phases
  <2> QED BY <2>2, <2>4, <2>5, <2>6, <2>7, <2>8 DEF IInv
<1>5. CASE Finish
  <2> USE <1>1, <1>5 DEF Finish, frame
  <2> DEFINE last == nIndex - 1
             prev == IF nIndex = 1 THEN 0 ELSE nIndex - 2
  <2>1. last \in 0 .. nIndex - 1 /\ prev \in 0 .. nIndex - 1
    OBVIOUS
  <2>2. \A i \in 0 .. nIndex - 1 : nalus[i] \in NalUnit /\ nalus[i].addr \in Int
    BY DEF TypeOK, NalUnit
  <2>3. /\ \A i \in 0 .. nIndex - 1 : nalus'[i].addr = nalus[i].addr
        /\ \A i \in 0 .. nIndex - 2 : nalus'[i] = nalus[i]
        /\ nalus'[last].size = len - nalus[prev].addr
    BY <2>1, <2>2 DEF TypeOK, NalUnit
  <2>4. TypeOK'
    <3>1. [nalus[last] EXCEPT !.size = len - nalus[prev].addr] \in NalUnit
      BY <2>1, <2>2 DEF NalUnit
    <3>2. nalus' \in [0 .. nIndex - 1 -> NalUnit]
      BY <2>1, <2>2, <3>1 DEF TypeOK
    <3>3. NalUnit' = NalUnit
      BY DEF NalUnit
    <3> QED BY <3>2, <3>3 DEF TypeOK
  <2>5. Codes' = Codes
    BY DEF Codes, ShortCode
  <2>6. Sound'
    BY <2>3, <2>5 DEF IInv, Sound
  <2>7. AllFound'
    BY <2>3, <2>5 DEF IInv, AllFound
  <2>8. Aligned'
    BY DEF IInv, Aligned, LongCode, ShortCode
  <2>9. Inner'
    BY <2>3 DEF IInv, Inner
  <2>10. UnitsAreTiled'
    <3> SUFFICES ASSUME NEW i \in 0 .. nIndex - 2
                 PROVE  /\ nalus'[i] = nalus[i]
                        /\ nalus'[i + 1].addr = nalus[i + 1].addr
      BY DEF IInv, UnitsAreTiled, LongCode, ShortCode
    <3> QED BY <2>3
  <2>11. 3 * nIndex' <= pStart' /\ Phases'
    BY <2>1, <2>3 DEF IInv, Phases
  <2> QED BY <2>4, <2>6, <2>7, <2>8, <2>9, <2>10, <2>11 DEF IInv
<1>6. CASE FinishEmpty
  <2> USE <1>1, <1>6 DEF FinishEmpty, frame
  <2>1. TypeOK'
    BY DEF TypeOK, NalUnit
  <2>2. Codes' = Codes
    BY DEF Codes, ShortCode
  <2>3. Sound' /\ AllFound'
    BY <2>2 DEF IInv, Sound, AllFound
  <2>4. Aligned' /\ Inner' /\ UnitsAreTiled'
    BY DEF IInv, Aligned, Inner, UnitsAreTiled, LongCode, ShortCode
  <2>5. 3 * nIndex' <= pStart' /\ Phases'
    BY DEF IInv, Phases
  <2> QED BY <2>1, <2>3, <2>4, <2>5 DEF IInv
<1>7. CASE UNCHANGED vars
  <2> USE <1>7 DEF vars, frame
  <2>1. TypeOK' /\ Codes' = Codes
    BY <1>1 DEF TypeOK, NalUnit, Codes, ShortCode
  <2>2. Sound' /\ AllFound'
    BY <2>1 DEF IInv, Sound, AllFound
  <2>3. Aligned' /\ Inner' /\ UnitsAreTiled'
    BY DEF IInv, Aligned, Inner, UnitsAreTiled, LongCode, ShortCode
  <2>4. 3 * nIndex' <= pStart' /\ Phases'
    BY DEF IInv, Phases
  <2> QED BY <2>1, <2>2, <2>3, <2>4 DEF IInv
<1> QED BY <1>2, <1>3, <1>4, <1>5, <1>6, <1>7 DEF Next

\* The loop invariant of H264DecodeFrame.
THEOREM Inductive == Spec => []IInv
BY InitIInv, StepIInv, PTL DEF Spec

-------------------------------------------------------------------------------
\* Types, and that the scan reads five bytes past the frame at most.
THEOREM TypeCorrect == Spec => []TypeOK
<1>1. IInv => TypeOK
  BY DEF IInv
<1> QED BY Inductive, <1>1, PTL

\* H264DecodeFrame finds the start codes, all of them and nothing else.
THEOREM EveryUnitFound == Spec => []FindsEveryUnit
<1>1. IInv => FindsEveryUnit
  <2> SUFFICES ASSUME IInv, phase # "scan"
               PROVE  {nalus[i].addr : i \in 0 .. nIndex - 1} = {c + 3 : c \in Codes}
    BY DEF FindsEveryUnit
  <2>1. len \in Nat /\ pStart \in Nat /\ nIndex \in Nat /\ pStart > len
    BY BoundAssumption DEF IInv, TypeOK, Phases
  <2>2. \A i \in 0 .. nIndex - 1 : nalus[i].addr \in Int
    BY DEF IInv, TypeOK, NalUnit
  <2>3. ASSUME NEW c \in Codes
        PROVE  c < pStart
    <3>1. CASE c <= len
      BY <2>1, <3>1 DEF Codes
    <3>2. CASE c = len + 1 /\ pStart = len + 1
      BY <2>1, <3>2 DEF IInv, Aligned, Codes, LongCode, ShortCode
    <3> QED BY <2>1, <3>1, <3>2 DEF Codes
  <2>4. \A c \in Codes : c \in Int /\ \E i \in 0 .. nIndex - 1 : nalus[i].addr = c + 3
    BY <2>1, <2>3 DEF IInv, AllFound, Codes
  <2>5. \A i \in 0 .. nIndex - 1 : \E c \in Codes : nalus[i].addr = c + 3
    BY <2>2 DEF IInv, Sound
  <2> QED BY <2>4, <2>5
<1> QED BY Inductive, <1>1, PTL

\* The units lie end to end between the start codes.
THEOREM Tiling == Spec => []UnitsAreTiled
<1>1. IInv => UnitsAreTiled
  BY DEF IInv
<1> QED BY Inductive, <1>1, PTL

\* Only the last of several units reaches past the frame, and no unit is as long
\* as the frame.
THEOREM Overrun == Spec => []OnlyTheLastOverruns
<1>1. IInv => OnlyTheLastOverruns
  <2> SUFFICES ASSUME IInv, phase = "done", NEW i \in 0 .. nIndex - 1
               PROVE  /\ nalus[i].addr + nalus[i].size > len => nIndex > 1 /\ i = nIndex - 1
                      /\ nalus[i].size < len
    BY DEF OnlyTheLastOverruns
  <2>1. len \in Nat /\ nIndex \in Nat /\ nIndex > 0
    BY BoundAssumption DEF IInv, TypeOK, Phases
  <2>2. \A j \in 0 .. nIndex - 1 :
            nalus[j].addr \in Int /\ nalus[j].size \in Int /\ nalus[j].addr >= 3
    BY <2>1 DEF IInv, TypeOK, NalUnit, Sound, Codes
  <2>3. CASE i = nIndex - 1
    BY <2>1, <2>2, <2>3 DEF IInv, Phases
  <2>4. CASE i # nIndex - 1
    <3>1. i \in 0 .. nIndex - 2
      BY <2>1, <2>4
    <3>2. nalus[i].addr + nalus[i].size <= len
      BY <3>1 DEF IInv, Inner
    <3> QED BY <2>1, <2>2, <2>4, <3>2
  <2> QED BY <2>3, <2>4
<1> QED BY Inductive, <1>1, PTL

\* The array is overrun only by a frame with room for that many start codes.
THEOREM Overflow == Spec => []OverflowNeedsLongFrame
<1>1. IInv => OverflowNeedsLongFrame
  BY BoundAssumption DEF IInv, TypeOK, OverflowNeedsLongFrame
<1> QED BY Inductive, <1>1, PTL

-------------------------------------------------------------------------------
\* AdtsDecode.

End(p) == p + file[p].len
UnitEnd(i) == units[i].addr + units[i].size

\* The frames of the file lie one behind the other, up to its end.
Divided ==
    /\ 0 \in DOMAIN file
    /\ \A p \in DOMAIN file : file[p].head <= file[p].len
    /\ \A p \in DOMAIN file : End(p) \in DOMAIN file \/ End(p) >= size
    /\ \A p, q \in DOMAIN file : p < q => End(p) <= q

\* The camera is at a frame, and what the decoder was given are whole frames.
Handed ==
    /\ audioOffset \in DOMAIN file /\ from \in DOMAIN file
    /\ from + nLen <= size
    /\ \A p \in Given : End(p) <= from + nLen
    /\ caller = "test" => sent = <<>> /\ audioOffset = 0
    /\ caller = "camera" /\ stage # "walk" =>
        from = audioOffset /\ nLen = file[from].len /\ from \in Playable

\* The array is full when the decoder says so, and not before.
Filled ==
    /\ Len(units) <= Room
    /\ stage = "decode" => Len(units) < Room
    /\ stage = "overflow" => Len(units) = Room

\* The frames that lie before p in the buffer.
Before(p) == {q \in Given : q < p}

\* Unit i is the frame at p, the i-th of the buffer.
UnitOf(i, p) ==
    /\ units[i].addr = p + file[p].head
    /\ UnitEnd(i) = End(p)
    /\ Cardinality(Before(p)) = i - 1

\* The decoder is at a frame, or at the end, and has found the frames before.
InStep ==
    /\ pSyncWord \in Given \/ pSyncWord = from + nLen
    /\ Len(units) = Cardinality(Before(pSyncWord))
    /\ \A i \in DOMAIN units : \E p \in Before(pSyncWord) : UnitOf(i, p)
    /\ \A i, j \in DOMAIN units : i < j => UnitEnd(i) <= units[j].addr
    /\ stage = "ok" => pSyncWord >= from + nLen
    /\ stage # "astray"

\* The data copied fit between the beginning of the buffer and the last unit copied.
CopiesFit == written <= IF copies = 0 THEN 0 ELSE UnitEnd(copies) - from

\* What has been sent are the frames behind the camera, each once, in their order.
Played ==
    /\ {sent[i] : i \in DOMAIN sent} = {p \in DOMAIN file : p < audioOffset}
    /\ \A i, j \in DOMAIN sent : i < j => sent[i] < sent[j]
    /\ \A p \in DOMAIN file : p < audioOffset => p \in Playable

AllPlain == \A p \in DOMAIN file : Plain(p)

\* No length of the file has a middle byte that char makes negative.
Readable == ~SignedChar \/ \A p \in DOMAIN file : file[p].len < Low * (Mid \div 2)

AdtsIInv ==
    /\ AdtsTypeOK /\ Divided /\ Handed /\ Filled
    /\ (\A p \in Given : Plain(p)) => InStep /\ CopiesFit
    /\ caller = "camera" /\ AllPlain /\ Room > 1 => Played

\* PlaysToTheLast without its promise that the camera gets there: it plays the frames
\* of the file in order, and where it stays silent it has played all there are to play.
PlaysInOrder ==
    caller = "camera" /\ AllPlain /\ Room > 1 =>
        /\ Played
        /\ stage \notin {"overflow", "astray"}
        /\ audioOffset \notin Playable =>
                {sent[i] : i \in DOMAIN sent} = Playable

\* Every step brings the camera or the decoder on: to the next frame, to the next stage
\* for this frame, or to the next unit.
Advances ==
    \/ audioOffset' > audioOffset
    \/ /\ audioOffset' = audioOffset
       /\ \/ stage = "walk" /\ stage' = "decode"
          \/ stage = "decode" /\ pSyncWord' > pSyncWord
          \/ stage = "decode" /\ stage' = "ok"
          \/ stage = "ok" /\ stage' = "ok" /\ copies' > copies

\* The loop of AacDecodeAdts never stays where it is or goes back, nor does the camera,
\* so long as the lengths can be read.
AlwaysOn == [][AllPlain => Advances]_adtsVars

-------------------------------------------------------------------------------
\* Operators that AdtsDecode is built from.

\* The least of a set of numbers is in it.
LEMMA MinOf ==
    ASSUME NEW S \in SUBSET Nat, S # {}
    PROVE  Min(S) \in S /\ \A y \in S : Min(S) <= y
<1> DEFINE R == {ss \in Nat \X Nat : ss[1] < ss[2]}
<1>1. IsWellFoundedOn(R, Nat)
  BY NatLessThanWellFounded DEF OpToRel
<1> HIDE DEF R
<1>2. PICK x \in S : \A y \in S : <<y, x>> \notin R
  BY <1>1, WFMin
<1>3. ASSUME NEW y \in S PROVE x <= y
  <2>1. x \in Nat /\ y \in Nat /\ <<y, x>> \notin R
    BY <1>2
  <2>2. ~(y < x)
    BY <2>1 DEF R
  <2> QED BY <2>1, <2>2
<1> QED BY <1>3 DEF Min

\* The greatest of a bounded set of numbers is in it.
LEMMA MaxOf ==
    ASSUME NEW n \in Nat, NEW S \in SUBSET (0 .. n), S # {}
    PROVE  Max(S) \in S /\ \A y \in S : y <= Max(S)
<1> DEFINE T == {n - y : y \in S}
<1>1. T \in SUBSET Nat /\ T # {}
  <2>1. \A y \in S : n - y \in Nat
    OBVIOUS
  <2> QED BY <2>1
<1>2. PICK x \in S : Min(T) = n - x
  BY <1>1, MinOf
<1>3. \A y \in S : x >= y
  BY <1>1, <1>2, MinOf
<1> QED BY <1>3 DEF Max

\* What is used of the constants.
LEMMA Constants ==
    /\ HeaderLens \subseteq Nat \ {0}
    /\ StrayLens \subseteq Nat
    /\ Room \in Nat \ {0}
<1>1. \A b : 0 .. b \subseteq Nat
  OBVIOUS
<1> QED BY ONLY <1>1, FileAssumption, Zenon

\* What is read of a length is a number, of whichever sign.
LEMMA LengthsAreInts ==
    ASSUME NEW l \in Int
    PROVE  ReadLength(l) \in Int
<1>1. Low \in Nat /\ Low > 0 /\ Mid \in Nat /\ Mid > 0
  BY WidthAssumption
<1>2. l \div Low \in Int /\ l % Low \in Int
  BY <1>1
<1> DEFINE mid == (l \div Low) % Mid
<1>3. mid \in Int
  BY <1>1, <1>2
<1> HIDE DEF mid
<1>4. (mid - Mid) * Low \in Int
  BY <1>1, <1>3
<1> QED BY <1>2, <1>4 DEF ReadLength, mid

\* A length is read as it was meant where char is unsigned, and where it is so short
\* that its middle byte is below the half: below 1024 with the fields of ADTS.
LEMMA ReadAsMeant ==
    ASSUME NEW l \in Nat, ~SignedChar \/ l < Low * (Mid \div 2)
    PROVE  ReadLength(l) = l
<1>1. CASE ~SignedChar
  BY <1>1 DEF ReadLength
<1>2. CASE l < Low * (Mid \div 2)
  <2>1. Low \in Nat /\ Low > 0 /\ Mid \in Nat /\ Mid > 0
    BY WidthAssumption
  <2> DEFINE d == l \div Low
             h == Mid \div 2
  <2>2. d \in Nat /\ h \in Nat /\ h < Mid /\ d * Low <= l
    BY <2>1
  <2> HIDE DEF d, h
  <2>3. d < h
    BY <1>2, <2>1, <2>2 DEF h
  <2>4. d % Mid = d
    BY <2>1, <2>2, <2>3
  <2> QED BY <2>2, <2>3, <2>4 DEF ReadLength, d, h
<1> QED BY <1>1, <1>2

\* What the headers of the file say of themselves.
LEMMA FrameFacts ==
    ASSUME AdtsTypeOK, Divided, NEW p \in DOMAIN file
    PROVE  /\ p \in Nat /\ p < size /\ size \in Nat
           /\ file[p].head \in HeaderLens /\ file[p].head \in Nat /\ file[p].head > 0
           /\ file[p].len \in Nat /\ file[p].head <= file[p].len
           /\ End(p) \in Nat /\ p < End(p)
<1>1. file[p] \in Header /\ p \in 0 .. size - 1 /\ size \in 1 .. MaxBytes
  BY DEF AdtsTypeOK
<1>2. file[p].head \in HeaderLens /\ file[p].len \in Nat
  BY <1>1 DEF Header, Headers
<1>3. file[p].head \in Nat /\ file[p].head > 0
  <2>1. file[p].head \in Nat \ {0}
    BY ONLY <1>2, Constants
  <2> QED BY <2>1
<1> QED BY <1>1, <1>2, <1>3 DEF Divided, End

\* The frames can be counted.
LEMMA BeforeIsFinite ==
    ASSUME AdtsTypeOK, NEW p
    PROVE  IsFiniteSet(Before(p)) /\ Cardinality(Before(p)) \in Nat
<1>1. 0 \in Int /\ size - 1 \in Int
  BY DEF AdtsTypeOK
<1>2. Before(p) \in SUBSET (0 .. size - 1)
  BY DEF AdtsTypeOK, Before, Given
<1>3. IsFiniteSet(Before(p))
  BY <1>1, <1>2, FS_Interval, FS_Subset
<1> QED BY <1>3, FS_CardinalityType

\* Behind a frame one frame more has been passed.
LEMMA OneMoreBefore ==
    ASSUME AdtsTypeOK, Divided, NEW p \in Given
    PROVE  /\ Before(End(p)) = Before(p) \cup {p}
           /\ Cardinality(Before(End(p))) = Cardinality(Before(p)) + 1
<1>1. p \in DOMAIN file /\ p \in Nat /\ p < End(p) /\ End(p) \in Nat
  BY FrameFacts DEF Given
<1>2. ASSUME NEW q \in Given PROVE q < End(p) <=> q < p \/ q = p
  <2>1. q \in DOMAIN file /\ q \in Nat
    BY FrameFacts DEF Given
  <2> QED BY <1>1, <2>1 DEF Divided
<1>3. Before(End(p)) = Before(p) \cup {p}
  BY <1>2 DEF Before
<1>4. p \notin Before(p)
  BY <1>1 DEF Before
<1> QED BY <1>3, <1>4, BeforeIsFinite, FS_AddElement

-------------------------------------------------------------------------------
\* The invariant of AdtsDecode.

\* A file is divided into frames to begin with.
LEMMA FilesAreDivided ==
    ASSUME AdtsInit
    PROVE  AdtsTypeOK /\ Divided
<1>1. size \in 1 .. MaxBytes /\ size \in Nat /\ size > 0
  BY DEF AdtsInit
<1> DEFINE last(starts) == Max(starts)
           end(starts, p) == Min({q \in starts \cup {size} : q > p})
           length(starts, p, l) == IF p = last(starts) THEN l ELSE end(starts, p) - p
<1>0. PICK starts \in SUBSET (0 .. size - 1) :
        /\ 0 \in starts
        /\ \E head \in [starts -> HeaderLens], l \in size - last(starts) .. MaxLength :
            file = [p \in starts |-> [len |-> length(starts, p, l), head |-> head[p]]]
  BY DEF AdtsInit
<1>2. PICK head \in [starts -> HeaderLens], l \in size - last(starts) .. MaxLength :
        file = [p \in starts |-> [len |-> length(starts, p, l), head |-> head[p]]]
  BY <1>0
<1>3. /\ last(starts) \in starts
      /\ \A p \in starts : p <= last(starts)
  <2>1. size - 1 \in Nat /\ starts # {}
    BY <1>0, <1>1
  <2> QED BY <1>0, <2>1, MaxOf
<1>4. ASSUME NEW p \in starts, p # last(starts)
      PROVE  /\ end(starts, p) \in starts /\ end(starts, p) > p
             /\ \A q \in starts : q > p => end(starts, p) <= q
  <2> DEFINE S == {q \in starts \cup {size} : q > p}
  <2>1. S \in SUBSET Nat /\ last(starts) \in S
    <3> HIDE DEF last
    <3>1. starts \subseteq Nat
      BY <1>1
    <3>2. p \in Nat /\ last(starts) \in Nat /\ p <= last(starts)
      BY <1>3, <3>1
    <3>3. last(starts) > p
      BY <1>4, <3>2
    <3>4. last(starts) \in S
      BY <1>3, <3>3
    <3> QED BY <1>1, <3>1, <3>4
  <2>2. Min(S) \in S /\ \A q \in S : Min(S) <= q
    BY <2>1, MinOf
  <2>3. Min(S) # size
    BY <1>1, <1>3, <2>1, <2>2
  <2> QED BY <2>2, <2>3
<1> HIDE DEF last, end
<1>5. /\ DOMAIN file = starts
      /\ \A p \in starts : file[p].head = head[p] /\ file[p].head \in HeaderLens
                           /\ file[p].len = length(starts, p, l)
  BY <1>2
<1>6. \A p \in starts : p \in Nat /\ p < size
  BY <1>1, <1>0, <1>2
<1>7. l \in Int /\ l >= size - last(starts)
  BY <1>1, <1>0, <1>2, <1>3, <1>6
<1>8. /\ End(last(starts)) >= size
      /\ \A p \in starts : p # last(starts) => End(p) = end(starts, p)
  BY <1>1, <1>3, <1>4, <1>5, <1>6, <1>7 DEF End
<1>9. \A p \in starts : file[p].head <= file[p].len
  BY <1>5 DEF AdtsInit
<1>10. Divided
  <2>1. \A p \in starts : End(p) \in starts \/ End(p) >= size
    BY <1>4, <1>8
  <2>2. ASSUME NEW p \in starts, NEW q \in starts, p < q PROVE End(p) <= q
    <3>1. p # last(starts)
      BY <1>3, <1>6, <2>2
    <3> QED BY <1>4, <1>8, <2>2, <3>1
  <2> QED BY <1>0, <1>2, <1>5, <1>9, <2>1, <2>2 DEF Divided
<1>11. ASSUME NEW p \in starts PROVE file[p] \in Header
  <2>1. file[p].len \in Nat
    <3>1. CASE p = last(starts)
      BY <1>1, <1>5, <1>6, <1>7, <3>1
    <3>2. CASE p # last(starts)
      <4>1. end(starts, p) \in Nat /\ end(starts, p) > p /\ p \in Nat
        BY <1>4, <1>6, <3>2
      <4> QED BY <1>5, <3>2, <4>1
    <3> QED BY <3>1, <3>2
  <2> QED BY <1>2, <1>5, <2>1 DEF Header, Headers
<1>12. file \in [DOMAIN file -> Header] /\ DOMAIN file \subseteq 0 .. size - 1
  BY <1>0, <1>2, <1>5, <1>11
<1>13. /\ DOMAIN seen = {} /\ seen \in [{} -> Header \cup {NoSync}]
       /\ units \in Seq(Unit) /\ Len(units) = 0 /\ sent \in Seq(Nat)
  BY DEF AdtsInit
<1> QED BY <1>1, <1>10, <1>12, <1>13 DEF AdtsInit, AdtsTypeOK

\* AdtsIInv holds to begin with.
LEMMA InitAdtsIInv == AdtsInit => AdtsIInv
<1> SUFFICES ASSUME AdtsInit PROVE AdtsIInv
  OBVIOUS
<1>1. AdtsTypeOK /\ Divided
  BY FilesAreDivided
<1>2. /\ from = 0 /\ nLen = 0 /\ audioOffset = 0 /\ pSyncWord = 0 /\ units = <<>>
      /\ copies = 0 /\ written = 0 /\ sent = <<>> /\ stage = "walk"
  BY DEF AdtsInit
<1>3. Given = {} /\ \A p : Before(p) = {}
  BY <1>1, <1>2 DEF Given, Before, AdtsTypeOK
<1>4. Handed
  BY <1>1, <1>2, <1>3 DEF Handed, Divided, AdtsTypeOK
<1>5. Filled
  BY <1>2, Constants DEF Filled
<1>6. InStep /\ CopiesFit
  BY <1>2, <1>3, FS_EmptySet DEF InStep, CopiesFit
<1>7. Played
  <2>1. \A p \in DOMAIN file : ~(p < audioOffset)
    BY <1>1, <1>2 DEF AdtsTypeOK
  <2>2. DOMAIN sent = {}
    BY <1>2
  <2> QED BY <2>1, <2>2 DEF Played
<1> QED BY <1>1, <1>4, <1>5, <1>6, <1>7 DEF AdtsIInv

\* What does not change with the buffer and the file.
LEMMA SameBuffer ==
    ASSUME UNCHANGED <<input, from, nLen>>
    PROVE  /\ Divided' = Divided /\ Given' = Given /\ Playable' = Playable
           /\ AllPlain' = AllPlain
           /\ (\A p \in Given : Plain(p))' = (\A p \in Given : Plain(p))
           /\ \A p : End(p)' = End(p) /\ Before(p)' = Before(p)
BY DEF input, Divided, Given, Playable, AllPlain, Plain, ReadLength, End, Before

\* The decoder is given the bytes from p on, n of them: whole frames.
LEMMA HandOverStep ==
    ASSUME AdtsIInv, stage = "walk", NEW p \in DOMAIN file, NEW n \in Nat,
           HandOver(p, n), n > 0, p + n <= size,
           \A q \in DOMAIN file : p <= q /\ q < p + n => End(q) <= p + n,
           caller = "camera" => p = audioOffset /\ n = file[p].len /\ p \in Playable
    PROVE  AdtsIInv'
<1> USE DEF HandOver
<1>1. AdtsTypeOK /\ Divided
  BY DEF AdtsIInv
<1>2. p \in Nat
  BY <1>1, FrameFacts
<1>3. AdtsTypeOK' /\ Divided'
  BY <1>1, <1>2 DEF input, AdtsTypeOK, Divided, End
<1>4. \A q : End(q)' = End(q)
  BY DEF End, input
<1>5. Given' = {q \in DOMAIN file : p <= q /\ q < p + n} /\ p \in Given'
  BY <1>2 DEF Given, input
<1>6. Before(p)' = {}
  BY <1>1, <1>2, <1>5 DEF Before, AdtsTypeOK
<1>7. Handed'
  <2>1. \A q \in Given' : End(q)' <= p + n
    BY <1>4, <1>5
  <2>2. Playable' = Playable
    BY DEF Playable, input
  <2> QED BY <2>1, <2>2, Zenon DEF AdtsIInv, Handed, input
<1>8. Filled'
  BY Constants DEF Filled
<1>9. InStep' /\ CopiesFit'
  <2>1. units' = <<>> /\ pSyncWord' = p /\ stage' = "decode" /\ written' = 0 /\ copies' = 0
    OBVIOUS
  <2>2. Cardinality(Before(pSyncWord)') = 0
    BY <1>6, <2>1, FS_EmptySet DEF Before
  <2> QED BY <1>5, <2>1, <2>2 DEF InStep, CopiesFit
<1>10. caller' = "camera" /\ AllPlain' /\ Room > 1 => Played'
  BY DEF AdtsIInv, AllPlain, Plain, Played, Playable, input
<1> QED BY <1>3, <1>7, <1>8, <1>9, <1>10 DEF AdtsIInv

\* The decoder takes what is at pSyncWord for a frame with header h; if it can read
\* the lengths of the buffer, it is one.
LEMMA FoundStep ==
    ASSUME AdtsIInv, Decoding, NEW h \in Header, Found(h),
           UNCHANGED <<input, audioOffset, from, nLen, copier, sent>>, AdtsTypeOK',
           (\A p \in Given : Plain(p)) => pSyncWord \in Given /\ h = file[pSyncWord]
    PROVE  AdtsIInv'
<1>1. AdtsTypeOK /\ Divided /\ Handed /\ Filled
  BY DEF AdtsIInv
<1>2. Divided' /\ Given' = Given /\ \A p : End(p)' = End(p) /\ Before(p)' = Before(p)
  BY <1>1, SameBuffer
<1>3. /\ stage = "decode" /\ stage' \in {"decode", "overflow"}
      /\ Len(units) \in Nat /\ Len(units') = Len(units) + 1
      /\ stage' = IF Len(units') >= Room THEN "overflow" ELSE "decode"
  BY <1>1 DEF Found, Decoding, AdtsTypeOK
<1>4. Handed'
  BY <1>1, <1>2, <1>3, SameBuffer DEF Handed, input
<1>5. Filled'
  BY <1>1, <1>3, Constants DEF Filled
<1>6. ASSUME \A p \in Given : Plain(p)
      PROVE  InStep' /\ CopiesFit'
  <2>a. PICK at : at = pSyncWord
    OBVIOUS
  <2>k. PICK k \in Nat : k = Len(units)
    BY <1>3
  <2>1. InStep /\ CopiesFit
    BY <1>6 DEF AdtsIInv
  <2>2. at \in Given /\ h = file[at] /\ at \in DOMAIN file /\ ReadLength(h.len) = h.len
    BY <1>6, <2>a DEF Given, Plain
  <2>3. pSyncWord' = End(at) /\ at \in Nat /\ End(at) \in Nat /\ at < End(at)
        /\ file[at].head \in Nat /\ file[at].len \in Nat
    BY <1>1, <2>2, <2>a, FrameFacts DEF Found, End
  <2>4. /\ \A i \in 1 .. k : units'[i] = units[i]
        /\ units'[k + 1].addr = at + file[at].head
        /\ units'[k + 1].size = file[at].len - file[at].head
        /\ DOMAIN units' = 1 .. k + 1 /\ DOMAIN units = 1 .. k
    BY <1>1, <1>3, <2>2, <2>a, <2>k DEF Found, AdtsTypeOK
  <2>5. /\ \A i \in 1 .. k : UnitEnd(i)' = UnitEnd(i)
        /\ UnitEnd(k + 1)' = End(at)
    <3>1. at + file[at].head + (file[at].len - file[at].head) = End(at)
      BY <2>3 DEF End
    <3> QED BY <2>4, <3>1 DEF UnitEnd
  <2>6. Cardinality(Before(End(at))) = k + 1 /\ Before(End(at)) = Before(at) \cup {at}
        /\ Cardinality(Before(at)) = k
    BY <1>1, <2>1, <2>2, <2>a, <2>k, OneMoreBefore DEF InStep
  <2>7. pSyncWord' \in Given \/ pSyncWord' = from + nLen
    <3>1. End(at) <= from + nLen /\ from + nLen <= size /\ from \in Nat /\ nLen \in Nat
          /\ size \in Nat /\ from <= at
      BY <1>1, <2>2 DEF Handed, AdtsTypeOK, Given
    <3>2. End(at) \in DOMAIN file \/ End(at) >= size
      BY <1>1, <2>2 DEF Divided
    <3> QED BY <2>3, <3>1, <3>2 DEF Given
  <2>8. \A i \in 1 .. k + 1 : \E p \in Before(End(at)) : UnitOf(i, p)'
    <3>1. ASSUME NEW i \in 1 .. k PROVE \E p \in Before(End(at)) : UnitOf(i, p)'
      <4>1. PICK p \in Before(at) : UnitOf(i, p)
        BY <2>1, <2>4, <2>a DEF InStep
      <4>2. units'[i].addr = p + file[p].head /\ UnitEnd(i)' = End(p)' /\ file' = file
            /\ Cardinality(Before(p)') = i - 1
        BY <1>2, <2>4, <2>5, <4>1 DEF UnitOf, input
      <4>3. UnitOf(i, p)'
        BY <4>2 DEF UnitOf
      <4> QED BY <2>6, <4>3
    <3>2. UnitOf(k + 1, at)'
      <4>1. units'[k + 1].addr = at + file[at].head /\ UnitEnd(k + 1)' = End(at)'
            /\ file' = file /\ Cardinality(Before(at)') = (k + 1) - 1
        BY <1>2, <1>3, <2>4, <2>5, <2>6 DEF input
      <4> QED BY <4>1 DEF UnitOf
    <3> QED BY <1>3, <2>6, <3>1, <3>2
  <2>9. \A i, j \in 1 .. k + 1 : i < j => UnitEnd(i)' <= units'[j].addr
    <3>1. ASSUME NEW i \in 1 .. k
          PROVE  UnitEnd(i) <= at + file[at].head
      <4>1. PICK p \in Before(at) : UnitOf(i, p)
        BY <2>1, <2>4, <2>a DEF InStep
      <4>2. p \in DOMAIN file /\ p < at /\ UnitEnd(i) = End(p) /\ End(p) <= at
        BY <1>1, <2>2, <4>1 DEF Before, Given, UnitOf, Divided
      <4>3. End(p) \in Nat
        BY <1>1, <4>2, FrameFacts
      <4> QED BY <2>3, <4>2, <4>3
    <3>2. ASSUME NEW i \in 1 .. k + 1, NEW j \in 1 .. k + 1, i < j
          PROVE  UnitEnd(i)' <= units'[j].addr
      <4>1. i \in 1 .. k /\ UnitEnd(i)' = UnitEnd(i)
        BY <1>3, <2>5, <3>2
      <4>2. CASE j = k + 1
        BY <2>4, <3>1, <4>1, <4>2
      <4>3. CASE j # k + 1
        <5>1. j \in 1 .. k /\ units'[j] = units[j]
          BY <1>3, <2>4, <4>3
        <5> QED BY <2>1, <2>4, <3>2, <4>1, <5>1 DEF InStep
      <4> QED BY <4>2, <4>3
    <3> QED BY <3>2
  <2>10. InStep'
    <3>1. Before(pSyncWord)' = Before(End(at))
      BY <1>2, <2>3 DEF Before
    <3> QED BY <1>2, <1>3, <2>4, <2>6, <2>7, <2>8, <2>9, <3>1, <2>k DEF InStep
  <2>11. CopiesFit'
    <3>1. copies \in 0 .. k
      BY <1>1, <2>k DEF AdtsTypeOK
    <3> QED BY <2>1, <2>5, <3>1 DEF CopiesFit, copier
  <2> QED BY <2>10, <2>11
<1>7. caller' = "camera" /\ AllPlain' /\ Room > 1 => Played'
  BY SameBuffer DEF AdtsIInv, Played, input
<1> QED BY <1>2, <1>4, <1>5, <1>6, <1>7, SameBuffer DEF AdtsIInv

\* A header that is met, in the file or elsewhere, leaves the types as they are.
LEMMA FoundTypes ==
    ASSUME AdtsTypeOK, NEW h \in Header, Found(h),
           UNCHANGED <<input, audioOffset, from, nLen, copier, sent>>,
           DOMAIN seen' \subseteq Int, seen' \in [DOMAIN seen' -> Header \cup {NoSync}]
    PROVE  AdtsTypeOK'
<1>1. h.len \in Nat /\ h.head \in Nat
  BY Constants DEF Header, Headers
<1>2. ReadLength(h.len) \in Int
  BY <1>1, LengthsAreInts
<1>3. pSyncWord' \in Int /\ units' \in Seq(Unit) /\ Len(units') = Len(units) + 1
  <2>1. pSyncWord \in Int /\ units \in Seq(Unit)
    BY DEF AdtsTypeOK
  <2>2. [addr |-> pSyncWord + h.head, size |-> ReadLength(h.len) - h.head] \in Unit
    BY <1>1, <1>2, <2>1 DEF Unit
  <2> QED BY <1>2, <2>1, <2>2 DEF Found
<1>4. stage' \in {"overflow", "decode"}
  BY DEF Found
<1> QED BY <1>3, <1>4 DEF AdtsTypeOK, input, copier

\* While the decoder runs over lengths it can read it is at a frame.
LEMMA AtAFrame ==
    ASSUME AdtsIInv, Decoding, \A p \in Given : Plain(p)
    PROVE  pSyncWord \in Given
BY DEF AdtsIInv, InStep, Decoding, AdtsTypeOK

\* The frame that is found at pSyncWord is one of the buffer, so long as pSyncWord
\* has not gone astray.
LEMMA DecodeFrameStep ==
    ASSUME AdtsIInv, DecodeFrame
    PROVE  AdtsIInv'
<1>1. AdtsTypeOK /\ Divided
  BY DEF AdtsIInv
<1>2. Decoding /\ Found(file[pSyncWord]) /\ seen' = seen
      /\ UNCHANGED <<input, audioOffset, from, nLen, copier, sent>>
  BY DEF DecodeFrame
<1>3. file[pSyncWord] \in Header
  BY <1>1 DEF AdtsTypeOK, DecodeFrame
<1>4. AdtsTypeOK'
  BY <1>1, <1>2, <1>3, FoundTypes DEF AdtsTypeOK
<1> QED BY <1>2, <1>3, <1>4, AtAFrame, FoundStep

\* Bytes that are no header are met only after a length that was read wrong.
LEMMA DecodeStrayStep ==
    ASSUME AdtsIInv, DecodeStray
    PROVE  AdtsIInv'
<1>1. AdtsTypeOK /\ Divided /\ Handed /\ Filled
  BY DEF AdtsIInv
<1>2. Decoding /\ pSyncWord \notin DOMAIN file
      /\ UNCHANGED <<input, audioOffset, from, nLen, copier, sent>>
  BY DEF DecodeStray
<1>3. ~\A p \in Given : Plain(p)
  BY <1>2, AtAFrame DEF Given
<1>4. PICK h \in IF pSyncWord \in DOMAIN seen THEN {seen[pSyncWord]}
                 ELSE {NoSync} \cup Headers(StrayLens) :
        /\ seen' = [p \in DOMAIN seen \cup {pSyncWord} |-> IF p = pSyncWord THEN h ELSE seen[p]]
        /\ IF h = NoSync THEN UNCHANGED <<units, pSyncWord, stage>> ELSE Found(h)
  BY DEF DecodeStray
<1>5. h \in Header \cup {NoSync}
  <2>1. Headers(StrayLens) \subseteq Header
    BY Constants DEF Header, Headers
  <2> QED BY <1>1, <1>4, <2>1 DEF AdtsTypeOK
<1>6. DOMAIN seen' \subseteq Int /\ seen' \in [DOMAIN seen' -> Header \cup {NoSync}]
  BY <1>1, <1>4, <1>5 DEF AdtsTypeOK
<1>7. CASE h = NoSync
  <2>1. AdtsTypeOK'
    BY <1>1, <1>2, <1>4, <1>6, <1>7 DEF AdtsTypeOK, input, copier
  <2>2. Handed' /\ Filled' /\ Divided'
    BY <1>1, <1>2, <1>4, <1>7, SameBuffer DEF Handed, Filled, input
  <2>3. caller' = "camera" /\ AllPlain' /\ Room > 1 => Played'
    BY <1>2, SameBuffer DEF AdtsIInv, Played, input
  <2> QED BY <1>2, <1>3, <2>1, <2>2, <2>3, SameBuffer DEF AdtsIInv
<1>8. CASE h # NoSync
  <2>1. h \in Header /\ Found(h)
    BY <1>4, <1>5, <1>8
  <2>2. AdtsTypeOK'
    BY <1>1, <1>2, <1>6, <2>1, FoundTypes
  <2> QED BY <1>2, <1>3, <2>1, <2>2, FoundStep
<1> QED BY <1>7, <1>8

\* The camera hands over a frame, which ends before the file does.
LEMMA HandFrameStep ==
    ASSUME AdtsIInv, HandFrame
    PROVE  AdtsIInv'
<1> DEFINE p == audioOffset
           n == file[p].len
<1>1. AdtsTypeOK /\ Divided /\ p \in DOMAIN file /\ caller = "camera" /\ stage = "walk"
      /\ p + file[p].head + n <= size /\ HandOver(p, n)
  BY DEF AdtsIInv, Handed, HandFrame
<1>2. p \in Nat /\ n \in Nat /\ n > 0 /\ size \in Nat /\ p + n <= size /\ p \in Playable
  BY <1>1, FrameFacts DEF Playable
<1>3. ASSUME NEW q \in DOMAIN file, p <= q, q < p + n PROVE End(q) <= p + n
  <2>1. q \in Nat /\ End(p) = p + n
    BY <1>1, <1>3, FrameFacts DEF End
  <2>2. q = p
    BY <1>1, <1>2, <1>3, <2>1 DEF Divided
  <2> QED BY <1>2, <2>1, <2>2
<1> HIDE DEF p, n
<1> QED BY <1>1, <1>2, <1>3, HandOverStep DEF p, n

\* The unit test hands over a file, the last frame of which is whole.
LEMMA HandFileStep ==
    ASSUME AdtsIInv, HandFile
    PROVE  AdtsIInv'
<1> DEFINE last == Max(DOMAIN file)
<1>1. AdtsTypeOK /\ Divided /\ caller = "test" /\ stage = "walk"
      /\ End(last) = size /\ HandOver(0, size)
  BY DEF AdtsIInv, HandFile, End
<1>2. 0 \in DOMAIN file /\ size \in Nat /\ size > 0 /\ DOMAIN file \in SUBSET (0 .. size - 1)
  BY <1>1 DEF Divided, AdtsTypeOK
<1>3. last \in DOMAIN file /\ \A q \in DOMAIN file : q <= last
  <2>1. size - 1 \in Nat /\ DOMAIN file # {}
    BY <1>2
  <2> QED BY <1>2, <2>1, MaxOf
<1> HIDE DEF last
<1>4. ASSUME NEW q \in DOMAIN file PROVE End(q) <= 0 + size
  <2>1. CASE q = last
    BY <1>1, <1>2, <2>1
  <2>2. CASE q # last
    <3>1. q \in Nat /\ last \in Nat /\ last < size /\ End(q) \in Nat
      BY <1>1, <1>3, FrameFacts
    <3>2. End(q) <= last
      BY <1>1, <1>3, <2>2, <3>1 DEF Divided
    <3> QED BY <1>2, <3>1, <3>2
  <2> QED BY <2>1, <2>2
<1> QED BY <1>1, <1>2, <1>4, HandOverStep

\* RtmpSendAudio copies the next unit.
LEMMA CopyUnitStep ==
    ASSUME AdtsIInv, CopyUnit
    PROVE  AdtsIInv'
<1> USE DEF CopyUnit
<1>1. AdtsTypeOK /\ Divided /\ Handed /\ Filled
  BY DEF AdtsIInv
<1> DEFINE c == copies + 1
<1>2. /\ copies \in Nat /\ c \in DOMAIN units /\ units[c].size \in Int /\ units[c].addr \in Int
      /\ written' = written + (IF units[c].size > 0 THEN units[c].size ELSE 0)
      /\ copies' = c /\ written \in Nat /\ from \in Nat
      /\ copies > 0 => copies \in DOMAIN units /\ UnitEnd(copies) \in Int
  <2>1. /\ units \in Seq(Unit) /\ copies \in 0 .. Len(units) /\ copies < Len(units)
        /\ written \in Nat /\ from \in Nat
    BY <1>1 DEF AdtsTypeOK
  <2>2. copies \in Nat /\ c \in DOMAIN units /\ (copies > 0 => copies \in DOMAIN units)
    BY <2>1
  <2>3. \A i \in DOMAIN units : units[i].size \in Int /\ units[i].addr \in Int
    <3>1. \A i \in DOMAIN units : units[i] \in Unit
      BY <2>1
    <3> QED BY <3>1 DEF Unit
  <2> QED BY <2>1, <2>2, <2>3 DEF UnitEnd
<1>3. AdtsTypeOK'
  BY <1>1, <1>2 DEF AdtsTypeOK, input, decoder
<1>4. Divided' /\ Handed' /\ Filled'
  BY <1>1, SameBuffer DEF Handed, Filled, input, decoder
<1>5. ASSUME \A p \in Given : Plain(p)
      PROVE  InStep' /\ CopiesFit'
  <2>1. InStep /\ CopiesFit
    BY <1>5 DEF AdtsIInv
  <2>2. InStep'
    BY <2>1, SameBuffer DEF InStep, UnitOf, UnitEnd, decoder, input, Before
  <2>3. from <= units[c].addr /\ units[c].size >= 0
    <3>1. PICK p \in Before(pSyncWord) : UnitOf(c, p)
      BY <1>2, <2>1 DEF InStep
    <3>2. p \in DOMAIN file /\ from <= p
      BY <3>1 DEF Before, Given
    <3>3. p \in Nat /\ file[p].head \in Nat /\ file[p].head <= file[p].len /\ file[p].len \in Nat
      BY <1>1, <3>2, FrameFacts
    <3>4. units[c].addr = p + file[p].head /\ units[c].addr + units[c].size = p + file[p].len
      BY <3>1 DEF UnitOf, UnitEnd, End
    <3> QED BY <1>2, <3>2, <3>3, <3>4
  <2>4. written' = written + units[c].size
    BY <1>2, <2>3
  <2>5. written <= units[c].addr - from
    <3>1. CASE copies = 0
      BY <1>2, <2>1, <2>3, <3>1 DEF CopiesFit
    <3>2. CASE copies # 0
      <4>1. UnitEnd(copies) <= units[c].addr
        BY <1>2, <2>1, <3>2 DEF InStep
      <4> QED BY <1>2, <2>1, <3>2, <4>1 DEF CopiesFit
    <3> QED BY <3>1, <3>2
  <2>6. written' <= UnitEnd(c) - from
    BY <1>2, <2>4, <2>5 DEF UnitEnd
  <2>7. CopiesFit'
    BY <1>2, <2>6 DEF CopiesFit, UnitEnd, decoder
  <2> QED BY <2>2, <2>7
<1>6. caller' = "camera" /\ AllPlain' /\ Room > 1 => Played'
  BY SameBuffer DEF AdtsIInv, Played, input
<1> QED BY <1>3, <1>4, <1>5, <1>6, SameBuffer DEF AdtsIInv

\* Neither the end of the loop nor bytes too far off change what has been found.
LEMMA StopStep ==
    ASSUME AdtsIInv, DecodeEnds \/ DecodeAstray
    PROVE  AdtsIInv'
<1>1. AdtsTypeOK /\ Divided /\ Handed /\ Filled
  BY DEF AdtsIInv
<1>2. /\ stage = "decode" /\ stage' \in {"ok", "astray"}
      /\ stage' = "ok" => pSyncWord >= from + nLen
      /\ stage' = "astray" => Decoding /\ pSyncWord < -MaxBack
      /\ UNCHANGED <<input, decoder, audioOffset, from, nLen, copier, sent>>
  BY DEF DecodeEnds, DecodeAstray, Decoding
<1>3. AdtsTypeOK'
  BY <1>1, <1>2 DEF AdtsTypeOK, input, decoder, copier
<1>4. Divided' /\ Handed' /\ Filled'
  BY <1>1, <1>2, SameBuffer DEF Handed, Filled, input, decoder
<1>5. ASSUME \A p \in Given : Plain(p)
      PROVE  InStep' /\ CopiesFit'
  <2>1. InStep /\ CopiesFit
    BY <1>5 DEF AdtsIInv
  <2>2. stage' # "astray"
    <3>1. Decoding => pSyncWord \in DOMAIN file
      BY <1>5, AtAFrame DEF Given
    <3>2. pSyncWord \in DOMAIN file => ~(pSyncWord < -MaxBack)
      <4>1. MaxBack \in Nat
        BY ONLY FileAssumption, Zenon
      <4> QED BY <1>1, <4>1, FrameFacts
    <3> QED BY <1>2, <3>1, <3>2
  <2>3. InStep'
    BY <1>2, <2>1, <2>2, SameBuffer DEF InStep, UnitOf, UnitEnd, decoder, input, Before
  <2>4. CopiesFit'
    BY <1>2, <2>1 DEF CopiesFit, UnitEnd, decoder, copier
  <2> QED BY <2>3, <2>4
<1>6. caller' = "camera" /\ AllPlain' /\ Room > 1 => Played'
  BY <1>2, SameBuffer DEF AdtsIInv, Played, input
<1> QED BY <1>2, <1>3, <1>4, <1>5, <1>6, SameBuffer DEF AdtsIInv

\* The camera has given the decoder its frame and nothing else.
LEMMA OneFrame ==
    ASSUME AdtsIInv, caller = "camera", stage # "walk"
    PROVE  /\ from = audioOffset /\ audioOffset + nLen = End(from)
           /\ from \in Playable /\ from \in DOMAIN file
           /\ Given = {from} /\ \A p : Cardinality(Before(p)) <= 1
<1>1. /\ AdtsTypeOK /\ Divided
      /\ from = audioOffset /\ nLen = file[from].len /\ from \in Playable /\ from \in DOMAIN file
  BY DEF AdtsIInv, Handed
<1>2. from \in Nat /\ nLen \in Nat /\ End(from) = from + nLen /\ nLen > 0
  BY <1>1, FrameFacts DEF End
<1>3. Given = {from}
  <2>1. ASSUME NEW q \in DOMAIN file, from <= q, q < from + nLen PROVE q = from
    BY <1>1, <1>2, <2>1, FrameFacts DEF Divided
  <2> QED BY <1>1, <1>2, <2>1 DEF Given
<1>4. ASSUME NEW p PROVE Cardinality(Before(p)) <= 1
  <2>1. Before(p) \in SUBSET {from}
    BY <1>3 DEF Before
  <2>2. IsFiniteSet({from}) /\ Cardinality({from}) = 1
    BY FS_Singleton
  <2>3. Cardinality(Before(p)) <= Cardinality({from})
    BY <2>1, <2>2, FS_Subset
  <2> QED BY <2>2, <2>3
<1> QED BY <1>1, <1>2, <1>3, <1>4

\* The frame is sent, or dropped, and the camera goes on.
LEMMA ReturnStep ==
    ASSUME AdtsIInv, Return
    PROVE  AdtsIInv'
<1>1. AdtsTypeOK /\ Divided /\ Handed /\ Filled
  BY DEF AdtsIInv
<1>2. /\ caller = "camera" /\ stage \in {"ok", "overflow"} /\ stage' = "walk"
      /\ stage = "ok" => sent' = Append(sent, from)
      /\ stage # "ok" => sent' = sent
      /\ audioOffset' = audioOffset + nLen
      /\ UNCHANGED <<input, decoder, from, nLen, copier>>
  BY DEF Return
<1>3. /\ from = audioOffset /\ audioOffset' = End(from)
      /\ from \in Playable /\ from \in DOMAIN file
  BY <1>2, OneFrame
<1>4. /\ from \in Nat /\ End(from) \in Nat /\ from < End(from) /\ End(from) < size
      /\ End(from) \in DOMAIN file
  <2>1. /\ from \in Nat /\ End(from) \in Nat /\ from < End(from) /\ size \in Nat
        /\ file[from].head > 0 /\ file[from].head \in Nat /\ file[from].len \in Nat
    BY <1>1, <1>3, FrameFacts
  <2>2. End(from) < size
    BY <1>3, <2>1 DEF Playable, End
  <2> QED BY <1>1, <1>3, <2>1, <2>2 DEF Divided
<1>5. AdtsTypeOK'
  <2>1. sent' \in Seq(Nat)
    <3>1. sent \in Seq(Nat) /\ (sent' = sent \/ sent' = Append(sent, from))
      BY <1>1, <1>2 DEF AdtsTypeOK
    <3> QED BY <1>4, <3>1
  <2> QED BY <1>1, <1>2, <1>3, <1>4, <2>1 DEF AdtsTypeOK, input, decoder, copier
<1>6. Divided' /\ Handed' /\ Filled'
  BY <1>1, <1>2, <1>3, <1>4, SameBuffer DEF Handed, Filled, input, decoder
<1>7. ASSUME \A p \in Given : Plain(p)
      PROVE  InStep' /\ CopiesFit'
  <2>1. InStep /\ CopiesFit
    BY <1>7 DEF AdtsIInv
  <2>2. InStep'
    BY <1>2, <2>1, SameBuffer DEF InStep, UnitOf, UnitEnd, decoder, input, Before
  <2>3. CopiesFit'
    BY <1>2, <2>1 DEF CopiesFit, UnitEnd, decoder, copier
  <2> QED BY <2>2, <2>3
<1>8. ASSUME AllPlain, Room > 1
      PROVE  Played'
  <2>1. InStep /\ Played
    BY <1>2, <1>8 DEF AdtsIInv, AllPlain, Given
  <2>2. stage = "ok"
    <3>1. Len(units) <= 1
      BY <1>2, <2>1, OneFrame DEF InStep
    <3> QED BY <1>1, <1>2, <1>8, <3>1, Constants DEF Filled
  <2>3. sent \in Seq(Nat) /\ sent' = Append(sent, from)
    BY <1>1, <1>2, <2>2 DEF AdtsTypeOK
  <2>4. {sent'[i] : i \in DOMAIN sent'} = {sent[i] : i \in DOMAIN sent} \cup {from}
    BY <2>3
  <2>5. ASSUME NEW p \in DOMAIN file
        PROVE  p < End(from) <=> p < from \/ p = from
    BY <1>1, <1>3, <1>4, FrameFacts DEF Divided
  <2>6. {sent'[i] : i \in DOMAIN sent'} = {p \in DOMAIN file : p < End(from)}
    BY <1>3, <2>1, <2>4, <2>5 DEF Played
  <2>7. \A i, j \in DOMAIN sent' : i < j => sent'[i] < sent'[j]
    <3>1. \A i \in DOMAIN sent : sent[i] < from
      BY <1>3, <2>1 DEF Played
    <3>2. ASSUME NEW i \in DOMAIN sent', NEW j \in DOMAIN sent', i < j
          PROVE  sent'[i] < sent'[j]
      <4>1. i \in DOMAIN sent /\ sent'[i] = sent[i]
        BY <2>3, <3>2
      <4>2. CASE j \in DOMAIN sent
        BY <2>1, <2>3, <3>2, <4>1, <4>2 DEF Played
      <4>3. CASE j \notin DOMAIN sent
        BY <2>3, <3>1, <4>1, <4>3
      <4> QED BY <4>2, <4>3
    <3> QED BY <3>2
  <2>8. \A p \in DOMAIN file : p < End(from) => p \in Playable
    BY <1>3, <2>1, <2>5 DEF Played
  <2>9. file' = file /\ Playable' = Playable /\ audioOffset' = End(from)
    BY <1>2, <1>3, SameBuffer DEF input
  <2> QED BY <2>6, <2>7, <2>8, <2>9 DEF Played
<1> QED BY <1>2, <1>5, <1>6, <1>7, <1>8, SameBuffer DEF AdtsIInv

\* Every step keeps AdtsIInv.
LEMMA StepAdtsIInv == AdtsIInv /\ [AdtsNext]_adtsVars => AdtsIInv'
<1> SUFFICES ASSUME AdtsIInv, [AdtsNext]_adtsVars PROVE AdtsIInv'
  OBVIOUS
<1>1. CASE HandFrame
  BY <1>1, HandFrameStep
<1>2. CASE HandFile
  BY <1>2, HandFileStep
<1>3. CASE DecodeFrame
  BY <1>3, DecodeFrameStep
<1>4. CASE DecodeStray
  BY <1>4, DecodeStrayStep
<1>5. CASE DecodeAstray \/ DecodeEnds
  BY <1>5, StopStep
<1>6. CASE CopyUnit
  BY <1>6, CopyUnitStep
<1>7. CASE Return
  BY <1>7, ReturnStep
<1>8. CASE UNCHANGED adtsVars
  <2> USE <1>8 DEF adtsVars, AdtsIInv
  <2>1. AdtsTypeOK' /\ Divided'
    BY SameBuffer DEF AdtsTypeOK, input, decoder, copier
  <2>2. Handed' /\ Filled'
    BY SameBuffer DEF Handed, Filled, input, decoder
  <2>3. (\A p \in Given : Plain(p)) => InStep' /\ CopiesFit'
    BY SameBuffer DEF InStep, CopiesFit, UnitOf, UnitEnd, decoder, copier, input, Before
  <2>4. caller' = "camera" /\ AllPlain' /\ Room > 1 => Played'
    BY SameBuffer DEF Played, input
  <2> QED BY <2>1, <2>2, <2>3, <2>4, SameBuffer
<1> QED BY <1>1, <1>2, <1>3, <1>4, <1>5, <1>6, <1>7, <1>8 DEF AdtsNext

\* What AacDecodeAdts and the camera keep true at every step.
THEOREM AdtsInductive == AdtsSpec => []AdtsIInv
BY InitAdtsIInv, StepAdtsIInv, PTL DEF AdtsSpec

-------------------------------------------------------------------------------
\* The decoder stays in its buffer while it can read the lengths, RtmpSendAudio writes
\* no more than it has allocated, and the array is never overrun, whatever is read.
THEOREM DecoderStaysInside == AdtsSpec => []StaysInside
<1>1. AdtsIInv => StaysInside
  <2> SUFFICES ASSUME AdtsIInv PROVE StaysInside
    OBVIOUS
  <2>1. AdtsTypeOK /\ Divided /\ Handed /\ Filled /\ from \in Nat /\ nLen \in Nat
    BY DEF AdtsIInv, AdtsTypeOK
  <2>2. ASSUME \A p \in Given : Plain(p)
        PROVE  /\ pSyncWord \in from .. from + nLen
               /\ \A i \in DOMAIN units : units[i].size >= 0 /\ UnitEnd(i) <= from + nLen
               /\ written <= nLen
    <3>1. InStep /\ CopiesFit
      BY <2>2 DEF AdtsIInv
    <3>2. pSyncWord \in from .. from + nLen
      BY <2>1, <3>1 DEF InStep, Given, AdtsTypeOK
    <3>3. ASSUME NEW i \in DOMAIN units
          PROVE  units[i].size >= 0 /\ UnitEnd(i) \in Int /\ UnitEnd(i) <= from + nLen
      <4>1. PICK p \in Before(pSyncWord) : UnitOf(i, p)
        BY <3>1 DEF InStep
      <4>2. p \in DOMAIN file /\ p \in Given /\ End(p) <= from + nLen
        BY <2>1, <4>1 DEF Before, Given, Handed
      <4>3. p \in Nat /\ file[p].head \in Nat /\ file[p].len \in Nat /\ End(p) \in Nat
            /\ file[p].head <= file[p].len
        BY <2>1, <4>2, FrameFacts
      <4>4. units[i].size \in Int
        <5>1. units[i] \in Unit
          BY <2>1 DEF AdtsTypeOK
        <5> QED BY <5>1 DEF Unit
      <4> QED BY <4>1, <4>2, <4>3, <4>4 DEF UnitOf, UnitEnd, End
    <3>4. written <= nLen
      <4>1. written \in Nat /\ copies \in 0 .. Len(units) /\ units \in Seq(Unit)
        BY <2>1 DEF AdtsTypeOK
      <4>2. CASE copies = 0
        BY <2>1, <3>1, <4>1, <4>2 DEF CopiesFit
      <4>3. CASE copies # 0
        <5>1. copies \in DOMAIN units
          BY <4>1, <4>3
        <5> QED BY <2>1, <3>1, <3>3, <4>1, <4>3, <5>1 DEF CopiesFit
      <4> QED BY <4>2, <4>3
    <3> QED BY <3>2, <3>3, <3>4
  <2>3. audioOffset \in DOMAIN file /\ from + nLen <= size /\ Len(units) <= Room
    BY <2>1 DEF Handed, Filled
  <2> QED BY <2>2, <2>3 DEF StaysInside, UnitEnd
<1> QED BY AdtsInductive, <1>1, PTL

\* A decoder that comes to the end of a buffer whose lengths it can read has found its
\* frames, each once and in order.
THEOREM DecoderFindsFrames == AdtsSpec => []FramesFound
<1>1. AdtsIInv => FramesFound
  <2> SUFFICES ASSUME AdtsIInv, stage = "ok", \A p \in Given : Plain(p)
               PROVE  /\ Len(units) = Cardinality(Given)
                      /\ \A i \in DOMAIN units : \E p \in Given : UnitOf(i, p)
    BY Zenon DEF FramesFound, UnitOf, UnitEnd, End, Before
  <2>1. AdtsTypeOK /\ InStep
    BY DEF AdtsIInv
  <2>2. pSyncWord = from + nLen
    BY <2>1 DEF InStep, Given, AdtsTypeOK
  <2>3. Before(pSyncWord) = Given
    BY <2>2 DEF Before, Given
  <2> QED BY <2>1, <2>3 DEF InStep
<1> QED BY AdtsInductive, <1>1, PTL

\* Where char is unsigned, or no frame so long that a middle byte of its length is
\* negative, every unit is a frame at every moment: only longer ones (from 1024 bytes on
\* with the fields of ADTS) are read wrong, as run adts_signed shows.
THEOREM OnlyLongFramesMisread == AdtsSpec => [](Readable => LengthsAreRead)
<1>1. AdtsIInv => (Readable => LengthsAreRead)
  <2> SUFFICES ASSUME AdtsIInv, Readable, NEW i \in DOMAIN units
               PROVE  \E p \in Given : UnitOf(i, p)
    BY DEF LengthsAreRead, UnitOf, UnitEnd, End
  <2>1. AdtsTypeOK /\ Divided
    BY DEF AdtsIInv
  <2>2. \A p \in Given : Plain(p)
    BY <2>1, FrameFacts, ReadAsMeant DEF Given, Plain, Readable
  <2>3. InStep
    BY <2>2 DEF AdtsIInv
  <2> QED BY <2>3 DEF InStep, Before
<1> QED BY AdtsInductive, <1>1, PTL

\* The camera plays the frames of its file in order and each once; where it falls silent
\* none is left that it could play.
THEOREM AudioInOrder == AdtsSpec => []PlaysInOrder
<1>1. AdtsIInv => PlaysInOrder
  <2> SUFFICES ASSUME AdtsIInv, caller = "camera", AllPlain, Room > 1
               PROVE  /\ Played
                      /\ stage \notin {"overflow", "astray"}
                      /\ audioOffset \notin Playable =>
                            {sent[i] : i \in DOMAIN sent} = Playable
    BY DEF PlaysInOrder
  <2>1. AdtsTypeOK /\ Divided /\ Handed /\ Filled /\ InStep /\ Played
    BY DEF AdtsIInv, AllPlain, Given
  <2>2. stage # "overflow"
    <3>1. ASSUME stage = "overflow" PROVE Len(units) <= 1
      BY <2>1, <3>1, OneFrame DEF InStep
    <3> QED BY <2>1, <3>1, Constants DEF Filled
  <2>3. ASSUME audioOffset \notin Playable, NEW p \in Playable
        PROVE  p < audioOffset
    <3> DEFINE a == audioOffset
    <3>1. a \in DOMAIN file /\ p \in DOMAIN file /\ p # a
      BY <2>1, <2>3 DEF Handed, Playable
    <3>2. /\ a \in Nat /\ p \in Nat /\ size \in Nat /\ End(a) \in Nat
          /\ file[a].head \in Nat /\ file[p].head \in Nat /\ file[a].len \in Nat
          /\ file[p].len \in Nat /\ file[p].head <= file[p].len
          /\ file[a].head \in HeaderLens /\ file[p].head \in HeaderLens
      BY <2>1, <3>1, FrameFacts
    <3>3. file[a].head < 2 * file[p].head
      BY <3>2, HeaderAssumption
    <3>4. p + file[p].head + file[p].len <= size
      BY <2>3 DEF Playable
    <3>5. ~(a + file[a].head + file[a].len <= size)
      BY <2>3, <3>1 DEF Playable
    <3>6. a < p => a + file[a].len <= p
      BY <2>1, <3>1 DEF Divided, End
    <3> HIDE DEF a
    <3>7. ~(a < p)
      BY <3>2, <3>3, <3>4, <3>5, <3>6
    <3> QED BY <3>1, <3>2, <3>7 DEF a
  <2>4. audioOffset \notin Playable => {p \in DOMAIN file : p < audioOffset} = Playable
    <3>1. \A p \in DOMAIN file : p < audioOffset => p \in Playable
      BY <2>1 DEF Played
    <3>2. Playable \subseteq DOMAIN file
      BY DEF Playable
    <3> QED BY <2>3, <3>1, <3>2
  <2> QED BY <2>1, <2>2, <2>4 DEF InStep, Played
<1> QED BY AdtsInductive, <1>1, PTL

\* Nothing the camera or the decoder does leaves them where they were.
THEOREM AudioAdvances == AdtsSpec => AlwaysOn
<1>1. ASSUME AdtsIInv, AdtsNext, AllPlain PROVE Advances
  <2>1. AdtsTypeOK /\ Divided /\ \A p \in Given : Plain(p)
    BY <1>1 DEF AdtsIInv, AllPlain, Given
  <2>2. CASE HandFrame \/ HandFile
    BY <2>2 DEF HandFrame, HandFile, HandOver, Advances
  <2>3. CASE DecodeFrame
    <3>1. pSyncWord \in Given /\ pSyncWord \in DOMAIN file
      BY <1>1, <2>1, <2>3, AtAFrame DEF DecodeFrame, Given
    <3>2. pSyncWord' = pSyncWord + file[pSyncWord].len
      BY <2>1, <2>3, <3>1 DEF DecodeFrame, Found, Plain
    <3>3. pSyncWord' > pSyncWord
      BY <2>1, <3>1, <3>2, FrameFacts
    <3> QED BY <2>3, <3>3 DEF DecodeFrame, Decoding, Advances
  <2>4. CASE DecodeStray \/ DecodeAstray
    <3>1. pSyncWord \in Given /\ pSyncWord \in Nat
      BY <1>1, <2>1, <2>4, AtAFrame, FrameFacts DEF DecodeStray, DecodeAstray, Given
    <3>2. MaxBack \in Nat
      BY ONLY FileAssumption, Zenon
    <3> QED BY <2>4, <3>1, <3>2 DEF DecodeStray, DecodeAstray, Given
  <2>5. CASE DecodeEnds
    BY <2>5 DEF DecodeEnds, Advances
  <2>6. CASE CopyUnit
    BY <2>1, <2>6 DEF CopyUnit, Advances, AdtsTypeOK
  <2>7. CASE Return
    <3>1. caller = "camera" /\ stage # "walk" /\ audioOffset' = audioOffset + nLen
      BY <2>7 DEF Return
    <3>2. audioOffset' = End(from) /\ from = audioOffset /\ from \in DOMAIN file
      BY <1>1, <3>1, OneFrame
    <3>3. audioOffset' > audioOffset
      BY <2>1, <3>2, FrameFacts
    <3> QED BY <3>3 DEF Advances
  <2> QED BY <1>1, <2>2, <2>3, <2>4, <2>5, <2>6, <2>7 DEF AdtsNext
<1>2. AdtsIInv /\ [AdtsNext]_adtsVars => [AllPlain => Advances]_adtsVars
  BY <1>1
<1> QED BY AdtsInductive, <1>2, PTL DEF AdtsSpec, AlwaysOn

===============================================================================
