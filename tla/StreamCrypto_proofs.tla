------------------------ MODULE StreamCrypto_proofs ------------------------
(***************************************************************************)
(* What is stored can be read, what is read is true: proofs for every      *)
(* chunk size, every length, right or wrong, every change of the header    *)
(* and every damage to the body that the model knows, the replacement of   *)
(* the whole file included.                                                *)
(***************************************************************************)
EXTENDS StreamCrypto, SequenceTheorems, TLAPS

End(j) == frames[j].first + frames[j].length

(* What Stream seals: chunks that follow one another, full ones but for    *)
(* the last, each but the last well inside the declared length.            *)
FrameOK(j) ==
    /\ frames[j].index = j - 1
    /\ frames[j].first = IF j = 1 THEN 0 ELSE End(j - 1)
    /\ frames[j].first < declared
    /\ frames[j].final <=> End(j) = declared
    /\ End(j) <= total
    /\ frames[j].length <= ChunkSize
    /\ frames[j].length < ChunkSize => End(j) = total
    /\ j < Len(frames) => frames[j].length = ChunkSize /\ End(j) < declared

FramesInv ==
    /\ \A j \in 1..Len(frames) : FrameOK(j)
    /\ pos = IF frames = <<>> THEN 0 ELSE End(Len(frames))
    /\ phase = "writing" /\ frames # <<>> =>
        frames[Len(frames)].length = ChunkSize /\ pos < declared
    /\ phase \in {"probing", "stored"} =>
        IF frames = <<>> THEN declared = 0
        ELSE frames[Len(frames)].length < ChunkSize \/ pos >= declared
    /\ phase = "stored" => pos = total

(* The file is what was sealed until it is damaged; damage invents no      *)
(* frame of this upload.                                                   *)
GoodPlace == {c \in Place : c.of = "this" => c.n \in 1..Len(frames)}
DiskInv ==
    /\ \A i \in 1..Len(disk) : disk[i] \in GoodPlace
    /\ phase # "stored" => /\ rd = IdleReader
                           /\ header = HeaderOf("this", declared)
                           /\ Len(disk) = Len(frames)

Emitted == IF rd.out = <<>> THEN 0 ELSE End(Len(rd.out))

(* What the reader has handed out, all of it from the upload the header    *)
(* belongs to, and what it still waits for.                                *)
ReadInv ==
    /\ \A i \in 1..Len(rd.out) : rd.out[i] = FrameOf(header.wrapped, i)
    /\ rd.pc \in {"idle", "mismatch"} => rd.out = <<>>
    /\ header.wrapped = "this" => Len(rd.out) <= Len(frames)
    /\ rd.pc \in {"reading", "done"} /\ (header.wrapped = "this" \/ rd.out = <<>>) =>
        rd.remaining = Int64(header.length) - Emitted
    /\ rd.out # <<>> /\ rd.remaining = 0 => Sealed(rd.out[Len(rd.out)]).final
    /\ rd.pc \notin {"idle", "mismatch"} /\ rd.who = "content" =>
        header = HeaderOf("this", pos)
    /\ rd.pc = "done" => rd.remaining = 0

IInv == TypeOK /\ FramesInv /\ DiskInv /\ ReadInv /\ RoundTrip

-----------------------------------------------------------------------------
Typed ==
    /\ Len(frames) \in Nat /\ Len(disk) \in Nat /\ Len(rd.out) \in Nat
    /\ \A j \in 1..Len(frames) : frames[j] \in Frame
    /\ \A j \in 1..Len(disk) : disk[j] \in Place
    /\ rd \in ReaderState /\ rd.out \in Seq(Place) /\ rd.remaining \in Int
    /\ total \in Nat /\ declared \in Nat /\ header \in Header /\ pos \in Nat
    /\ header.chunk \in Nat /\ header.length \in Nat /\ header.wrapped \in Upload

LEMMA Typing ==
    ASSUME TypeOK
    PROVE  Typed /\ DOMAIN frames = 1..Len(frames) /\ DOMAIN disk = 1..Len(disk)
                 /\ DOMAIN rd.out = 1..Len(rd.out)
<1>1. rd.out \in Seq(Place) /\ rd.remaining \in Int /\ rd \in ReaderState
  BY DEF TypeOK, ReaderState
<1>2. /\ \A j \in 1..Len(frames) : frames[j] \in Frame
      /\ \A j \in 1..Len(disk) : disk[j] \in Place
  BY ElementOfSeq DEF TypeOK
<1>3. /\ total \in Nat /\ declared \in Nat /\ header \in Header /\ pos \in Nat
  BY SizesAssumption DEF TypeOK, Length
<1>4. header.chunk \in Nat /\ header.length \in Nat /\ header.wrapped \in Upload
  BY <1>3, SizesAssumption DEF Header
<1> QED BY <1>1, <1>2, <1>3, <1>4, LenProperties DEF TypeOK, Typed

(* The header Stream writes, and what int64 makes of a length in range.    *)
LEMMA WrittenHeader ==
    ASSUME NEW n \in Length, NEW upload \in Upload
    PROVE  /\ HeaderOf(upload, n) \in Header /\ HeaderOf(upload, n).length = n
           /\ HeaderOf(upload, n).wrapped = upload /\ HeaderOf(upload, n).prefix = upload
           /\ HeaderOf(upload, n).wrapNonce = upload /\ HeaderOf(upload, n).magic
           /\ HeaderOf(upload, n).chunk = ChunkSize
           /\ Int64(n) = n
<1>1. n \in 0..(2 * MaxInt + 1) /\ n <= MaxInt
  BY SizesAssumption DEF Length
<1>2. HeaderOf(upload, n).chunk = ChunkSize
  BY DEF HeaderOf
<1> QED BY <1>1, <1>2, SizesAssumption DEF HeaderOf, Header, Int64

LEMMA Initially == Init => IInv
<1> SUFFICES ASSUME Init PROVE IInv
  OBVIOUS
<1>0. header \in Header /\ header.wrapped = "this"
  BY WrittenHeader DEF Init, Upload
<1>1. TypeOK
  BY <1>0, SizesAssumption
  DEF Init, TypeOK, Length, Phase, ReaderState, IdleReader, ReadPC, Reader
<1>2. FramesInv /\ DiskInv /\ ReadInv /\ RoundTrip
  BY SizesAssumption DEF Init, FramesInv, DiskInv, ReadInv, RoundTrip, IdleReader, Length
<1> QED BY <1>1, <1>2 DEF IInv

(* The reader's part holds while nobody reads.                             *)
LEMMA IdleRead ==
    ASSUME rd' = IdleReader, Len(frames') \in Nat
    PROVE  ReadInv' /\ RoundTrip'
BY DEF ReadInv, RoundTrip, IdleReader

-----------------------------------------------------------------------------
(* Stream.                                                                 *)

LEMMA ChunkStep ==
    ASSUME IInv, StreamChunk
    PROVE  IInv'
<1>0. TypeOK /\ FramesInv /\ DiskInv /\ rd = IdleReader /\ header = HeaderOf("this", declared)
      /\ Len(disk) = Len(frames)
  BY DEF IInv, StreamChunk, DiskInv
<1>t. Typed
  BY <1>0, Typing
<1> PICK n : n = ReadFull
  OBVIOUS
<1> PICK f : f = [index |-> Len(frames), first |-> pos, length |-> n, final |-> Final(n)]
  OBVIOUS
<1>1. /\ n \in Nat \ {0} /\ n <= ChunkSize /\ pos + n <= total
      /\ n < ChunkSize => pos + n = total
  BY <1>0, <1>t, SizesAssumption DEF StreamChunk, ReadFull, TypeOK, Typed
<1>2. /\ pos < declared /\ phase = "writing"
      /\ frames' = Append(frames, f) /\ disk' = Append(disk, FrameOf("this", Len(frames) + 1))
      /\ pos' = pos + n
      /\ phase' = IF n < ChunkSize \/ declared - pos <= n THEN "probing" ELSE "writing"
      /\ UNCHANGED <<total, declared, header, rd>>
  BY <1>t DEF StreamChunk, Remaining, source, Typed
<1>3. f \in Frame /\ (f.final <=> pos + n = declared)
  <2>1. f.final = (declared - pos = n)
    BY DEF Final, Remaining
  <2>2. f \in Frame
    BY <1>1, <1>t DEF Frame, Final, Typed
  <2>3. declared - pos = n <=> pos + n = declared
    BY <1>1, <1>t DEF Typed
  <2>4. f.final <=> declared - pos = n
    BY <2>1
  <2> QED BY <2>2, <2>3, <2>4
<1>4. /\ frames' \in Seq(Frame) /\ Len(frames') = Len(frames) + 1
      /\ \A j \in 1..Len(frames) : frames'[j] = frames[j]
      /\ frames'[Len(frames) + 1] = f
      /\ frames' # <<>>
  BY <1>0, <1>2, <1>3, AppendProperties DEF TypeOK
<1>5. /\ disk' \in Seq(Place) /\ Len(disk') = Len(disk) + 1
      /\ \A j \in 1..Len(disk) : disk'[j] = disk[j]
      /\ disk'[Len(disk) + 1] = FrameOf("this", Len(frames) + 1)
  <2>1. FrameOf("this", Len(frames) + 1) \in Place
    BY <1>t DEF FrameOf, Place, Upload, Typed
  <2> QED BY <1>0, <1>t, <1>2, <2>1, AppendProperties DEF TypeOK, Typed
<1>6. TypeOK'
  BY <1>0, <1>1, <1>2, <1>4, <1>5, <1>t DEF TypeOK, Phase, Length, Typed
<1>7. frames = <<>> <=> Len(frames) = 0
  BY <1>0 DEF TypeOK
<1>8. \A j \in 1..Len(frames') : FrameOK(j)'
  <2> TAKE j \in 1..Len(frames')
  <2>1. CASE j \in 1..(Len(frames) - 1)
    <3>1. FrameOK(j) /\ frames[j] \in Frame
      BY <1>0, <1>t, <2>1 DEF FramesInv, Typed
    <3>2. frames'[j] = frames[j] /\ (j > 1 => frames'[j - 1] = frames[j - 1])
      BY <1>4, <1>t, <2>1 DEF Typed
    <3> QED BY <1>2, <1>4, <1>t, <2>1, <3>1, <3>2 DEF FrameOK, End, Typed
  <2>2. CASE j = Len(frames) /\ j > 0
    <3>1. FrameOK(j) /\ frames[j].length = ChunkSize /\ pos = End(j)
      BY <1>0, <1>2, <1>t, <1>7, <2>2 DEF FramesInv, Typed
    <3>2. frames'[j] = frames[j] /\ (j > 1 => frames'[j - 1] = frames[j - 1])
      BY <1>4, <1>t, <2>2 DEF Typed
    <3>3. End(j)' = End(j) /\ (j > 1 => End(j - 1)' = End(j - 1))
      BY <3>2 DEF End
    <3> QED BY <1>2, <1>4, <1>t, <2>2, <3>1, <3>2, <3>3 DEF FrameOK, Typed
  <2>3. CASE j = Len(frames) + 1
    <3>1. /\ f.index = Len(frames) /\ f.first = pos /\ f.length = n
      OBVIOUS
    <3>2. frames'[j] = f
      BY <1>4, <2>3
    <3>3. pos = IF j = 1 THEN 0 ELSE End(j - 1)'
      <4>1. CASE j = 1
        BY <1>0, <1>7, <2>3, <4>1, <1>t DEF FramesInv, Typed
      <4>2. CASE j # 1
        <5>1. frames'[j - 1] = frames[Len(frames)] /\ Len(frames) # 0
          BY <1>4, <1>t, <2>3, <4>2 DEF Typed
        <5> QED BY <1>0, <1>7, <2>3, <4>2, <5>1, <1>t DEF FramesInv, End, Typed
      <4> QED BY <4>1, <4>2
    <3>4. End(j)' = pos + n
      BY <3>1, <3>2 DEF End
    <3>5. ~(j < Len(frames'))
      BY <1>4, <2>3, <1>t DEF Typed
    <3> QED BY <1>1, <1>2, <1>3, <1>t, <2>3, <3>1, <3>2, <3>3, <3>4, <3>5 DEF FrameOK, Typed
  <2> QED BY <1>4, <1>t, <2>1, <2>2, <2>3 DEF Typed
<1>9. FramesInv'
  <2>1. frames'[Len(frames')] = f /\ f.first = pos /\ f.length = n
    BY <1>4
  <2>2. End(Len(frames))' = pos'
    BY <1>2, <2>1 DEF End
  <2>3. /\ phase' = "writing" => n = ChunkSize /\ pos' < declared
        /\ phase' = "probing" => n < ChunkSize \/ pos' >= declared
        /\ phase' # "stored"
    BY <1>1, <1>2, <1>t, SizesAssumption DEF Typed
  <2> QED BY <1>2, <1>4, <1>8, <2>1, <2>2, <2>3 DEF FramesInv
<1>10. DiskInv'
  <2>1. FrameOf("this", Len(frames) + 1) \in GoodPlace'
    BY <1>4, <1>t DEF GoodPlace, FrameOf, Place, Upload, Typed
  <2>2. GoodPlace \subseteq GoodPlace'
    BY <1>4, <1>t DEF GoodPlace, Place, Typed
  <2>3. \A i \in 1..Len(disk') : disk'[i] \in GoodPlace'
    BY <1>0, <1>4, <1>5, <1>t, <2>1, <2>2 DEF DiskInv, Typed
  <2> QED BY <1>0, <1>2, <1>4, <1>5, <2>3 DEF DiskInv
<1>11. ReadInv' /\ RoundTrip'
  BY <1>0, <1>2, <1>4, <1>t, IdleRead DEF Typed
<1> QED BY <1>6, <1>9, <1>10, <1>11 DEF IInv

(* The other steps of Stream only move the phase.                          *)
LEMMA PhaseStep ==
    ASSUME IInv, StreamShort \/ StreamNothing \/ Probe \/ StreamFails
    PROVE  IInv'
<1>0. TypeOK /\ FramesInv /\ DiskInv /\ rd = IdleReader /\ header = HeaderOf("this", declared)
      /\ Len(disk) = Len(frames)
  BY DEF IInv, StreamShort, StreamNothing, Probe, StreamFails, DiskInv
<1>t. Typed
  BY <1>0, Typing
<1>1. UNCHANGED <<total, declared, pos, frames, header, disk, rd>>
  BY DEF StreamShort, StreamNothing, Probe, StreamFails, source, file
<1>2. \/ phase' = "refused"
      \/ phase = "writing" /\ pos = declared /\ phase' = "probing"
      \/ phase = "probing" /\ pos = total /\ phase' = "stored"
  BY <1>0, <1>t DEF StreamShort, StreamNothing, Probe, StreamFails, Remaining, TypeOK, Typed
<1>3. TypeOK'
  BY <1>0, <1>1, <1>2 DEF TypeOK, Phase
<1>4. \A j \in 1..Len(frames) : FrameOK(j)' = FrameOK(j) /\ End(j)' = End(j)
  BY <1>1 DEF FrameOK, End
<1>5. FramesInv'
  <2>1. (phase = "writing" /\ pos = declared) => frames = <<>>
    BY <1>0, <1>t DEF FramesInv, Typed
  <2> QED BY <1>0, <1>1, <1>2, <1>4, <2>1, <1>t DEF FramesInv, Typed, End, FrameOK
<1>6. DiskInv'
  BY <1>0, <1>1 DEF DiskInv, GoodPlace
<1>7. ReadInv' /\ RoundTrip'
  BY <1>0, <1>1, <1>t, IdleRead DEF Typed
<1> QED BY <1>3, <1>5, <1>6, <1>7 DEF IInv

-----------------------------------------------------------------------------
(* Damage.                                                                 *)

LEMMA ChunksOK ==
    ASSUME NEW n \in Nat
    PROVE  Chunks(n) \in Nat
BY SizesAssumption DEF Chunks

LEMMA DamageStep ==
    ASSUME IInv, Damage
    PROVE  IInv'
<1>0. TypeOK /\ FramesInv /\ DiskInv /\ ReadInv /\ rd.pc = "idle" /\ phase = "stored"
  BY DEF IInv, Damage, DamageBody, DamageHeader, ReplaceFile
<1>t. Typed /\ DOMAIN disk = 1..Len(disk)
  BY <1>0, Typing
<1>1. UNCHANGED <<total, declared, phase, pos, frames, rd>>
  BY DEF Damage, DamageBody, DamageHeader, ReplaceFile, source
<1>2. header' \in Header
  <2>1. CASE ReplaceFile
    BY <2>1, WrittenHeader DEF ReplaceFile, Upload
  <2>2. CASE DamageBody \/ DamageHeader
    BY <1>0, <2>2 DEF DamageBody, DamageHeader, TypeOK
  <2> QED BY <2>1, <2>2 DEF Damage
<1>3. disk' \in Seq(GoodPlace)
  <2>0. disk \in Seq(GoodPlace)
    <3>1. \A i \in 1..Len(disk) : disk[i] \in GoodPlace
      BY <1>0 DEF DiskInv
    <3>2. disk = [i \in 1..Len(disk) |-> disk[i]]
      BY <1>0 DEF TypeOK
    <3> QED BY <3>1, <3>2, <1>t DEF Typed
  <2>1. CASE Truncate
    <3>1. PICK k \in 0..(Len(disk) - 1) : disk' = SubSeq(disk, 1, k)
      BY <2>1 DEF Truncate
    <3>2. \A i \in 1..k : disk[i] \in GoodPlace
      BY <1>0, <1>t, <3>1 DEF DiskInv, Typed
    <3> QED BY <3>1, <3>2, <1>t, SubSeqProperties DEF Typed
  <2>2. CASE Tamper
    <3>1. PICK i \in 1..Len(disk) : disk' = [disk EXCEPT ![i] = Garbage]
      BY <2>2, <1>t DEF Tamper
    <3>2. Garbage \in GoodPlace
      BY DEF Garbage, GoodPlace, Place
    <3> QED BY <2>0, <3>1, <3>2, <1>t, ExceptSeq DEF Typed
  <2>3. CASE Swap
    <3>1. PICK i \in 1..Len(disk), j \in 1..Len(disk) :
                    disk' = [disk EXCEPT ![i] = disk[j], ![j] = disk[i]]
      BY <2>3, <1>t DEF Swap
    <3>2. disk[i] \in GoodPlace /\ disk[j] \in GoodPlace
      BY <1>0 DEF DiskInv
    <3>3. [disk EXCEPT ![i] = disk[j]] \in Seq(GoodPlace)
          /\ Len([disk EXCEPT ![i] = disk[j]]) = Len(disk)
      BY <2>0, <3>2, ExceptSeq
    <3>4. [[disk EXCEPT ![i] = disk[j]] EXCEPT ![j] = disk[i]] \in Seq(GoodPlace)
      BY <3>2, <3>3, ExceptSeq
    <3>5. disk' = [[disk EXCEPT ![i] = disk[j]] EXCEPT ![j] = disk[i]]
      BY <3>1
    <3> QED BY <3>4, <3>5
  <2>4. CASE ReplaceFile
    <3>1. PICK n \in Length : disk' = OtherFile(n)
      BY <2>4 DEF ReplaceFile
    <3>2. Chunks(n) \in Nat
      BY <3>1, ChunksOK, SizesAssumption DEF Length
    <3>3. \A i \in 1..Chunks(n) : FrameOf("other", i) \in GoodPlace
      BY <3>2 DEF GoodPlace, FrameOf, Place, Upload
    <3> QED BY <3>1, <3>2, <3>3 DEF OtherFile
  <2>5. CASE DamageHeader
    BY <2>0, <2>5 DEF DamageHeader
  <2> QED BY <2>1, <2>2, <2>3, <2>4, <2>5 DEF Damage, DamageBody
<1>4. disk' \in Seq(Place) /\ \A i \in 1..Len(disk') : disk'[i] \in GoodPlace
  <2>1. GoodPlace \subseteq Place
    BY DEF GoodPlace
  <2> QED BY <1>3, <2>1, ElementOfSeq
<1>5. TypeOK'
  BY <1>0, <1>1, <1>2, <1>4 DEF TypeOK
<1>6. FramesInv' /\ DiskInv'
  BY <1>0, <1>1, <1>4 DEF FramesInv, FrameOK, End, DiskInv, GoodPlace
<1>7. ReadInv' /\ RoundTrip'
  <2>1. rd.out = <<>> /\ Len(rd.out) = 0
    BY <1>0 DEF ReadInv
  <2> QED BY <1>0, <1>1, <1>t, <2>1 DEF ReadInv, RoundTrip, Typed
<1> QED BY <1>5, <1>6, <1>7 DEF IInv

-----------------------------------------------------------------------------
(* OpenStream.                                                             *)

(* A step of the reader leaves the file and Stream alone.                  *)
LEMMA ReaderFrame ==
    ASSUME IInv, UNCHANGED <<source, phase, pos, frames, file>>,
           rd' \in ReaderState, rd'.remaining >= 0 \/ rd'.out = <<>>,
           phase = "stored"
    PROVE  TypeOK' /\ FramesInv' /\ DiskInv'
<1>1. UNCHANGED <<total, declared, phase, pos, frames, header, disk>>
  BY DEF source, file
<1>2. TypeOK'
  BY <1>1 DEF IInv, TypeOK
<1>3. FramesInv' /\ DiskInv'
  BY <1>1 DEF IInv, FramesInv, FrameOK, End, DiskInv, GoodPlace
<1> QED BY <1>2, <1>3

LEMMA OpenStep ==
    ASSUME IInv, NEW who \in Reader, OpenBody(who)
    PROVE  IInv'
<1>0. TypeOK /\ FramesInv
  BY DEF IInv
<1>t. Typed
  BY <1>0, Typing
<1>1. UNCHANGED <<total, declared, phase, pos, frames, header, disk>> /\ phase = "stored"
  BY DEF OpenBody, source, file
<1>2. rd'.out = <<>> /\ rd'.who = who /\ rd' \in ReaderState /\ Len(rd'.out) = 0
  <2>1. Int64(header.length) \in Int
    BY <1>t, SizesAssumption DEF Int64, Typed
  <2>2. \E pc \in ReadPC, n \in Int :
            rd' = [pc |-> pc, who |-> who, remaining |-> n, out |-> <<>>]
    BY <2>1 DEF OpenBody, ReadPC
  <2> QED BY <2>2 DEF ReaderState
<1>3. /\ rd'.pc = "reading" => HeaderAccepted(who) /\ rd'.remaining = Int64(header.length)
      /\ rd'.pc \in {"reading", "mismatch", "failed"}
      /\ rd'.pc # "mismatch" => HeaderAccepted(who)
      /\ rd'.pc # "reading" => ~HeaderAccepted(who) \/ ~KeyUnwraps
  BY DEF OpenBody
<1>4. ReadInv'
  <2>1. Int64(header.length) - 0 = Int64(header.length)
    BY <1>t, SizesAssumption DEF Int64, Typed
  <2> QED BY <1>1, <1>2, <1>3, <1>t, <2>1 DEF ReadInv, Emitted, HeaderAccepted, Typed
<1>5. RoundTrip'
  <2>1. ASSUME ~HeaderAccepted(who) \/ ~KeyUnwraps, declared = total
        PROVE  header # HeaderOf("this", declared)
    <3>1. pos = total /\ declared \in Length
      BY <1>0, <1>1 DEF FramesInv, TypeOK
    <3> QED BY <2>1, <3>1, WrittenHeader, SizesAssumption
            DEF HeaderAccepted, ReadHeader, KeyUnwraps, Upload
  <2> QED BY <1>1, <1>3, <2>1 DEF RoundTrip, Damaged
<1> QED BY <1>2, <1>4, <1>5, <1>1, ReaderFrame DEF IInv, OpenBody

LEMMA ReadStep ==
    ASSUME IInv, ReadChunk
    PROVE  IInv'
<1>0. TypeOK /\ FramesInv /\ DiskInv /\ ReadInv /\ phase = "stored"
  BY DEF IInv, ReadChunk, DiskInv, IdleReader
<1>t. Typed /\ DOMAIN disk = 1..Len(disk)
  BY <1>0, Typing
<1> PICK k : k = Len(rd.out) + 1
  OBVIOUS
<1> PICK c : c = disk[k]
  OBVIOUS
<1>1. /\ UNCHANGED <<total, declared, phase, pos, frames, header, disk>>
      /\ rd.pc = "reading" /\ rd.remaining > 0 /\ k \in 1..Len(disk)
      /\ rd' = [rd EXCEPT !.remaining = @ - Sealed(c).length, !.out = Append(@, c)]
      /\ c.of = header.wrapped /\ Sealed(c).index = k - 1
      /\ Sealed(c).length = Expected
      /\ Sealed(c).final = (rd.remaining <= header.chunk)
  <2>1. /\ UNCHANGED <<total, declared, phase, pos, frames, header, disk>>
        /\ rd.pc = "reading" /\ rd.remaining > 0
        /\ k \in 1..Len(disk) /\ Opens(c)
    BY <1>t DEF ReadChunk, Readable, Here, source, file, Typed
  <2>2. rd' = [rd EXCEPT !.remaining = @ - Sealed(c).length, !.out = Append(@, c)]
    BY <1>t DEF ReadChunk, Here, Typed
  <2>3. Sealed(c).index = k - 1
    BY <1>t, <2>1 DEF Opens, Typed
  <2> QED BY <2>1, <2>2, <2>3 DEF Opens
<1>2. c \in GoodPlace /\ c \in Place /\ c.n \in Nat
  BY <1>0, <1>1, <1>t DEF DiskInv, GoodPlace, Place, Typed
<1>3. c = FrameOf(header.wrapped, k)
  <2>1. Sealed(c).index = c.n - 1
    <3>1. CASE c.of = "this"
      <4>1. c.n \in 1..Len(frames) /\ Sealed(c) = frames[c.n]
        BY <1>2, <3>1 DEF GoodPlace, Sealed
      <4> QED BY <1>0, <4>1 DEF FramesInv, FrameOK
    <3>2. CASE c.of # "this"
      BY <3>2 DEF Sealed
    <3> QED BY <3>1, <3>2
  <2>2. c.n = k
    BY <1>1, <1>2, <1>t, <2>1 DEF Typed
  <2>3. c = [of |-> c.of, n |-> c.n]
    BY <1>2 DEF Place
  <2> QED BY <1>1, <2>2, <2>3 DEF FrameOf
<1>4. /\ rd'.out \in Seq(Place) /\ Len(rd'.out) = k /\ rd'.out # <<>>
      /\ rd'.out[k] = c
      /\ \A i \in 1..k : rd'.out[i] = FrameOf(header.wrapped, i)
  <2>1. rd'.out = Append(rd.out, c)
    BY <1>1, <1>t DEF ReaderState, Typed
  <2>2. /\ rd'.out \in Seq(Place) /\ Len(rd'.out) = k /\ rd'.out[k] = c
        /\ \A i \in 1..Len(rd.out) : rd'.out[i] = rd.out[i]
    BY <1>2, <1>t, <2>1, AppendProperties DEF Typed
  <2>3. \A i \in 1..k : i # k => i \in 1..Len(rd.out)
    BY <1>t DEF Typed
  <2>4. rd'.out # <<>>
    BY <2>2, <1>t DEF Typed
  <2> QED BY <1>0, <1>3, <2>2, <2>3, <2>4 DEF ReadInv
<1>5. /\ rd'.remaining = rd.remaining - Sealed(c).length
      /\ rd'.pc = rd.pc /\ rd'.who = rd.who
      /\ rd'.remaining \in Nat
      /\ rd'.remaining = 0 => rd.remaining <= header.chunk
  <2>1. rd'.remaining = rd.remaining - Sealed(c).length /\ rd'.pc = rd.pc /\ rd'.who = rd.who
    BY <1>1, <1>t DEF ReaderState, Typed
  <2>2. Sealed(c).length = IF rd.remaining <= header.chunk THEN rd.remaining ELSE header.chunk
    BY <1>1 DEF Expected
  <2> QED BY <1>1, <2>1, <2>2, <1>t DEF Typed
<1>6. rd' \in ReaderState /\ rd'.remaining >= 0
  <2>1. rd'.remaining \in Int /\ rd'.remaining >= 0
    BY <1>5
  <2>2. rd' = [pc |-> rd.pc, who |-> rd.who, remaining |-> rd'.remaining, out |-> rd'.out]
    BY <1>1, <1>t DEF ReaderState, Typed
  <2>3. rd.pc \in ReadPC /\ rd.who \in Reader
    BY <1>t DEF ReaderState, Typed
  <2> QED BY <1>4, <2>1, <2>2, <2>3 DEF ReaderState
<1>7. ASSUME header.wrapped = "this"
      PROVE  rd'.remaining = Int64(header.length) - End(k) /\ k \in 1..Len(frames)
  <2>1. c.of = "this" /\ c.n = k /\ k \in 1..Len(frames) /\ Sealed(c) = frames[k]
    BY <1>2, <1>3, <1>7 DEF GoodPlace, FrameOf, Sealed
  <2>2. FrameOK(k) /\ frames[k] \in Frame
    BY <1>0, <1>t, <2>1 DEF FramesInv, Typed
  <2>3. frames[k].first = Emitted
    <3>1. rd.out = <<>> <=> k = 1
      BY <1>t DEF Typed
    <3> QED BY <2>2, <1>t, <3>1 DEF FrameOK, Emitted, Typed
  <2>4. rd.remaining = Int64(header.length) - frames[k].first
    BY <1>0, <1>1, <1>7, <2>3 DEF ReadInv
  <2>5. Int64(header.length) \in Int
    BY <1>t, SizesAssumption DEF Int64, Typed
  <2> QED BY <1>5, <2>1, <2>2, <2>4, <2>5 DEF End, Frame
<1>8. rd'.remaining = 0 => Sealed(c).final
  BY <1>1, <1>5
<1>9. ReadInv'
  <2>1. Emitted' = End(k)
    BY <1>1, <1>4 DEF Emitted, End
  <2>2. Sealed(rd.out[Len(rd.out)])' = Sealed(c)
    BY <1>1, <1>4 DEF Sealed, Chunks
  <2> QED BY <1>0, <1>1, <1>4, <1>5, <1>7, <1>8, <2>1, <2>2, <1>t DEF ReadInv, Typed
<1>10. RoundTrip'
  BY <1>1, <1>5 DEF RoundTrip
<1> QED BY <1>6, <1>9, <1>10, <1>0, ReaderFrame DEF IInv, ReadChunk

(* An undamaged file of the declared length never refuses a frame: the     *)
(* next one is there, has the length that is expected and the right flag.  *)
LEMMA UndamagedReadable ==
    ASSUME IInv, rd.pc = "reading", rd.remaining > 0, ~Damaged, declared = total
    PROVE  Readable
<1>0. TypeOK /\ FramesInv /\ DiskInv /\ ReadInv /\ phase = "stored" /\ pos = total
  BY DEF IInv, DiskInv, IdleReader, FramesInv
<1>t. Typed /\ DOMAIN disk = 1..Len(disk)
  BY <1>0, Typing
<1> PICK k : k = Len(rd.out) + 1
  OBVIOUS
<1>1. /\ header = HeaderOf("this", total) /\ Len(disk) = Len(frames)
      /\ \A i \in 1..Len(frames) : disk[i] = FrameOf("this", i)
  <2>1. disk = [i \in 1..Len(frames) |-> FrameOf("this", i)]
        /\ header = HeaderOf("this", declared)
    BY DEF Damaged
  <2> QED BY <2>1, <1>t DEF Typed
<1>2. /\ header.chunk = ChunkSize /\ header.wrapped = "this" /\ header.prefix = "this"
      /\ rd.remaining = total - Emitted
  <2>1. /\ header.chunk = ChunkSize /\ header.wrapped = "this" /\ header.prefix = "this"
        /\ Int64(header.length) = total
    BY <1>0, <1>1, WrittenHeader DEF Upload, TypeOK
  <2> QED BY <1>0, <2>1 DEF ReadInv
<1>3. (frames = <<>> <=> Len(frames) = 0) /\ (rd.out = <<>> <=> Len(rd.out) = 0)
  BY <1>0, <1>t DEF TypeOK, Typed
<1>4. k \in 1..Len(frames)
  <2>1. Len(rd.out) # Len(frames)
    <3>1. Len(rd.out) = Len(frames) => Emitted = pos
      BY <1>0, <1>3 DEF Emitted, FramesInv
    <3> QED BY <1>0, <1>2, <3>1, <1>t DEF Typed
  <2> QED BY <1>0, <1>2, <1>t, <2>1 DEF ReadInv, Typed
<1>5. FrameOK(k) /\ frames[k] \in Frame
  BY <1>0, <1>4, <1>t DEF FramesInv, Typed
<1>6. rd.remaining = total - frames[k].first
  BY <1>2, <1>3, <1>5, <1>4, <1>t DEF FrameOK, Emitted, Typed
<1>7. /\ frames[k].first \in Nat /\ frames[k].length \in Nat \ {0}
      /\ frames[k].final \in BOOLEAN
  BY <1>5 DEF Frame
<1>8. k = Len(frames) => End(k) = total
  BY <1>0, <1>3, <1>4 DEF FramesInv
<1>9. frames[k].length = Expected
  BY <1>2, <1>4, <1>5, <1>6, <1>7, <1>8, <1>t, SizesAssumption
  DEF FrameOK, End, Expected, Typed
<1>10. frames[k].final <=> rd.remaining <= ChunkSize
  <2>1. frames[k].final <=> End(k) = total
    BY <1>5 DEF FrameOK
  <2>2. End(k) = total <=> rd.remaining <= ChunkSize
    BY <1>2, <1>5, <1>6, <1>7, <1>9, <1>t, SizesAssumption DEF FrameOK, End, Expected, Typed
  <2> QED BY <2>1, <2>2
<1>11. Opens(FrameOf("this", k))
  <2>1. frames[k].index = Len(rd.out)
    BY <1>4, <1>5, <1>t DEF FrameOK, Typed
  <2>2. Sealed(FrameOf("this", k)) = frames[k] /\ FrameOf("this", k).of = "this"
    BY DEF Sealed, FrameOf
  <2> QED BY <1>2, <1>7, <1>9, <1>10, <2>1, <2>2 DEF Opens
<1> QED BY <1>1, <1>4, <1>11, <1>t DEF Readable, Here

LEMMA EndStep ==
    ASSUME IInv, ReadRefused \/ ReadEnds \/ ReadCut \/ CloseBody
    PROVE  IInv'
<1>0. TypeOK /\ FramesInv /\ DiskInv /\ ReadInv /\ RoundTrip /\ phase = "stored"
  BY DEF IInv, ReadRefused, ReadEnds, ReadCut, CloseBody, DiskInv, IdleReader
<1>t. Typed
  BY <1>0, Typing
<1>1. UNCHANGED <<source, phase, pos, frames, file>>
      /\ UNCHANGED <<total, declared, header, disk>>
  BY DEF ReadRefused, ReadEnds, ReadCut, CloseBody, source, file
<1>2. \/ rd' = IdleReader
      \/ rd.pc = "reading" /\ \E pc \in {"failed", "cut"} : rd' = [rd EXCEPT !.pc = pc]
      \/ rd.pc = "reading" /\ rd.remaining = 0 /\ rd' = [rd EXCEPT !.pc = "done"]
  BY <1>t DEF ReadRefused, ReadEnds, ReadCut, CloseBody, Typed
<1>3. rd' \in ReaderState /\ (rd'.remaining >= 0 \/ rd'.out = <<>>)
  <2>1. CASE rd' = IdleReader
    BY <2>1 DEF ReaderState, IdleReader, ReadPC, Reader
  <2>2. ASSUME NEW pc \in {"failed", "cut", "done"}, rd' = [rd EXCEPT !.pc = pc]
        PROVE  rd' \in ReaderState /\ (rd'.remaining >= 0 \/ rd'.out = <<>>)
    <3>1. pc \in ReadPC
      BY DEF ReadPC
    <3>2. rd'.remaining = rd.remaining /\ rd'.out = rd.out
      BY <2>2, <1>t DEF ReaderState, Typed
    <3> QED BY <1>0, <2>2, <3>1, <3>2, <1>t DEF ReaderState, TypeOK, Typed
  <2> QED BY <1>2, <2>1, <2>2
<1>4. ReadInv'
  <2>1. CASE rd' = IdleReader
    BY <1>1, <2>1, <1>t, IdleRead DEF Typed
  <2>2. CASE \/ rd.pc = "reading" /\ \E pc \in {"failed", "cut"} : rd' = [rd EXCEPT !.pc = pc]
             \/ rd.pc = "reading" /\ rd.remaining = 0 /\ rd' = [rd EXCEPT !.pc = "done"]
    <3>1. /\ rd'.out = rd.out /\ rd'.remaining = rd.remaining /\ rd'.who = rd.who
          /\ rd'.pc \in {"failed", "cut", "done"} /\ (rd'.pc = "done" => rd.remaining = 0)
      BY <2>2, <1>t DEF ReaderState, Typed
    <3>2. Emitted' = Emitted /\ Sealed(rd.out[Len(rd.out)])' = Sealed(rd.out[Len(rd.out)])
      BY <1>1, <3>1 DEF Emitted, End, Sealed, Chunks
    <3> QED BY <1>0, <1>1, <2>2, <3>1, <3>2 DEF ReadInv
  <2> QED BY <1>2, <2>1, <2>2
<1>5. RoundTrip'
  <2>1. CASE ReadRefused
    <3>1. Damaged \/ declared # total
      BY <2>1, UndamagedReadable DEF ReadRefused
    <3> QED BY <1>1, <3>1 DEF RoundTrip, Damaged
  <2>2. CASE ReadEnds \/ ReadCut \/ CloseBody
    <3>1. ASSUME rd'.pc \in {"failed", "mismatch"}, ~Damaged, declared = total
          PROVE  FALSE
      <4>1. rd.pc = "reading" /\ rd.remaining < 0
        BY <2>2, <3>1, <1>t DEF ReadEnds, ReadCut, CloseBody, ReaderState, IdleReader, Typed
      <4>2. rd.out = <<>>
        BY <1>0, <1>t, <4>1 DEF TypeOK, Typed
      <4>3. rd.remaining = Int64(header.length) - 0
        BY <1>0, <4>1, <4>2 DEF ReadInv, Emitted
      <4>4. Int64(header.length) = declared
        BY <1>0, <3>1, WrittenHeader DEF Damaged, TypeOK, Upload
      <4> QED BY <1>t, <4>1, <4>3, <4>4 DEF Typed
    <3> QED BY <1>1, <3>1 DEF RoundTrip, Damaged
  <2> QED BY <2>1, <2>2
<1> QED BY <1>0, <1>1, <1>3, <1>4, <1>5, ReaderFrame DEF IInv

-----------------------------------------------------------------------------
(* IInv holds in every reachable state.                                    *)
THEOREM Invariance == Spec => []IInv
<1>1. IInv /\ [Next]_vars => IInv'
  <2> SUFFICES ASSUME IInv, [Next]_vars PROVE IInv'
    OBVIOUS
  <2>1. CASE UNCHANGED vars
    BY <2>1 DEF vars, IInv, TypeOK, FramesInv, FrameOK, End, DiskInv, GoodPlace, ReadInv,
       Emitted, Sealed, RoundTrip, Damaged
  <2> QED BY <2>1, ChunkStep, PhaseStep, DamageStep, OpenStep, ReadStep, EndStep
      DEF Next, Stream, OpenStream
<1> QED BY Initially, <1>1, PTL DEF Spec

(* Every variable keeps its type and no reading overruns the header.       *)
THEOREM TypeCorrect == Spec => []TypeOK
<1>1. IInv => TypeOK
  BY DEF IInv
<1> QED BY Invariance, <1>1, PTL

(* What was stored under its true length is read back.                     *)
THEOREM StoredIsReadable == Spec => []RoundTrip
<1>1. IInv => RoundTrip
  BY DEF IInv
<1> QED BY Invariance, <1>1, PTL

(* Whatever happened to the file, what the content handler hands out is a  *)
(* prefix of the upload and all of it when the reading ends well; for the  *)
(* worker the same is true of the upload the header belongs to, but for a  *)
(* header that says zero.                                                  *)
THEOREM OutputStaysTrue == Spec => []OutputIsTrue
<1>1. ASSUME IInv PROVE OutputIsTrue
  <2>0. TypeOK /\ FramesInv /\ DiskInv /\ ReadInv
    BY <1>1 DEF IInv
  <2>t. Typed /\ DOMAIN rd.out = 1..Len(rd.out) /\ rd.who \in {"content", "worker"}
    BY <2>0, Typing DEF Typed, ReaderState, Reader
  <2> PICK upload : upload = IF rd.who = "worker" THEN header.wrapped ELSE "this"
    OBVIOUS
  <2>c. rd.out # <<>> \/ rd.pc = "done" => upload = header.wrapped
    <3>1. HeaderOf("this", pos).wrapped = "this"
      BY DEF HeaderOf
    <3> QED BY <2>0, <2>t, <3>1 DEF ReadInv
  <2>1. \A i \in DOMAIN rd.out : rd.out[i] = FrameOf(upload, i)
    <3>1. CASE rd.out = <<>>
      BY <3>1
    <3>2. CASE rd.out # <<>>
      BY <2>0, <2>t, <2>c, <3>2 DEF ReadInv
    <3> QED BY <3>1, <3>2
  <2>2. ASSUME rd.pc = "done"
        PROVE  \/ upload = "this" /\ Len(rd.out) = Len(frames) /\ declared = total
               \/ upload = "other" /\ Len(rd.out) = Chunks(header.length)
               \/ rd.who = "worker" /\ header.length = 0 /\ rd.out = <<>>
    <3>0. /\ rd.remaining = 0 /\ phase = "stored" /\ pos = total
          /\ rd.who = "content" => header = HeaderOf("this", pos)
      <4>1. phase = "stored"
        BY <2>0, <2>2 DEF DiskInv, IdleReader
      <4> QED BY <2>0, <2>2, <4>1 DEF FramesInv, ReadInv
    <3>1. CASE rd.out = <<>>
      <4>1. Int64(header.length) = 0
        <5>1. Int64(header.length) \in Int
          BY <2>t, SizesAssumption DEF Int64, Typed
        <5>2. 0 = Int64(header.length) - 0
          BY <2>0, <2>2, <3>0, <3>1 DEF ReadInv, Emitted
        <5> QED BY <5>1, <5>2
      <4>2. header.length = 0
        <5>1. header.length \in 0..(2 * MaxInt + 1)
          BY <2>t DEF Typed, Header
        <5> QED BY <4>1, <5>1, SizesAssumption DEF Int64
      <4>3. CASE rd.who = "content"
        <5>1. pos = 0
          BY <3>0, <4>2, <4>3 DEF HeaderOf
        <5>2. frames = <<>>
          <6> SUFFICES ASSUME frames # <<>> PROVE FALSE
            OBVIOUS
          <6>1. Len(frames) \in 1..Len(frames)
            BY <2>0, <2>t DEF TypeOK, Typed
          <6>2. frames[Len(frames)] \in Frame
            BY <2>t, <6>1 DEF Typed
          <6> QED BY <2>0, <5>1, <6>2 DEF FramesInv, End, Frame
        <5> QED BY <2>0, <3>0, <3>1, <4>3, <5>1, <5>2 DEF FramesInv
      <4> QED BY <2>t, <3>1, <4>2, <4>3
    <3>2. CASE rd.out # <<>>
      <4> PICK k : k = Len(rd.out)
        OBVIOUS
      <4>1. k \in 1..Len(rd.out) /\ rd.out[k] = FrameOf(header.wrapped, k)
            /\ Sealed(rd.out[k]).final
        BY <2>0, <2>t, <3>0, <3>2 DEF ReadInv, Typed
      <4>2. CASE header.wrapped = "other"
        <5>1. k = Chunks(header.length)
          <6>1. Sealed(rd.out[k]).final = (k = Chunks(header.length))
            <7>1. FrameOf("other", k).of # "this" /\ FrameOf("other", k).n = k
              BY DEF FrameOf
            <7>2. rd.out[k] = FrameOf("other", k)
              BY <4>1, <4>2
            <7> QED BY <7>1, <7>2 DEF Sealed
          <6> QED BY <4>1, <6>1
        <5> QED BY <2>2, <2>c, <4>2, <5>1
      <4>3. CASE header.wrapped = "this"
        <5>1. k \in 1..Len(frames) /\ frames[k].final
          BY <2>0, <2>t, <4>1, <4>3 DEF ReadInv, Sealed, FrameOf, Typed
        <5>2. FrameOK(k) /\ frames[k] \in Frame
          BY <2>0, <2>t, <5>1 DEF FramesInv, Typed
        <5>3. End(k) = declared
          BY <5>1, <5>2 DEF FrameOK
        <5>4. k = Len(frames)
          BY <2>t, <5>1, <5>2, <5>3 DEF FrameOK, Typed
        <5>5. pos = End(k)
          BY <2>0, <2>t, <5>1, <5>4 DEF FramesInv, Typed
        <5> QED BY <2>2, <2>c, <3>0, <4>3, <5>3, <5>4, <5>5
      <4> QED BY <2>t, <4>2, <4>3 DEF Typed, Upload
    <3> QED BY <3>1, <3>2
  <2> QED BY <2>1, <2>2 DEF OutputIsTrue
<1> QED BY <1>1, Invariance, PTL

(* A wrong declared length is caught, or it ended in the last chunk.       *)
THEOREM WrongLengthIsCaught == Spec => []WrongLengthCaught
<1>1. ASSUME IInv PROVE WrongLengthCaught
  <2>0. TypeOK /\ FramesInv
    BY <1>1 DEF IInv
  <2>t. Typed
    BY <2>0, Typing
  <2>1. CASE phase = "stored" /\ frames = <<>>
    BY <2>0, <2>1 DEF FramesInv, WrongLengthCaught
  <2>2. CASE phase = "stored" /\ frames # <<>>
    <3>1. Len(frames) \in 1..Len(frames)
      BY <2>0, <2>t, <2>2 DEF TypeOK, Typed
    <3>2. FrameOK(Len(frames)) /\ frames[Len(frames)] \in Frame
      BY <2>0, <2>t, <3>1 DEF FramesInv, Typed
    <3>3. pos = End(Len(frames)) /\ pos = total
          /\ (frames[Len(frames)].length < ChunkSize \/ pos >= declared)
      BY <2>0, <2>2 DEF FramesInv
    <3> QED BY <2>2, <2>t, <3>2, <3>3 DEF WrongLengthCaught, FrameOK, End, Typed
  <2>3. CASE phase # "stored"
    BY <2>3 DEF WrongLengthCaught
  <2> QED BY <2>1, <2>2, <2>3
<1> QED BY <1>1, Invariance, PTL
=============================================================================
