---------------------------- MODULE StreamCrypto ----------------------------
(***************************************************************************)
(* The chunked encryption of one attachment body: Stream writes a header   *)
(* and one sealed frame per chunk of the upload, OpenStream reads them     *)
(* back for the content handler or for the extraction worker, and in       *)
(* between the stored file may be damaged.                                 *)
(*                                                                         *)
(* The plaintext is known by its length alone: a frame says which chunk it *)
(* seals and whether it was sealed as the last one, both bound to it by    *)
(* the nonce and the additional data of AES-GCM.  A frame opens only as a  *)
(* whole, so a position of the file that does not begin such a frame is    *)
(* garbage, whatever its bytes are.  The frames of another attachment are  *)
(* sealed under another key and another prefix of the nonce.               *)
(***************************************************************************)
EXTENDS Integers, Sequences

CONSTANTS
    ChunkSize,      \* plaintext bytes in a full chunk
    MaxLength,      \* bound on the lengths an upload has and declares
    MaxInt          \* the largest int64

ASSUME SizesAssumption ==
    ChunkSize \in Nat \ {0} /\ MaxLength \in Nat /\ MaxInt \in Nat /\ MaxLength <= MaxInt

VARIABLES
    total,          \* bytes the source of the upload yields
    declared,       \* plaintextLen, what the caller said it would yield
    phase,          \* of Stream
    pos,            \* bytes of the source consumed
    frames,         \* the frames Stream sealed, in order
    header,         \* the header of the stored file
    disk,           \* its body: which sealed frame stands at each place
    rd              \* one reader of the file

source == <<total, declared>>
file == <<header, disk>>
vars == <<total, declared, phase, pos, frames, header, disk, rd>>

-----------------------------------------------------------------------------
Length == 0..MaxLength

(* What a header was written for: this upload or another attachment.       *)
Upload == {"this", "other"}

(* PlaintextLength is a uint64.  A chunk size beyond the bound would act   *)
(* like the bound: no frame is that long.  A header without its magic      *)
(* bytes stands for all that ReadHeader refuses.                           *)
Header == [magic: BOOLEAN, wrapped: Upload, wrapNonce: Upload, prefix: Upload,
           chunk: 0..(MaxLength + ChunkSize), length: 0..(2 * MaxInt + 1)]
HeaderOf(upload, n) == [magic |-> TRUE, wrapped |-> upload, wrapNonce |-> upload,
                        prefix |-> upload, chunk |-> ChunkSize, length |-> n]

(* int64(hdr.PlaintextLength).                                             *)
Int64(n) == IF n > MaxInt THEN n - 2 * (MaxInt + 1) ELSE n

Phase == {"writing", "probing", "stored", "refused"}

(* index is the counter in nonce and additional data, final its last byte. *)
Frame == [index: Nat, first: Nat, length: Nat \ {0}, final: BOOLEAN]

(* A place of the file holds the n-th frame of an upload or garbage.       *)
Place == [of: Upload \cup {"nobody"}, n: Nat]
FrameOf(upload, n) == [of |-> upload, n |-> n]
Garbage == [of |-> "nobody", n |-> 0]

(* Another attachment of n bytes, stored as it should be.                  *)
Chunks(n) == (n + ChunkSize - 1) \div ChunkSize
OtherFile(n) == [i \in 1..Chunks(n) |-> FrameOf("other", i)]

(* "mismatch" is the refusal before the first byte, "failed" any error     *)
(* after it; out is the frames whose plaintext went to the client. *)
Reader == {"content", "worker"}
ReadPC == {"idle", "reading", "done", "mismatch", "failed", "cut"}
ReaderState == [pc: ReadPC, who: Reader, remaining: Int, out: Seq(Place)]
IdleReader == [pc |-> "idle", who |-> "content", remaining |-> 0, out |-> <<>>]

Init ==
    /\ total \in Length
    /\ declared \in Length
    /\ phase = "writing"
    /\ pos = 0
    /\ frames = <<>>
    /\ header = HeaderOf("this", declared)
    /\ disk = <<>>
    /\ rd = IdleReader

-----------------------------------------------------------------------------
(* Stream.                                                                 *)

Remaining == declared - pos

(* What io.ReadFull gets into the chunk buffer.                            *)
ReadFull == IF total - pos < ChunkSize THEN total - pos ELSE ChunkSize

(* Mutant: a chunk is final when the source ran short in it.               *)
FinalWhenShort(n) == n < ChunkSize

(* The final flag of the chunk that is sealed.                             *)
Final(n) == Remaining = n

(* One turn of the loop.  It ends with the chunk that was final, with a    *)
(* source that ran short, or when nothing is declared to remain.           *)
StreamChunk ==
    LET n == ReadFull IN
    /\ phase = "writing"
    /\ Remaining > 0
    /\ n > 0
    /\ frames' = Append(frames, [index |-> Len(frames), first |-> pos, length |-> n,
                                 final |-> Final(n)])
    /\ disk' = Append(disk, FrameOf("this", Len(frames) + 1))
    /\ pos' = pos + n
    /\ phase' = IF n < ChunkSize \/ Remaining <= n THEN "probing" ELSE "writing"
    /\ UNCHANGED <<source, header, rd>>

(* "plaintext short": the source had nothing left at a chunk boundary.     *)
StreamShort ==
    /\ phase = "writing"
    /\ Remaining > 0
    /\ ReadFull = 0
    /\ phase' = "refused"
    /\ UNCHANGED <<source, pos, frames, file, rd>>

(* The loop is not entered: a zero length was declared.                    *)
StreamNothing ==
    /\ phase = "writing"
    /\ Remaining = 0
    /\ phase' = "probing"
    /\ UNCHANGED <<source, pos, frames, file, rd>>

(* Mutant: the source is not asked for one more byte.                      *)
NoProbe ==
    /\ phase = "probing"
    /\ phase' = "stored"
    /\ UNCHANGED <<source, pos, frames, file, rd>>

(* One more byte of the source turns success into an error.                *)
Probe ==
    /\ phase = "probing"
    /\ phase' = IF total > pos THEN "refused" ELSE "stored"
    /\ UNCHANGED <<source, pos, frames, file, rd>>

(* Reading the source or writing the file fails, the upload is removed.    *)
StreamFails ==
    /\ phase \in {"writing", "probing"}
    /\ phase' = "refused"
    /\ UNCHANGED <<source, pos, frames, file, rd>>

-----------------------------------------------------------------------------
(* Damage to the stored file, once, while nobody reads it.                 *)

Damaged == \/ header # HeaderOf("this", declared)
           \/ disk # [i \in 1..Len(frames) |-> FrameOf("this", i)]

Truncate == \E k \in 0..(Len(disk) - 1) : disk' = SubSeq(disk, 1, k)
Tamper == \E i \in DOMAIN disk : disk' = [disk EXCEPT ![i] = Garbage]
Swap == \E i, j \in DOMAIN disk :
            i < j /\ disk' = [disk EXCEPT ![i] = disk[j], ![j] = disk[i]]

DamageBody ==
    /\ phase = "stored" /\ rd.pc = "idle" /\ ~Damaged
    /\ Truncate \/ Tamper \/ Swap
    /\ UNCHANGED <<source, phase, pos, frames, header, rd>>

(* Nothing authenticates the header: any part of it may be changed, or all *)
(* of it be that of another attachment.                                    *)
DamageHeader ==
    /\ phase = "stored" /\ rd.pc = "idle" /\ ~Damaged
    /\ header' \in Header \ {header}
    /\ UNCHANGED <<source, phase, pos, frames, disk, rd>>

(* The valid file of another attachment takes the place of this one.       *)
ReplaceFile ==
    /\ phase = "stored" /\ rd.pc = "idle" /\ ~Damaged
    /\ \E n \in Length : header' = HeaderOf("other", n) /\ disk' = OtherFile(n)
    /\ UNCHANGED <<source, phase, pos, frames, rd>>

-----------------------------------------------------------------------------
(* OpenStream.                                                             *)

ReadHeader == header.magic

(* Mutant: of the header only the length is compared with the row.         *)
OnlyLengthCompared(who) == ReadHeader /\ (who = "content" => header.length = pos)

(* The content handler compares the header with the row, which has what    *)
(* Stream returned and in byte_size what it consumed.  The opener of the   *)
(* worker does not.                                                        *)
HeaderAccepted(who) == ReadHeader /\ (who = "content" => header = HeaderOf("this", pos))

(* OpenStream refuses a chunk size of zero and a key that does not unwrap. *)
KeyUnwraps == header.chunk > 0 /\ header.wrapped = header.wrapNonce

OpenBody(who) ==
    /\ phase = "stored" /\ rd.pc = "idle"
    /\ LET reader(pc, n) == [pc |-> pc, who |-> who, remaining |-> n, out |-> <<>>] IN
       rd' = IF ~HeaderAccepted(who) THEN reader("mismatch", 0)
             ELSE IF ~KeyUnwraps THEN reader("failed", 0)
             ELSE reader("reading", Int64(header.length))
    /\ UNCHANGED <<source, phase, pos, frames, file>>

(* Mutant: the last ciphertext is read in full size as well.               *)
ExpectedUntrimmed == header.chunk

(* The plaintext length of the frame the reader asks for.                  *)
Expected == IF rd.remaining <= header.chunk THEN rd.remaining ELSE header.chunk

(* What was sealed at a place.  Frames of another attachment are there     *)
(* only together with their header.                                        *)
Sealed(c) ==
    IF c.of = "this" THEN frames[c.n]
    ELSE [index |-> c.n - 1, first |-> (c.n - 1) * ChunkSize,
          length |-> IF c.n = Chunks(header.length)
                     THEN header.length - (c.n - 1) * ChunkSize ELSE ChunkSize,
          final |-> c.n = Chunks(header.length)]

(* aead.Open: a sealed frame, as a whole, with the key and the prefix of   *)
(* the header and the index and the flag the reader has in mind.  The      *)
(* counter is the number of frames so far.                                 *)
Opens(c) ==
    /\ c.of = header.wrapped /\ c.of = header.prefix
    /\ Sealed(c).index = Len(rd.out)
    /\ Sealed(c).length = Expected
    /\ Sealed(c).final = (rd.remaining <= header.chunk)

Here == Len(rd.out) + 1
Readable == Here \in DOMAIN disk /\ Opens(disk[Here])

(* The plaintext of a frame is written as soon as the frame has opened.    *)
ReadChunk ==
    /\ rd.pc = "reading" /\ rd.remaining > 0
    /\ Readable
    /\ rd' = [rd EXCEPT !.remaining = @ - Sealed(disk[Here]).length,
                        !.out = Append(@, disk[Here])]
    /\ UNCHANGED <<source, phase, pos, frames, file>>

(* The file ends early, or what is read there does not verify.             *)
ReadRefused ==
    /\ rd.pc = "reading" /\ rd.remaining > 0
    /\ ~Readable
    /\ rd' = [rd EXCEPT !.pc = "failed"]
    /\ UNCHANGED <<source, phase, pos, frames, file>>

ReadEnds ==
    /\ rd.pc = "reading" /\ rd.remaining <= 0
    /\ rd' = [rd EXCEPT !.pc = IF rd.remaining < 0 THEN "failed" ELSE "done"]
    /\ UNCHANGED <<source, phase, pos, frames, file>>

(* The disk or the connection of the client fails.                         *)
ReadCut ==
    /\ rd.pc = "reading"
    /\ rd' = [rd EXCEPT !.pc = "cut"]
    /\ UNCHANGED <<source, phase, pos, frames, file>>

(* The next reader comes.                                                  *)
CloseBody ==
    /\ rd.pc \in {"done", "mismatch", "failed", "cut"}
    /\ rd' = IdleReader
    /\ UNCHANGED <<source, phase, pos, frames, file>>

-----------------------------------------------------------------------------
Stream == StreamChunk \/ StreamShort \/ StreamNothing \/ Probe \/ StreamFails
Damage == DamageBody \/ DamageHeader \/ ReplaceFile
OpenStream == ReadChunk \/ ReadRefused \/ ReadEnds \/ ReadCut \/ CloseBody

Next == Stream \/ Damage \/ (\E who \in Reader : OpenBody(who)) \/ OpenStream

Spec == Init /\ [][Next]_vars

-----------------------------------------------------------------------------
(* Properties that hold.                                                   *)

(* Every variable keeps its type; in particular no frame that opens is     *)
(* longer than what remains, so OpenStream never overruns its header: less *)
(* than nothing remains only where int64 made a length negative.           *)
TypeOK ==
    /\ total \in Length /\ declared \in Length /\ header \in Header
    /\ phase \in Phase
    /\ pos \in 0..total
    /\ frames \in Seq(Frame)
    /\ disk \in Seq(Place)
    /\ rd \in ReaderState
    /\ rd.remaining >= 0 \/ rd.out = <<>>

(* What was stored under its true length, and was not damaged, is read     *)
(* back: no chunk boundary makes the reader expect other frames than the   *)
(* writer sealed.                                                          *)
RoundTrip ==
    rd.pc \in {"failed", "mismatch"} => Damaged \/ declared # total

(* Whatever happened to the file, what the content handler hands out is    *)
(* the beginning of the upload in its order, and a reading that ends well  *)
(* handed out all of it.  The worker does not compare the header with the  *)
(* row: it reads the upload the header belongs to, so another attachment   *)
(* if that has taken the place of the whole file, and it takes a header    *)
(* that says zero for an empty document.                                   *)
OutputIsTrue ==
    LET upload == IF rd.who = "worker" THEN header.wrapped ELSE "this" IN
    /\ \A i \in DOMAIN rd.out : rd.out[i] = FrameOf(upload, i)
    /\ rd.pc = "done" =>
        \/ upload = "this" /\ Len(rd.out) = Len(frames) /\ declared = total
        \/ upload = "other" /\ Len(rd.out) = Chunks(header.length)
        \/ rd.who = "worker" /\ header.length = 0 /\ rd.out = <<>>

(* A stored file holds the whole source, although the declared length may  *)
(* have been wrong: one that was too small can only have ended inside the  *)
(* last chunk, one that was too large has a last chunk that ran short.     *)
WrongLengthCaught ==
    phase = "stored" =>
        IF frames = <<>>
        THEN total = 0 /\ declared = 0
        ELSE LET last == frames[Len(frames)] IN
             /\ last.first + last.length = total
             /\ declared < total => last.first < declared
             /\ declared > total => last.length < ChunkSize
=============================================================================
