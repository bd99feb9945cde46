------------------------------ MODULE ImgPatch ------------------------------
(***************************************************************************)
(* applypatch/bspatch.c and applypatch/imgpatch.c: a patch is applied to   *)
(* old data, the new data goes piece by piece to a sink and into a SHA-1   *)
(* context.  A byte is a number below Base; the hash stands for the data   *)
(* that went into it.  A decompressor is external: a bzip2 stream is what  *)
(* it decompresses to and whether it has its end, deflated data is the     *)
(* data between two marks.                                                 *)
(***************************************************************************)
EXTENDS Integers, SequencesExt

CONSTANTS Base,         \* bytes are 0 .. Base - 1
          MinTemp       \* 32768: the smallest buffer for deflated data

(* s: the sink and the SHA context; the failAt-th call writes only the     *)
(* first part of its data.                                                 *)
NewSink(failAt, part) == [data |-> << >>, sha |-> << >>, calls |-> 0, failAt |-> failAt, part |-> part]

ShortWrite(s, data) == s.calls + 1 = s.failAt /\ s.part < Len(data)
Sink(s, data) ==
    [s EXCEPT !.calls = @ + 1,
              !.data = @ \o IF ShortWrite(s, data) THEN SubSeq(data, 1, s.part) ELSE data]
SHA_update(s, data) == [s EXCEPT !.sha = @ \o data]

-----------------------------------------------------------------------------
(* bspatch.c                                                               *)
(* FillBuffer(): "end" when the stream ends before the buffer is full;     *)
(* "loops" when it stops without an end, which is asked for more forever.  *)
FillBuffer(stream, from, size) ==
    IF size = 0 \/ from + size <= Len(stream.data) THEN "ok"
    ELSE IF stream.ends THEN "end" ELSE "loops"

DiffAdded(old, oldpos, diff) ==
    [i \in DOMAIN diff |->
        IF oldpos + i \in DOMAIN old THEN (diff[i] + old[oldpos + i]) % Base ELSE diff[i]]

(* The loop, from control triple k on: b has the new data and how much of  *)
(* each stream was read.                                                   *)
RECURSIVE BSDiffFrom(_, _, _, _)
BSDiffFrom(bs, old, k, b) ==
    LET c == bs.ctrl.data[k]
        diff == SubSeq(bs.diff.data, b.diff + 1, b.diff + c[1])
        extra == SubSeq(bs.extra.data, b.extra + 1, b.extra + c[2])
        newpos == Len(b.new)
        ctrlFill == FillBuffer(bs.ctrl, k - 1, 1)
        diffFill == FillBuffer(bs.diff, b.diff, c[1])
        extraFill == FillBuffer(bs.extra, b.extra, c[2])
        Failed(f) == [b EXCEPT !.rc = IF f = "loops" THEN "loops" ELSE "failed"] IN
    IF newpos >= bs.new_size THEN b
    ELSE IF ctrlFill # "ok" THEN Failed(ctrlFill)
    ELSE IF c[1] < 0 \/ c[2] < 0 \/ newpos + c[1] > bs.new_size THEN Failed("end")
    ELSE IF diffFill # "ok" THEN Failed(diffFill)
    ELSE IF newpos + c[1] + c[2] > bs.new_size THEN Failed("end")
    ELSE IF extraFill # "ok" THEN Failed(extraFill)
    ELSE BSDiffFrom(bs, old, k + 1,
            [b EXCEPT !.new = @ \o DiffAdded(old, b.oldpos, diff) \o extra,
                      !.oldpos = @ + c[1] + c[3],
                      !.diff = @ + c[1], !.extra = @ + c[2]])

ApplyBSDiffPatchMem(old, bs) ==
    LET start == [rc |-> "ok", new |-> << >>, oldpos |-> 0, diff |-> 0, extra |-> 0] IN
    IF bs.magic # "BSDIFF40" \/ bs.new_size < 0 THEN [start EXCEPT !.rc = "failed"]
    ELSE BSDiffFrom(bs, old, 1, start)

HashedFirst(s, data) == SHA_update(Sink(s, data), data)

(* The hash only takes what was written.                                   *)
HashedIfWritten(s, data) ==
    IF ShortWrite(s, data) THEN Sink(s, data) ELSE SHA_update(Sink(s, data), data)

ApplyBSDiffPatch(s, old, bs) ==
    LET b == ApplyBSDiffPatchMem(old, bs) IN
    IF b.rc # "ok" THEN [rc |-> b.rc, s |-> s]
    ELSE [rc |-> IF ShortWrite(s, b.new) THEN "failed" ELSE "ok", s |-> HashedIfWritten(s, b.new)]

-----------------------------------------------------------------------------
(* imgpatch.c                                                              *)
Start == Base
Stop == Base + 1
Deflate(data) == <<Start>> \o data \o <<Stop>>

Inflates(z) == z # << >> /\ Head(z) = Start /\ Contains(z, Stop)
Inflate(z) == SubSeq(z, 2, (CHOOSE i \in DOMAIN z : z[i] = Stop) - 1)

(* Only the second chunk (chunk 1) takes the bonus data.                   *)
SecondChunk(i) == i = 2

BonusFor(i, bonus) == IF SecondChunk(i) THEN bonus ELSE << >>

(* The deflated data in pieces of the temporary buffer's size.             *)
RECURSIVE SinkPieces(_, _, _)
SinkPieces(s, data, size) ==
    LET piece == SubSeq(data, 1, IF size < Len(data) THEN size ELSE Len(data)) IN
    IF ShortWrite(s, piece) THEN [rc |-> "failed", s |-> Sink(s, piece)]
    ELSE IF Len(data) <= size THEN [rc |-> "ok", s |-> SHA_update(Sink(s, piece), piece)]
    ELSE SinkPieces(SHA_update(Sink(s, piece), piece), SubSeq(data, size + 1, Len(data)), size)

DeflateChunk(s, old, c, i, bonus) ==
    LET z == SubSeq(old, c.src_start + 1, c.src_start + c.src_len)
        extra == BonusFor(i, bonus)
        b == ApplyBSDiffPatchMem(Inflate(z) \o extra, c.bs)
        temp == IF c.expanded_len < MinTemp THEN MinTemp ELSE c.expanded_len IN
    IF ~Inflates(z) THEN [rc |-> "failed", s |-> s]
    ELSE IF c.expanded_len - Len(Inflate(z)) # Len(extra) THEN [rc |-> "failed", s |-> s]
    ELSE IF b.rc # "ok" THEN [rc |-> b.rc, s |-> s]
    ELSE SinkPieces(s, Deflate(b.new), temp)

(* What ApplyBSDiffPatch() returns for a normal chunk is not looked at.    *)
ApplyChunk(s, old, c, i, bonus) ==
    CASE c.type = "CHUNK_NORMAL" ->
            LET r == ApplyBSDiffPatch(s, SubSeq(old, c.src_start + 1, c.src_start + c.src_len), c.bs) IN
            [rc |-> IF r.rc = "loops" THEN "loops" ELSE "ok", s |-> r.s]
      [] c.type = "CHUNK_RAW" ->
            [rc |-> IF ShortWrite(s, c.data) THEN "failed" ELSE "ok", s |-> Sink(SHA_update(s, c.data), c.data)]
      [] c.type = "CHUNK_DEFLATE" -> DeflateChunk(s, old, c, i, bonus)
      [] OTHER -> [rc |-> "failed", s |-> s]

RECURSIVE ApplyChunks(_, _, _, _, _)
ApplyChunks(s, old, patch, i, bonus) ==
    IF i > patch.num_chunks THEN [rc |-> "ok", s |-> s]
    ELSE IF i > Len(patch.chunks) THEN [rc |-> "failed", s |-> s]
    ELSE LET r == ApplyChunk(s, old, patch.chunks[i], i, bonus) IN
         IF r.rc # "ok" THEN r ELSE ApplyChunks(r.s, old, patch, i + 1, bonus)

ApplyImagePatch(s, old, patch, bonus) ==
    IF patch.magic # "IMGDIFF2" THEN [rc |-> "failed", s |-> s]
    ELSE ApplyChunks(s, old, patch, 1, bonus)

=============================================================================
