-------------------------------- MODULE Mtd ---------------------------------
(***************************************************************************)
(* Raw NAND flash as mtdutils/mtdutils.c writes and reads it.  A device d  *)
(* has NumBlocks erase blocks of EraseSize units each; a unit is a number, *)
(* 0 for the zeros of the padding.  Some blocks are bad: the driver says   *)
(* so.  Some are worn: what is written there does not verify, and the      *)
(* driver does not know.  Device calls fail as in Faults.                  *)
(***************************************************************************)
EXTENDS Faults, Integers, Sequences, SequencesExt, FiniteSetsExt

CONSTANTS
    NumBlocks,      \* bound: blocks of a partition
    EraseSize,      \* bound: units of a block
    WriteSize,      \* units of a page, of which bootloader.cpp saves MISC_PAGES
    HEADER_SIZE     \* units of an image that flash_image compares

ASSUME MtdAssumption ==
    /\ NumBlocks \in Nat \ {0}
    /\ EraseSize \in Nat \ {0} /\ WriteSize \in Nat \ {0} /\ HEADER_SIZE \in Nat \ {0}

Blocks == 0 .. NumBlocks - 1
MISC_PAGES == 3
MISC_COMMAND_PAGE == 1

Erased == [i \in 1 .. EraseSize |-> 255]
Torn == [i \in 1 .. EraseSize |-> 254]      \* a block whose contents do not pass ECC

Device(contents, bad, worn, fail, power) ==
    [blocks |-> contents, bad |-> bad, worn |-> worn, fail |-> fail, power |-> power, off |-> FALSE]

-----------------------------------------------------------------------------
(* The driver.  MEMGETBADBLOCK gives -1 if it fails; a write that fails    *)
(* leaves the block in an unknown state.                                   *)
MemGetBadBlock(d, b) == IF Fails(d) THEN -1 ELSE IF b \in d.bad THEN 1 ELSE 0

MemErase(d, b) ==
    IF Fails(d) THEN [ok |-> FALSE, d |-> Tick(d)]
    ELSE [ok |-> TRUE, d |-> [Tick(d) EXCEPT !.blocks[b] = Erased]]

Program(d, b, data) ==
    IF d.off THEN d
    ELSE [Tick(d) EXCEPT !.blocks[b] = IF Fails(d) \/ b \in d.worn THEN Torn ELSE data]

ReadBlockAt(d, b) == [ok |-> ~Fails(d), d |-> Tick(d)]
EccGetStats(d) == [ok |-> ~Fails(d), d |-> Tick(d)]

-----------------------------------------------------------------------------
(* Reading.  A context r has the device, the position of its descriptor    *)
(* and what is left in its buffer.                                         *)
MtdReadPartition(d) == [d |-> d, pos |-> 0, buf |-> << >>]

(* MEMGETBADBLOCK of a block that was read; not asking is a way to err.    *)
NeverBad(query) == FALSE
FoundBad(query) == query # 0

(* read_block(): the blocks that cannot be read are skipped, whatever they *)
(* held, as are the bad ones.                                              *)
NoBlock(d, pos) == [ok |-> FALSE, d |-> d, pos |-> pos, data |-> << >>]

RECURSIVE ReadFrom(_, _)
CheckedBlock(ecc, b) ==
    IF ~ecc.ok THEN NoBlock(ecc.d, b + 1)
    ELSE IF ecc.d.blocks[b] = Torn THEN ReadFrom(ecc.d, b + 1)
    ELSE IF FoundBad(MemGetBadBlock(ecc.d, b)) THEN ReadFrom(Tick(ecc.d), b + 1)
    ELSE [ok |-> TRUE, d |-> Tick(ecc.d), pos |-> b + 1, data |-> ecc.d.blocks[b]]

TriedBlock(read, b) == IF read.ok THEN CheckedBlock(EccGetStats(read.d), b) ELSE ReadFrom(read.d, b + 1)

ReadFrom(d, b) == IF b >= NumBlocks THEN NoBlock(d, b) ELSE TriedBlock(ReadBlockAt(d, b), b)

ReadAfter(ecc, pos) == IF ecc.ok THEN ReadFrom(ecc.d, pos) ELSE NoBlock(ecc.d, pos)
ReadBlock(r) == ReadAfter(EccGetStats(r.d), r.pos)

(* mtd_read_data(): from the buffer and, block by block, from the device;  *)
(* << >> where it returns -1 (the code reads nothing after that).          *)
RECURSIVE MtdReadData(_, _)
Joined(data, more) == [more EXCEPT !.data = IF more.ok THEN data \o @ ELSE << >>]

ReadOn(rest, next, data, len) ==
    IF ~next.ok THEN [ok |-> FALSE, data |-> << >>, r |-> [rest EXCEPT !.d = next.d]]
    ELSE Joined(data, MtdReadData([d |-> next.d, pos |-> next.pos, buf |-> next.data], len))

MtdReadData(r, len) ==
    LET copy == Min({len, Len(r.buf)})
        rest == [r EXCEPT !.buf = SubSeq(@, copy + 1, Len(@))] IN
    IF copy = len THEN [ok |-> TRUE, data |-> SubSeq(r.buf, 1, len), r |-> rest]
    ELSE ReadOn(rest, ReadBlock(rest), SubSeq(r.buf, 1, copy), len - copy)

-----------------------------------------------------------------------------
(* Writing.  A context c has the device, the position of its descriptor,   *)
(* what is stored of an incomplete block, and the blocks it skipped.       *)
MtdWritePartition(d) == [d |-> d, pos |-> 0, stored |-> << >>, badBlocks |-> << >>]

(* One round of erase, write, and comparison with what is read.            *)
Unverified(d, b, data) == FALSE
NotVerified(d, b, data) == d.blocks[b] # data

Verify(c, written, b, data) ==
    LET verify == ReadBlockAt(written, b) IN
    [ok |-> verify.ok /\ ~NotVerified(written, b, data),
     c |-> [c EXCEPT !.d = verify.d, !.pos = IF verify.ok THEN b + 1 ELSE b]]

ProgramErased(c, erase, b, data) ==
    IF erase.ok THEN Verify(c, Program(erase.d, b, data), b, data)
    ELSE [ok |-> FALSE, c |-> [c EXCEPT !.d = erase.d]]

Attempt(c, b, data) == ProgramErased(c, MemErase(c.d, b), b, data)

(* write_block(): a block that is bad, or fails twice, is skipped.         *)
RECURSIVE WriteFrom(_, _, _)
Skipped(c, b) == [c EXCEPT !.badBlocks = Append(@, b)]
Retried(first, b, data) == IF first.ok THEN first ELSE Attempt(first.c, b, data)

WrittenOrNext(second, b, data) ==
    IF second.ok THEN second
    ELSE WriteFrom(Skipped([second.c EXCEPT !.d = MemErase(@, b).d], b), b + 1, data)

WriteFrom(c, b, data) ==
    LET asked == [c EXCEPT !.d = Tick(@)] IN
    IF b >= NumBlocks THEN [ok |-> FALSE, c |-> c]
    ELSE IF MemGetBadBlock(c.d, b) # 0 THEN WriteFrom(Skipped(asked, b), b + 1, data)
    ELSE WrittenOrNext(Retried(Attempt(asked, b, data), b, data), b, data)

WriteBlock(c, data) == WriteFrom(c, c.pos, data)

(* mtd_write_data(): whole blocks go out, the rest is kept.  A block that  *)
(* could not be written stays in the buffer if it was there.               *)
RECURSIVE MtdWriteData(_, _)
WriteOn(w, rest) == IF w.ok THEN MtdWriteData([w.c EXCEPT !.stored = << >>], rest) ELSE w

MtdWriteData(c, data) ==
    LET copy == Min({Len(data), EraseSize - Len(c.stored)})
        full == c.stored \o SubSeq(data, 1, copy)
        rest == SubSeq(data, copy + 1, Len(data))
        kept == [c EXCEPT !.stored = IF c.stored # << >> \/ Len(full) < EraseSize THEN full ELSE << >>] IN
    IF data = << >> THEN [ok |-> TRUE, c |-> c]
    ELSE IF Len(full) < EraseSize THEN MtdWriteData(kept, rest)
    ELSE WriteOn(WriteBlock(kept, full), rest)

Padded(data) == data \o [i \in 1 .. EraseSize - Len(data) |-> 0]

EraseOne(d, b) ==
    LET query == MemGetBadBlock(d, b) IN
    IF query > 0 THEN Tick(d) ELSE MemErase(Tick(d), b).d

(* mtd_erase_blocks(): what is stored is padded and written, then blocks   *)
(* are erased (-1: all the rest); the descriptor does not move.            *)
Flushed(c) == IF c.stored = << >> THEN [ok |-> TRUE, c |-> c] ELSE WriteBlock(c, Padded(c.stored))

EraseFlushed(flush, blocks) ==
    LET at == [flush.c EXCEPT !.stored = << >>]
        total == NumBlocks - at.pos
        n == IF blocks < 0 THEN total ELSE blocks IN
    IF ~flush.ok THEN flush
    ELSE IF n > total THEN [ok |-> FALSE, c |-> at]
    ELSE [ok |-> TRUE,
          c |-> [at EXCEPT !.d = FoldLeft(EraseOne, @, [i \in 1 .. n |-> at.pos + i - 1])]]

MtdEraseBlocks(c, blocks) == EraseFlushed(Flushed(c), blocks)

MtdWriteClose(c) == MtdEraseBlocks(c, 0)

-----------------------------------------------------------------------------
(* The bootloader message on MTD (bootloader.cpp): a page among the pages  *)
(* saved, read and written together.                                       *)
MiscSize == WriteSize * MISC_PAGES
CommandPage == WriteSize * MISC_COMMAND_PAGE + 1 .. WriteSize * (MISC_COMMAND_PAGE + 1)

ReadMisc(d) == MtdReadData(MtdReadPartition(d), MiscSize)

MessageIn(r) ==
    [ok |-> r.ok, d |-> r.r.d,
     message |-> IF r.ok THEN SubSeq(r.data, WriteSize + 1, WriteSize * 2) ELSE << >>]

GetBootloaderMessage(d) == MessageIn(ReadMisc(d))

WholePageLost(data, message) == [i \in 1 .. MiscSize |-> IF i \in CommandPage THEN message[1] ELSE 0]
WithMessage(data, message) ==
    [i \in 1 .. MiscSize |-> IF i \in CommandPage THEN message[i - WriteSize] ELSE data[i]]

MessageClosed(ok, close) == [ok |-> ok /\ close.ok, d |-> close.c.d, skipped |-> close.c.badBlocks]
MessageWritten(w) == MessageClosed(w.ok, MtdWriteClose(w.c))

WriteMessage(r, message) ==
    IF ~r.ok THEN [ok |-> FALSE, d |-> r.r.d, skipped |-> << >>]
    ELSE MessageWritten(MtdWriteData(MtdWritePartition(r.r.d), WithMessage(r.data, message)))

SetBootloaderMessage(d, message) == WriteMessage(ReadMisc(d), message)

-----------------------------------------------------------------------------
(* flash_image: an image whose header is already there is not written; of  *)
(* another everything is written with zeros for the header, and then the   *)
(* first block again with the header.  An image that ends before its first *)
(* block does cannot be finished.                                          *)
Zeros(n) == [i \in 1 .. n |-> 0]
HeaderAtOnce(image, n) == image
HeaderLast(image, n) == Zeros(n) \o SubSeq(image, n + 1, Len(image))

Exit(ok, d) == [ok |-> ok, d |-> d]
Closed(w, more) == IF w.ok /\ more THEN MtdWriteClose(w.c) ELSE [w EXCEPT !.ok = FALSE]
WriteAnew(d, data) == MtdWriteData(MtdWritePartition(d), data)
ExitWith(w) == Exit(w.ok, w.c.d)

FlashHead(body, image, whole) ==
    IF ~body.ok THEN ExitWith(body)
    ELSE ExitWith(Closed(WriteAnew(body.c.d, SubSeq(image, 1, Min({whole, Len(image)}))), Len(image) >= whole))

FlashUnless(check, image, n) ==
    IF check.ok /\ check.data = SubSeq(image, 1, n) THEN Exit(TRUE, check.r.d)
    ELSE FlashHead(Closed(WriteAnew(check.r.d, HeaderLast(image, n)), TRUE), image,
                   EraseSize * ((n + EraseSize - 1) \div EraseSize))

FlashImage(d, image) ==
    IF image = << >> THEN Exit(FALSE, d)
    ELSE FlashUnless(MtdReadData(MtdReadPartition(d), HEADER_SIZE), image, Min({HEADER_SIZE, Len(image)}))

=============================================================================
