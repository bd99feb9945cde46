--------------------------------- MODULE Bu ---------------------------------
(***************************************************************************)
(* "bu", which writes volumes to and reads them from a stream (bu.cpp,     *)
(* backup.cpp, restore.cpp).  A stream is a sequence of tar entries; the   *)
(* hash of a sequence of entries is the sequence itself.  Beyond Volumes'  *)
(* fields a world has image (the contents of the raw partitions), ram (the *)
(* files that were extracted where nothing was mounted) and product.       *)
(***************************************************************************)
EXTENDS Volumes

CONSTANTS
    MAX_PART,       \* bound: entries of partlist
    NamePrefixes    \* pairs of mount points of which the first begins the second

RawTypes == {"mtd", "bml", "emmc"}
IsRaw(v) == v.fs \in RawTypes

SodEntry(product, parts) == [kind |-> "SOD", mp |-> "", what |-> product, parts |-> parts]
EodEntry(hash) == [kind |-> "EOD", mp |-> "", what |-> hash, parts |-> << >>]
FileEntry(mp, name) == [kind |-> "file", mp |-> mp, what |-> name, parts |-> << >>]
ImageEntry(mp, data) == [kind |-> "image", mp |-> mp, what |-> data, parts |-> << >>]

-----------------------------------------------------------------------------
(* part_add() and part_find(): one entry per volume of the table.          *)
PartFind(parts, mp) == SelectSeq(parts, LAMBDA q : q.mp = mp)

PartAdd(w, parts, mp) ==
    IF \/ VolumeForPath(w, Path(mp)) = NoVolume
       \/ PartFind(parts, mp) # << >> \/ Len(parts) = MAX_PART
    THEN Rc(FALSE, parts) ELSE Rc(TRUE, Append(parts, [mp |-> mp, used |-> 0]))

(* update_progress(): the size of the part is a divisor.                   *)
Divides(parts, mp) == \A i \in DOMAIN parts : parts[i].mp = mp => parts[i].used > 0

(* append_sod(): the part's size is found by mounting it.                  *)
WithSize(s, sized) == [s EXCEPT !.parts = Append(@, sized), !.sod = Append(@, sized)]

SizedPart(s, part) ==
    IF IsRaw(VolumeForPath(s.w, Path(part.mp))) THEN WithSize(s, [part EXCEPT !.used = 1])
    ELSE Given(EnsurePathMounted(s.w, Path(part.mp)), LAMBDA m :
            IF ~m.ok THEN [s EXCEPT !.w = m.w, !.parts = Append(@, part)]
            ELSE WithSize([s EXCEPT !.w = EnsurePathUnmounted(Tick(m.w), Path(part.mp)).w],
                          [part EXCEPT !.used = IF Fails(m.w) THEN 0 ELSE 1]))

(* tar_gz_cb_write(): what is written is hashed, also if it is then lost;  *)
(* after a write that fails the compressor accepts no more.                *)
Written(b, e) ==
    IF ~Divides(b.parts, b.part) THEN [b EXCEPT !.killed = TRUE]
    ELSE LET lost == b.cut \/ Fails(b.w) IN
         [b EXCEPT !.w = Tick(@), !.rc = ~lost, !.cut = lost,
                   !.hash = IF e.kind \in {"SOD", "EOD"} THEN @ ELSE Append(@, e),
                   !.stream = IF lost THEN @ ELSE Append(@, e)]

(* A file or device is looked at before its header is written.             *)
Appended(b, e) ==
    IF Fails(b.w) THEN [b EXCEPT !.w = Tick(@), !.rc = FALSE]
    ELSE Written([b EXCEPT !.w = Tick(@)], e)

(* do_backup_tree(): /data/media stays out; it ends at the first failure.  *)
BackupTree(b, mp) ==
    LET names == b.w.disk[mp] \ (IF mp = "/data" /\ b.w.datamedia THEN {"media"} ELSE {}) IN
    FoldLeft(LAMBDA c, n : IF c.killed \/ ~c.rc THEN c ELSE Appended(c, FileEntry(mp, n)),
             [b EXCEPT !.rc = TRUE], SetToSeq(names))

(* One volume of do_backup(): one that cannot be mounted is passed over,   *)
(* and the result is that of the last one.                                 *)
PartDone(t, mp) == IF t.killed THEN t ELSE [t EXCEPT !.w = EnsurePathUnmounted(@, Path(mp)).w]

BackupVolume(b, m, mp) ==
    IF m.ok THEN PartDone(BackupTree([b EXCEPT !.w = m.w], mp), mp) ELSE [b EXCEPT !.w = m.w]

BackupPart(b, part) ==
    LET set == [b EXCEPT !.part = part.mp] IN
    IF b.killed THEN b
    ELSE IF IsRaw(VolumeForPath(b.w, Path(part.mp))) THEN Appended(set, ImageEntry(part.mp, b.w.image[part.mp]))
    ELSE BackupVolume(set, EnsurePathMounted(b.w, Path(part.mp)), part.mp)

(* The parts, the header with their sizes, their contents and the trailer. *)
AddParts(w, names) ==
    FoldLeft(LAMBDA r, mp : IF r.ok THEN PartAdd(w, r.w, mp) ELSE r, Rc(TRUE, << >>), names)

Header(sod, product) ==
    [Written([w |-> sod.w, parts |-> sod.parts, part |-> "", rc |-> TRUE, killed |-> FALSE,
              cut |-> FALSE, hash |-> << >>, stream |-> << >>], SodEntry(product, sod.sod)) EXCEPT !.rc = TRUE]

AllParts(begin) == FoldLeft(BackupPart, begin, begin.parts)

Trailer(body) ==
    [IF body.killed THEN body ELSE Written(body, EodEntry(body.hash)) EXCEPT !.rc = body.rc]

Sent(end) == [rc |-> end.rc, killed |-> end.killed, stream |-> end.stream, w |-> end.w]

DoBackup(w, names) ==
    Given(AddParts(w, names), LAMBDA add :
        IF ~add.ok THEN [rc |-> FALSE, killed |-> FALSE, stream |-> << >>, w |-> w]
        ELSE Sent(Trailer(AllParts(Header(
                FoldLeft(SizedPart, [w |-> w, parts |-> << >>, sod |-> << >>], add.w), w.product)))))

-----------------------------------------------------------------------------
(* verify_sod(): a part that cannot be added is looked for all the same.   *)
PartKnown(c, known, part) ==
    IF PartFind(known, part.mp) = << >> THEN [c EXCEPT !.killed = TRUE]
    ELSE [c EXCEPT !.parts = [i \in DOMAIN known |-> IF known[i].mp = part.mp THEN part ELSE known[i]]]

VerifySod(r, e) ==
    [FoldLeft(LAMBDA c, part : PartKnown(c, PartAdd(c.w, c.parts, part.mp).w, part), r, e.parts)
        EXCEPT !.hashing = TRUE, !.rc = e.what # "" /\ e.what = r.w.product]

(* verify_eod(): what was read before the header of this entry.            *)
HashBefore(r, e) == r.hash
SameLength(r, e) == Len(e.what) = Len(HashBefore(r, e))
SameHash(r, e) == e.what = HashBefore(r, e)
VerifyEod(r, e) == [r EXCEPT !.rc = SameHash(r, e)]

(* do_restore_tree(): the first file of another volume makes it the        *)
(* current one, formatted and mounted.  The names are compared as far as   *)
(* the new one goes.                                                       *)
NewMount(cur, mp) == cur # mp /\ <<mp, cur>> \notin NamePrefixes

Left(r) == IF r.cur = "" THEN r.w ELSE EnsurePathUnmounted(r.w, Path(r.cur)).w

SwitchTo(r, mp) ==
    Given(Then(Then(EnsurePathUnmounted(Left(r), Path(mp)), LAMBDA u : FormatVolume(u, Path(mp), FALSE)),
               LAMBDA f : EnsurePathMounted(f, Path(mp))),
          LAMBDA m : [r EXCEPT !.cur = mp, !.part = mp, !.w = m.w, !.rc = m.ok,
                               !.killed = m.ok /\ PartFind(r.parts, mp) = << >>])

ExtractTo(r, mp, name) ==
    IF ~Divides(r.parts, r.part) THEN [r EXCEPT !.killed = TRUE]
    ELSE IF Fails(r.w) \/ mp \in r.w.readOnly THEN [r EXCEPT !.w = Tick(@), !.rc = FALSE]
    ELSE IF mp \in r.w.mounted THEN [r EXCEPT !.w = [Tick(@) EXCEPT !.disk[mp] = @ \cup {name}]]
    ELSE [r EXCEPT !.w = [Tick(@) EXCEPT !.ram = @ \cup {<<mp, name>>}]]

ExtractUnless(s, e) == IF s.killed \/ ~s.rc THEN s ELSE ExtractTo(s, e.mp, e.what)
RestoreFile(r, e) == ExtractUnless(IF NewMount(r.cur, e.mp) THEN SwitchTo(r, e.mp) ELSE r, e)

(* A raw partition; the data of one that is not known is not skipped, and  *)
(* is then taken for a header.                                             *)
RestoreImage(r, e) ==
    IF VolumeForPath(r.w, Path(e.mp)) = NoVolume THEN [r EXCEPT !.rc = FALSE]
    ELSE IF PartFind(r.parts, e.mp) = << >> \/ ~Divides(r.parts, e.mp) THEN [r EXCEPT !.killed = TRUE]
    ELSE IF Fails(r.w) THEN [r EXCEPT !.w = Tick(@), !.rc = FALSE]
    ELSE [r EXCEPT !.w = [Tick(@) EXCEPT !.image[e.mp] = e.what], !.part = e.mp]

RestoreEntry(r, e) ==
    IF r.killed \/ ~r.rc THEN r
    ELSE [CASE e.kind = "SOD" -> VerifySod(r, e)
            [] e.kind = "EOD" -> VerifyEod(r, e)
            [] e.kind = "file" -> RestoreFile(r, e)
            [] e.kind = "image" -> RestoreImage(r, e) EXCEPT !.hash = IF r.hashing THEN Append(@, e) ELSE @]

(* The end of the stream, with or without the end marker, is a success; a  *)
(* stream that breaks off within a block is not.                           *)
DoRestore(w, stream, torn) ==
    LET begin == [w |-> w, parts |-> << >>, cur |-> "", part |-> "", hash |-> << >>,
                  hashing |-> FALSE, rc |-> TRUE, killed |-> FALSE] IN
    Given(FoldLeft(RestoreEntry, begin, stream), LAMBDA r :
        [rc |-> r.rc /\ ~torn, killed |-> r.killed, w |-> IF r.killed THEN r.w ELSE Left(r)])

=============================================================================
