------------------------------ MODULE Storage -------------------------------
(***************************************************************************)
(* What is done with flash partitions and with backup streams, one job at  *)
(* a time: data are written to a device, a bootloader message is stored, a *)
(* table of partitions is read, an image is backed up or restored by name, *)
(* volumes are sent to a stream that is read back, perhaps not as it was.  *)
(***************************************************************************)
EXTENDS Flash, Bu, TLC

CONSTANT StorageJobs    \* sets of jobs, each with the device or world it starts with
VARIABLES job, out

jvars == <<job, out>>
Nothing == [kind |-> "nothing"]

JobInit == (\E i \in DOMAIN StorageJobs : job \in StorageJobs[i]) /\ out = Nothing

Does(kind) == job.kind = kind /\ out = Nothing /\ UNCHANGED job

(* Some calls of mtd_write_data(), and mtd_erase_blocks() of the rest if   *)
(* the job says so, up to the first failure; then mtd_write_close().       *)
WriteFlash ==
    /\ Does("write")
    /\ \E put \in {FoldLeft(LAMBDA s, data : IF s.ok THEN MtdWriteData(s.c, data) ELSE s,
                             [ok |-> TRUE, c |-> MtdWritePartition(job.d)], job.data)} :
       \E rest \in {IF put.ok /\ job.erase THEN MtdEraseBlocks(put.c, -1) ELSE put} :
       \E close \in {MtdWriteClose(rest.c)} :
       out' = [kind |-> "write", ok |-> rest.ok /\ close.ok, d |-> close.c.d, skipped |-> close.c.badBlocks]

(* set_bootloader_message(), then get_bootloader_message() after a reboot. *)
StoreMessage ==
    /\ Does("message")
    /\ \E set \in {SetBootloaderMessage(job.d, job.message)} :
       \E get \in {GetBootloaderMessage([set.d EXCEPT !.off = FALSE, !.fail = 0])} :
       out' = [kind |-> "message", ok |-> set.ok, off |-> set.d.off, skipped |-> set.skipped,
               d |-> set.d, get |-> get]

(* flash_image, again after each time the power was lost.                  *)
StartImage ==
    /\ Does("image")
    /\ \E k \in 0 .. job.maxLoss :
        out' = [kind |-> "image", runs |-> 1] @@ FlashImage([job.d EXCEPT !.fail = k], job.image)

FlashAgain ==
    /\ out.kind = "image" /\ out.d.off /\ out.runs < job.maxRuns
    /\ \E k \in 0 .. job.maxLoss :
        out' = [kind |-> "image", runs |-> out.runs + 1]
               @@ FlashImage([out.d EXCEPT !.off = FALSE, !.fail = k], job.image)
    /\ UNCHANGED job

RestoreRaw ==
    /\ Does("restore")
    /\ \E r \in {RestoreRawPartition(job.f, job.type, job.p, "image")} :
       out' = [kind |-> "restore", ok |-> r.ok, f |-> r.f]

EraseRaw ==
    /\ Does("erase")
    /\ \E r \in {EraseRawPartition(job.f, job.type, job.p)} :
       out' = [kind |-> "erase", ok |-> r.ok, f |-> r.f]

(* A backup, other contents in the meantime, and the backup restored.      *)
BackupRaw ==
    /\ Does("backup")
    /\ \E b \in {BackupRawPartition(job.f, job.type, job.p, "image")} :
       LET other == [b.f EXCEPT !.dev = job.later.dev,
                                !.node = [n \in DOMAIN @ |-> IF n = "image" THEN @[n] ELSE job.later.node[n]]] IN
       \E r \in {RestoreRawPartition(other, job.type, job.p, "image")} :
       out' = [kind |-> "backup", ok |-> b.ok /\ r.ok, f |-> r.f]

(* bu: a backup to a stream, and the stream, as the job alters it,         *)
(* restored on the same device or another.                                 *)
SendStream ==
    /\ Does("stream")
    /\ \E b \in {DoBackup(job.w, job.names)} :
       out' = [kind |-> "sent", b |-> b, stream |-> b.stream, altered |-> FALSE]

AlterStream ==
    /\ out.kind = "sent" /\ ~out.altered
    /\ \E i \in DOMAIN out.stream, j \in DOMAIN out.stream :
        LET s == out.stream IN
        \/ i = j /\ out' = [out EXCEPT !.altered = TRUE, !.stream = RemoveAt(s, i)]
        \/ i = j /\ out' = [out EXCEPT !.altered = TRUE, !.stream = InsertAt(s, i, s[i])]
        \/ i < j /\ out' = [out EXCEPT !.altered = TRUE, !.stream = [s EXCEPT ![i] = s[j], ![j] = s[i]]]
        \/ /\ i = j /\ s[i].kind \in {"file", "image"}
           /\ out' = [out EXCEPT !.altered = TRUE, !.stream = [s EXCEPT ![i].what = "other"]]
    /\ UNCHANGED job

ReceiveStream ==
    /\ out.kind = "sent"
    /\ \E torn \in BOOLEAN :
        out' = [kind |-> "received", b |-> out.b, stream |-> out.stream, torn |-> torn,
                r |-> DoRestore(job.later, out.stream, torn)]
    /\ UNCHANGED job

JobNext ==
    \/ WriteFlash \/ StoreMessage \/ StartImage \/ FlashAgain \/ RestoreRaw \/ EraseRaw \/ BackupRaw
    \/ SendStream \/ AlterStream \/ ReceiveStream

-----------------------------------------------------------------------------
(* The blocks that a write uses: those it did not skip, in their order.    *)
Used(skipped) == SetToSortSeq(Blocks \ ToSet(skipped), <)
BlockOf(data, i) == SubSeq(data \o [k \in 1 .. EraseSize |-> 0], EraseSize * (i - 1) + 1, EraseSize * i)
BlockCount(data) == (Len(data) + EraseSize - 1) \div EraseSize
Quiet(d) == [d EXCEPT !.off = FALSE, !.fail = 0]

(* Writes that report success are kept: bad blocks, blocks that do not     *)
(* verify and one call that fails notwithstanding, the blocks of the data  *)
(* are in the blocks that were not skipped, in order; and a reader gets    *)
(* the data unless it was a block the driver does not call bad that was    *)
(* skipped.                                                                *)
FlashKept ==
    out.kind = "write" /\ out.ok =>
        LET data == FlattenSeq(job.data)
            used == Used(out.skipped) IN
        /\ \A i \in 1 .. BlockCount(data) : out.d.blocks[used[i]] = BlockOf(data, i)
        /\ ToSet(out.skipped) \subseteq job.d.bad /\ data # << >> =>
            MtdReadData(MtdReadPartition(Quiet(out.d)), Len(data)).data = data

(* A bootloader message that is reported as stored is read back, and the   *)
(* pages beside it are as they were, unless a block that is not bad was    *)
(* skipped (for the pages, unless any call failed: where reading passes    *)
(* over a block, writing need not); one that could not be read is not      *)
(* overwritten.                                                            *)
MessageKept ==
    out.kind = "message" =>
        LET before == MtdReadData(MtdReadPartition(Quiet(job.d)), MiscSize)
            after == MtdReadData(MtdReadPartition(Quiet(out.d)), MiscSize) IN
        /\ out.ok /\ ToSet(out.skipped) \subseteq job.d.bad =>
            /\ out.get.ok /\ out.get.message = job.message
            /\ \A i \in 1 .. MiscSize : i \notin CommandPage /\ job.d.fail = 0 => after.data[i] = before.data[i]
        /\ ~before.ok => ~out.ok /\ out.d.blocks = job.d.blocks

(* Wherever the power is lost, and however often, flash_image never leaves *)
(* the header of the image in front of anything but the image, which is    *)
(* what allows it to take the header for the whole the next time; and its  *)
(* exit status 0 means that the image is there.                            *)
ImageWhole ==
    out.kind = "image" =>
        LET Read(n) == MtdReadData(MtdReadPartition(Quiet(out.d)), n)
            n == Min({HEADER_SIZE, Len(job.image)})
            header == Read(n) IN
        (header.ok /\ header.data = SubSeq(job.image, 1, n)) \/ out.ok => Read(Len(job.image)).data = job.image

Layout(disk) ==
    LET main == disk[0].entries
        ebr == main[4].first
        RECURSIVE Chain(_)
        Chain(at) == <<[type |-> disk[at].type, first |-> at + disk[at].first]>>
                     \o IF disk[at].next = 0 THEN << >> ELSE Chain(ebr + disk[at].next) IN
    main \o (IF main[4].type = "EBR" THEN Chain(ebr) ELSE << >>)

NamedNode(f, p) ==
    IF p.path THEN p.name
    ELSE IF p.name = "recoveryonly" THEN RECOVERY
    ELSE IF DeviceFlashType(f) = "BML" THEN (IF p.name = "boot" THEN BOOT ELSE RECOVERY)
    ELSE LET all == Layout(f.disk)
             type == IF p.name = "boot" THEN "BOOT" ELSE "RECOVERY"
             i == CHOOSE i \in DOMAIN all : all[i].type = type /\ \A j \in 1 .. i - 1 : all[j].type # type IN
         <<"mmc1", "mmc2", "mmc3", "mmc4", "mmc5", "mmc6">>[i]

(* restore_raw_partition() that returns 0 put the image, and nothing else, *)
(* on the partition that was named, and erase_raw_partition() touches no   *)
(* other: of block devices the one whose entry in the partition table has  *)
(* the name.  (On BML boot is written too, whichever partition is named.)  *)
(* A backup of a raw partition that exists can be made and restored, and   *)
(* whatever is on the flash in the meantime, afterwards a reader sees what *)
(* was there at the time of the backup, also behind blocks that are bad.   *)
RawExact ==
    LET type == DetectPartition(job.f, job.type, job.p)
        node == NamedNode(job.f, job.p) IN
    /\ out.kind \in {"restore", "erase"} =>
        LET image == job.f.node["image"] IN
        /\ \A n \in DOMAIN job.f.dev \ {job.p.name} : out.f.dev[n] = job.f.dev[n]
        /\ out.f.node["image"] = image
        /\ out.kind = "erase" => out.f.node = job.f.node
        /\ out.ok /\ out.kind = "restore" /\ type \in {"MMC", "BML"} /\ Len(image) % Sector = 0 =>
            /\ SubSeq(out.f.node[node], 1, Len(image)) = image
            /\ \A n \in DOMAIN job.f.node \ {node, BOOT} : out.f.node[n] = job.f.node[n]
    /\ out.kind = "backup" =>
        /\ type # "UNSUPPORTED" /\ (job.p.path \/ job.p.name \in {"boot", "recovery"}) => out.ok
        /\ out.ok => IF type = "MTD"
                     THEN ReadAll(MtdReadPartition(out.f.dev[job.p.name]))
                          = ReadAll(MtdReadPartition(job.f.dev[job.p.name]))
                     ELSE out.f.node[node] = job.f.node[node]

-----------------------------------------------------------------------------
(* What format_volume() leaves, and do_backup_tree() does not send.        *)
Spared == {"media", "layout", "cot"}

(* A volume whose name begins the name of the one before it is taken for   *)
(* that one when the stream is restored.                                   *)
Distinguished(names) == \A i \in 1 .. Len(names) - 1 : <<names[i + 1], names[i]>> \notin NamePrefixes

Restored == out.r.rc /\ ~out.r.killed

(* A stream is restored as it was backed up, or refused.  When nothing     *)
(* failed in the backup and the stream is unaltered, on a device with the  *)
(* same table: if the restore reports success, whichever of its calls      *)
(* failed, every volume has the files of the backup and no other, raw      *)
(* partitions their images, and nothing went to the ramdisk; if none       *)
(* failed it does report success.  A stream that was altered is noticed,   *)
(* if it has its two ends: do_restore does not return 0; and nothing is    *)
(* written by one for another product.                                     *)
StreamExact ==
    out.kind = "received" =>
        /\ out.stream = out.b.stream /\ Distinguished(job.names) /\ job.w.fail = 0 /\ job.w.broken = {}
           /\ out.b.rc /\ ~out.b.killed /\ job.later.product = job.w.product =>
            /\ job.later.fail = 0 /\ ~out.torn /\ job.later.broken = {} => Restored
            /\ Restored =>
                /\ out.r.w.ram = {}
                /\ \A mp \in ToSet(job.names) :
                    IF mp \in DOMAIN job.w.image THEN out.r.w.image[mp] = job.w.image[mp]
                    ELSE job.w.disk[mp] \ Spared # {} => out.r.w.disk[mp] \ Spared = job.w.disk[mp] \ Spared
        /\ out.b.stream # << >> /\ out.stream # << >> /\ Head(out.stream).kind = "SOD" =>
            /\ Last(out.stream) = Last(out.b.stream) /\ Last(out.stream).kind = "EOD"
               /\ out.stream # out.b.stream /\ Head(out.stream) = Head(out.b.stream) => ~Restored
            /\ job.later.product # job.w.product =>
                ~Restored /\ out.r.w.disk = job.later.disk /\ out.r.w.image = job.later.image

=============================================================================
