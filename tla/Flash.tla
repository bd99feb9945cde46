------------------------------- MODULE Flash --------------------------------
(***************************************************************************)
(* Partitions by name on the three kinds of flash: the tables that         *)
(* mtdutils and mmcutils keep of them, and the commands of flashutils that *)
(* back up, restore and erase one.  A world f has: kinds (which of the     *)
(* files that betray a kind exist), flash (the_flash_type), proc (the      *)
(* lines of /proc/mtd), mtd (g_mtd_state), dev (MTD devices by name), disk *)
(* (the sectors of the partition table), mmc (g_mmc_state), node (contents *)
(* of block devices and files), files (which of them are files), and the   *)
(* fields of Faults.                                                       *)
(* A partition is named by a word, or by the path of its device: a record  *)
(* [path, kind, name].                                                     *)
(***************************************************************************)
EXTENDS Mtd

CONSTANTS
    MaxMtd,         \* bound: entries of the MTD table
    MAX_PARTITIONS, \* bound: entries of the MMC table
    Sector,         \* units of a 512-byte sector
    BmlSize         \* units of the 4096-byte buffer of bmlutils

None == "none"
BOOT == "bml7"
RECOVERY == "bml8"

Result(ok, f) == [ok |-> ok, f |-> f]

-----------------------------------------------------------------------------
(* mtd_scan_partitions(): the old entries go first, so that nothing of an  *)
(* earlier scan is found after one that fails.                             *)
NoMtd == [i \in 0 .. MaxMtd - 1 |-> None]

MtdScanPartitions(f) ==
    IF Fails(f) THEN [count |-> -1, f |-> [Tick(f) EXCEPT !.mtd = NoMtd]]
    ELSE [count |-> Len(f.proc),
          f |-> [Tick(f) EXCEPT !.mtd = FoldLeft(LAMBDA t, l : [t EXCEPT ![l.num] = l.name], NoMtd, f.proc)]]

MtdFindPartitionByName(f, name) == \E i \in DOMAIN f.mtd : f.mtd[i] = name

-----------------------------------------------------------------------------
(* mmc_partition_name(): boot and recovery by their type, the others by    *)
(* the order in which their file systems occur.                            *)
Ext3Partitions == <<"system", "userdata", "cache">>
VfatPartitions == <<"modem">>

Nth(names, n) == IF n < Len(names) THEN names[n + 1] ELSE None

MmcAdd(g, type, first) ==
    LET named == [device |-> Len(g.parts) + 1, type |-> type, first |-> first,
                  fs |-> CASE type = "EXT3" -> "ext3" [] type = "VFAT" -> "vfat" [] OTHER -> None,
                  name |-> CASE type = "BOOT" -> "boot" [] type = "RECOVERY" -> "recovery"
                             [] type = "EXT3" -> Nth(Ext3Partitions, g.ext3)
                             [] type = "VFAT" -> Nth(VfatPartitions, g.vfat)
                             [] OTHER -> None] IN
    [parts |-> Append(g.parts, named),
     ext3 |-> IF type = "EXT3" /\ g.ext3 < Len(Ext3Partitions) THEN g.ext3 + 1 ELSE g.ext3,
     vfat |-> IF type = "VFAT" /\ g.vfat < Len(VfatPartitions) THEN g.vfat + 1 ELSE g.vfat]

Full(g) == Len(g.parts) = MAX_PARTITIONS

(* mmc_read_mbr(): the four entries of the first sector, then the chain of *)
(* extended boot records, whose places are relative to the first of them.  *)
RECURSIVE ReadEbr(_, _, _, _)
ReadEbr(disk, g, first, current) ==
    LET e == disk[current]
        added == MmcAdd(g, e.type, e.first + current)
        next == first + e.next IN
    IF current \notin DOMAIN disk THEN [ok |-> FALSE, g |-> g]
    ELSE IF ~e.signed THEN [ok |-> TRUE, g |-> g]
    ELSE IF Full(added) \/ e.next = 0 THEN [ok |-> TRUE, g |-> added]
    ELSE ReadEbr(disk, added, first, next)

MmcReadMbr(disk, g) ==
    LET mbr == disk[0]
        main == FoldLeft(LAMBDA h, e : IF Full(h) THEN h ELSE MmcAdd(h, e.type, e.first), g, mbr.entries) IN
    IF ~mbr.signed THEN [ok |-> FALSE, g |-> g]
    ELSE IF Full(main) \/ mbr.entries[4].type # "EBR" THEN [ok |-> TRUE, g |-> main]
    ELSE ReadEbr(disk, main, mbr.entries[4].first, mbr.entries[4].first)

(* mmc_scan_partitions(): the counters of names start again.               *)
CountersReset(g) == [parts |-> << >>, ext3 |-> 0, vfat |-> 0]

MmcScanPartitions(f) ==
    IF Fails(f) THEN [Tick(f) EXCEPT !.mmc = CountersReset(@)]
    ELSE [Tick(f) EXCEPT !.mmc = MmcReadMbr(f.disk, CountersReset(@)).g]

(* mmc_find_partition_by_name(), by_device_index(): a partition without a  *)
(* name is not found either way.                                           *)
MmcFind(f, p) ==
    SelectSeq(f.mmc.parts, LAMBDA q : q.name # None /\ IF p.path THEN q.device = p.name ELSE q.name = p.name)

-----------------------------------------------------------------------------
(* mmc_raw_copy() and mmc_raw_dump_internal(), and the same in bmlutils:   *)
(* sector by sector; of a file that has an odd size byte by byte, without  *)
(* a look at errors, as at those of the last flush.                        *)
RawCopy(f, from, to) ==
    LET data == f.node[from]
        sectors == Len(data) \div Sector
        checked == Len(data) % Sector = 0
        start == [f EXCEPT !.node[to] = IF to \in f.files THEN << >> ELSE @]
        Copy(s, i) ==
            IF ~s.ok THEN s
            ELSE [ok |-> ~Fails(s.f),
                  f |-> IF Fails(s.f) THEN Tick(s.f)
                        ELSE [Tick(s.f) EXCEPT !.node[to] =
                                LET m == Min({i * Sector, Len(data)}) IN
                                SubSeq(data, 1, m) \o SubSeq(@, m + 1, Len(@))]]
        Copied(s) == Result(s.ok \/ ~checked, s.f) IN
    IF from \notin DOMAIN f.node \/ to \notin DOMAIN f.node \/ f.off THEN Result(FALSE, f)
    ELSE Copied(FoldLeft(Copy, Result(TRUE, start), [i \in 1 .. IF checked THEN sectors ELSE sectors + 1 |-> i]))

(* restore_internal() of bmlutils: the last buffer is filled with zeros.   *)
BmlRestoreInternal(f, node, file) ==
    LET data == f.node[file]
        pad == (BmlSize - (Len(data) % BmlSize)) % BmlSize
        whole == data \o [i \in 1 .. pad |-> 0]
        Write(s, i) ==
            IF ~s.ok THEN s
            ELSE [ok |-> ~Fails(s.f),
                  f |-> IF Fails(s.f) THEN Tick(s.f)
                        ELSE [Tick(s.f) EXCEPT !.node[node] =
                                SubSeq(whole, 1, i * BmlSize) \o SubSeq(@, i * BmlSize + 1, Len(@))]] IN
    IF file \notin DOMAIN f.node \/ node \notin DOMAIN f.node THEN Result(FALSE, f)
    ELSE FoldLeft(Write, Result(TRUE, f), [i \in 1 .. Len(whole) \div BmlSize |-> i])

-----------------------------------------------------------------------------
(* The commands for MTD.  The result of writing out the last, incomplete   *)
(* block and of closing is not looked at.                                  *)
FoundMtd(scan, p) == scan.count > 0 /\ MtdFindPartitionByName(scan.f, p.name)

RestoredMtd(f, p, w) ==
    Result(w.ok, [f EXCEPT !.dev[p.name] = IF w.ok THEN MtdWriteClose(MtdEraseBlocks(w.c, -1).c).c.d ELSE w.c.d])

CmdMtdRestore(f, p, file) ==
    IF file \notin DOMAIN f.node THEN Result(FALSE, f)
    ELSE Given(MtdScanPartitions(f), LAMBDA s :
             IF ~FoundMtd(s, p) THEN Result(FALSE, s.f)
             ELSE RestoredMtd(s.f, p, WriteAnew(s.f.dev[p.name], s.f.node[file])))

(* Reading goes on until mtd_read_data() fails, at the end or before it.   *)
RECURSIVE ReadAll(_)
ThenTheRest(block) == IF block.ok THEN block.data \o ReadAll(block.r) ELSE << >>
ReadAll(r) == ThenTheRest(MtdReadData(r, EraseSize))

CmdMtdBackup(f, p, file) ==
    Given(MtdScanPartitions(f), LAMBDA s :
        IF ~FoundMtd(s, p) THEN Result(FALSE, s.f)
        ELSE Result(~Fails(s.f),
                    [Tick(s.f) EXCEPT !.node[file] =
                        IF Fails(s.f) THEN << >> ELSE ReadAll(MtdReadPartition(s.f.dev[p.name]))]))

(* The size that mtd_erase_blocks() returns is compared with 0, not -1.    *)
CmdMtdErase(f, p) ==
    Given(MtdScanPartitions(f), LAMBDA s :
        IF ~FoundMtd(s, p) THEN Result(FALSE, s.f)
        ELSE Result(TRUE, [s.f EXCEPT !.dev[p.name] = MtdEraseBlocks(MtdWritePartition(@), -1).c.d]))

(* The commands for MMC: a path is taken as it is, a name is looked up.    *)
MmcNode(part) == Nth(<<"mmc1", "mmc2", "mmc3", "mmc4", "mmc5", "mmc6">>, part.device - 1)

MmcCopyNode(f, node, file, restore) == IF restore THEN RawCopy(f, file, node) ELSE RawCopy(f, node, file)

MmcCopyFound(f, found, file, restore) ==
    IF found = << >> THEN Result(FALSE, f) ELSE MmcCopyNode(f, MmcNode(found[1]), file, restore)

CmdMmcCopy(f, p, file, restore) ==
    IF p.path THEN MmcCopyNode(f, p.name, file, restore)
    ELSE Given(MmcScanPartitions(f), LAMBDA g : MmcCopyFound(g, MmcFind(g, p), file, restore))

(* cmd_mmc_erase_raw_partition() does nothing.                             *)
CmdMmcErase(f, p) == Result(TRUE, f)

(* The commands for BML: boot is restored whichever partition is, unless   *)
(* it is "recoveryonly".                                                   *)
BmlRestoreOther(boot, p, file) ==
    IF ~boot.ok \/ (~p.path /\ p.name = "boot") THEN boot
    ELSE BmlRestoreInternal(boot.f, IF p.path THEN p.name ELSE RECOVERY, file)

CmdBmlRestore(f, p, file) ==
    IF ~p.path /\ p.name \notin {"boot", "recovery", "recoveryonly"} THEN Result(FALSE, f)
    ELSE BmlRestoreOther(IF p.name = "recoveryonly" THEN Result(TRUE, f) ELSE BmlRestoreInternal(f, BOOT, file), p, file)

CmdBmlBackup(f, p, file) ==
    LET node == IF p.path THEN p.name ELSE IF p.name = "boot" THEN BOOT ELSE RECOVERY IN
    IF ~p.path /\ p.name \notin {"boot", "recovery"} THEN Result(FALSE, f) ELSE RawCopy(f, node, file)

CmdBmlErase(f, p) == Result(TRUE, f)

-----------------------------------------------------------------------------
(* flashutils: device_flash_type() is found out once; a path tells the     *)
(* kind of its device.                                                     *)
DeviceFlashType(f) ==
    IF f.flash # "UNKNOWN" THEN f.flash
    ELSE IF "bml" \in f.kinds THEN "BML"
    ELSE IF "emmc" \in f.kinds THEN "MMC"
    ELSE IF "mtd" \in f.kinds THEN "MTD" ELSE "UNSUPPORTED"

GetFlashType(partitionType) ==
    CASE partitionType = "mtd" -> "MTD" [] partitionType = "emmc" -> "MMC"
      [] partitionType = "bml" -> "BML" [] OTHER -> "UNSUPPORTED"

DetectPartition(f, partitionType, p) ==
    IF partitionType # None THEN GetFlashType(partitionType)
    ELSE IF p.path THEN p.kind ELSE DeviceFlashType(f)

Asked(f) == [f EXCEPT !.flash = DeviceFlashType(f)]

RestoreRawPartition(f, partitionType, p, file) ==
    LET type == DetectPartition(f, partitionType, p) IN
    CASE type = "MTD" -> CmdMtdRestore(Asked(f), p, file)
      [] type = "MMC" -> CmdMmcCopy(Asked(f), p, file, TRUE)
      [] type = "BML" -> CmdBmlRestore(Asked(f), p, file)
      [] OTHER -> Result(FALSE, Asked(f))

BackupRawPartition(f, partitionType, p, file) ==
    LET type == DetectPartition(f, partitionType, p) IN
    CASE type = "MTD" -> CmdMtdBackup(Asked(f), p, file)
      [] type = "MMC" -> CmdMmcCopy(Asked(f), p, file, FALSE)
      [] type = "BML" -> CmdBmlBackup(Asked(f), p, file)
      [] OTHER -> Result(FALSE, Asked(f))

EraseRawPartition(f, partitionType, p) ==
    LET type == DetectPartition(f, partitionType, p) IN
    CASE type = "MTD" -> CmdMtdErase(Asked(f), p)
      [] type = "MMC" -> CmdMmcErase(Asked(f), p)
      [] type = "BML" -> CmdBmlErase(Asked(f), p)
      [] OTHER -> Result(FALSE, Asked(f))

=============================================================================
