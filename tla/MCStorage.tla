----------------------------- MODULE MCStorage ------------------------------
(***************************************************************************)
(* The devices, streams and volumes of the model: a state is that of a job *)
(* of Storage or of the volumes of Roots.                                  *)
(***************************************************************************)
EXTENDS Storage, Roots

CONSTANTS MaxData,      \* bound: units of data that are written
          MaxFail,      \* bound: the device call that fails
          MaxLoss,      \* bound: the device call of flash_image during which the power is lost
          MaxRuns,      \* bound: the runs of flash_image
          MaxBuFail     \* bound: the system call of a backup or restore that fails

-----------------------------------------------------------------------------
(* Flash devices: blocks 1, 2, 3 ... filled with their number.             *)
Contents == [b \in Blocks |-> [i \in 1 .. EraseSize |-> b + 1]]
Bytes(n) == [i \in 1 .. n |-> 10 + i]

WriteJobs ==
    {[kind |-> "write", d |-> Device(Contents, bad, worn, k, FALSE), data |-> <<Bytes(n), Bytes(m)>>, erase |-> e] :
        bad \in {s \in SUBSET Blocks : Cardinality(s) <= 2}, worn \in {{}} \cup {{b} : b \in Blocks},
        k \in 0 .. MaxFail, n \in {1, EraseSize, EraseSize + 1}, m \in 0 .. MaxData, e \in BOOLEAN}

MessageJobs ==
    {[kind |-> "message", message |-> [i \in 1 .. WriteSize |-> 30 + i],
      d |-> Device([Contents EXCEPT ![t] = Torn], bad, worn, k, p)] :
        t \in Blocks, bad \in SUBSET Blocks, worn \in {{}} \cup {{b} : b \in Blocks}, k \in 0 .. MaxFail, p \in BOOLEAN}

ImageJobs ==
    {[kind |-> "image", image |-> Bytes(n), d |-> Device(Contents, bad, {}, 0, TRUE), maxLoss |-> MaxLoss, maxRuns |-> MaxRuns] :
        n \in 0 .. 2 * EraseSize + 1, bad \in SUBSET Blocks}

(* Partition tables: four entries and up to three logical partitions.      *)
Mbr(t1, t2, t4) ==
    [signed |-> TRUE,
     entries |-> <<[type |-> t1, first |-> 1], [type |-> t2, first |-> 2], [type |-> "RECOVERY", first |-> 3],
                   [type |-> t4, first |-> 10]>>]
Ebr(type, next) == [signed |-> TRUE, type |-> type, first |-> 1, next |-> next]
Disk(t1, t2, t4, u1, u2) ==
    [s \in {0, 10, 20, 30} |->
        CASE s = 0 -> Mbr(t1, t2, t4) [] s = 10 -> Ebr(u1, 10) [] s = 20 -> Ebr(u2, 20) [] OTHER -> Ebr("EXT3", 0)]

(* A world of the flash commands: sizes are whole sectors or not.          *)
Nodes == {"mmc1", "mmc2", "mmc3", "mmc4", "mmc5", "mmc6", "bml7", "bml8", "image"}
Node(n) == [i \in 1 .. 2 * BmlSize |-> n]
World(kinds, disk, image, bad, k) ==
    [kinds |-> kinds, flash |-> "UNKNOWN", proc |-> <<[num |-> 0, name |-> "boot"], [num |-> 2, name |-> "recovery"]>>,
     mtd |-> NoMtd, dev |-> [n \in {"boot", "recovery"} |-> Device(Contents, bad, {}, k, FALSE)], disk |-> disk,
     mmc |-> [parts |-> << >>, ext3 |-> 0, vfat |-> 0], files |-> {"image"},
     node |-> [n \in Nodes |-> CASE n = "image" -> image [] n = "bml7" -> Node(7) [] n = "bml8" -> Node(8)
                                 [] OTHER -> Node(1)],
     fail |-> k, power |-> FALSE, off |-> FALSE]

PlainDisk == Disk("BOOT", "EXT3", "EBR", "VFAT", "EXT3")

Kinds == {{"bml"}, {"emmc"}, {"mtd"}, {}}
Named(name) == [path |-> FALSE, kind |-> "none", name |-> name]
ByPath(kind, name) == [path |-> TRUE, kind |-> kind, name |-> name]
Partitions == {Named("boot"), Named("recovery"), Named("recoveryonly"), Named("radio"),
               ByPath("MMC", "mmc3"), ByPath("BML", "bml8")}
Images == {Bytes(n) : n \in {0, 1, Sector, 2 * Sector, 2 * BmlSize}}

RawJobs ==
    {[kind |-> kind, f |-> World(kinds, PlainDisk, image, bad, k), type |-> t, p |-> p] :
        kind \in {"restore", "erase"}, kinds \in Kinds, image \in Images, bad \in {{}, {1}}, k \in 0 .. MaxFail,
        t \in {None, "other"}, p \in Partitions}

BackupJobs ==
    {[kind |-> "backup", f |-> World(kinds, PlainDisk, << >>, bad, 0), type |-> None, p |-> p,
      later |-> LET w == World(kinds, PlainDisk, << >>, bad, 0) IN
                [dev |-> [n \in DOMAIN w.dev |-> [w.dev[n] EXCEPT !.blocks = [b \in Blocks |-> Erased]]],
                 node |-> [n \in Nodes |-> Node(9)]]] :
        kinds \in Kinds, bad \in {s \in SUBSET Blocks : Cardinality(s) <= 2}, p \in Partitions}

-----------------------------------------------------------------------------
(* Volumes.                                                                *)
Cache(fs) == Volume("/cache", fs, FALSE, "")
Data(fs) == Volume("/data", fs, FALSE, "")
MCFstabs ==
    {<<Cache("ext4"), Data("ext4"), Volume("/sdcard", "datamedia", FALSE, ""), Volume("auto", "auto", TRUE, "sdcard1")>>,
     <<Cache("yaffs2"), Data("yaffs2"), Volume("/sdcard", "vfat", TRUE, "sdcard0")>>}
MCFiles ==
    [mp \in {"/cache", "/data", "/sdcard", "sdcard1"} |->
        CASE mp = "/cache" -> {"cot", "last"} [] mp = "/data" -> {"apps", "media", "layout"} [] OTHER -> {"pictures"}]

(* Streams: /data and /datadata, of which one name begins the other.       *)
MCNamePrefixes == {<<"/data", "/datadata">>}
BuFstab ==
    <<Data("ext4"), Volume("/datadata", "ext4", FALSE, ""), Volume("/boot", "emmc", FALSE, ""),
      Volume("/sdcard", "datamedia", FALSE, "")>>
BuWorld(data, broken, product, image, k) ==
    [LoadVolumeTable([fstab |-> << >>, datamedia |-> FALSE, table |-> {}, mounted |-> {}, readOnly |-> {},
                      broken |-> broken, vold |-> {}, media |-> TRUE, sdlink |-> FALSE, instead |-> {},
                      disk |-> [mp \in {"/data", "/datadata"} |-> IF mp = "/data" THEN data ELSE {"d"}],
                      image |-> [mp \in {"/boot"} |-> image], ram |-> {}, product |-> product,
                      fail |-> 0, power |-> FALSE, off |-> FALSE], BuFstab)
        EXCEPT !.fail = k]

Requests == {<<"/data">>, <<"/data", "/datadata">>, <<"/datadata", "/data">>, <<"/boot", "/data">>,
             <<"/data", "/boot", "/datadata">>, <<"/data", "/data">>, <<"/system">>,
             <<"/boot", "/data", "/datadata", "/sdcard">>}
StreamJob(names, data, broken, k, laterBroken, product, j) ==
    [kind |-> "stream", names |-> names, w |-> BuWorld(data, broken, "p", "image", k),
     later |-> BuWorld({"old", "media"}, laterBroken, product, "old", j)]

StreamJobs ==
    {StreamJob(names, data, {}, 0, broken, "p", k) :
        names \in Requests, data \in {{}, {"a", "b", "media"}}, broken \in {{}, {"/data"}}, k \in 0 .. MaxBuFail}
FaultyBackupJobs ==
    {StreamJob(names, {"a", "layout"}, broken, k, {}, product, 0) :
        names \in Requests, broken \in {{}, {"/data"}, {"/datadata"}}, product \in {"p", "q"}, k \in 0 .. MaxBuFail}

MCStorageJobs ==
    <<WriteJobs, MessageJobs, ImageJobs, RawJobs, BackupJobs, StreamJobs, FaultyBackupJobs>>

-----------------------------------------------------------------------------
NoJob == [kind |-> "none"]

Idle == world = NewWorld(<< >>) /\ call = NoCall /\ left = [calls |-> 0, faults |-> 0, outside |-> 0]

Init == \/ JobInit /\ Idle
        \/ job = NoJob /\ out = Nothing /\ RootsInit

Next ==
    \/ job # NoJob /\ JobNext /\ UNCHANGED rvars
    \/ job = NoJob /\ RootsNext /\ UNCHANGED jvars

Spec == Init /\ [][Next]_<<jvars, rvars>>

=============================================================================
