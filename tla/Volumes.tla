------------------------------ MODULE Volumes -------------------------------
(***************************************************************************)
(* The volumes of /etc/recovery.fstab, as roots.cpp mounts, unmounts and   *)
(* formats them, with the table of mounted volumes of mtdutils/mounts.c.   *)
(* A world w has: fstab, datamedia (is_datamedia), table (the mount points *)
(* found by the last scan), and outside of the process: mounted, readOnly, *)
(* broken (the mount points of damaged file systems), vold (the mount      *)
(* points of volumes with a medium that vold manages), disk (the           *)
(* names in the root directory of each volume), media (there are files in  *)
(* /data/media), sdlink (/sdcard is the link to it), instead (history: the *)
(* volumes made anew because they could not be mounted), and the fields of *)
(* Faults.  A path is a record [storage, at, exact]: below /storage by its *)
(* label, or by the mount point it is (exact) or is below.                 *)
(***************************************************************************)
EXTENDS Faults, Integers, Sequences, SequencesExt, FiniteSetsExt

Volume(mp, fs, managed, label) == [mp |-> mp, fs |-> fs, managed |-> managed, label |-> label]
NoVolume == Volume("", "", FALSE, "")
Path(mp) == [storage |-> FALSE, at |-> mp, exact |-> TRUE]

(* Where a volume is mounted: vold mounts one that is "auto" by its label. *)
MountPoint(v) == IF v.mp = "auto" THEN v.label ELSE v.mp

Rc(ok, w) == [ok |-> ok, w |-> w]

-----------------------------------------------------------------------------
(* is_volume_primary_storage(): of the names, those that do not end in a   *)
(* number other than zero.                                                 *)
PrimaryNames == {"/mnt/media_rw/sdcard", "/mnt/media_rw/sdcard0"}
PrimaryLabels == {"sdcard", "sdcard0"}

IsPrimaryStorage(v) ==
    \/ v.mp = "/sdcard" /\ v.fs # "datamedia"
    \/ v.mp \in PrimaryNames
    \/ v.mp \notin {"/sdcard", "/mnt/media_rw/sdcard1"} /\ v.managed /\ v.label \in PrimaryLabels

(* load_volume_table(): if /etc/fstab cannot be written the rest is left   *)
(* out, is_datamedia included.                                             *)
LoadVolumeTable(w, fstab) ==
    LET table == Append(fstab, Volume("/tmp", "ramdisk", FALSE, "")) IN
    IF Fails(w) THEN [Tick(w) EXCEPT !.fstab = table, !.datamedia = FALSE]
    ELSE [Tick(w) EXCEPT !.fstab = table, !.datamedia = ~\E i \in DOMAIN table : IsPrimaryStorage(table[i])]

(* volume_for_path() and volume_for_label(): the first entry that fits.    *)
FirstWith(w, Test(_)) ==
    IF \E i \in DOMAIN w.fstab : Test(w.fstab[i])
    THEN w.fstab[CHOOSE i \in DOMAIN w.fstab : Test(w.fstab[i]) /\ \A j \in 1 .. i - 1 : ~Test(w.fstab[j])]
    ELSE NoVolume

VolumeForPath(w, p) == IF p.storage THEN NoVolume ELSE FirstWith(w, LAMBDA v : v.mp = p.at)
VolumeForLabel(w, label) == FirstWith(w, LAMBDA v : v.label = label)
VolumeOf(w, p) == IF p.storage THEN VolumeForLabel(w, p.at) ELSE VolumeForPath(w, p)

IsDataMediaVolumePath(w, p) ==
    LET v == VolumeForPath(w, p) IN
    IF v # NoVolume THEN v.fs = "datamedia"
    ELSE w.datamedia /\ ~p.storage /\ p.at = "/sdcard"

-----------------------------------------------------------------------------

(* scan_mounted_volumes() and the calls that change what is mounted.       *)
ScanMountedVolumes(w) ==
    IF Fails(w) THEN Rc(FALSE, [Tick(w) EXCEPT !.table = {}])
    ELSE Rc(TRUE, [Tick(w) EXCEPT !.table = w.mounted])

MountSys(w, v) ==
    LET mp == MountPoint(v) IN
    IF Fails(w) \/ mp \in w.broken THEN Rc(FALSE, Tick(w))
    ELSE Rc(TRUE, [Tick(w) EXCEPT !.mounted = @ \cup {mp}])

(* mtd_mount_partition(): a mount that fails is tried again read-only.     *)
MtdMountPartition(w, v) ==
    LET ReadOnly(rw) ==
            IF rw.ok THEN rw
            ELSE Then(MountSys(rw.w, v), LAMBDA ro : Rc(TRUE, [ro EXCEPT !.readOnly = @ \cup {MountPoint(v)}])) IN
    ReadOnly(MountSys(w, v))

(* vold_mount_volume(), vold_unmount_volume() and the commands to vold.    *)
VoldMount(w, v) ==
    IF MountPoint(v) \in w.mounted THEN Rc(TRUE, w)
    ELSE IF MountPoint(v) \notin w.vold THEN Rc(FALSE, w) ELSE MountSys(w, v)

UmountSys(w, mp) ==
    IF Fails(w) THEN Rc(FALSE, Tick(w))
    ELSE Rc(TRUE, [Tick(w) EXCEPT !.mounted = @ \ {mp}, !.readOnly = @ \ {mp}])

VoldUnmount(w, v) ==
    IF MountPoint(v) \in w.mounted THEN UmountSys(w, MountPoint(v)) ELSE Rc(TRUE, w)

UnmountMountedVolume(w, mp) ==
    Then(UmountSys(w, mp), LAMBDA u : Rc(TRUE, [u EXCEPT !.table = @ \ {mp}]))

-----------------------------------------------------------------------------
(* ensure_volume_mounted()                                                 *)
MountScanned(w, v) ==
    IF v.managed THEN VoldMount(w, v)
    ELSE IF v.mp \in w.table THEN Rc(TRUE, w)
    ELSE IF v.fs = "yaffs2" THEN MtdMountPartition(w, v)
    ELSE IF v.fs \in {"ext4", "vfat"} THEN MountSys(w, v)
    ELSE Rc(FALSE, w)

EnsureVolumeMounted(w, v) ==
    IF v = NoVolume THEN Rc(FALSE, w)
    ELSE IF v.fs = "ramdisk" THEN Rc(TRUE, w)
    ELSE Then(ScanMountedVolumes(w), LAMBDA s : MountScanned(s, v))

(* setup_data_media(): the directory is made and the link to it.           *)
SetupDataMedia(w) ==
    [w EXCEPT !.sdlink = TRUE,
              !.disk["/data"] = IF "/data" \in w.mounted \ w.readOnly THEN @ \cup {"media"} ELSE @]

(* ensure_path_mounted(): /sdcard may be a directory of /data.             *)
EnsurePathMounted(w, p) ==
    IF IsDataMediaVolumePath(w, p)
    THEN Then(EnsureVolumeMounted(w, VolumeForPath(w, Path("/data"))), LAMBDA r : Rc(TRUE, SetupDataMedia(r)))
    ELSE EnsureVolumeMounted(w, VolumeOf(w, p))

UnmountScanned(w, v) ==
    IF v.managed THEN VoldUnmount(w, v)
    ELSE IF v.mp \in w.table THEN UnmountMountedVolume(w, v.mp)
    ELSE Rc(TRUE, w)

EnsureVolumeUnmounted(w, v) ==
    IF v = NoVolume \/ v.fs = "ramdisk" THEN Rc(FALSE, w)
    ELSE Then(ScanMountedVolumes(w), LAMBDA s : UnmountScanned(s, v))

EnsurePathUnmounted(w, p) == EnsureVolumeUnmounted(w, VolumeOf(w, p))

(* is_path_mounted()                                                       *)
IsPathMounted(w, p) ==
    LET v == VolumeForPath(w, p)
        s == ScanMountedVolumes(w) IN
    IF v = NoVolume THEN Rc(FALSE, w)
    ELSE IF v.fs = "ramdisk" THEN Rc(TRUE, w)
    ELSE Rc(s.ok /\ v.mp \in s.w.table, s.w)

(* setup_install_mounts()                                                  *)
SetupInstallMounts(w) ==
    FoldLeft(LAMBDA r, v : IF r.ok /\ v.mp \in {"/tmp", "/cache"} THEN EnsurePathMounted(r.w, Path(v.mp)) ELSE r,
             Rc(TRUE, w), w.fstab)

-----------------------------------------------------------------------------
(* rmtree_except(): everything but one name, until something cannot be     *)
(* removed.                                                                *)
RmtreeExcept(w, mp, except) ==
    LET Remove1(r, n) ==
            IF ~r.ok \/ n = except THEN r
            ELSE IF Fails(r.w) \/ mp \in r.w.readOnly THEN Rc(FALSE, Tick(r.w))
            ELSE Rc(TRUE, [Tick(r.w) EXCEPT !.disk[mp] = @ \ {n}]) IN
    FoldLeft(Remove1, Rc(TRUE, w), SetToSeq(w.disk[mp]))

(* The file that format_volume() keeps across its rmtree of /data.         *)
LayoutSaved(w) == "layout" \in w.disk["/data"] /\ ~Fails(w)
LayoutRestored(w, saved) ==
    IF ~saved \/ Fails(w) \/ "layout" \in w.disk["/data"] THEN Tick(w)
    ELSE [Tick(w) EXCEPT !.disk["/data"] = @ \cup {"layout"}]

(* The volume is unmounted, and the result is that of the call before.     *)
AndUnmounted(r, p) == Rc(r.ok, EnsurePathUnmounted(r.w, p).w)
WithLayout(r, saved) == Rc(r.ok, LayoutRestored(r.w, saved))

RmDataUnchecked(w) ==
    AndUnmounted(Rc(TRUE, LayoutRestored(RmtreeExcept(Tick(w), "/data", "media").w, LayoutSaved(w))), Path("/data"))

RmData(w) == AndUnmounted(WithLayout(RmtreeExcept(Tick(w), "/data", "media"), LayoutSaved(w)), Path("/data"))

RmCache(w) == AndUnmounted(RmtreeExcept(w, "/cache", "cot"), Path("/cache"))

(* Making the file system anew, by the driver, a tool or vold.             *)
MakeFs(w, v) ==
    LET mp == MountPoint(v) IN
    IF Fails(w) THEN Rc(FALSE, Tick(w))
    ELSE Rc(TRUE, [Tick(w) EXCEPT !.disk[mp] = {}, !.broken = @ \ {mp}, !.media = @ /\ mp # "/data"])

RmMedia(w) ==
    IF "media" \in w.disk["/data"] /\ ~Fails(w) /\ "/data" \notin w.readOnly
    THEN Rc(TRUE, [Tick(w) EXCEPT !.media = FALSE]) ELSE Rc(FALSE, Tick(w))

FormatMedia(w) ==
    IF ~w.datamedia THEN Rc(TRUE, w)
    ELSE Then(EnsurePathMounted(w, Path("/data")), LAMBDA m : AndUnmounted(RmMedia(m), Path("/data")))

ReformatUnmounted(w, v) ==
    IF v.managed THEN MakeFs(EnsurePathUnmounted(w, Path(v.mp)).w, v)
    ELSE IF v.fs \in {"yaffs2", "mtd", "ext4"} THEN MakeFs(w, v)
    ELSE Rc(FALSE, w)

Reformat(w, v) == Then(EnsurePathUnmounted(w, Path(v.mp)), LAMBDA u : ReformatUnmounted(u, v))

(* format_volume(): /cache/cot and /data/media survive unless force is     *)
(* asked for, or the volume cannot be mounted.                             *)
KeepsCacheOnly(w, v, force) == ~force /\ v.mp = "/cache"
Preserves(w, v, force) == ~force /\ (v.mp = "/cache" \/ (v.mp = "/data" /\ w.datamedia))

FormatPreserved(m, v) ==
    IF ~m.ok THEN Reformat([m.w EXCEPT !.instead = @ \cup {v.mp}], v)
    ELSE IF v.mp = "/cache" THEN RmCache(m.w) ELSE RmData(m.w)

FormatVolume(w, p, force) ==
    LET v == VolumeForPath(w, p) IN
    IF v = NoVolume \/ v.fs = "ramdisk" \/ ~p.exact THEN Rc(FALSE, w)
    ELSE IF Preserves(w, v, force) THEN FormatPreserved(EnsurePathMounted(w, Path(v.mp)), v)
    ELSE Reformat(w, v)

-----------------------------------------------------------------------------
(* erase_volume() of recovery.cpp: the logs of earlier runs ("last") are   *)
(* read from /cache before it is erased and written back after, followed   *)
(* by the log of this run.                                                 *)
MountedFirst(w) == EnsurePathMounted(w, Path("/cache")).w

HasLogs(w) == "/cache" \in w.mounted /\ "last" \in w.disk["/cache"] /\ ~Fails(w)

(* fopen_path(), which mounts the volume, and a write.                     *)
WriteLog(w, name) ==
    Given(EnsurePathMounted(w, Path("/cache")), LAMBDA m :
        IF ~m.ok \/ Fails(m.w) \/ "/cache" \in m.w.readOnly THEN Tick(m.w)
        ELSE [Tick(m.w) EXCEPT !.disk["/cache"] = @ \cup {name}])

Erase1(w, p, force) == FormatVolume(EnsurePathUnmounted(w, p).w, p, force)

EraseKeeping(w, p) ==
    Given(Erase1(Tick(w), p, FALSE), LAMBDA f :
        Rc(f.ok, WriteLog(IF HasLogs(w) THEN WriteLog(f.w, "last") ELSE f.w, "log")))

EraseVolume(w, p, force) ==
    IF p = Path("/cache") /\ ~force THEN EraseKeeping(MountedFirst(w), p) ELSE Erase1(w, p, force)

-----------------------------------------------------------------------------
(* get_storage_items(): the volumes for packages and backups, with the     *)
(* paths by which the menus name them.                                     *)
GetStorageItems(w) ==
    LET Item(p, v) == [path |-> p, vol |-> v]
        Of(v) ==
            CASE v.fs = "datamedia" -> << >>
              [] v.fs # "datamedia" /\ v.mp \in {"/external_sd", "/sdcard", "/sdcard1"} \cup PrimaryNames ->
                    <<Item(Path(v.mp), v)>>
              [] OTHER -> IF v.managed /\ v.label \in PrimaryLabels \cup {"sdcard1"} /\ v.label \in w.vold
                          THEN <<Item([storage |-> TRUE, at |-> v.label, exact |-> TRUE], v)>> ELSE << >> IN
    (IF w.datamedia THEN <<Item([Path("/data") EXCEPT !.exact = FALSE], VolumeForPath(w, Path("/data")))>> ELSE << >>)
    \o FlattenSeq([i \in DOMAIN w.fstab |-> Of(w.fstab[i])])

(* show_apply_update_menu() with one of these: pick is what the user does  *)
(* in the directory, wipe what the package asks for, or, when there is no  *)
(* directory to open, what happens to be in wipe_cache: update_directory() *)
(* then returns 0, which is INSTALL_SUCCESS.                               *)
DirectoryThere(w, item) == item.vol.mp = "/data" => "media" \in w.disk["/data"]

Opened(w, item) == ~Fails(w) /\ DirectoryThere(w, item)

UpdateDirectory(w, item, pick) ==
    IF Opened(w, item) /\ pick = "package" THEN SetupInstallMounts(Tick(w)) ELSE Rc(~Opened(w, item), Tick(w))

WipedIf(wipe, w) == IF wipe THEN EraseVolume(w, Path("/cache"), FALSE).w ELSE w

(* The volume is unmounted whatever became of the package.                 *)
AfterUpdate(i, item, opened, wipe) ==
    Given(EnsureVolumeUnmounted(i.w, item.vol), LAMBDA u : Rc(opened /\ u.ok, WipedIf(i.ok /\ wipe, u.w)))

ApplyUpdateFrom(w, item, pick, wipe) ==
    Given(EnsureVolumeMounted(w, item.vol), LAMBDA m :
        IF ~m.ok THEN AfterUpdate(m, item, FALSE, FALSE)
        ELSE AfterUpdate(UpdateDirectory(m.w, item, pick), item, Opened(m.w, item), wipe))

(* get_primary_storage_path() and setup_legacy_storage_paths()             *)
PrimaryStoragePath(w) ==
    IF FirstWith(w, LAMBDA v : v.mp = "/storage/sdcard0") # NoVolume THEN "/storage/sdcard0" ELSE "/sdcard"

SetupLegacyStoragePaths(w) ==
    IF IsDataMediaVolumePath(w, Path(PrimaryStoragePath(w))) THEN w ELSE [w EXCEPT !.sdlink = FALSE]

=============================================================================
