------------------------------- MODULE Roots --------------------------------
(***************************************************************************)
(* The calls of roots.cpp in any order, while other processes mount and    *)
(* unmount volumes and write files, media are put in and taken out, file   *)
(* systems get damaged, any system call may fail and the power may go off  *)
(* during any of them.                                                     *)
(***************************************************************************)
EXTENDS Volumes

CONSTANTS
    Fstabs,         \* the tables a device may have
    Files,          \* the names that other processes may write, by mount point
    MaxCall,        \* bound: the system call, of those of one operation, that fails
    MaxCalls,       \* bound: the operations
    MaxFaults,      \* bound: the operations in which one does
    MaxOutside      \* bound: the events outside of the process

VARIABLES
    world,          \* the world of Volumes
    call,           \* the last operation and its result
    left            \* the operations, faults and events that may still come

rvars == <<world, call, left>>

Called(op, p, force, ok, clean, instead) ==
    [op |-> op, at |-> p, force |-> force, ok |-> ok, clean |-> clean, instead |-> instead]
NoCall == Called("none", Path(""), FALSE, TRUE, TRUE, {})

MountPoints == DOMAIN world.disk
Paths == {Path(mp) : mp \in {"/tmp", "/cache", "/data", "/sdcard"}}
         \cup {[Path("/data") EXCEPT !.exact = FALSE], [Path("sdcard1") EXCEPT !.storage = TRUE]}

NewWorld(fstab) ==
    LoadVolumeTable([fstab |-> << >>, datamedia |-> FALSE, table |-> {}, mounted |-> {}, readOnly |-> {},
                     broken |-> {}, vold |-> {}, disk |-> Files, media |-> TRUE, sdlink |-> FALSE, instead |-> {},
                     fail |-> 0, power |-> FALSE, off |-> FALSE], fstab)

RootsInit == (\E f \in Fstabs : world = NewWorld(f)) /\ call = NoCall
             /\ left = [calls |-> MaxCalls, faults |-> MaxFaults, outside |-> MaxOutside]

(* The device starts again: what the processes had is gone.                *)
Rebooted(w) ==
    LoadVolumeTable([w EXCEPT !.table = {}, !.mounted = {}, !.readOnly = {}, !.sdlink = FALSE,
                              !.fail = 0, !.power = FALSE, !.off = FALSE, !.instead = {}], Front(w.fstab))

(* The calls that can fail in an operation, up to the bound.               *)
CallsOf(Run(_)) == MaxCall - Run([world EXCEPT !.fail = MaxCall]).w.fail

(* One operation, with a call that fails or during which the power goes.   *)
Operation(op, p, force, Run(_)) ==
    /\ left.calls > 0
    /\ \E k \in 0 .. (IF left.faults > 0 THEN CallsOf(Run) ELSE 0) : \E power \in {FALSE, k > 0} :
        /\ \E r \in {Run([world EXCEPT !.fail = k, !.power = power])} :
           /\ world' = IF r.w.off THEN Rebooted(r.w) ELSE [r.w EXCEPT !.power = FALSE, !.instead = {}]
           /\ call' = IF r.w.off THEN Called("power", p, force, FALSE, FALSE, r.w.instead)
                      ELSE Called(op, p, force, r.ok, k = 0, r.w.instead)
        /\ left' = [left EXCEPT !.calls = @ - 1, !.faults = IF k = 0 THEN @ ELSE @ - 1]

Mount == \E p \in Paths : Operation("mount", p, FALSE, LAMBDA w : EnsurePathMounted(w, p))
Unmount == \E p \in Paths : Operation("unmount", p, FALSE, LAMBDA w : EnsurePathUnmounted(w, p))
Mounted == \E p \in Paths : Operation("mounted", p, FALSE, LAMBDA w : IsPathMounted(w, p))
InstallMounts == Operation("install", Path("/cache"), FALSE, SetupInstallMounts)
LegacyPaths == Operation("legacy", Path("/sdcard"), FALSE, LAMBDA w : Rc(TRUE, SetupLegacyStoragePaths(w)))
Format ==
    \E p \in Paths, force \in BOOLEAN : Operation("format", p, force, LAMBDA w : FormatVolume(w, p, force))
Erase == \E p \in Paths, force \in BOOLEAN : Operation("erase", p, force, LAMBDA w : EraseVolume(w, p, force))
FormatTheMedia == Operation("media", Path("/data"), TRUE, FormatMedia)

ApplyUpdate ==
    \E item \in ToSet(GetStorageItems(world)), pick \in {"back", "package"}, wipe \in BOOLEAN :
        Operation("update", item.path, pick = "package" /\ wipe, LAMBDA w : ApplyUpdateFrom(w, item, pick, wipe))

(* What other processes, vold, the user and time do, before an operation.  *)
Outside(w) ==
    /\ left.outside > 0 /\ left.calls > 0 /\ left' = [left EXCEPT !.outside = @ - 1]
    /\ world' = w /\ call' = [NoCall EXCEPT !.op = "outside"]

OtherMounts ==
    \E mp \in MountPoints \ world.broken : Outside([world EXCEPT !.mounted = @ \cup {mp}])
OtherUnmounts ==
    \E mp \in world.mounted : Outside([world EXCEPT !.mounted = @ \ {mp}, !.readOnly = @ \ {mp}])
OtherWrites ==
    \E mp \in world.mounted \ world.readOnly :
        Outside([world EXCEPT !.disk[mp] = Files[mp], !.media = @ \/ (mp = "/data" /\ "media" \in Files[mp])])
Damaged == \E mp \in MountPoints \ world.mounted : Outside([world EXCEPT !.broken = {mp}])
MediumIn == Outside([world EXCEPT !.vold = MountPoints])
MediumOut == Outside([world EXCEPT !.vold = {}])

RootsNext ==
    \/ Mount \/ Unmount \/ Mounted \/ InstallMounts \/ LegacyPaths \/ Format \/ FormatTheMedia
    \/ Erase \/ ApplyUpdate
    \/ OtherMounts \/ OtherUnmounts \/ OtherWrites \/ Damaged \/ MediumIn \/ MediumOut

RootsSpec == RootsInit /\ [][RootsNext]_rvars

-----------------------------------------------------------------------------
(* Where a path leads, /sdcard to /data on a device with data media.       *)
Target(w, p) == IF IsDataMediaVolumePath(w, p) THEN VolumeForPath(w, Path("/data")) ELSE VolumeOf(w, p)

Kept(w, mp) == CASE mp = "/data" -> {"media", "layout"} [] mp = "/cache" -> {"cot"} [] OTHER -> {}

(* format_volume(): 0 means that nothing is left on the volume but what    *)
(* the code says it preserves, and without a failure that is all left;     *)
(* whatever happens, no other volume loses or gains a file.  The update    *)
(* menu erases no file but those in /cache, and those for a package that   *)
(* asks for it, given that it could open the directory it shows.           *)
FormatExact ==
    [][/\ call'.op = "update" /\ call'.ok =>
            \A mp \in MountPoints : world.disk[mp] \subseteq world'.disk[mp] \/ (mp = "/cache" /\ call'.force)
       /\ call'.op = "format" =>
        LET mp == call'.at.at
            kept == IF Preserves(world, VolumeForPath(world, call'.at), call'.force) THEN Kept(world, mp) ELSE {} IN
        /\ call'.ok => world'.disk[mp] \subseteq kept
        /\ call'.ok /\ call'.clean /\ mp \notin world.broken => world'.disk[mp] = world.disk[mp] \cap kept
        /\ \A other \in MountPoints \ {mp} : world'.disk[other] = world.disk[other]]_rvars

MeantToErase(mp) ==
    \/ call'.op \in {"format", "erase", "power"} /\ call'.at = Path(mp) /\ call'.force
    \/ mp \in call'.instead \/ call'.op = "outside"

(* The files of the user in /data/media, and those in /cache/cot, outlive  *)
(* everything but what is meant to erase them, a power loss at any moment  *)
(* included: a format of the media, a forced format of the volume, and the *)
(* format that is made instead when the volume cannot be mounted.          *)
MediaKept ==
    [][/\ world.datamedia /\ world.media /\ ~world'.media => MeantToErase("/data") \/ call'.op = "media"
       /\ "cot" \in world.disk["/cache"] \ world'.disk["/cache"] => MeantToErase("/cache")]_rvars

=============================================================================
