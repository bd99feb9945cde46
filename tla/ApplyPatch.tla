----------------------------- MODULE ApplyPatch -----------------------------
(***************************************************************************)
(* The binary patcher of an OTA package: applypatch/applypatch.c and       *)
(* applypatch/freecache.c, driven by the apply_patch* functions of         *)
(* updater/install.c.                                                      *)
(*                                                                         *)
(* An update script is a list of patch jobs.  The script is rerun from its *)
(* first line whenever the device restarts before recovery has cleared its *)
(* boot command, so every job must cope with whatever an earlier, killed   *)
(* run left behind: the file itself, the half-written "<target>.patch",    *)
(* and the single backup slot CACHE_TEMP_SOURCE (/cache/saved.file).       *)
(*                                                                         *)
(* A file's bytes are abstracted to what its SHA-1 tells apart: "orig"     *)
(* (matches the source hash), "new" (matches the target hash), "bad"       *)
(* (matches neither) and "none" (no such file).  All sizes are one block.  *)
(***************************************************************************)
EXTENDS Integers, FiniteSets

CONSTANTS
    NumJobs,        \* the script patches jobs 1, 2, ..., NumJobs, in order
    Kind,           \* Kind[j]: "inplace" (target "-"), "copy" (another file
                    \* is the target) or "part" (an MTD:/EMMC: partition
                    \* patched in place)
    CacheSize,      \* blocks of /cache that the patcher can hope to use
    Clutter,        \* how many of them hold deletable files at first
    ScriptChecks,   \* does the script assert apply_patch_space and
                    \* apply_patch_check before it patches anything?
    Baks,           \* did collect_backup_data list any file (totalbaks > 0)?
    MaxRestarts,    \* bound: crashes and reruns of the package
    MaxErrors       \* bound: write errors of the storage

Jobs == 1 .. NumJobs
Kinds == {"inplace", "copy", "part"}

ASSUME NumJobsAssumption == NumJobs \in Nat
ASSUME KindAssumption == Kind \in [Jobs -> Kinds]
ASSUME CacheAssumption == CacheSize \in Nat /\ Clutter \in 0 .. CacheSize
ASSUME ScriptAssumption == ScriptChecks \in BOOLEAN /\ Baks \in BOOLEAN
ASSUME BoundAssumption == MaxRestarts \in Nat /\ MaxErrors \in Nat

(* Where a job reads and writes.  target_filename "-" means the source.    *)
Src(j) == j
Tgt(j) == IF Kind[j] = "copy" THEN NumJobs + j ELSE j
Places == 1 .. 2 * NumJobs
Contents == {"orig", "new", "bad", "none"}

(* Values of saved besides a job, whose whole source it then holds.        *)
Absent  == 0        \* no CACHE_TEMP_SOURCE
Empty   == -1       \* it was just truncated by open(O_TRUNC)
Partial == -2       \* some of the bytes were written
SavedValues == Jobs \cup {Absent, Empty, Partial}

VARIABLES
    disk,       \* [Places -> Contents]: files and partitions
    outname,    \* [Jobs -> {"none", "part", "new"}]: the "<target>.patch" file
    saved,      \* CACHE_TEMP_SOURCE
    clutter,    \* deletable files left on /cache
    pc,         \* where the updater is
    job,        \* the job it is working on
    useSource,  \* source_patch_value # NULL: the source, not the copy, is used
    size,       \* source_file->size, the bytes SaveFileContents would write
    retry,      \* GenerateTarget's retry
    madeCopy,   \* GenerateTarget's made_copy
    skip,       \* bakfiles entries added by apply_patch_check
    restarts, errors    \* bounded by MaxRestarts and MaxErrors

storage == <<disk, outname, saved, clutter>>
local   == <<useSource, size, retry, madeCopy>>
vars == <<disk, outname, saved, clutter, pc, job, useSource, size, retry,
          madeCopy, skip, restarts, errors>>

Labels == {"start", "check", "apply", "space", "save", "saving", "unlink",
           "patch", "patching", "commit", "writing", "cleanup", "done",
           "failed"}

(* The variables keep their types: the updater never works on a job that   *)
(* does not exist, nor frees more cache than there is.                     *)
TypeOK ==
    /\ disk \in [Places -> Contents]
    /\ outname \in [Jobs -> {"none", "part", "new"}]
    /\ saved \in SavedValues
    /\ clutter \in 0 .. CacheSize
    /\ pc \in Labels
    /\ job \in 1 .. (NumJobs + 1)
    /\ pc \notin {"start", "apply", "done", "failed"} => job \in Jobs
    /\ useSource \in BOOLEAN
    /\ size \in 0 .. 1
    /\ retry \in 0 .. 1
    /\ madeCopy \in BOOLEAN
    /\ skip \in SUBSET Jobs
    /\ restarts \in 0 .. MaxRestarts
    /\ errors \in 0 .. MaxErrors

(* A device that the package was made for: sources as expected, targets of *)
(* "copy" jobs not there yet.                                              *)
Init ==
    /\ disk = [p \in Places |-> IF p \in Jobs THEN "orig" ELSE "none"]
    /\ outname = [j \in Jobs |-> "none"]
    /\ saved = Absent
    /\ clutter = Clutter
    /\ pc = "start"
    /\ job = 1
    /\ useSource = FALSE /\ size = 0 /\ retry = 0 /\ madeCopy = FALSE
    /\ skip = {}
    /\ restarts = 0 /\ errors = 0

-----------------------------------------------------------------------------
(* freecache.c.  FreeSpaceForFile("/cache"): an empty file takes no block. *)
CacheFree == CacheSize - clutter - (IF saved \in {Absent, Empty} THEN 0 ELSE 1)

(* The files MakeFreeSpaceOnCache(bytes) unlinks: one after another until  *)
(* enough is free, and never CACHE_TEMP_SOURCE.                            *)
Deleted(bytes) ==
    IF CacheFree >= bytes THEN 0
    ELSE IF bytes - CacheFree <= clutter THEN bytes - CacheFree ELSE clutter

MakeFreeSpaceOnCache(bytes) == clutter' = clutter - Deleted(bytes)
HasFreeSpace(bytes) == CacheFree + Deleted(bytes) >= bytes

(* LoadFileContents and LoadPartitionContents find the bits they look for. *)
(* A "part" place names both hashes, so the loader itself refuses others.  *)
SourceMatches(j) == disk[Src(j)] = "orig"
TargetNotOrig(j) == disk[Tgt(j)] # "orig"
TargetMatches(j) == disk[Tgt(j)] = "new"
CopyNeverMatches(j) == FALSE
CopyMatches(j) == saved = j

Fail == pc' = "failed" /\ UNCHANGED <<job, skip>>

(* A write error of the storage.                                           *)
Error == errors < MaxErrors /\ errors' = errors + 1

-----------------------------------------------------------------------------
(* The script up to the first patch: assert(apply_patch_space(bytes)).     *)
ApplyPatchSpaceFn ==
    /\ pc = "start"
    /\ IF ScriptChecks
         THEN /\ MakeFreeSpaceOnCache(1)
              /\ pc' = IF ~HasFreeSpace(1) THEN "failed"
                       ELSE IF NumJobs = 0 THEN "apply" ELSE "check"
         ELSE pc' = "apply" /\ UNCHANGED clutter
    /\ UNCHANGED <<disk, outname, saved, job, local, skip, restarts, errors>>

NextCheck ==
    IF job = NumJobs THEN pc' = "apply" /\ job' = 1
                     ELSE pc' = "check" /\ job' = job + 1

(* applypatch_check's answers.                                             *)
CheckMissing == Kind[job] # "part" /\ disk[Src(job)] = "none"
CheckOK == disk[Src(job)] \in {"orig", "new"} \/ CopyMatches(job)

(* assert(apply_patch_check(source, target hash, source hash)).  A missing *)
(* file is -ENOENT, whatever the cache holds.                              *)
ApplyPatchCheckFn ==
    /\ pc = "check"
    /\ \/ /\ CheckMissing /\ Baks
          /\ skip' = skip \cup {job} /\ NextCheck
       \/ CheckMissing /\ ~Baks /\ Fail
       \/ ~CheckMissing /\ CheckOK /\ NextCheck /\ UNCHANGED skip
       \/ ~CheckMissing /\ ~CheckOK /\ Fail
    /\ UNCHANGED <<storage, local, restarts, errors>>

(* apply_patch, and applypatch() up to its call of GenerateTarget.  When   *)
(* the source does not match, source_file.data is NULL; its size is what   *)
(* was read of a partition, or never set.                                  *)
ApplyPatchFn ==
    /\ pc = "apply"
    /\ \/ /\ job = NumJobs + 1
          /\ pc' = "done" /\ UNCHANGED <<job, local>>
       \/ /\ job \in Jobs /\ (job \in skip \/ TargetMatches(job))
          /\ job' = job + 1 /\ UNCHANGED <<pc, local>>
       \/ /\ job \in Jobs /\ job \notin skip /\ ~TargetMatches(job)
          /\ SourceMatches(job) \/ CopyMatches(job)
          /\ pc' = "space" /\ UNCHANGED job
          /\ useSource' = SourceMatches(job)
          /\ size' \in IF SourceMatches(job) THEN {1} ELSE {0, 1}
          /\ retry' = 1 /\ madeCopy' = FALSE
       \/ /\ job \in Jobs /\ job \notin skip /\ ~TargetMatches(job)
          /\ ~SourceMatches(job) /\ ~CopyMatches(job)
          /\ pc' = "failed" /\ UNCHANGED <<job, local>>
    /\ UNCHANGED <<storage, skip, restarts, errors>>

(* The top of GenerateTarget's loop: is there room for the new file?  A    *)
(* partition is always backed up first.  For a file the answer depends on  *)
(* the rest of the file system, so it may be either while retry is set.    *)
GenerateTargetSpace ==
    /\ pc = "space"
    /\ \/ /\ Kind[job] = "part"
          /\ MakeFreeSpaceOnCache(size)
          /\ pc' = IF HasFreeSpace(size) THEN "save" ELSE "failed"
          /\ retry' = 0
       \/ /\ Kind[job] # "part" /\ retry > 0
          /\ pc' = "patch" /\ UNCHANGED <<retry, clutter>>
       \/ /\ Kind[job] # "part" /\ useSource
          /\ MakeFreeSpaceOnCache(size)
          /\ pc' = IF HasFreeSpace(size) THEN "save" ELSE "failed"
          /\ retry' = 0
       \/ /\ Kind[job] # "part" /\ ~useSource
          /\ pc' = "patch" /\ retry' = 0 /\ UNCHANGED clutter
    /\ UNCHANGED <<disk, outname, saved, job, useSource, size, madeCopy, skip,
                   restarts, errors>>

(* SaveFileContents(CACHE_TEMP_SOURCE): open with O_TRUNC ...              *)
SaveOpen ==
    /\ pc = "save"
    /\ saved' = Empty
    /\ pc' = "saving"
    /\ UNCHANGED <<disk, outname, clutter, job, local, skip, restarts, errors>>

(* What GenerateTarget does when SaveFileContents fails.                   *)
SaveFailedIgnored == pc' = "unlink"
SaveFailed == pc' = "failed"

(* ... then write, fsync, chmod and chown.  Without data (NULL) nothing    *)
(* can be written, and that is an error unless nothing was asked for.      *)
SaveWrite ==
    /\ pc = "saving"
    /\ \/ /\ useSource \/ size = 0
          /\ saved' = IF useSource THEN job ELSE Empty
          /\ madeCopy' = TRUE
          /\ pc' = IF Kind[job] = "part" THEN "patch" ELSE "unlink"
          /\ UNCHANGED errors
       \/ /\ ~useSource /\ size # 0
          /\ pc' = "failed" /\ UNCHANGED <<saved, madeCopy, errors>>
       \/ /\ Error /\ saved' \in {Empty, Partial}
          /\ SaveFailed /\ UNCHANGED madeCopy
    /\ UNCHANGED <<disk, outname, clutter, job, useSource, size, retry, skip,
                   restarts>>

(* unlink(source_filename) frees the room the new file needs.              *)
UnlinkSource ==
    /\ pc = "unlink"
    /\ disk' = [disk EXCEPT ![Src(job)] = "none"]
    /\ pc' = "patch"
    /\ UNCHANGED <<outname, saved, clutter, job, local, skip, restarts, errors>>

(* Open the sink: a buffer for a partition, "<target>.patch" for a file.   *)
OpenSink ==
    /\ pc = "patch"
    /\ \/ /\ Kind[job] = "part"
          /\ pc' = "patching" /\ UNCHANGED <<outname, errors>>
       \/ /\ Kind[job] # "part"
          /\ outname' = [outname EXCEPT ![job] = "part"]
          /\ pc' = "patching" /\ UNCHANGED errors
       \/ Error /\ pc' = "failed" /\ UNCHANGED outname
    /\ UNCHANGED <<disk, saved, clutter, job, local, skip, restarts>>

(* "patch did not produce expected sha1".                                  *)
HashMismatch == pc' = "failed"

(* ApplyBSDiffPatch or ApplyImagePatch into the sink, the loop's end and   *)
(* the comparison with target_sha1.                                        *)
RunPatch ==
    /\ pc = "patching"
    /\ \/ /\ pc' = "commit"
          /\ outname' = IF Kind[job] = "part" THEN outname
                        ELSE [outname EXCEPT ![job] = "new"]
          /\ UNCHANGED <<retry, errors>>
       \/ /\ Error /\ retry > 0
          /\ retry' = retry - 1 /\ pc' = "space"
          /\ outname' = [outname EXCEPT ![job] = "none"]
       \/ /\ Error /\ retry = 0
          /\ pc' = "failed" /\ UNCHANGED <<outname, retry>>
       \/ Error /\ HashMismatch /\ UNCHANGED <<outname, retry>>
    /\ UNCHANGED <<disk, saved, clutter, job, useSource, size, madeCopy, skip,
                   restarts>>

(* chmod, chown and rename("<target>.patch", target), or the start of      *)
(* WriteToPartition.                                                       *)
Commit ==
    /\ pc = "commit"
    /\ \/ /\ Kind[job] = "part"
          /\ disk' = [disk EXCEPT ![Tgt(job)] = "bad"]
          /\ pc' = "writing" /\ UNCHANGED <<outname, errors>>
       \/ /\ Kind[job] # "part"
          /\ disk' = [disk EXCEPT ![Tgt(job)] =
                          IF outname[job] = "new" THEN "new" ELSE "bad"]
          /\ outname' = [outname EXCEPT ![job] = "none"]
          /\ pc' = "cleanup" /\ UNCHANGED errors
       \/ Error /\ pc' = "failed" /\ UNCHANGED <<disk, outname>>
    /\ UNCHANGED <<saved, clutter, job, local, skip, restarts>>

(* The rest of WriteToPartition, which reads back what it wrote.           *)
WriteToPartition ==
    /\ pc = "writing"
    /\ \/ /\ disk' = [disk EXCEPT ![Tgt(job)] = "new"]
          /\ pc' = "cleanup" /\ UNCHANGED errors
       \/ Error /\ pc' = "failed" /\ UNCHANGED disk
    /\ UNCHANGED <<outname, saved, clutter, job, local, skip, restarts>>

(* "If this run of applypatch created the copy, and we're here, we can     *)
(* delete it."  Then the script goes on with the next job.                 *)
Cleanup ==
    /\ pc = "cleanup"
    /\ saved' = IF madeCopy THEN Absent ELSE saved
    /\ job' = job + 1
    /\ pc' = "apply"
    /\ UNCHANGED <<disk, outname, clutter, local, skip, restarts, errors>>

(* The device dies, or the user installs the package again: the script     *)
(* starts over with what is on storage.                                    *)
Restart ==
    /\ restarts < MaxRestarts
    /\ restarts' = restarts + 1
    /\ saved' \in IF pc # "saving" THEN {saved}
                  ELSE {Empty, Partial} \cup (IF useSource THEN {job} ELSE {})
    /\ pc' = "start" /\ job' = 1
    /\ useSource' = FALSE /\ size' = 0 /\ retry' = 0 /\ madeCopy' = FALSE
    /\ skip' = {}
    /\ UNCHANGED <<disk, outname, clutter, errors>>

(* After its last line, or a failed assert, the updater exits.             *)
Exited ==
    /\ pc \in {"done", "failed"}
    /\ UNCHANGED vars

Step == \/ ApplyPatchSpaceFn \/ ApplyPatchCheckFn \/ ApplyPatchFn
        \/ GenerateTargetSpace \/ SaveOpen \/ SaveWrite \/ UnlinkSource
        \/ OpenSink \/ RunPatch \/ Commit \/ WriteToPartition \/ Cleanup

Next == Step \/ Restart \/ Exited

Spec == Init /\ [][Next]_vars

(* The updater is a running process: it takes its next step.               *)
FairSpec == Spec /\ WF_vars(Step)

-----------------------------------------------------------------------------
(* No file is ever lost: until the target of a job that patches a file     *)
(* has its new contents, the original is where it was or whole in          *)
(* CACHE_TEMP_SOURCE, at every instant and so also when the device dies    *)
(* (GenerateTarget saves, then unlinks; Cleanup deletes the copy last).    *)
Recoverable ==
    \A j \in Jobs : Kind[j] # "part" =>
        disk[Src(j)] = "orig" \/ disk[Tgt(j)] = "new" \/ saved = j

(* Only bytes with an expected hash are ever visible under a file's name:  *)
(* GenerateTarget writes "<target>.patch" and renames it after the check.  *)
OnlyVerified ==
    \A p \in Places : disk[p] = "bad" => p \in Jobs /\ Kind[p] = "part"

(* An updater that reports success has patched every job it did not skip.  *)
SuccessMeansPatched ==
    pc = "done" => \A j \in Jobs : disk[Tgt(j)] = "new" \/ j \in skip

(* Without storage errors no run of the script fails, however often an     *)
(* earlier run was killed, and wherever ("safely restartable at any        *)
(* point", recovery.cpp:148).                                              *)
RestartSafe == errors = 0 => pc # "failed"

(* Rerunning the package never touches what is already patched (the early  *)
(* exit of applypatch()).                                                  *)
PatchedStays ==
    [][\A j \in Jobs : disk[Tgt(j)] = "new" => disk'[Tgt(j)] = "new"]_vars

Patched == {j \in Jobs : disk[Tgt(j)] = "new"}
Outcome == IF pc \in {"done", "failed"} THEN pc ELSE "running"
Atomic == INSTANCE AtomicUpdate WITH patched <- Patched, outcome <- Outcome

(* The jobs take effect atomically, in order and at most once, and success *)
(* means all of them did: the patcher implements AtomicUpdate.             *)
ImplementsAtomicUpdate == Atomic!ASpec

(* Under fairness of the updater alone, and with finitely many restarts    *)
(* and no storage error, the update is eventually done for good.           *)
Completes == [](errors = 0) => <>[](pc = "done")

-----------------------------------------------------------------------------
(* "We still write the original source to cache, in case the partition     *)
(* write is interrupted" (applypatch.c:848).  So a partition whose contents*)
(* are bad has its original in CACHE_TEMP_SOURCE.                          *)
PartitionRecoverable ==
    \A j \in Jobs : Kind[j] = "part" /\ disk[j] = "bad" => saved = j

=============================================================================
