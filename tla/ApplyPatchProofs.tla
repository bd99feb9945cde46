-------------------------- MODULE ApplyPatchProofs --------------------------
(***************************************************************************)
(* Proofs about the binary patcher, for any number of jobs of any kind,    *)
(* any cache, and any number of restarts and storage errors.               *)
(***************************************************************************)
EXTENDS ApplyPatch, TLAPS

Assumptions == /\ NumJobs \in Nat /\ Kind \in [Jobs -> Kinds]
               /\ CacheSize \in Nat /\ Clutter \in 0 .. CacheSize
               /\ MaxRestarts \in Nat /\ MaxErrors \in Nat

(* What the proofs use of the constants.                                   *)
LEMMA AssumptionsHold == Assumptions
  BY NumJobsAssumption, KindAssumption, CacheAssumption, BoundAssumption
     DEF Assumptions

-----------------------------------------------------------------------------
(* MakeFreeSpaceOnCache never deletes more files than there are.           *)
LEMMA DeletedBound ==
  ASSUME TypeOK, NEW bytes \in 0 .. 1
  PROVE  clutter - Deleted(bytes) \in 0 .. CacheSize
<1>1. clutter \in 0 .. CacheSize /\ CacheSize \in Nat
  BY CacheAssumption DEF TypeOK
<1>2. CacheFree \in Int
  BY <1>1 DEF CacheFree
<1> QED
  BY <1>1, <1>2 DEF Deleted

(* A job's places: no two jobs write the same place, and a job's source is *)
(* written by no other job.                                                *)
LEMMA PlacesDistinct ==
  /\ \A j \in Jobs : Src(j) \in Places /\ Tgt(j) \in Places
  /\ \A j, k \in Jobs : Tgt(j) = Tgt(k) => j = k
  /\ \A j, k \in Jobs : Src(j) = Tgt(k) => j = k
  /\ \A j \in Jobs : Kind[j] = "part" => Tgt(j) = j
  BY NumJobsAssumption DEF Src, Tgt, Places, Jobs

(* apply_patch_check goes on to the next check or fails, and touches       *)
(* nothing but the list of files to skip, and that only with Baks.         *)
LEMMA CheckEffect ==
  ASSUME ApplyPatchCheckFn
  PROVE  /\ pc = "check" /\ UNCHANGED <<storage, local, restarts, errors>>
         /\ skip' = skip \cup {job} \/ skip' = skip
         /\ NextCheck \/ (pc' = "failed" /\ job' = job)
         /\ ~Baks => skip' = skip
<1>1. Fail => pc' = "failed" /\ job' = job /\ skip' = skip
  BY DEF Fail
<1> QED
  BY <1>1, Zenon DEF ApplyPatchCheckFn

-----------------------------------------------------------------------------
(* The script is at its first job when it starts.                          *)
StartsAtOne == pc = "start" => job = 1

TypeInv == TypeOK /\ StartsAtOne

(* The type invariant holds before the script has begun.                   *)
LEMMA TypeInit == Init => TypeInv
<1> SUFFICES ASSUME Init PROVE TypeInv
  OBVIOUS
<1>1. useSource \in BOOLEAN /\ madeCopy \in BOOLEAN
  BY Zenon DEF Init
<1> QED
  BY <1>1, AssumptionsHold
  DEF Assumptions, Init, TypeInv, TypeOK, StartsAtOne, Places, Jobs, Contents,
      SavedValues, Absent, Labels

(* Every step of the updater, and a restart, preserves it.                 *)
LEMMA TypeNext == TypeInv /\ [Next]_vars => TypeInv'
<1> SUFFICES ASSUME TypeOK, StartsAtOne, [Next]_vars
             PROVE  TypeOK' /\ StartsAtOne'
  BY DEF TypeInv
<1>1. NumJobs \in Nat /\ CacheSize \in Nat /\ MaxRestarts \in Nat /\ MaxErrors \in Nat
  BY AssumptionsHold DEF Assumptions
<1>2. \A b \in 0 .. 1 : clutter - Deleted(b) \in 0 .. CacheSize
  BY DeletedBound
<1>3. CASE ApplyPatchSpaceFn
  <2>1. clutter' \in 0 .. CacheSize
    BY <1>2, <1>3 DEF ApplyPatchSpaceFn, MakeFreeSpaceOnCache, TypeOK
  <2> QED
    BY <1>1, <1>3, <2>1 DEF ApplyPatchSpaceFn, TypeOK, StartsAtOne, local, Labels, Jobs
<1>4. CASE ApplyPatchCheckFn
  <2>1. /\ pc = "check" /\ UNCHANGED <<storage, local, restarts, errors>>
        /\ skip' = skip \cup {job} \/ skip' = skip
        /\ NextCheck \/ (pc' = "failed" /\ job' = job)
    BY <1>4, CheckEffect
  <2>2. job \in Jobs
    BY <2>1 DEF TypeOK
  <2>3. job' \in Jobs /\ pc' \in {"check", "apply", "failed"}
    BY <1>1, <2>1, <2>2 DEF NextCheck, Jobs
  <2>4. skip' \in SUBSET Jobs
    BY <2>1, <2>2 DEF TypeOK
  <2> QED
    BY <1>1, <2>1, <2>3, <2>4 DEF TypeOK, StartsAtOne, Labels, Jobs, local, storage
<1>5. CASE ApplyPatchFn
  <2>1. useSource' \in BOOLEAN /\ madeCopy' \in BOOLEAN
    BY <1>5, Zenon DEF ApplyPatchFn, TypeOK, local, SourceMatches
  <2>2. /\ size' \in 0 .. 1 /\ retry' \in 0 .. 1
        /\ job' \in 1 .. (NumJobs + 1) /\ pc' \in {"apply", "space", "done", "failed"}
        /\ pc' = "space" => job' \in Jobs
    BY <1>1, <1>5 DEF ApplyPatchFn, TypeOK, local, Jobs
  <2> QED
    BY <1>5, <2>1, <2>2 DEF ApplyPatchFn, TypeOK, StartsAtOne, storage, Labels
<1>6. CASE GenerateTargetSpace
  <2>1. clutter' \in 0 .. CacheSize
    BY <1>2, <1>6 DEF GenerateTargetSpace, MakeFreeSpaceOnCache, TypeOK
  <2> QED
    BY <1>1, <1>6, <2>1 DEF GenerateTargetSpace, TypeOK, StartsAtOne, Labels, Jobs
<1>7. CASE SaveOpen
  BY <1>7 DEF SaveOpen, TypeOK, StartsAtOne, local, Labels, SavedValues, Empty
<1>8. CASE SaveWrite
  <2>1. madeCopy' \in BOOLEAN
    BY <1>8, Zenon DEF SaveWrite, TypeOK
  <2>2. /\ saved' \in SavedValues /\ errors' \in 0 .. MaxErrors
        /\ pc' \in {"patch", "unlink", "failed"} /\ job \in Jobs
    BY <1>1, <1>8 DEF SaveWrite, SaveFailed, Error, TypeOK, SavedValues, Empty, Partial
  <2> QED
    BY <1>8, <2>1, <2>2 DEF SaveWrite, TypeOK, StartsAtOne, Labels
<1>9. CASE UnlinkSource
  BY <1>9 DEF UnlinkSource, TypeOK, StartsAtOne, local, Labels, Contents
<1>10. CASE OpenSink
  BY <1>1, <1>10 DEF OpenSink, Error, TypeOK, StartsAtOne, local, Labels
<1>11. CASE RunPatch
  BY <1>1, <1>11 DEF RunPatch, HashMismatch, Error, TypeOK, StartsAtOne, Labels
<1>12. CASE Commit
  BY <1>1, <1>12 DEF Commit, Error, TypeOK, StartsAtOne, local, Labels, Contents
<1>13. CASE WriteToPartition
  BY <1>1, <1>13 DEF WriteToPartition, Error, TypeOK, StartsAtOne, local,
                     Labels, Contents
<1>14. CASE Cleanup
  BY <1>1, <1>14 DEF Cleanup, TypeOK, StartsAtOne, local, Labels, Jobs,
                     SavedValues, Absent
<1>15. CASE Restart
  <2>1. useSource' \in BOOLEAN /\ madeCopy' \in BOOLEAN
    BY <1>15, Zenon DEF Restart
  <2>2. saved' \in SavedValues
    BY <1>15 DEF Restart, TypeOK, SavedValues
  <2> QED
    BY <1>1, <1>15, <2>1, <2>2 DEF Restart, TypeOK, StartsAtOne, Labels, Jobs
<1>16. CASE Exited \/ UNCHANGED vars
  BY <1>16 DEF Exited, vars, TypeOK, StartsAtOne
<1> QED
  BY <1>3, <1>4, <1>5, <1>6, <1>7, <1>8, <1>9, <1>10, <1>11, <1>12, <1>13,
     <1>14, <1>15, <1>16 DEF Next, Step

(* Type correctness: among other things the patcher never works on a job   *)
(* that does not exist and never frees more cache than there is.           *)
THEOREM TypeCorrect == Spec => []TypeOK
<1>1. TypeInv => TypeOK
  BY DEF TypeInv
<1> QED
  BY <1>1, TypeInit, TypeNext, PTL DEF Spec

-----------------------------------------------------------------------------
(* The work already done.  Every job before the current one is patched or  *)
(* was skipped; the current one is not patched until its commit; what is   *)
(* committed was verified.                                                 *)
Working == {"space", "save", "saving", "unlink", "patch", "patching",
            "commit", "writing"}
Patching == Working \cup {"apply", "cleanup", "done"}

EarlierDone == pc \in Patching =>
    \A k \in Jobs : k < job => disk[Tgt(k)] = "new" \/ k \in skip
CurrentNotDone == pc \in Working => disk[Tgt(job)] # "new"
CurrentDone == pc = "cleanup" => disk[Tgt(job)] = "new"
CommitVerified == pc = "commit" /\ Kind[job] # "part" => outname[job] = "new"
AllDone == pc = "done" => job = NumJobs + 1
WritingPartition == pc = "writing" => Kind[job] = "part"

ProgressInv == /\ TypeInv /\ EarlierDone /\ CurrentNotDone /\ CurrentDone
               /\ CommitVerified /\ AllDone /\ WritingPartition /\ OnlyVerified

(* Where the original of the current job is.  The copy on /cache belongs   *)
(* to a job whose predecessors are done, so whoever overwrites it is that  *)
(* job, which then still has its source, or a later one.                   *)
NoSkip == skip = {}
CopyInOrder == \A j \in Jobs : saved = j =>
    \A k \in Jobs : k < j => disk[Tgt(k)] = "new"
SourceInPlace == pc = "space" \/ (pc \in {"patch", "patching"} /\ retry > 0) =>
    (Kind[job] # "part" /\ useSource => disk[Src(job)] = "orig")
SavesSource == pc \in {"save", "saving", "unlink"} /\ Kind[job] # "part" =>
    useSource /\ disk[Src(job)] = "orig" /\ retry = 0
UnlinksSaved == pc = "unlink" => saved = job /\ Kind[job] # "part"
CopyIsMine == pc \in (Working \ {"save", "saving"}) \cup {"cleanup"} =>
    (madeCopy => saved \in {job, Empty})

CopyInv == /\ NoSkip /\ CopyInOrder /\ SavesSource /\ SourceInPlace
           /\ UnlinksSaved /\ CopyIsMine /\ Recoverable

-----------------------------------------------------------------------------
(* The progress invariant holds before the script has begun.               *)
LEMMA ProgressInit == Init => ProgressInv
<1> SUFFICES ASSUME Init PROVE ProgressInv
  OBVIOUS
<1>1. TypeInv
  BY TypeInit
<1>2. OnlyVerified
  BY DEF Init, OnlyVerified
<1> QED
  BY <1>1, <1>2 DEF Init, ProgressInv, EarlierDone, CurrentNotDone, CurrentDone,
     CommitVerified, AllDone, WritingPartition, Working, Patching

(* Every step preserves it: the jobs before the current one are done, and  *)
(* nothing is committed before its hash was compared.                      *)
LEMMA ProgressNext == ProgressInv /\ [Next]_vars => ProgressInv'
<1> SUFFICES ASSUME ProgressInv, [Next]_vars PROVE ProgressInv'
  OBVIOUS
<1> USE DEF Working, Patching
<1>1. TypeInv'
  BY TypeNext DEF ProgressInv
<1>2. /\ NumJobs \in Nat /\ job \in 1 .. (NumJobs + 1)
      /\ pc \in Working \cup {"check", "cleanup"} => job \in Jobs
      /\ disk \in [Places -> Contents] /\ outname \in [Jobs -> {"none", "part", "new"}]
      /\ EarlierDone /\ CurrentNotDone /\ CurrentDone /\ CommitVerified /\ AllDone
      /\ WritingPartition /\ OnlyVerified
  BY AssumptionsHold DEF Assumptions, ProgressInv, TypeInv, TypeOK
<1> DEFINE Rest == /\ EarlierDone /\ CurrentNotDone /\ CurrentDone /\ CommitVerified
                   /\ AllDone /\ WritingPartition /\ OnlyVerified
<1> SUFFICES Rest'
  BY <1>1 DEF ProgressInv
<1> USE DEF EarlierDone, CurrentNotDone, CurrentDone, CommitVerified, AllDone,
            WritingPartition
<1>3. CASE ApplyPatchSpaceFn
  <2>1. /\ job = 1 /\ job' = job /\ UNCHANGED disk
        /\ pc' \in {"failed", "apply", "check"}
    BY <1>3 DEF ApplyPatchSpaceFn, ProgressInv, TypeInv, StartsAtOne
  <2> QED
    BY <1>2, <2>1 DEF OnlyVerified, Jobs
<1>4. CASE ApplyPatchCheckFn
  <2>1. /\ pc = "check" /\ UNCHANGED disk
        /\ (pc' = "apply" /\ job' = 1) \/ pc' \in {"check", "failed"}
    BY <1>4, CheckEffect DEF NextCheck, storage
  <2> QED
    BY <1>2, <2>1 DEF OnlyVerified, Jobs
<1>5. CASE ApplyPatchFn
  BY <1>2, <1>5 DEF ApplyPatchFn, TargetMatches, storage, OnlyVerified, Jobs
<1>6. CASE GenerateTargetSpace
  BY <1>2, <1>6 DEF GenerateTargetSpace, OnlyVerified
<1>7. CASE SaveOpen
  BY <1>2, <1>7 DEF SaveOpen, OnlyVerified
<1>8. CASE SaveWrite
  BY <1>2, <1>8 DEF SaveWrite, SaveFailed, OnlyVerified
<1>9. CASE UnlinkSource
  BY <1>2, <1>9, PlacesDistinct DEF UnlinkSource, OnlyVerified, Places
<1>10. CASE OpenSink
  BY <1>2, <1>10 DEF OpenSink, OnlyVerified
<1>11. CASE RunPatch
  BY <1>2, <1>11 DEF RunPatch, HashMismatch, OnlyVerified
<1>12. CASE Commit
  BY <1>2, <1>12, PlacesDistinct DEF Commit, OnlyVerified, Places
<1>13. CASE WriteToPartition
  BY <1>2, <1>13, PlacesDistinct DEF WriteToPartition, OnlyVerified, Places
<1>14. CASE Cleanup
  BY <1>2, <1>14 DEF Cleanup, OnlyVerified, Jobs
<1>15. CASE Restart
  BY <1>2, <1>15 DEF Restart, OnlyVerified
<1>16. CASE Exited \/ UNCHANGED vars
  BY <1>2, <1>16 DEF Exited, vars, OnlyVerified
<1> QED
  BY <1>3, <1>4, <1>5, <1>6, <1>7, <1>8, <1>9, <1>10, <1>11, <1>12, <1>13,
     <1>14, <1>15, <1>16 DEF Next, Step

(* Only bytes whose hash was compared with the expected one are ever       *)
(* visible under a file's name.                                            *)
THEOREM FilesVerified == Spec => []OnlyVerified
<1>1. ProgressInv => OnlyVerified
  BY DEF ProgressInv
<1> QED
  BY <1>1, ProgressInit, ProgressNext, PTL DEF Spec

(* An updater that reports success has patched every job it did not skip.  *)
THEOREM SuccessPatched == Spec => []SuccessMeansPatched
<1>1. ProgressInv => SuccessMeansPatched
  BY NumJobsAssumption
  DEF ProgressInv, AllDone, EarlierDone, Patching, SuccessMeansPatched, Jobs
<1> QED
  BY <1>1, ProgressInit, ProgressNext, PTL DEF Spec

-----------------------------------------------------------------------------
(* Only UnlinkSource, Commit and WriteToPartition write a place, and it is *)
(* one of the current job, which is not patched yet.                       *)
LEMMA PatchedStep ==
  ASSUME ProgressInv, [Next]_vars
  PROVE  \A j \in Jobs : disk[Tgt(j)] = "new" => disk'[Tgt(j)] = "new"
<1>1. /\ pc \in Working => job \in Jobs /\ disk[Tgt(job)] # "new"
      /\ disk \in [Places -> Contents]
  BY DEF ProgressInv, TypeInv, TypeOK, CurrentNotDone, Working
<1>2. CASE UnlinkSource
  BY <1>1, <1>2, PlacesDistinct DEF UnlinkSource, Working
<1>3. CASE Commit
  BY <1>1, <1>3, PlacesDistinct DEF Commit, Working
<1>4. CASE WriteToPartition
  BY <1>1, <1>4, PlacesDistinct DEF WriteToPartition, Working
<1>5. CASE UNCHANGED disk
  BY <1>5
<1>6. CASE ApplyPatchSpaceFn \/ ApplyPatchCheckFn \/ ApplyPatchFn
           \/ GenerateTargetSpace \/ SaveOpen \/ SaveWrite \/ OpenSink
           \/ RunPatch \/ Cleanup \/ Restart \/ Exited \/ UNCHANGED vars
  <2>1. UNCHANGED disk
    BY <1>6, CheckEffect
    DEF ApplyPatchSpaceFn, ApplyPatchFn, GenerateTargetSpace, SaveOpen, SaveWrite,
        OpenSink, RunPatch, Cleanup, Restart, Exited, vars, storage
  <2> QED
    BY <1>5, <2>1
<1> QED
  BY <1>2, <1>3, <1>4, <1>6 DEF Next, Step

(* A rerun of the package never touches what is already patched.           *)
THEOREM RerunKeeps == Spec => PatchedStays
<1>1. ProgressInv /\ [Next]_vars =>
        [\A j \in Jobs : disk[Tgt(j)] = "new" => disk'[Tgt(j)] = "new"]_vars
  BY PatchedStep
<1> QED
  BY <1>1, ProgressInit, ProgressNext, PTL DEF Spec, PatchedStays

-----------------------------------------------------------------------------
(* The invariant about CACHE_TEMP_SOURCE holds at first.                   *)
LEMMA CopyInit == Init => CopyInv
<1> SUFFICES ASSUME Init PROVE CopyInv
  OBVIOUS
<1>1. Recoverable
  BY PlacesDistinct DEF Init, Recoverable, Src
<1>2. NoSkip /\ CopyInOrder
  BY DEF Init, NoSkip, CopyInOrder, Absent, Jobs
<1>3. SourceInPlace /\ SavesSource /\ UnlinksSaved /\ CopyIsMine
  BY DEF Init, SourceInPlace, SavesSource, UnlinksSaved, CopyIsMine, Working
<1> QED
  BY <1>1, <1>2, <1>3 DEF CopyInv

(* While a job is worked on, and when it is cleaned up, the copy is not    *)
(* the last resort of another one: losing it, or replacing it by the       *)
(* current job's source, leaves every other job's original safe.           *)
LEMMA CopyExpendable ==
  ASSUME ProgressInv, CopyInv, pc \in Working,
         NEW j \in Jobs, j # job, Kind[j] # "part"
  PROVE  disk[Src(j)] = "orig" \/ disk[Tgt(j)] = "new"
<1>1. job \in Jobs /\ disk[Tgt(job)] # "new" /\ NumJobs \in Nat
  BY NumJobsAssumption DEF ProgressInv, TypeInv, TypeOK, CurrentNotDone, Working
<1>2. j < job => disk[Tgt(j)] = "new"
  BY DEF ProgressInv, EarlierDone, CopyInv, NoSkip, Patching
<1>3. job < j => saved # j
  BY <1>1 DEF CopyInv, CopyInOrder
<1>4. j < job \/ job < j
  BY <1>1 DEF Jobs
<1> QED
  BY <1>2, <1>3, <1>4 DEF CopyInv, Recoverable

(* Every step preserves it when no file of the backup tool is skipped:     *)
(* saving, unlinking, patching and deleting the copy happen in an order    *)
(* that always leaves one whole original.                                  *)
LEMMA CopyNext ==
  ASSUME ~Baks, ProgressInv, CopyInv, [Next]_vars
  PROVE  CopyInv'
<1>1. /\ NumJobs \in Nat /\ job \in 1 .. (NumJobs + 1)
      /\ pc \in Working \cup {"check", "cleanup"} => job \in Jobs
      /\ disk \in [Places -> Contents]
  BY AssumptionsHold DEF Assumptions, ProgressInv, TypeInv, TypeOK, Working
<1>2. \A j \in Jobs : disk[Tgt(j)] = "new" => disk'[Tgt(j)] = "new"
  BY PatchedStep
<1>3. pc \in Patching => \A k \in Jobs : k < job => disk[Tgt(k)] = "new"
  BY DEF ProgressInv, EarlierDone, CopyInv, NoSkip
<1>4. pc \in Working => \A j \in Jobs : j # job /\ Kind[j] # "part" =>
                             disk[Src(j)] = "orig" \/ disk[Tgt(j)] = "new"
  BY CopyExpendable
<1>5. /\ NoSkip /\ CopyInOrder /\ SourceInPlace /\ SavesSource
      /\ UnlinksSaved /\ CopyIsMine /\ Recoverable
  BY DEF CopyInv
<1> USE DEF Working
<1>6. NoSkip'
  <2>1. CASE ApplyPatchCheckFn
    BY <1>5, <2>1, CheckEffect DEF NoSkip
  <2>2. CASE ~ApplyPatchCheckFn
    BY <1>5, <2>2
    DEF Next, Step, NoSkip, ApplyPatchSpaceFn, ApplyPatchFn, GenerateTargetSpace,
        SaveOpen, SaveWrite, UnlinkSource, OpenSink, RunPatch, Commit,
        WriteToPartition, Cleanup, Restart, Exited, vars
  <2> QED
    BY <2>1, <2>2
<1>7. CopyInOrder'
  <2>1. CASE saved' = saved
    BY <1>2, <1>5, <2>1 DEF CopyInOrder
  <2>2. CASE saved' \notin Jobs
    BY <2>2 DEF CopyInOrder
  <2>3. CASE pc = "saving" /\ saved' = job
    BY <1>2, <1>3, <2>3 DEF CopyInOrder, Patching
  <2>4. saved' = saved \/ saved' \notin Jobs \/ (pc = "saving" /\ saved' = job)
    BY CheckEffect, <1>1
    DEF Next, Step, ApplyPatchSpaceFn, ApplyPatchFn, GenerateTargetSpace,
        SaveOpen, SaveWrite, UnlinkSource, OpenSink, RunPatch, Commit,
        WriteToPartition, Cleanup, Restart, Exited, vars, storage,
        Empty, Partial, Absent, Jobs
  <2> QED
    BY <2>1, <2>2, <2>3, <2>4
<1>8. (SourceInPlace /\ SavesSource /\ UnlinksSaved /\ CopyIsMine)'
  <2> USE DEF SourceInPlace, SavesSource, UnlinksSaved, CopyIsMine
  <2>1. CASE pc' \notin Working \cup {"cleanup"}
    BY <2>1
  <2>2. CASE ApplyPatchFn
    <3>1. /\ pc' \notin Working \ {"space"} /\ pc' # "cleanup" /\ disk' = disk
          /\ pc' = "space" => job' = job /\ madeCopy' = FALSE
                              /\ useSource' = (disk[Src(job)] = "orig")
      BY <2>2 DEF ApplyPatchFn, SourceMatches, storage
    <3>2. Src(job') = job' /\ Src(job) = job
      BY DEF Src
    <3>3. SourceInPlace'
      BY <3>1, <3>2, Zenon DEF Src
    <3>4. CopyIsMine'
      BY <3>1, Zenon
    <3> QED
      BY <3>1, <3>3, <3>4
  <2>3. CASE GenerateTargetSpace
    BY <1>1, <1>5, <2>3 DEF GenerateTargetSpace
  <2>4. CASE SaveOpen
    BY <1>1, <1>5, <2>4 DEF SaveOpen, local
  <2>5. CASE SaveWrite
    BY <1>1, <1>5, <2>5 DEF SaveWrite, SaveFailed
  <2>6. CASE UnlinkSource
    BY <1>1, <1>5, <2>6 DEF UnlinkSource, local
  <2>7. CASE OpenSink
    BY <1>1, <1>5, <2>7 DEF OpenSink, local
  <2>8. CASE RunPatch
    BY <1>1, <1>5, <2>8 DEF RunPatch, HashMismatch
  <2>9. CASE Commit \/ WriteToPartition
    BY <1>1, <1>5, <2>9 DEF Commit, WriteToPartition, local
  <2>10. CASE ApplyPatchSpaceFn \/ ApplyPatchCheckFn \/ Cleanup \/ Restart \/ Exited
    <3>1. pc' \notin Working \cup {"cleanup"}
      BY <2>10, CheckEffect DEF ApplyPatchSpaceFn, NextCheck, Cleanup, Restart,
                                Exited, vars
    <3> QED
      BY <2>1, <3>1
  <2>11. CASE UNCHANGED vars
    BY <1>5, <2>11 DEF vars, Src
  <2> QED
    BY <2>2, <2>3, <2>4, <2>5, <2>6, <2>7, <2>8, <2>9, <2>10, <2>11 DEF Next, Step
<1>9. Recoverable'
  <2>1. CASE pc = "saving" /\ UNCHANGED disk
    <3>1. Kind[job] # "part" => disk[Src(job)] = "orig"
      BY <1>5, <2>1 DEF SavesSource
    <3> QED
      BY <1>4, <2>1, <3>1 DEF Recoverable, Src, Tgt
  <2>2. CASE SaveOpen
    <3>1. Kind[job] # "part" => disk[Src(job)] = "orig"
      BY <1>5, <2>2 DEF SaveOpen, SavesSource
    <3> QED
      BY <1>4, <2>2, <3>1 DEF SaveOpen, Recoverable, Src, Tgt
  <2>3. CASE UnlinkSource
    BY <1>1, <1>2, <1>5, <2>3, PlacesDistinct
    DEF UnlinkSource, UnlinksSaved, Recoverable, Src
  <2>4. CASE Commit
    BY <1>1, <1>2, <1>5, <2>4, PlacesDistinct
    DEF Commit, Recoverable, ProgressInv, CommitVerified
  <2>5. CASE WriteToPartition
    BY <1>1, <1>2, <1>5, <2>5, PlacesDistinct DEF WriteToPartition, Recoverable
  <2>6. CASE Cleanup
    <3>1. job \in Jobs /\ disk[Tgt(job)] = "new"
      BY <1>1, <2>6 DEF Cleanup, ProgressInv, CurrentDone
    <3>2. saved' # saved => saved \in {job, Empty}
      BY <1>5, <2>6 DEF Cleanup, CopyIsMine
    <3> QED
      BY <1>5, <2>6, <3>1, <3>2 DEF Cleanup, Recoverable, Empty, Jobs
  <2>7. CASE UNCHANGED <<disk, saved>>
    BY <1>5, <2>7 DEF Recoverable, Src, Tgt
  <2>8. CASE ApplyPatchSpaceFn \/ ApplyPatchCheckFn \/ ApplyPatchFn
             \/ GenerateTargetSpace \/ SaveWrite \/ OpenSink \/ RunPatch
             \/ Restart \/ Exited \/ UNCHANGED vars
    <3>1. UNCHANGED disk /\ (pc = "saving" \/ saved' = saved)
      BY <2>8, CheckEffect
      DEF ApplyPatchSpaceFn, ApplyPatchFn, GenerateTargetSpace, SaveWrite, OpenSink,
          RunPatch, Restart, Exited, vars, storage
    <3> QED
      BY <2>1, <2>7, <3>1
  <2> QED
    BY <2>2, <2>3, <2>4, <2>5, <2>6, <2>8 DEF Next, Step
<1> QED
  BY <1>6, <1>7, <1>8, <1>9 DEF CopyInv

(* No file is ever lost, whenever the device dies: until a job's target    *)
(* has its new contents, its original is in place or in the cache.  With   *)
(* files of the backup tool (Baks) this is false.                          *)
THEOREM NothingLost ==
  ASSUME ~Baks
  PROVE  Spec => []Recoverable
<1>1. Init => ProgressInv /\ CopyInv
  BY ProgressInit, CopyInit
<1>2. ProgressInv /\ CopyInv /\ [Next]_vars => (ProgressInv /\ CopyInv)'
  BY ProgressNext, CopyNext
<1>3. CopyInv => Recoverable
  BY DEF CopyInv
<1> QED
  BY <1>1, <1>2, <1>3, PTL DEF Spec

-----------------------------------------------------------------------------
(* A cache of two blocks has room for a copy: what is in the way is the    *)
(* copy of an earlier run, or can be deleted.                              *)
LEMMA RoomForCopy ==
  ASSUME TypeOK, CacheSize >= 2, NEW bytes \in 0 .. 1
  PROVE  HasFreeSpace(bytes)
<1>1. clutter \in 0 .. CacheSize /\ CacheSize \in Nat
  BY CacheAssumption DEF TypeOK
<1>2. CacheFree = CacheSize - clutter \/ CacheFree = CacheSize - clutter - 1
  BY <1>1 DEF CacheFree
<1> QED
  BY <1>1, <1>2 DEF HasFreeSpace, Deleted

(* Without storage errors no run of a script of file patches fails, however*)
(* often and wherever an earlier run was killed ("safely restartable at    *)
(* any point").  With a partition (patch_partition_lost), a check before   *)
(* the patches, or a cache of one block, this is false: a partition has no *)
(* atomic rename, apply_patch_check() gives up on a file that is only in   *)
(* the cache, and a copy that an earlier run left is never deleted.        *)
THEOREM RerunSucceeds ==
  ASSUME ~Baks, ~ScriptChecks, CacheSize >= 2, \A j \in Jobs : Kind[j] # "part"
  PROVE  Spec => []RestartSafe
<1> DEFINE IInv == ProgressInv /\ CopyInv /\ pc # "check" /\ RestartSafe
<1>1. Init => IInv
  BY ProgressInit, CopyInit DEF Init, RestartSafe
<1>2. IInv /\ [Next]_vars => IInv'
  <2> SUFFICES ASSUME IInv, [Next]_vars PROVE IInv'
    OBVIOUS
  <2>1. ProgressInv' /\ CopyInv'
    BY ProgressNext, CopyNext
  <2>2. /\ TypeOK /\ Recoverable /\ SavesSource
        /\ pc \in Working => job \in Jobs
        /\ errors \in Nat /\ size \in 0 .. 1 /\ \A e : e = errors + 1 => e # 0
    BY AssumptionsHold
       DEF Assumptions, ProgressInv, CopyInv, TypeInv, TypeOK, Working
  <2>3. HasFreeSpace(size)
    BY <2>2, RoomForCopy
  <2> USE DEF RestartSafe, Error
  <2>4. CASE ApplyPatchSpaceFn
    BY <2>1, <2>4 DEF ApplyPatchSpaceFn
  <2>5. CASE ApplyPatchFn
    <3>1. ASSUME job \in Jobs, ~TargetMatches(job), ~SourceMatches(job),
                 ~CopyMatches(job)
          PROVE  FALSE
      BY <2>2, <3>1 DEF Recoverable, TargetMatches, SourceMatches, CopyMatches
    <3> QED
      BY <2>1, <2>5, <3>1 DEF ApplyPatchFn
  <2>6. CASE GenerateTargetSpace
    BY <2>1, <2>2, <2>3, <2>6 DEF GenerateTargetSpace
  <2>7. CASE SaveWrite
    <3>1. useSource
      BY <2>2, <2>7 DEF SaveWrite, SavesSource, Working
    <3> QED
      BY <2>1, <2>2, <2>7, <3>1 DEF SaveWrite, SaveFailed
  <2>8. CASE SaveOpen \/ UnlinkSource \/ Cleanup \/ Restart
    BY <2>1, <2>8 DEF SaveOpen, UnlinkSource, Cleanup, Restart
  <2>9. CASE OpenSink \/ Commit
    BY <2>1, <2>2, <2>9 DEF OpenSink, Commit
  <2>10. CASE RunPatch \/ WriteToPartition
    BY <2>1, <2>2, <2>10 DEF RunPatch, HashMismatch, WriteToPartition
  <2>11. CASE Exited \/ UNCHANGED vars
    BY <2>1, <2>11 DEF Exited, vars
  <2> QED
    BY <2>4, <2>5, <2>6, <2>7, <2>8, <2>9, <2>10, <2>11
       DEF Next, Step, ApplyPatchCheckFn
<1> QED
  BY <1>1, <1>2, PTL DEF Spec

-----------------------------------------------------------------------------
(* Refinement: a step patches the current job and nothing else, or leaves  *)
(* the set of patched jobs as it is.                                       *)
LEMMA PatchedEffect ==
  ASSUME ProgressInv, CopyInv, [Next]_vars
  PROVE  \/ Patched' = Patched
         \/ /\ pc \in {"commit", "writing"} /\ pc' = "cleanup"
            /\ job \in Jobs \ Patched /\ Patched' = Patched \cup {job}
            /\ 1 .. (job - 1) \subseteq Patched
<1>1. /\ NumJobs \in Nat /\ disk \in [Places -> Contents]
      /\ pc \in Working => job \in Jobs /\ disk[Tgt(job)] # "new"
  BY AssumptionsHold DEF Assumptions, ProgressInv, TypeInv, TypeOK, CurrentNotDone, Working
<1>2. CASE UnlinkSource
  BY <1>1, <1>2, PlacesDistinct DEF UnlinkSource, Patched, Working
<1>3. CASE Commit \/ WriteToPartition
  <2>1. pc \in {"commit", "writing"} /\ job \in Jobs \ Patched
    BY <1>1, <1>3 DEF Commit, WriteToPartition, Working, Patched
  <2>2. 1 .. (job - 1) \subseteq Patched
    BY <1>1, <2>1 DEF ProgressInv, EarlierDone, CopyInv, NoSkip, Patching, Working,
                      Patched, Jobs
  <2>3. \A j \in Jobs : j # job => disk'[Tgt(j)] = disk[Tgt(j)]
    BY <1>1, <1>3, <2>1, PlacesDistinct DEF Commit, WriteToPartition
  <2>4. \/ disk'[Tgt(job)] # "new"
        \/ disk'[Tgt(job)] = "new" /\ pc' = "cleanup"
    BY <1>1, <1>3, <2>1, PlacesDistinct DEF Commit, WriteToPartition, Working
  <2> QED
    BY <2>1, <2>2, <2>3, <2>4 DEF Patched
<1>4. CASE ApplyPatchSpaceFn \/ ApplyPatchCheckFn \/ ApplyPatchFn
           \/ GenerateTargetSpace \/ SaveOpen \/ SaveWrite \/ OpenSink
           \/ RunPatch \/ Cleanup \/ Restart \/ Exited \/ UNCHANGED vars
  <2>1. UNCHANGED disk
    BY <1>4, CheckEffect
    DEF ApplyPatchSpaceFn, ApplyPatchFn, GenerateTargetSpace, SaveOpen, SaveWrite,
        OpenSink, RunPatch, Cleanup, Restart, Exited, vars, storage
  <2> QED
    BY <2>1 DEF Patched
<1> QED
  BY <1>2, <1>3, <1>4 DEF Next, Step

(* How the script's outcome changes: success is reported only when all     *)
(* jobs are patched, and only a restart takes an outcome back.             *)
LEMMA OutcomeEffect ==
  ASSUME ProgressInv, CopyInv, [Next]_vars
  PROVE  \/ Outcome' = Outcome
         \/ Outcome = "running" /\ Outcome' = "done" /\ Patched = Jobs
         \/ Outcome = "running" /\ Outcome' = "failed"
         \/ Outcome' = "running" /\ UNCHANGED disk
<1>1. CASE pc' = "done" /\ ApplyPatchFn
  <2>1. pc = "apply" /\ job = NumJobs + 1 /\ NumJobs \in Nat
    BY <1>1, NumJobsAssumption DEF ApplyPatchFn
  <2>2. Patched = Jobs
    BY <2>1 DEF ProgressInv, EarlierDone, CopyInv, NoSkip, Patching, Patched, Jobs
  <2> QED
    BY <1>1, <2>1, <2>2 DEF Outcome
<1>2. CASE Step /\ ~(pc' = "done" /\ ApplyPatchFn)
  <2>1. pc \notin {"done", "failed"}
    BY <1>2, CheckEffect
    DEF Step, ApplyPatchSpaceFn, ApplyPatchFn, GenerateTargetSpace, SaveOpen,
        SaveWrite, UnlinkSource, OpenSink, RunPatch, Commit, WriteToPartition, Cleanup
  <2>2. pc' # "done"
    BY <1>2, CheckEffect
    DEF Step, ApplyPatchSpaceFn, NextCheck, GenerateTargetSpace, SaveOpen,
        SaveWrite, SaveFailed, UnlinkSource, OpenSink, RunPatch, HashMismatch,
        Commit, WriteToPartition, Cleanup
  <2> QED
    BY <2>1, <2>2 DEF Outcome
<1>3. CASE Restart
  BY <1>3 DEF Restart, Outcome
<1>4. CASE Exited \/ UNCHANGED vars
  BY <1>4 DEF Exited, vars, Outcome
<1> QED
  BY <1>1, <1>2, <1>3, <1>4 DEF Next

(* The patcher implements AtomicUpdate: jobs take effect at once, in order *)
(* and once, however often the script is killed and started over.          *)
THEOREM Refinement ==
  ASSUME ~Baks
  PROVE  Spec => ImplementsAtomicUpdate
<1>1. Init => Atomic!AInit
  BY AssumptionsHold, PlacesDistinct
  DEF Assumptions, Init, Atomic!AInit, Patched, Outcome, Tgt, Jobs
<1>2. ProgressInv /\ CopyInv /\ [Next]_vars => [Atomic!ANext]_(Atomic!avars)
  <2> SUFFICES ASSUME ProgressInv, CopyInv, [Next]_vars
               PROVE  Atomic!ANext \/ UNCHANGED Atomic!avars
    OBVIOUS
  <2> USE DEF Atomic!ANext, Atomic!avars, Atomic!Jobs
  <2>1. CASE Patched' = Patched
    BY <2>1, OutcomeEffect
    DEF Atomic!Succeed, Atomic!Abort, Atomic!Rerun, Jobs
  <2>2. CASE Patched' # Patched
    <3>1. /\ pc \in {"commit", "writing"} /\ pc' = "cleanup"
          /\ job \in Jobs \ Patched /\ Patched' = Patched \cup {job}
          /\ 1 .. (job - 1) \subseteq Patched
      BY <2>2, PatchedEffect
    <3>2. Outcome = "running" /\ Outcome' = "running"
      BY <3>1 DEF Outcome
    <3> QED
      BY <3>1, <3>2 DEF Atomic!Patch, Jobs
  <2> QED
    BY <2>1, <2>2
<1>3. Init => ProgressInv /\ CopyInv
  BY ProgressInit, CopyInit
<1>4. ProgressInv /\ CopyInv /\ [Next]_vars => (ProgressInv /\ CopyInv)'
  BY ProgressNext, CopyNext
<1> QED
  BY <1>1, <1>2, <1>3, <1>4, PTL DEF Spec, ImplementsAtomicUpdate, Atomic!ASpec

=============================================================================
