------------------------------ MODULE Package -------------------------------
(***************************************************************************)
(* What is done with a package, one job at a time: its directory is read,  *)
(* a part of it extracted, a patch applied to an image, its script run by  *)
(* the updater.  Recovery runs the script of a package again when the      *)
(* power was lost during the first run.  And the file chooser, with which  *)
(* a package is picked.                                                    *)
(***************************************************************************)
EXTENDS Edify, ImgPatch, FileChooser

CONSTANT Jobs       \* sets of jobs, each with the world it starts in
VARIABLES job, out

pvars == <<job, out>>

Nothing == [kind |-> "nothing"]
NoError == [why |-> "none", at |-> 0]

(* A new process: what it had in memory is gone, the disk is as it was.    *)
Restarted(w) ==
    [w EXCEPT !.off = FALSE, !.fail = 0, !.mounted = {}, !.pipe = << >>, !.baks = {},
              !.err = "none", !.log = << >>, !.firstErr = NoError, !.killed = FALSE]

OnDisk(w) == <<w.tree, w.part, w.meta, w.stage>>

PackageInit == (\E i \in DOMAIN Jobs : job \in Jobs[i]) /\ out = Nothing

ReadDirectory ==
    /\ job.kind = "directory" /\ out = Nothing
    /\ out' = [kind |-> "directory", z |-> ParseZipArchive(job.archive)]
    /\ UNCHANGED job

Extract ==
    /\ job.kind = "extract" /\ out = Nothing
    /\ \E r \in {ExtractRecursive(job.w, ParseZipArchive(job.archive), job.zipDir, job.target, job.filesOnly)} :
       out' = [kind |-> "extract", ok |-> r.ok, w |-> r.w]
    /\ UNCHANGED job

ReadEntry ==
    /\ job.kind = "entry" /\ out = Nothing
    /\ LET e == job.archive.dir[1] IN
       out' = [kind |-> "entry", intact |-> IsZipEntryIntact(job.w, e).ok,
               read |-> ReadZipEntry(job.w, e, job.room).ok,
               buffer |-> ExtractZipEntryToBuffer(job.w, e).ok]
    /\ UNCHANGED job

RunScript ==
    /\ job.kind = "script" /\ out = Nothing
    /\ out' = [kind |-> "script", run |-> UpdaterMain(job.w, job.archive, job.script)]
    /\ UNCHANGED job

ApplyImage ==
    /\ job.kind = "image" /\ out = Nothing
    /\ \E r \in {ApplyImagePatch(NewSink(job.failAt, job.part), job.old, job.patch, job.bonus)} :
       out' = [kind |-> "image", rc |-> r.rc, s |-> r.s]
    /\ UNCHANGED job

ChooseFile ==
    /\ job.kind = "choose" /\ out = Nothing
    /\ out' = [kind |-> "choose", r |-> ChooseFileMenu(job.dir, job.picks, << >>)]
    /\ UNCHANGED job

(* The power came back, and recovery starts the package again.             *)
RunAgain ==
    /\ out.kind \in {"script", "again"} /\ out.run.w.off
    /\ out' = [kind |-> "again",
               run |-> UpdaterMain(Restarted(out.run.w), job.archive, job.script)]
    /\ UNCHANGED job

PackageNext ==
    \/ ReadDirectory \/ Extract \/ ReadEntry
    \/ RunScript \/ RunAgain \/ ApplyImage \/ ChooseFile

PackageSpec == PackageInit /\ [][PackageNext]_pvars

-----------------------------------------------------------------------------
Wanted(e, zpath) == IsPrefix(zpath, e.name) /\ ~IsDirEntry(e)

Extracted(z, zipDir, targetDir, w) ==
    LET zpath == Zpath(zipDir) IN
    \A i \in DOMAIN z.entries :
        LET e == z.entries[i]
            later == \E j \in i + 1 .. Len(z.entries) : z.entries[j].name = e.name IN
        Wanted(e, zpath) /\ ~later =>
            At(w, TargetEntryPath(targetDir, zpath, e)) \in {e.contents, "link"}

(* What minzip finds, reads and extracts is what the archive holds.  An    *)
(* accepted directory is kept: nothing is lost or doubled by the sorting,  *)
(* and every name, and no other, is found in the hash table, one that      *)
(* occurs twice as the entry that came first.  An entry is read whole, and *)
(* agrees with its size and CRC, or the call fails.  Stopping at the first *)
(* entry that does not match after one that did leaves none out: when no   *)
(* call fails and the extraction is reported, every file below zipDir is   *)
(* below the target directory, and whatever happens nothing else but       *)
(* directories above them changes.                                         *)
ArchiveKept ==
    /\ out.kind = "directory" /\ out.z.ok =>
        LET es == out.z.entries
            dir == SubSeq(job.archive.dir, 1, job.archive.num)
            First(n) == dir[CHOOSE i \in DOMAIN dir :
                            dir[i].name = n /\ \A j \in 1 .. i - 1 : dir[j].name # n] IN
        /\ Len(es) = Len(dir)
        /\ ToSet(es) = ToSet(dir)
        /\ \A i \in 1 .. Len(es) - 1 : ~NameLess(es[i + 1].name, es[i].name)
        /\ \A n \in {e.name : e \in ToSet(job.archive.dir)} \cup {job.absent} :
            FindZipEntry(out.z, n) =
                IF \E i \in DOMAIN dir : dir[i].name = n THEN <<First(n)>> ELSE NotFound
    /\ out.kind = "entry" =>
        LET e == job.archive.dir[1] IN
        /\ out.read => e.chunks <= job.room /\ e.how \in {"STORED", "DEFLATED"}
        /\ out.buffer => e.chunks = e.uncompLen
        /\ out.intact => e.crcOk /\ (e.how = "DEFLATED" => e.chunks = e.uncompLen)
    /\ out.kind = "extract" =>
        LET z == ParseZipArchive(job.archive) IN
        /\ out.ok /\ job.w.fail = 0 => Extracted(z, job.zipDir, job.target, out.w)
        /\ \A p \in Paths : At(out.w, p) # At(job.w, p) =>
            \/ At(job.w, p) = "none" /\ IsDir(out.w, p)
            \/ \E e \in ToSet(z.entries) : /\ Wanted(e, Zpath(job.zipDir))
                                           /\ p = TargetEntryPath(job.target, Zpath(job.zipDir), e)

(* mzExtractRecursive() "Returns true on success, false on failure."       *)
(* (minzip/Zip.c:928): true means that every file was extracted.           *)
ExtractReports ==
    out.kind = "extract" /\ out.ok =>
        Extracted(ParseZipArchive(job.archive), job.zipDir, job.target, out.w)

-----------------------------------------------------------------------------
Accepted == out.rc = "ok" /\ out.s.sha = job.target

(* GenerateTarget() accepts a target, because the patch was applied and    *)
(* the hash is the one expected, only if it was written to its last byte:  *)
(* the result of a normal chunk is not looked at (imgpatch.c:82), but a    *)
(* write that came short never got into the hash.  And it does accept what *)
(* a patch for this source and this target gives, when no write fails,     *)
(* however the target was divided into chunks and each into added and      *)
(* inserted bytes, wherever in the source these were found.                *)
TargetWhole ==
    out.kind = "image" =>
        /\ Accepted => out.s.data = job.target
        /\ job.good /\ job.failAt = 0 => Accepted

-----------------------------------------------------------------------------
(* Where the picks lead, by the names that were shown: into a directory,   *)
(* back out of it, or to the file.                                         *)
RECURSIVE Followed(_, _)
Followed(seen, path) ==
    IF seen = << >> THEN path
    ELSE LET m == Head(seen) IN
         Followed(Tail(seen),
             IF m.item # GoBack THEN Append(path, m.list[m.item + 1])
             ELSE IF path = << >> THEN path ELSE Front(path))

(* The file that is restored or deleted is the one the user saw under the  *)
(* line that was chosen, through any number of directories and ways back;  *)
(* and each list is in order, the directories first.                       *)
MenuExact ==
    out.kind = "choose" =>
        /\ out.r.path # NoPath => out.r.path = Followed(out.r.seen, << >>)
        /\ LET visible == SelectSeq(job.dir, LAMBDA e : ~e.hidden)
               InOrder(test(_)) ==
                SetToSortSeq({e.name : e \in {e \in ToSet(visible) : test(e)}}, <) IN
           out.r.seen[1].list = InOrder(LAMBDA e : e.dir) \o InOrder(LAMBDA e : e.ext)

-----------------------------------------------------------------------------
Ran == out.kind \in {"script", "again"}

(* An error ends the script: however deep in the expression the function   *)
(* that reports it is called, no other function runs after it and the      *)
(* updater does not exit with 0.  (Of set_metadata() on a path that is not *)
(* there this is not so: its error is reported and the script goes on.)    *)
ErrorStops ==
    Ran /\ out.run.w.err # "none" /\ out.run.w.firstErr.why # "lstat" =>
        /\ out.run.code # 0
        /\ Len(out.run.w.log) = out.run.w.firstErr.at

RECURSIVE FunctionsIn(_)
FunctionsIn(e) ==
    {e.fn} \cup IF e.fn = "literal" THEN {} ELSE UNION {FunctionsIn(e.args[i]) : i \in DOMAIN e.args}

Undisturbed(w) ==
    Given(UpdaterMain([w EXCEPT !.fail = 0], job.archive, job.script), LAMBDA r :
        IF r.w.off THEN UpdaterMain(Restarted(r.w), job.archive, job.script) ELSE r)

(* Power lost at any system call, and the package started again: the       *)
(* script ends as it would have without the loss, with the same files,     *)
(* partitions, attributes and stage.  (Not so for rename(), which aborts   *)
(* the second time, nor where a call depends on what an earlier run left.) *)
RerunConverges ==
    out.kind = "again" /\ ~out.run.w.off /\ "rename" \notin FunctionsIn(job.script.root) =>
        \E r \in {Undisturbed(job.w)} : out.run.code = r.code /\ OnDisk(out.run.w) = OnDisk(r.w)

=============================================================================
