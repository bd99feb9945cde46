------------------------------ MODULE Updater -------------------------------
(***************************************************************************)
(* The functions updater/install.c adds to the script language.  A string  *)
(* is a sequence of character codes, a word being one code; a value is     *)
(* NULL, a string or a blob (its contents, BadBlob for size -1).  A        *)
(* function takes a world and its arguments, already evaluated, and gives  *)
(* [v, w].  Beyond FileTree's fields a world has: z (the package), mounted *)
(* (mount points), part (what the flash partitions hold), meta (the        *)
(* attributes of the paths), pipe (the commands sent to recovery), baks    *)
(* (bakfiles), stage (in the misc partition), command (whether the misc    *)
(* partition holds a command), err (errmsg), log (the functions called),   *)
(* firstErr (the first error and their number then), killed (by a signal). *)
(***************************************************************************)
EXTENDS Zip

CONSTANTS
    PropLines,      \* what file_getprop() sees in a file with given contents
    Digest,         \* the SHA-1 of given contents, as a string
    StageMax        \* bound: the size of the stage field, without its NUL

NULL == [type |-> "NULL"]
StringValue(s) == [type |-> "STRING", data |-> s]
Blob(contents) == [type |-> "BLOB", data |-> contents]
BadBlob == Blob("size -1")

EmptyString == << >>
T == <<116>>
MTD == <<1001>>
EXT4 == <<1002>>
SCRIPT_NAME == <<1003>>

Decimal(n) == <<48 + n>>        \* of a number below ten
BooleanString(s) == s # EmptyString
Flag(b) == IF b THEN T ELSE EmptyString

Ret(s, w) == [v |-> StringValue(s), w |-> w]
ErrorAbort(w, why) ==
    [w EXCEPT !.err = why, !.firstErr = IF w.err = "none" THEN [why |-> why, at |-> Len(w.log)] ELSE @]
Abort(w, why) == [v |-> NULL, w |-> ErrorAbort(w, why)]
Kill(w) == [v |-> NULL, w |-> [w EXCEPT !.killed = TRUE]]
Send(w, command) == [w EXCEPT !.pipe = Append(@, command)]

(* The value of many functions: an argument, or nothing after a failure.   *)
Named(s, r) == Ret(IF r.ok THEN s ELSE EmptyString, r.w)

AnyEmpty(args) == \E i \in DOMAIN args : args[i] = EmptyString

-----------------------------------------------------------------------------
(* mount(fs_type, partition_type, location, mount_point): a mount that     *)
(* fails is an empty string, not an abort.                                 *)
MountFn(w, args) ==
    LET mp == Components(args[4])
        Mounted(dir) ==
            IF (args[2] = MTD /\ args[3] \notin DOMAIN w.part) \/ ~IsDir(dir, mp) THEN Ret(EmptyString, dir)
            ELSE Named(args[4], Try(dir, [dir EXCEPT !.mounted = @ \cup {mp}])) IN
    IF AnyEmpty(args) THEN Abort(w, "empty argument") ELSE Mounted(Mkdir(w, mp).w)

IsMountedFn(w, args) ==
    IF AnyEmpty(args) THEN Abort(w, "empty argument")
    ELSE Ret(IF Components(args[1]) \in w.mounted THEN args[1] ELSE EmptyString, w)

(* unmount(): that the system call fails is not noticed.                   *)
UnmountFn(w, args) ==
    LET mp == Components(args[1]) IN
    CASE AnyEmpty(args) -> Abort(w, "empty argument")
      [] mp \notin w.mounted -> Ret(EmptyString, w)
      [] OTHER -> Ret(args[1], Try(w, [w EXCEPT !.mounted = @ \ {mp}]).w)

(* format(fs_type, partition_type, location, fs_size, mount_point): opened,*)
(* erased, closed; an unknown type aborts without a message.               *)
Erased(w, p) == [w EXCEPT !.part[p] = "erased"]

FormatFn(w, args) ==
    LET Erase(opened) == Try(opened, Erased(opened, args[3]))
        Close(erased) == Try(erased, erased) IN
    CASE AnyEmpty(<<args[1], args[2], args[3], args[5]>>) -> Abort(w, "empty argument")
      [] args[2] = MTD /\ args[3] \notin DOMAIN w.part -> Ret(EmptyString, w)
      [] args[2] = MTD /\ args[3] \in DOMAIN w.part -> Named(args[3], Then(Then(Try(w, w), Erase), Close))
      [] args[2] # MTD /\ args[1] = EXT4 -> Named(args[3], Erase(w))
      [] OTHER -> [v |-> NULL, w |-> w]

RenameFn(w, args) ==
    IF AnyEmpty(args) THEN Abort(w, "empty argument")
    ELSE Given(Rename(w, Components(args[1]), Components(args[2])), LAMBDA r :
            IF r.ok THEN Ret(args[2], r.w) ELSE Abort(r.w, "rename failed"))

(* delete(), delete_recursive(): the number of arguments that went.        *)
DeleteFn(w, args, recursive) ==
    LET Remove1(x, p) == IF recursive THEN DirUnlinkHierarchy(x, p) ELSE Unlink(x, p)
        One(r, s) == Given(Remove1(r.w, Components(s)),
                           LAMBDA x : [n |-> r.n + (IF x.ok THEN 1 ELSE 0), w |-> x.w]) IN
    Given(FoldLeft(One, [n |-> 0, w |-> w], args), LAMBDA all : Ret(Decimal(all.n), all.w))

ShowProgressFn(w, args) == Ret(args[1], Send(w, "progress"))
SetProgressFn(w, args) == Ret(args[1], Send(w, "set_progress"))

-----------------------------------------------------------------------------
PackageExtractDirFn(w, args) ==
    Named(T, ExtractRecursive(w, w.z, args[1], Components(args[2]), TRUE))

(* package_extract_file(package_path, destination_path)                    *)
PackageExtractFileFn(w, args) ==
    LET p == Components(args[2])
        Extracted(e) ==
            IF e = NotFound THEN Ret(EmptyString, w)
            ELSE Named(T, Then(Creat(w, p), LAMBDA x : ExtractZipEntryToFile(x, e[1], p))) IN
    Extracted(FindZipEntry(w.z, args[1]))

(* package_extract_file(package_path): a failure is a blob of size -1.     *)
PackageExtractBlobFn(w, args) ==
    LET Extracted(e) ==
            IF e = NotFound THEN [v |-> BadBlob, w |-> w]
            ELSE Given(ExtractZipEntryToBuffer(w, e[1]),
                       LAMBDA r : [v |-> IF r.ok THEN Blob(e[1].contents) ELSE BadBlob, w |-> r.w]) IN
    Extracted(FindZipEntry(w.z, args[1]))

(* make_parents(): every level above the path, one that exists being fine. *)
MakeParents(w, p) ==
    FoldLeft(LAMBDA r, q : IF r.ok /\ ~Exists(r.w, q) THEN Mkdir(r.w, q) ELSE r,
             Done(TRUE, w), Levels(Parent(p)))

(* symlink(target, src1, src2, ...): a failure does not stop the loop.     *)
LinkOverOld(r, s) ==
    LET p == Components(s) IN
    Given(Symlink(MakeParents(r.w, p).w, p), LAMBDA link : [w |-> link.w, bad |-> r.bad \/ ~link.ok])

LinkOne(r, s) ==
    LET p == Components(s)
        Go(q, x, bad) == [w |-> x.w, bad |-> q.bad \/ (~x.ok /\ bad)]
        gone == Go(r, Unlink(r.w, p), Exists(r.w, p))
        Parents(q) == Go(q, MakeParents(q.w, p), TRUE)
        Link(q) == Go(q, Symlink(q.w, p), TRUE) IN
    Link(Parents(gone))

SymlinkFn(w, args) ==
    Given(FoldLeft(LinkOne, [w |-> w, bad |-> FALSE], Tail(args)), LAMBDA all :
        IF all.bad THEN Abort(all.w, "some symlinks failed") ELSE Ret(EmptyString, all.w))

-----------------------------------------------------------------------------
(* ParsePermArgs(): keys and values; a value that is not valid and a key   *)
(* that is not known are left out.  An attribute is a pair key, value.     *)
Keys == {"uid", "gid", "mode", "dmode", "fmode", "selabel", "capabilities"}
ParsePermArgs(perms) == {a \in perms : a.key \in Keys /\ a.valid}

(* ApplyParsedPerms(): each attribute that concerns the path is set, those *)
(* that can be; bad counts the failures.                                   *)
Concerns(w, p, a) ==
    /\ At(w, p) # "link"
    /\ a.key = "dmode" => IsDir(w, p)
    /\ a.key \in {"fmode", "capabilities"} => ~IsDir(w, p)

ApplyParsedPerms(w, p, parsed) ==
    LET Set(r, a) == Given(Try(r.w, [r.w EXCEPT !.meta[p] = @ \cup {a.key}]),
                           LAMBDA x : [w |-> x.w, bad |-> r.bad + (IF x.ok THEN 0 ELSE 1)]) IN
    FoldLeft(Set, [w |-> w, bad |-> 0], SetToSeq({a \in parsed : Concerns(w, p, a)}))

(* set_metadata(filename, ...), set_metadata_recursive(): the tree is      *)
(* walked bottom up to the first path with a failure; a walk that fails    *)
(* itself is -1.  A path that is not there sets the error message, and the *)
(* script goes on.                                                         *)
WalkOrder(w, p) == SortSeq(SetToSeq({q \in Paths : Under(p, q) /\ Exists(w, q)}),
                           LAMBDA q, r : Len(q) > Len(r))

SetMetadataRecursive(w, p, parsed) ==
    LET walk == Try(w, w) IN
    IF ~walk.ok THEN [w |-> walk.w, bad |-> -1]
    ELSE FoldLeft(LAMBDA r, q : IF r.bad = 0 THEN ApplyParsedPerms(r.w, q, parsed) ELSE r,
                  [w |-> walk.w, bad |-> 0], WalkOrder(w, p))

SetMetadataFn(w, name, perms, recursive) ==
    LET p == Components(name)
        parsed == ParsePermArgs(perms)
        Changed(r) == IF r.bad > 0 THEN Abort(r.w, "some changes failed") ELSE Ret(EmptyString, r.w) IN
    IF ~Exists(w, p) THEN Ret(EmptyString, ErrorAbort(w, "lstat"))
    ELSE Changed(IF recursive THEN SetMetadataRecursive(w, p, parsed) ELSE ApplyParsedPerms(w, p, parsed))

-----------------------------------------------------------------------------
GetPropFn(w, args) == Ret(IF args[1] = MTD THEN T ELSE EmptyString, w)

(* file_getprop(file, key): the first line with the key counts; a line     *)
(* without '=' before it aborts.  strtok() finds no line at all in a file  *)
(* that is empty, and the loop starts with that line.                      *)
FileGetPropFn(w, args) ==
    LET p == Components(args[1])
        read == Try(w, w)
        lines == PropLines[At(w, p)]
        hits == {i \in DOMAIN lines :
                    lines[i].kind = "malformed" \/ (lines[i].kind = "pair" /\ lines[i].key = args[2])}
        first == lines[CHOOSE i \in hits : \A j \in hits : i <= j] IN
    CASE At(w, p) \in {"none", "link"} -> Abort(w, "failed to stat")
      [] At(w, p) = "dir" -> Abort(w, "failed to read")
      [] At(w, p) \notin {"none", "link", "dir"} /\ ~read.ok -> Abort(read.w, "failed to read")
      [] At(w, p) \notin {"none", "link", "dir"} /\ read.ok /\ lines = << >> -> Kill(read.w)
      [] OTHER -> IF hits = {} THEN Ret(EmptyString, read.w)
                  ELSE IF first.kind = "malformed" THEN Abort(read.w, "malformed line")
                  ELSE Ret(first.value, read.w)

(* write_raw_image(filename_or_blob, partition).  The result is that of    *)
(* the writes alone: not of the read that ends the loop, of the erasing or *)
(* of the closing, each of which leaves the image incomplete; and -1, what *)
(* mtd_write_data() returns on an error, is the size of a bad blob.        *)
Image(w, contents) == IF contents.type = "STRING" THEN At(w, Components(contents.data)) ELSE contents.data

WriteRawImage(w, contents, p) ==
    LET image == Image(w, contents)
        bad == image = BadBlob.data
        Stored(off, ok, x) == IF off THEN x ELSE [x EXCEPT !.part[p] = IF ok THEN image ELSE "partial"]
        Close(off, ok, x) == Given(Try(x, x), LAMBDA close : Stored(off, ok /\ close.ok, close.w))
        Erase(off, ok, x) == Given(Try(x, x), LAMBDA erase : Close(off, ok /\ erase.ok, erase.w))
        Write(ok, x) ==
            Given(Try(x, x), LAMBDA write :
                Ret(IF write.ok \/ bad THEN p ELSE EmptyString, Erase(x.off, ok /\ write.ok, write.w)))
        Read(x) == Given(Try(x, x), LAMBDA read : Write(read.ok /\ ~bad, read.w)) IN
    Given(Try(w, w), LAMBDA open :
        IF ~open.ok \/ image \in {"none", "dir", "link"} THEN Ret(EmptyString, open.w) ELSE Read(open.w))

WriteRawImageFn(w, vals) ==
    LET contents == vals[1]
        partition == vals[2] IN
    CASE partition.type # "STRING" -> Abort(w, "partition must be string")
      [] partition.type = "STRING" /\ partition.data = EmptyString -> Abort(w, "empty argument")
      [] contents.type = "STRING" /\ contents.data = EmptyString -> Abort(w, "empty argument")
      [] OTHER -> IF partition.data \notin DOMAIN w.part THEN Ret(EmptyString, w)
                  ELSE WriteRawImage(w, contents, partition.data)

UIPrintFn(w, args) == Ret(FlattenSeq(args), Send(w, "ui_print"))
WipeCacheFn(w) == Ret(T, Send(w, "wipe_cache"))

(* collect_backup_data(path): the files below path, as they are called     *)
(* below the root.                                                         *)
CollectBackupDataFn(w, args) ==
    LET root == Components(args[1])
        files == {q \in Paths : Under(root, q) /\ Exists(w, q) /\ ~IsDir(w, q)} IN
    Ret(T, [w EXCEPT !.baks = @ \cup {SubSeq(q, Len(root) + 1, Len(q)) : q \in files}])

(* run_program(): the status waitpid() gives, not an abort.                *)
RunProgramFn(w, args) ==
    LET p == Components(args[1])
        run == Try(w, w) IN
    Ret(Decimal(IF At(w, p) \notin {"none", "dir", "link"} /\ run.ok THEN 0 ELSE 1), run.w)

(* sha1_check(data, sha1_hex, ...): the first argument that is the digest. *)
Sha1CheckFn(w, vals) ==
    LET digest == Digest[vals[1].data]
        hits == {i \in 2 .. Len(vals) : vals[i].type = "STRING" /\ vals[i].data = digest} IN
    CASE vals[1].data = BadBlob.data -> Ret(EmptyString, w)
      [] vals[1].data # BadBlob.data /\ Len(vals) = 1 -> Ret(digest, w)
      [] OTHER -> Ret(IF hits = {} THEN EmptyString ELSE digest, w)

ReadFileFn(w, args) ==
    LET c == At(w, Components(args[1]))
        read == Try(w, w) IN
    IF c \in {"none", "dir", "link"} \/ ~read.ok
    THEN [v |-> BadBlob, w |-> IF c \in {"none", "dir", "link"} THEN w ELSE read.w]
    ELSE [v |-> Blob(c), w |-> read.w]

(* reboot_now(): the command is cleared, the stage stays; it aborts when   *)
(* the device does not restart.                                            *)
RebootNowFn(w, args) ==
    LET Reboot(cleared) == Try(cleared, [cleared EXCEPT !.off = TRUE])
        Rebooted(r) == IF r.ok THEN [v |-> NULL, w |-> r.w] ELSE Abort(r.w, "failed to reboot") IN
    Rebooted(Reboot(Try(w, [w EXCEPT !.command = FALSE]).w))

SetStageFn(w, args) ==
    LET kept == SubSeq(args[2], 1, IF Len(args[2]) > StageMax THEN StageMax ELSE Len(args[2])) IN
    Ret(args[1], Try(w, [w EXCEPT !.stage = kept]).w)

GetStageFn(w, args) == Ret(w.stage, w)

=============================================================================
