-------------------------------- MODULE Zip ---------------------------------
(***************************************************************************)
(* minzip/Zip.c: the central directory of a package is read into a sorted  *)
(* array and a hash table; entries are found by name and extracted.        *)
(* A name is the sequence of its character codes.  An archive is a record: *)
(*   head    the first four bytes: "LOCSIG", "ENDSIG" or "other"           *)
(*   eocd    the end-of-central-directory record is found                  *)
(*   num     the number of entries that record claims                      *)
(*   inside  the offset of the directory is inside the file                *)
(*   dir     the headers that are there: name, fault (the check of         *)
(*           parseZipArchive it fails, or "none"), how it is compressed,   *)
(*           link, crcOk, contents, chunks (of 32 KiB, when uncompressed), *)
(*           uncompLen (the chunks the header claims)                      *)
(***************************************************************************)
EXTENDS FileTree, Hash

Slash == 47

(* Byte order, then length: strncmp() over the shorter length and the      *)
(* difference of the lengths.                                              *)
NameLess(a, b) ==
    \/ IsStrictPrefix(a, b)
    \/ \E i \in 1 .. Len(a) : /\ i <= Len(b)
                              /\ SubSeq(a, 1, i - 1) = SubSeq(b, 1, i - 1)
                              /\ a[i] < b[i]

(* The binary search in parseZipArchive(): where in entries[low .. high]   *)
(* and its surroundings the name goes.                                     *)
RECURSIVE Target(_, _, _, _)
Target(entries, name, low, high) ==
    LET mid == low + (high - low) \div 2 IN
    CASE low > high -> high + 1
      [] low <= high /\ NameLess(entries[mid].name, name) -> Target(entries, name, mid + 1, high)
      [] low <= high /\ NameLess(name, entries[mid].name) -> Target(entries, name, low, mid - 1)
      [] OTHER -> mid + 1

AppendEntry(entries, h) == Append(entries, h)
InsertEntry(entries, h) == InsertAt(entries, Target(entries, h.name, 1, Len(entries)), h)

(* computeHash(), modulo 2^16: only the bits that select a slot matter,    *)
(* names being compared as well.                                           *)
ComputeHash(name) == FoldLeft(LAMBDA hash, c : (hash * 31 + c) % 65536, 2, name)

(* hashcmpZipEntry() and hashcmpZipName(): the entries of that name.       *)
SameName(table, name) == {e \in Contents(table) : e.name = name}

(* addEntryToHashTable(): of two entries of one name the first one stays.  *)
AddEntryToHashTable(table, e) ==
    TableLookup(table, ComputeHash(e.name), e, SameName(table, e.name), TRUE).table

NoArchive == [ok |-> FALSE, entries |-> << >>, table |-> TableCreate(1)]

(* validFilename() and the checks on a header: it ran off the end, no      *)
(* signature, the name ran off the end, an invalid name, made by neither   *)
(* DOS nor Unix, a bad local header, data that ran off the end.            *)
HeaderAccepted(h) ==
    h.fault \notin {"end", "censig", "nameEnd", "nameChars", "madeBy", "local", "dataEnd"}

ParseZipArchive(a) ==
    IF \/ a.head # "LOCSIG"
       \/ ~a.eocd
       \/ a.num = 0
       \/ ~a.inside
       \/ a.num > Len(a.dir)
       \/ \E i \in 1 .. a.num : ~HeaderAccepted(a.dir[i])
    THEN NoArchive
    ELSE LET entries == FoldLeft(InsertEntry, << >>, SubSeq(a.dir, 1, a.num)) IN
         [ok |-> TRUE, entries |-> entries,
          table |-> FoldLeft(AddEntryToHashTable, TableCreate(HashSize(a.num)), entries)]

(* mzOpenZipArchive(), sysMapFileInShmem(): the file is opened, mapped and *)
(* at least as long as an end-of-central-directory record.                 *)
OpenZipArchive(w, a) ==
    Given(Then(Try(w, w), LAMBDA opened : Try(opened, opened)),
          LAMBDA mapped : [w |-> mapped.w, z |-> IF mapped.ok THEN ParseZipArchive(a) ELSE NoArchive])

(* mzFindZipEntry(): << >> or <<entry>>.                                   *)
FindZipEntry(z, name) ==
    TableLookup(z.table, ComputeHash(name), << >>, SameName(z.table, name), FALSE).found

-----------------------------------------------------------------------------
(* A result that is a success only if more is true.                        *)
OnlyIf(more, r) == Done(r.ok /\ more, r.w)

(* A chunk is read from the archive and given to the process function,     *)
(* which may fail where it writes to a file.                               *)
Chunk(r, write) ==
    Then(Then(r, LAMBDA w : Try(w, w)), LAMBDA w : IF write THEN Try(w, w) ELSE Done(TRUE, w))

Chunks(w, e, write) == FoldLeft(LAMBDA r, i : Chunk(r, write), Done(TRUE, w), [i \in 1 .. e.chunks |-> i])

ProcessStoredEntry(w, e, write) == Chunks(w, e, write)

(* processDeflatedEntry(): what was inflated has the size of the header.   *)
ProcessDeflatedEntry(w, e, write) ==
    OnlyIf(e.chunks = e.uncompLen, Chunks(w, e, write))

ProcessZipEntryContents(w, e, write) ==
    CASE e.how = "STORED" -> ProcessStoredEntry(w, e, write)
      [] e.how = "DEFLATED" -> ProcessDeflatedEntry(w, e, write)
      [] OTHER -> Done(FALSE, w)

IsZipEntryIntact(w, e) ==
    OnlyIf(e.crcOk, ProcessZipEntryContents(w, e, FALSE))

(* mzReadZipEntry(): the process function refuses what has no room.        *)
ReadZipEntry(w, e, bufLen) ==
    OnlyIf(e.chunks <= bufLen, ProcessZipEntryContents(w, e, FALSE))

(* mzExtractZipEntryToFile(), into a file that has just been created.      *)
ExtractZipEntryToFile(w, e, p) ==
    Then(ProcessZipEntryContents(w, e, TRUE), LAMBDA x : Done(TRUE, Put(x, p, e.contents)))

ExtractZipEntryToBuffer(w, e) ==
    OnlyIf(e.chunks = e.uncompLen, ProcessZipEntryContents(w, e, FALSE))

-----------------------------------------------------------------------------
(* A name as a path: what is between its slashes.                          *)
RECURSIVE Components(_)
Components(name) ==
    LET cut == {i \in 1 .. Len(name) : name[i] = Slash} IN
    IF cut = {} THEN IF name = << >> THEN << >> ELSE <<name>>
    ELSE LET i == CHOOSE k \in cut : \A j \in cut : k <= j
             rest == Components(SubSeq(name, i + 1, Len(name))) IN
         IF i = 1 THEN rest ELSE <<SubSeq(name, 1, i - 1)>> \o rest

(* targetEntryPath(): the part of the name after zipDir, below targetDir.  *)
TargetEntryPath(targetDir, zpath, e) ==
    targetDir \o Components(SubSeq(e.name, Len(zpath) + 1, Len(e.name)))

IsDirEntry(e) == e.name[Len(e.name)] = Slash

(* zipDir with one slash at its end, unless it is empty.                   *)
Zpath(zipDir) ==
    IF zipDir = << >> \/ zipDir[Len(zipDir)] = Slash THEN zipDir ELSE Append(zipDir, Slash)

(* The parts of mzExtractRecursive()'s loop.  An outcome says whether the  *)
(* loop stops here and what the function's ok is then: the ok set after    *)
(* mzExtractZipEntryToFile() is another variable, and the function's own   *)
(* stays true.                                                             *)
Outcome(r, okWhenFailed) == [w |-> r.w, stop |-> ~r.ok, ok |-> r.ok \/ okWhenFailed]

ExtractSymlink(w, e, p) ==
    IF e.uncompLen = 0 THEN Done(FALSE, w)
    ELSE Then(ReadZipEntry(w, e, e.uncompLen), LAMBDA x : Symlink(x, p))

ExtractFile(w, e, p) ==
    Given(Creat(w, p), LAMBDA file :
        IF ~file.ok THEN Outcome(file, FALSE)
        ELSE Outcome(Then(ExtractZipEntryToFile(file.w, e, p), Utime), TRUE))

ExtractEntry(w, e, p, filesOnly) ==
    IF IsDirEntry(e)
    THEN Outcome(IF filesOnly THEN Done(TRUE, w) ELSE DirCreateHierarchy(w, p, FALSE), FALSE)
    ELSE Given(DirCreateHierarchy(w, p, TRUE), LAMBDA parents :
            CASE ~parents.ok -> Outcome(parents, FALSE)
              [] parents.ok /\ ~filesOnly /\ e.link -> Outcome(ExtractSymlink(parents.w, e, p), FALSE)
              [] OTHER -> ExtractFile(parents.w, e, p))

(* The entries are sorted: the loop ends at the first that does not match  *)
(* after one that did.                                                     *)
ExtractRecursive(w, z, zipDir, targetDir, filesOnly) ==
    LET zpath == Zpath(zipDir)
        Step(r, e) ==
            IF r.stop THEN r
            ELSE IF ~IsPrefix(zpath, e.name) THEN [r EXCEPT !.stop = r.seen]
            ELSE Given(ExtractEntry(r.w, e, TargetEntryPath(targetDir, zpath, e), filesOnly),
                       LAMBDA x : [seen |-> TRUE, stop |-> x.stop, ok |-> x.ok, w |-> x.w]) IN
    IF zipDir # << >> /\ zipDir[1] = Slash THEN Done(FALSE, w)
    ELSE Given(FoldLeft(Step, [seen |-> FALSE, stop |-> FALSE, ok |-> TRUE, w |-> w], z.entries),
               LAMBDA all : Done(all.ok, all.w))

=============================================================================
