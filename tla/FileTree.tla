------------------------------ MODULE FileTree ------------------------------
(***************************************************************************)
(* The file system that a package's script changes, with the directory     *)
(* helpers of minzip/DirUtil.c.  A path is the sequence of its components; *)
(* a world w is a record whose field tree maps every path of Paths to what *)
(* is there ("none", "dir", "link" or a file's contents), and that has the *)
(* fields of Faults.                                                       *)
(* An operation gives a record [ok, w].  Links point outside of Paths, to  *)
(* what is not there yet: nothing is opened through one.                   *)
(***************************************************************************)
EXTENDS Faults, Integers, Sequences, SequencesExt, FiniteSetsExt

CONSTANT Paths      \* bound: the paths that may exist, closed under prefixes

Root == << >>

ASSUME PathsAssumption ==
    Root \in Paths /\ \A p \in Paths : p # Root => Front(p) \in Paths

Parent(p) == Front(p)
Under(p, q) == IsPrefix(p, q)       \* q is p or below it

Done(ok, w) == [ok |-> ok, w |-> w]

(* A system call that may fail.                                            *)
Try(w, change) == IF Fails(w) THEN Done(FALSE, Tick(w)) ELSE Done(TRUE, Tick(change))

At(w, p) == w.tree[p]
Exists(w, p) == At(w, p) # "none"
IsDir(w, p) == At(w, p) = "dir"
Put(w, p, what) == [w EXCEPT !.tree[p] = what]
Children(w, p) == {q \in Paths : q # Root /\ Parent(q) = p /\ Exists(w, q)}

-----------------------------------------------------------------------------
(* The system calls, as the code uses them.                                *)
Mkdir(w, p) ==
    IF p = Root \/ Exists(w, p) \/ ~IsDir(w, Parent(p)) THEN Done(FALSE, w)
    ELSE Try(w, Put(w, p, "dir"))

Unlink(w, p) ==
    IF ~Exists(w, p) \/ IsDir(w, p) THEN Done(FALSE, w) ELSE Try(w, Put(w, p, "none"))

Rmdir(w, p) ==
    IF p = Root \/ ~IsDir(w, p) \/ Children(w, p) # {} THEN Done(FALSE, w)
    ELSE Try(w, Put(w, p, "none"))

Symlink(w, p) ==
    IF p = Root \/ Exists(w, p) \/ ~IsDir(w, Parent(p)) THEN Done(FALSE, w)
    ELSE Try(w, Put(w, p, "link"))

Utime(w) == Try(w, w)

(* creat() or fopen(..., "wb"): the file is empty until it is written.     *)
Creat(w, p) ==
    IF p = Root \/ At(w, p) \in {"dir", "link"} \/ ~IsDir(w, Parent(p)) THEN Done(FALSE, w)
    ELSE Try(w, Put(w, p, "partial"))

(* rename(): a file, a link, or a directory onto a directory that is empty.*)
Rename(w, p, q) ==
    LET moved == [r \in Paths |->
                    IF Under(q, r) /\ p \o SubSeq(r, Len(q) + 1, Len(r)) \in Paths
                    THEN w.tree[p \o SubSeq(r, Len(q) + 1, Len(r))]
                    ELSE IF Under(p, r) THEN "none" ELSE w.tree[r]] IN
    IF \/ ~Exists(w, p) \/ p = Root \/ q = Root \/ Under(p, q) \/ Under(q, p)
       \/ ~IsDir(w, Parent(q))
       \/ (Exists(w, q) /\ (IsDir(w, p) # IsDir(w, q) \/ Children(w, q) # {}))
    THEN Done(p = q /\ Exists(w, p), w)
    ELSE Try(w, [w EXCEPT !.tree = moved])

-----------------------------------------------------------------------------
(* getPathDirStatus(): a link's target is not there.                       *)
PathDirStatus(w, p) ==
    CASE IsDir(w, p) -> "DDIR"
      [] \E q \in Paths : Under(q, p) /\ At(w, q) \notin {"none", "dir", "link"} -> "DILLEGAL"
      [] OTHER -> "DMISSING"

(* The levels of a path from the root, made one by one until one fails.    *)
MakeLevel(r, p) ==
    LET ds == PathDirStatus(r.w, p) IN
    CASE ~r.ok -> r
      [] r.ok /\ ds = "DILLEGAL" -> Done(FALSE, r.w)
      [] r.ok /\ ds = "DMISSING" -> LET m == Mkdir(r.w, p) IN IF m.ok THEN Utime(m.w) ELSE m
      [] OTHER -> r

Levels(p) == [i \in 1 .. Len(p) |-> SubSeq(p, 1, i)]

(* dirCreateHierarchy(): with stripFileName the last component is a file's,*)
(* which may not be in the root.                                           *)
DirCreateHierarchy(w, path, stripFileName) ==
    LET p == IF stripFileName /\ path # Root THEN Parent(path) ELSE path
        ds == PathDirStatus(w, p) IN
    CASE stripFileName /\ p = Root -> Done(FALSE, w)
      [] ds = "DDIR" -> Done(TRUE, w)
      [] ds = "DILLEGAL" -> Done(FALSE, w)
      [] ds = "DMISSING" -> FoldLeft(MakeLevel, Done(TRUE, w), Levels(p))

(* dirUnlinkHierarchy(): what is below a directory goes first; it stops at *)
(* the first failure.                                                      *)
RECURSIVE DirUnlinkHierarchy(_, _)
DirUnlinkHierarchy(w, p) ==
    IF ~Exists(w, p) THEN Done(FALSE, w)
    ELSE IF ~IsDir(w, p) THEN Unlink(w, p)
    ELSE LET below == FoldLeft(LAMBDA r, q : IF r.ok THEN DirUnlinkHierarchy(r.w, q) ELSE r,
                               Done(TRUE, w), SetToSeq(Children(w, p))) IN
         IF below.ok THEN Rmdir(below.w, p) ELSE below

=============================================================================
