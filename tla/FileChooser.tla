---------------------------- MODULE FileChooser -----------------------------
(***************************************************************************)
(* cot/storage.cpp: the file chooser, with which packages and backups are  *)
(* picked.  A directory is a sequence of entries in the order of           *)
(* readdir(); names are numbers, ordered as strcmp() orders them; ext says *)
(* that the name has the extension asked for.                              *)
(***************************************************************************)
EXTENDS Integers, SequencesExt

GoBack == -1
NoPath == << >>

Matches(e, wantDirs) == ~e.hidden /\ IF wantDirs THEN e.dir ELSE e.ext

OneTooFew(total, i) == IF total - i > 1 THEN total - i - 1 ELSE 1
Unsorted(total, i) == total - i

(* Turn i of the selection sort: the largest of the unsorted names goes to *)
(* their end.                                                              *)
SortTurn(files, i) ==
    LET total == Len(files)
        curMax == CHOOSE j \in 1 .. Unsorted(total, i) :
                    \A k \in 1 .. Unsorted(total, i) : files[k].name <= files[j].name IN
    [files EXCEPT ![curMax] = files[total - i], ![total - i] = files[curMax]]

RECURSIVE Sorted(_, _)
Sorted(files, i) == IF i >= Len(files) THEN files ELSE Sorted(SortTurn(files, i), i + 1)

(* gather_files(): the directory is read once to count and once to fill    *)
(* the array, and must not change in between.                              *)
gather_files(dir, wantDirs) == Sorted(SelectSeq(dir, LAMBDA e : Matches(e, wantDirs)), 0)

FileChosen(files, dirs, item) == files[item - Len(dirs) + 1]

(* picks: what get_menu_selection() returns, one after the other, from 0   *)
(* on or kGoBack.  seen: the lists that were shown and what was picked.    *)
RECURSIVE ChooseFileMenu(_, _, _)
ChooseFileMenu(dir, picks, seen) ==
    LET files == gather_files(dir, FALSE)
        dirs == gather_files(dir, TRUE)
        shown == [i \in 1 .. Len(dirs) + Len(files) |-> (dirs \o files)[i].name]
        item == IF picks = << >> THEN GoBack ELSE Head(picks)
        menu == Append(seen, [list |-> shown, item |-> item]) IN
    IF shown = << >>
    THEN [path |-> NoPath, picks |-> picks, seen |-> Append(seen, [list |-> << >>, item |-> GoBack])]
    ELSE IF item = GoBack \/ item >= Len(shown)
    THEN [path |-> NoPath, picks |-> IF picks = << >> THEN picks ELSE Tail(picks),
          seen |-> Append(seen, [list |-> shown, item |-> GoBack])]
    ELSE IF item < Len(dirs)
    THEN LET sub == ChooseFileMenu(dirs[item + 1].entries, Tail(picks), menu) IN
         IF sub.path # NoPath THEN [sub EXCEPT !.path = <<dirs[item + 1].name>> \o @]
         ELSE ChooseFileMenu(dir, sub.picks, sub.seen)
    ELSE [path |-> <<FileChosen(files, dirs, item).name>>, picks |-> Tail(picks), seen |-> menu]

=============================================================================
