------------------------------- MODULE Edify --------------------------------
(***************************************************************************)
(* The script language of edify/expr.c, with the functions of Updater.  An *)
(* expression is a record with the name of its function and its arguments, *)
(* themselves expressions; a literal has its string instead.  Evaluating   *)
(* gives [v, w]; NULL means that the script is aborted.                    *)
(***************************************************************************)
EXTENDS Updater

Lit(s) == [fn |-> "literal", lit |-> s]
Call(fn, args) == [fn |-> fn, args |-> args]
Sequence(e, f) == Call(";", <<e, f>>)

IsInt(s) == s # EmptyString /\ \A i \in DOMAIN s : s[i] \in 48 .. 57
IntOf(s) == FoldLeft(LAMBDA n, c : 10 * n + (c - 48), 0, s)
IsSubstring(needle, haystack) ==
    \E i \in 0 .. Len(haystack) : IsPrefix(needle, SubSeq(haystack, i + 1, Len(haystack)))

RECURSIVE EvaluateValue(_, _)

(* Evaluate(): a value that is not a string aborts.                        *)
ExpectString(r) == IF r.v.type = "BLOB" THEN Abort(r.w, "expecting string") ELSE r
Evaluate(e, w) == ExpectString(EvaluateValue(e, w))

(* ReadArgs(), ReadVarArgs(): left to right, up to the first NULL.         *)
ReadArgs(args, w) ==
    FoldLeft(LAMBDA a, e :
                IF ~a.ok THEN a
                ELSE LET r == Evaluate(e, a.w) IN
                     IF r.v.type = "NULL" THEN [a EXCEPT !.ok = FALSE, !.w = r.w]
                     ELSE [a EXCEPT !.vals = Append(@, r.v.data), !.w = r.w],
             [ok |-> TRUE, w |-> w, vals |-> << >>], args)

ReadValueArgs(args, w) ==
    FoldLeft(LAMBDA a, e :
                IF ~a.ok THEN a
                ELSE LET r == EvaluateValue(e, a.w) IN
                     IF r.v.type = "NULL" THEN [a EXCEPT !.ok = FALSE, !.w = r.w]
                     ELSE [a EXCEPT !.vals = Append(@, r.v), !.w = r.w],
             [ok |-> TRUE, w |-> w, vals |-> << >>], args)

(* ConcatFn(): one or two arguments, or any number, one after the other.   *)
ConcatFn(e, w) ==
    LET a == ReadArgs(e.args, w) IN
    IF a.ok THEN Ret(FlattenSeq(a.vals), a.w) ELSE [v |-> NULL, w |-> a.w]

IfElseFn(e, w) ==
    LET cond == Evaluate(e.args[1], w) IN
    CASE Len(e.args) \notin {2, 3} -> Abort(w, "ifelse expects 2 or 3 arguments")
      [] Len(e.args) \in {2, 3} /\ cond.v.type = "NULL" -> cond
      [] OTHER -> IF BooleanString(cond.v.data) THEN EvaluateValue(e.args[2], cond.w)
                  ELSE IF Len(e.args) = 3 THEN EvaluateValue(e.args[3], cond.w)
                  ELSE cond

AbortFn(e, w) ==
    IF e.args = << >> THEN Abort(w, "called abort()")
    ELSE LET msg == Evaluate(e.args[1], w) IN
         Abort(msg.w, IF msg.v.type = "NULL" THEN "called abort()" ELSE "message")

AssertFn(e, w) ==
    FoldLeft(LAMBDA a, arg :
                IF a.v.type = "NULL" THEN a
                ELSE LET r == Evaluate(arg, a.w) IN
                     CASE r.v.type = "NULL" -> r
                       [] r.v.type = "STRING" /\ ~BooleanString(r.v.data) -> Abort(r.w, "assert failed")
                       [] OTHER -> Ret(EmptyString, r.w),
             Ret(EmptyString, w), e.args)

(* SleepFn(): the time passes; StdoutFn(): what is printed is not kept.    *)
SleepFn(e, w) == Evaluate(e.args[1], w)

StdoutFn(e, w) ==
    LET a == ReadArgs(e.args, w) IN
    IF a.ok THEN Ret(EmptyString, a.w) ELSE [v |-> NULL, w |-> a.w]

LogicalAndFn(e, w) ==
    LET left == Evaluate(e.args[1], w) IN
    IF left.v.type # "NULL" /\ BooleanString(left.v.data) THEN EvaluateValue(e.args[2], left.w) ELSE left

LogicalOrFn(e, w) ==
    LET left == Evaluate(e.args[1], w) IN
    IF left.v.type # "NULL" /\ ~BooleanString(left.v.data) THEN EvaluateValue(e.args[2], left.w) ELSE left

(* A string function of one or two arguments, both evaluated first.        *)
StringFn(e, w, Result(_)) ==
    LET a == ReadArgs(e.args, w) IN
    IF a.ok THEN Ret(Flag(Result(a.vals)), a.w) ELSE [v |-> NULL, w |-> a.w]

LogicalNotFn(e, w) == StringFn(e, w, LAMBDA s : ~BooleanString(s[1]))
SubstringFn(e, w) == StringFn(e, w, LAMBDA s : IsSubstring(s[1], s[2]))
EqualityFn(e, w) == StringFn(e, w, LAMBDA s : s[1] = s[2])
InequalityFn(e, w) == StringFn(e, w, LAMBDA s : s[1] # s[2])

LessThanIntFn(e, w) ==
    IF Len(e.args) # 2 THEN Abort(w, "less_than_int expects 2 arguments")
    ELSE StringFn(e, w, LAMBDA s : IsInt(s[1]) /\ IsInt(s[2]) /\ IntOf(s[1]) < IntOf(s[2]))

(* GreaterThanIntFn(): the arguments, swapped, are those of the other.     *)
GreaterThanIntFn(e, w) ==
    IF Len(e.args) # 2 THEN Abort(w, "greater_than_int expects 2 arguments")
    ELSE LessThanIntFn([e EXCEPT !.args = <<e.args[2], e.args[1]>>], w)

(* SequenceFn(): the value of the left side is dropped, unless it is NULL. *)
SequenceGoesOn(e, w) == LET left == EvaluateValue(e.args[1], w) IN EvaluateValue(e.args[2], left.w)

SequenceFn(e, w) ==
    LET left == EvaluateValue(e.args[1], w) IN
    IF left.v.type = "NULL" THEN left ELSE EvaluateValue(e.args[2], left.w)

-----------------------------------------------------------------------------
(* RegisterInstallFunctions(): the functions that read all their arguments *)
(* first, as strings or as values, and how many each takes.                *)
AnyCount == 0 .. 9
Arity ==
    [mount |-> {4}, is_mounted |-> {1}, unmount |-> {1}, format |-> {5}, rename |-> {2},
     delete |-> AnyCount, delete_recursive |-> AnyCount, show_progress |-> {2}, set_progress |-> {1},
     package_extract_dir |-> {2}, package_extract_file |-> {1, 2}, symlink |-> AnyCount \ {0},
     set_metadata |-> AnyCount, set_metadata_recursive |-> AnyCount, getprop |-> {1}, file_getprop |-> AnyCount,
     write_raw_image |-> AnyCount, ui_print |-> AnyCount, wipe_cache |-> {0}, collect_backup_data |-> AnyCount \ {0},
     run_program |-> AnyCount \ {0}, sha1_check |-> AnyCount \ {0}, read_file |-> {1}, reboot_now |-> {2},
     set_stage |-> {2}, get_stage |-> {1, 2}]

TakesValues == {"write_raw_image", "sha1_check"}

(* FindFunction() and the call, the arguments being evaluated.             *)
Invoke(e, w, args) ==
    CASE e.fn = "mount" -> MountFn(w, args)
      [] e.fn = "is_mounted" -> IsMountedFn(w, args)
      [] e.fn = "unmount" -> UnmountFn(w, args)
      [] e.fn = "format" -> FormatFn(w, args)
      [] e.fn = "rename" -> RenameFn(w, args)
      [] e.fn = "delete" -> DeleteFn(w, args, FALSE)
      [] e.fn = "delete_recursive" -> DeleteFn(w, args, TRUE)
      [] e.fn = "show_progress" -> ShowProgressFn(w, args)
      [] e.fn = "set_progress" -> SetProgressFn(w, args)
      [] e.fn = "package_extract_dir" -> PackageExtractDirFn(w, args)
      [] e.fn = "package_extract_file" /\ Len(args) = 2 -> PackageExtractFileFn(w, args)
      [] e.fn = "package_extract_file" /\ Len(args) = 1 -> PackageExtractBlobFn(w, args)
      [] e.fn = "symlink" -> SymlinkFn(w, args)
      [] e.fn = "set_metadata" -> SetMetadataFn(w, args[1], e.perms, FALSE)
      [] e.fn = "set_metadata_recursive" -> SetMetadataFn(w, args[1], e.perms, TRUE)
      [] e.fn = "getprop" -> GetPropFn(w, args)
      [] e.fn = "file_getprop" -> FileGetPropFn(w, args)
      [] e.fn = "write_raw_image" -> WriteRawImageFn(w, args)
      [] e.fn = "ui_print" -> UIPrintFn(w, args)
      [] e.fn = "wipe_cache" -> WipeCacheFn(w)
      [] e.fn = "collect_backup_data" -> CollectBackupDataFn(w, args)
      [] e.fn = "run_program" -> RunProgramFn(w, args)
      [] e.fn = "sha1_check" -> Sha1CheckFn(w, args)
      [] e.fn = "read_file" -> ReadFileFn(w, args)
      [] e.fn = "reboot_now" -> RebootNowFn(w, args)
      [] e.fn = "set_stage" -> SetStageFn(w, args)
      [] e.fn = "get_stage" -> GetStageFn(w, args)

(* The loop that frees delete()'s arguments counts the wrong variable: an  *)
(* abort in any but the first frees the first again and again.             *)
ArgsAborted(e, a) ==
    IF e.fn \in {"delete", "delete_recursive"} /\ a.vals # << >> THEN Kill(a.w)
    ELSE [v |-> NULL, w |-> a.w]

InvokeWith(e, a) ==
    IF a.ok THEN Invoke(e, [a.w EXCEPT !.log = Append(@, e.fn)], a.vals) ELSE ArgsAborted(e, a)

InstallFn(e, w) ==
    IF Len(e.args) \notin Arity[e.fn] THEN Abort(w, "number of arguments")
    ELSE InvokeWith(e, IF e.fn \in TakesValues THEN ReadValueArgs(e.args, w) ELSE ReadArgs(e.args, w))

EvaluateValue(e, w) ==
    CASE e.fn = "literal" -> Ret(e.lit, w)
      [] e.fn = "concat" -> ConcatFn(e, w)
      [] e.fn = "ifelse" -> IfElseFn(e, w)
      [] e.fn = "abort" -> AbortFn(e, w)
      [] e.fn = "assert" -> AssertFn(e, w)
      [] e.fn = "sleep" -> SleepFn(e, w)
      [] e.fn = "stdout" -> StdoutFn(e, w)
      [] e.fn = "&&" -> LogicalAndFn(e, w)
      [] e.fn = "||" -> LogicalOrFn(e, w)
      [] e.fn = "!" -> LogicalNotFn(e, w)
      [] e.fn = "is_substring" -> SubstringFn(e, w)
      [] e.fn = "==" -> EqualityFn(e, w)
      [] e.fn = "!=" -> InequalityFn(e, w)
      [] e.fn = ";" -> SequenceFn(e, w)
      [] e.fn = "less_than_int" -> LessThanIntFn(e, w)
      [] e.fn = "greater_than_int" -> GreaterThanIntFn(e, w)
      [] OTHER -> InstallFn(e, w)

(* The updater's main(): the package is opened again, its script read and  *)
(* parsed; code is what the process exits with.                            *)
Exit(code, r) == [code |-> code, v |-> r.v, w |-> [r.w EXCEPT !.z = NoArchive]]

Failed(code, w) == Exit(code, [v |-> NULL, w |-> w])

Evaluated(r) ==
    IF r.w.killed THEN Exit(-1, r)
    ELSE Exit(IF r.v.type = "NULL" THEN 7 ELSE 0, [r EXCEPT !.w = Send(@, "ui_print")])

RunParsed(z, read, script) ==
    CASE ~read.ok -> Failed(5, read.w)
      [] read.ok /\ ~script.parses -> Failed(6, read.w)
      [] OTHER -> Evaluated(Evaluate(script.root, [read.w EXCEPT !.z = z]))

RunOpened(open, e, script) ==
    CASE ~open.z.ok -> Failed(3, open.w)
      [] open.z.ok /\ e = NotFound -> Failed(4, open.w)
      [] OTHER -> RunParsed(open.z, ReadZipEntry(open.w, e[1], e[1].uncompLen), script)

UpdaterMain(w, archive, script) ==
    Given(OpenZipArchive(w, archive), LAMBDA open : RunOpened(open, FindZipEntry(open.z, SCRIPT_NAME), script))

=============================================================================
