-------------------------------- MODULE Ini ---------------------------------
(***************************************************************************)
(* cot/iniparser/iniparser.c: a file is a sequence of lines, a line the    *)
(* tokens in it (the blanks around them left out) and how it ends: "nl",   *)
(* "cut" (the file ends, or the line is too long) or "char" (the file ends *)
(* after its first character).  A section name, a key and a value are      *)
(* sequences of tokens; the dictionary has <<section>> and <<section, key>>*)
(* where the code has "section" and "section:key".  There is memory enough: *)
(* DictTable has the dictionary that cannot grow.                          *)
(***************************************************************************)
EXTENDS Dictionary, SequencesExt

CONSTANT LowerOf        \* function: the tokens with capitals, in lower case

NoDict == [n |-> -1]

strlwc(s) == [i \in DOMAIN s |-> IF s[i] \in DOMAIN LowerOf THEN LowerOf[s[i]] ELSE s[i]]

(* The tokens before the first one in stops: sscanf's %[^...].             *)
UpTo(t, stops) ==
    LET at == {i \in DOMAIN t : t[i] \in stops} IN
    IF at = {} THEN t ELSE SubSeq(t, 1, Min(at) - 1)

After(t, stop) == SubSeq(t, Len(UpTo(t, {stop})) + 2, Len(t))

LineStatus(t) ==
    IF t = << >> THEN "LINE_EMPTY"
    ELSE IF t[1] \in {"#", ";"} THEN "LINE_COMMENT"
    ELSE IF t[1] = "[" /\ Last(t) = "]" THEN "LINE_SECTION"
    ELSE IF t[1] # "=" /\ Contains(t, "=") THEN "LINE_VALUE"
    ELSE "LINE_ERROR"

Quotes == {"\"", "'"}

(* A quoted string, or what there is before a comment; a pair of quotes    *)
(* with nothing in it is empty.                                            *)
ValueOf(t) ==
    IF Len(t) > 1 /\ t[1] \in Quotes /\ t[2] # t[1] THEN UpTo(Tail(t), {t[1]})
    ELSE LET v == UpTo(t, {";", "#"}) IN
         IF \E q \in Quotes : v = <<q, q>> THEN << >> ELSE v

(* "[]" leaves the section as it was.                                      *)
SectionOf(t, section) ==
    LET name == UpTo(Tail(t), {"]"}) IN IF name = << >> THEN section ELSE strlwc(name)

(* iniparser_line() and what iniparser_load() does with its answer: a line *)
(* that is stored sets errs to what dictionary_set() returns, so that only *)
(* the errors after the last of these lines count.                         *)
TakeLine(a, t) ==
    LET status == LineStatus(t)
        section == IF status = "LINE_SECTION" THEN SectionOf(t, a.section) ELSE a.section
        key == strlwc(UpTo(t, {"="}))
        r == IF status = "LINE_SECTION" THEN dictionary_set(a.d, <<section>>, NoValue, TRUE)
             ELSE dictionary_set(a.d, <<section, key>>, <<ValueOf(After(t, "="))>>, TRUE) IN
    IF status \in {"LINE_EMPTY", "LINE_COMMENT"} THEN a
    ELSE IF status = "LINE_ERROR" THEN [a EXCEPT !.errs = @ + 1]
    ELSE [a EXCEPT !.section = section, !.d = r.d, !.errs = r.rc, !.over = r.rc < 0]

CutLineTaken(line) == FALSE

(* The last line of a file that was cut short has no newline.              *)
TooLong(line) == line.end # "nl"

(* One turn of the loop: a line that ends in a backslash is kept (kept)    *)
(* and the next one read behind it.                                        *)
ReadLine(a, line) ==
    LET t == a.kept \o line.t IN
    IF a.kept = << >> /\ (line = [t |-> << >>, end |-> "nl"] \/ line.end = "char") THEN a
    ELSE IF TooLong(line) THEN [a EXCEPT !.over = TRUE, !.long = TRUE]
    ELSE IF t # << >> /\ Last(t) = "\\" THEN [a EXCEPT !.kept = Front(t)]
    ELSE TakeLine([a EXCEPT !.kept = << >>], t)

RECURSIVE ReadLines(_, _)
ReadLines(a, file) ==
    IF file = << >> \/ a.over THEN a ELSE ReadLines(ReadLine(a, Head(file)), Tail(file))

iniparser_load(file) ==
    LET start == [d |-> dictionary_new, section |-> << >>, kept |-> << >>,
                  errs |-> 0, over |-> FALSE, long |-> FALSE]
        a == ReadLines(start, file) IN
    IF a.long \/ a.errs # 0 THEN NoDict ELSE a.d

iniparser_getstring(d, key, def) ==
    IF d = NoDict THEN def ELSE dictionary_get(d, key, def)

iniparser_set(d, key, val) == IF d = NoDict THEN d ELSE dictionary_set(d, key, val, TRUE).d

-----------------------------------------------------------------------------
SlotsInOrder(d) == SelectSeq([i \in 1 .. d.size |-> d.slot[i - 1]], LAMBDA s : s # FreeSlot)
IsSection(s) == Len(s[1]) = 1

NewLine(t) == [t |-> t, end |-> "nl"]
ValueLine(key, val) == NewLine(key \o <<"=">> \o IF val = NoValue THEN << >> ELSE val[1])

DumpSection(d, section) ==
    LET keys == SelectSeq(SlotsInOrder(d), LAMBDA s : ~IsSection(s) /\ s[1][1] = section) IN
    <<NewLine(<< >>), NewLine(<<"[">> \o section \o <<"]">>)>>
        \o [i \in DOMAIN keys |-> ValueLine(keys[i][1][2], keys[i][2])]
        \o <<NewLine(<< >>)>>

(* Without a section the keys are written as they are stored, ":key".      *)
iniparser_dump_ini(d) ==
    LET slots == SlotsInOrder(d)
        secs == SelectSeq(slots, IsSection) IN
    IF secs = << >> THEN [i \in DOMAIN slots |-> ValueLine(<<":">> \o slots[i][1][2], slots[i][2])]
    ELSE FlattenSeq([i \in DOMAIN secs |-> DumpSection(d, secs[i][1][1])]) \o <<NewLine(<< >>)>>

=============================================================================
