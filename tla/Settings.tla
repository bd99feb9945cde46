------------------------------ MODULE Settings ------------------------------
(***************************************************************************)
(* cot/settings.cpp and cot/theme.cpp: the settings kept in                *)
(* /cache/cot/settings.ini, read when recovery starts and written back     *)
(* when the user changes one, and the theme they name.  A write may be cut *)
(* short by a full disk, or by the power; the file may be edited, /cache   *)
(* wiped or no longer mountable.                                           *)
(***************************************************************************)
EXTENDS Ini

CONSTANTS ThemeDirs,        \* the names a directory below /cache/cot/themes may have
          ThemeTrees,       \* functions: what they may hold, of those the runs start with
          EditedFiles,      \* what the user may make of settings.ini
          MaxWrites,        \* bound: writes of settings.ini in a behaviour
          MaxOutsideSteps   \* bound: edits, wipes and failures in a behaviour

VARIABLES proc,     \* recovery: is it up, its dictionary, the settings, the theme shown
          disk,     \* settings.ini, the themes, whether /cache can be mounted
          known,    \* history: the values that were being written since the last whole write
          steps     \* the bounds
svars == <<proc, disk, known, steps>>

NoFile == <<[t |-> << >>, end |-> "nofile"]>>
Default == <<"default">>
KeyOf(name) == <<<<"settings">>, <<name>>>>

Off == [up |-> "off", ini |-> NoDict, zip |-> <<"1">>, tests |-> <<"0">>, theme |-> Default,
        use |-> FALSE, shown |-> Default]

SettingsInit ==
    /\ proc = Off
    /\ \E d \in BOOLEAN, t \in ThemeTrees :
        disk = [file |-> NoFile, mountable |-> TRUE, res |-> d, themes |-> t]
    /\ known = [zip |-> {}, tests |-> {}, theme |-> {}, whole |-> FALSE, edited |-> FALSE]
    /\ steps = [writes |-> 0, outside |-> 0]

-----------------------------------------------------------------------------
HasIni(name) == name \in ThemeDirs /\ disk.mountable /\ disk.themes[name] \in {"noname", "named"}

(* The default theme's own images are in /res.                             *)
NotInUse(p) == FALSE

LoadTheme(p, name) ==
    IF name # Default /\ HasIni(name) THEN [p EXCEPT !.use = TRUE, !.theme = name, !.shown = name]
    ELSE IF disk.res THEN [p EXCEPT !.use = NotInUse(p), !.theme = Default, !.shown = Default]
    ELSE p

(* What a write of these lines leaves when it does not get to its end.     *)
Cuts(lines) ==
    {SubSeq(lines, 1, k) : k \in 0 .. Len(lines) - 1}
    \cup UNION {{Append(SubSeq(lines, 1, k - 1), [t |-> Front(lines[k].t), end |-> "cut"]),
                 Append(SubSeq(lines, 1, k - 1), [t |-> << >>, end |-> "char"])} :
                    k \in {k \in DOMAIN lines : lines[k].t # << >>}}

NewSettings ==
    <<NewLine(<<";", "COT Settings INI">>), NewLine(<<";">>), NewLine(<< >>),
      NewLine(<<"[", "settings", "]">>), NewLine(<<"theme", "=", "default">>),
      NewLine(<<"zip_sigverif", "=", "1">>), NewLine(<<"enable_tests", "=", "0">>), NewLine(<< >>)>>

ReadFile(f) == IF f = NoFile \/ ~disk.mountable THEN NoDict ELSE iniparser_load(f)

(* The history after a write of p's settings: a write that is cut adds     *)
(* them to what may be found later.                                        *)
Knows(p, whole) ==
    [zip |-> {p.zip} \cup IF whole THEN {} ELSE known.zip,
     tests |-> {p.tests} \cup IF whole THEN {} ELSE known.tests,
     theme |-> {p.theme} \cup IF whole THEN {} ELSE known.theme,
     whole |-> whole, edited |-> known.edited /\ ~whole]

(* The rest of LoadSettings(), once there is a dictionary or none again.   *)
Loaded(ini) ==
    LET p == [Off EXCEPT !.up = "run", !.ini = ini,
                !.zip = iniparser_getstring(ini, KeyOf("zip_sigverif"), <<<<"1">>>>)[1],
                !.tests = iniparser_getstring(ini, KeyOf("enable_tests"), <<<<"0">>>>)[1]] IN
    LoadTheme(p, iniparser_getstring(ini, KeyOf("theme"), <<Default>>)[1])

LoadSettings ==
    /\ proc.up = "off"
    /\ \E ini \in {ReadFile(disk.file)} :
       \/ ini # NoDict /\ proc' = Loaded(ini) /\ UNCHANGED <<disk, known, steps>>
       \/ /\ ini = NoDict /\ ~disk.mountable
          /\ proc' = [Off EXCEPT !.up = "crashed"]      \* fprintf() to a NULL file
          /\ UNCHANGED <<disk, known, steps>>
       \/ /\ ini = NoDict /\ disk.mountable /\ steps.writes < MaxWrites
          /\ steps' = [steps EXCEPT !.writes = @ + 1]
          /\ \E f \in {NewSettings} \cup Cuts(NewSettings) :
              /\ disk' = [disk EXCEPT !.file = f]
              /\ \/ proc' = Loaded(ReadFile(f))
                 \/ proc' = Off
              /\ known' = Knows(Off, f = NewSettings)

-----------------------------------------------------------------------------
InMemory(p) == p.ini

(* CreateOrSaveSettings(0) sets the three values in the dictionary that    *)
(* was loaded, and writes all of it; without a dictionary, nothing.        *)
WithSettings(p) ==
    LET d1 == iniparser_set(InMemory(p), <<<<"settings">>>>, NoValue)
        d2 == iniparser_set(d1, KeyOf("theme"), <<p.theme>>)
        d3 == iniparser_set(d2, KeyOf("zip_sigverif"), <<p.zip>>) IN
    iniparser_set(d3, KeyOf("enable_tests"), <<p.tests>>)

SaveSettings(p) ==
    \/ ~disk.mountable /\ proc' = [Off EXCEPT !.up = "crashed"] /\ UNCHANGED <<disk, known, steps>>
    \/ /\ disk.mountable /\ steps.writes < MaxWrites
       /\ steps' = [steps EXCEPT !.writes = @ + 1]
       /\ \E ini \in {WithSettings(p)} :
          \E lines \in {IF ini = NoDict THEN << >> ELSE iniparser_dump_ini(ini)} :
             \/ \E f \in {lines} \cup Cuts(lines) :
                  /\ disk' = [disk EXCEPT !.file = f]
                  /\ known' = Knows(p, f = lines /\ ini # NoDict)
                  /\ \/ proc' = [p EXCEPT !.ini = ini]       \* written, or the disk was full
                     \/ proc' = Off                          \* the power was lost
             \/ proc' = Off /\ known' = Knows(p, FALSE) /\ UNCHANGED disk

ShowZipVerifMenu == proc.up = "run" /\ \E v \in {"0", "1"} : SaveSettings([proc EXCEPT !.zip = <<v>>])

ShowEnableTestsMenu == proc.up = "run" /\ \E v \in {"0", "1"} : SaveSettings([proc EXCEPT !.tests = <<v>>])

ChooseDefaultTheme ==
    proc.up = "run" /\ SaveSettings(LoadTheme([proc EXCEPT !.theme = Default, !.use = TRUE], Default))

(* The chooser lists the names of all themes, and a directory without one  *)
(* ends recovery (strlen() of NULL).                                       *)
ShowThemeChooser ==
    /\ proc.up = "run" /\ disk.mountable
    /\ \/ /\ \E t \in ThemeDirs : disk.themes[t] \in {"noini", "noname"}
          /\ proc' = [Off EXCEPT !.up = "crashed"] /\ UNCHANGED <<disk, known, steps>>
       \/ /\ \A t \in ThemeDirs : disk.themes[t] \in {"absent", "named"}
          /\ \E t \in {t \in ThemeDirs : disk.themes[t] = "named"} :
                SaveSettings(LoadTheme([proc EXCEPT !.theme = t, !.use = TRUE], t))

(* Recovery ends, or init starts it again after it crashed.                *)
Restart == proc.up # "off" /\ proc' = Off /\ UNCHANGED <<disk, known, steps>>

Outside == steps.outside < MaxOutsideSteps /\ steps' = [steps EXCEPT !.outside = @ + 1] /\ UNCHANGED proc

FileEdited ==
    /\ Outside /\ proc.up = "off" /\ disk.mountable
    /\ \E f \in EditedFiles : disk' = [disk EXCEPT !.file = f]
    /\ known' = [known EXCEPT !.whole = FALSE, !.edited = TRUE]

CacheWiped ==
    /\ Outside /\ proc.up = "run" /\ disk.mountable
    /\ disk' = [disk EXCEPT !.file = NoFile, !.themes = [t \in ThemeDirs |-> "absent"]]
    /\ known' = [known EXCEPT !.whole = FALSE]

(* Damaged; or, while recovery runs, a wipe whose format did not succeed.  *)
CacheBreaks == Outside /\ disk.mountable /\ disk' = [disk EXCEPT !.mountable = FALSE] /\ UNCHANGED known

SettingsNext ==
    \/ LoadSettings \/ ShowZipVerifMenu \/ ShowEnableTestsMenu \/ ChooseDefaultTheme \/ ShowThemeChooser
    \/ Restart \/ FileEdited \/ CacheWiped \/ CacheBreaks

SettingsSpec == SettingsInit /\ [][SettingsNext]_svars

-----------------------------------------------------------------------------
PlainText(v) == \A i \in DOMAIN v : v[i] \notin {"#", ";", "\\"} \cup Quotes

(* A write that was cut short, wherever it was, does not make a setting    *)
(* something that nobody chose: each is one that was being written, or its *)
(* default, and after a whole write it is the one that was written.  In    *)
(* particular a torn file does not turn the verification of packages off.  *)
(* (A theme is the default too when its directory is gone; one with "#" or *)
(* ";" in its name is not found again.)                                    *)
SettingsKept ==
    proc.up = "run" /\ ~known.edited =>
        /\ proc.zip \in known.zip \cup {<<"1">>}
        /\ proc.tests \in known.tests \cup {<<"0">>}
        /\ known.whole => proc.zip \in known.zip /\ proc.tests \in known.tests
        /\ (\A t \in known.theme : PlainText(t)) => proc.theme \in known.theme \cup {Default}

=============================================================================
