----------------------------- MODULE MCPackage ------------------------------
(***************************************************************************)
(* The packages, trees and scripts of the model, and beside them the hash  *)
(* table, the dictionary and the settings.                                 *)
(***************************************************************************)
EXTENDS Package, HashTable, DictTable, Settings

CONSTANTS MaxDir,       \* bound: the entries of a directory that is read
          MaxFail       \* bound: the system call that fails, or loses the power

(* Strings: "a", "a/", "a/b", "a-b" ("-" sorts before "/"), "/a/b" ...     *)
NameA == <<97>>
NameADir == <<97, 47>>
NameAB == <<97, 47, 98>>
NameAC == <<97, 47, 99>>
NameADash == <<97, 45, 98>>
NameB == <<98>>
SlashA == <<47, 97>>
SlashAB == <<47, 97, 47, 98>>
SlashAC == <<47, 97, 47, 99>>
SlashD == <<47, 100>>
BOOT == <<1004>>
EMMC == <<1005>>
Bad == <<1006>>
Two == <<50>>
LongStage == <<50, 51, 52>>

PathA == <<NameA>>
PathAB == <<NameA, <<98>>>>
PathAC == <<NameA, <<99>>>>
PathD == <<<<100>>>>
MCPaths == {Root, PathA, PathAB, PathAC, PathD}

MCPropLines ==
    [x \in {"old", "A", "B", "S", "partial", "empty"} |->
        CASE x = "empty" -> << >>
          [] x = "A" -> <<[kind |-> "comment"], [kind |-> "pair", key |-> NameA, value |-> T],
                          [kind |-> "malformed"]>>
          [] x = "B" -> <<[kind |-> "malformed"], [kind |-> "pair", key |-> NameA, value |-> T]>>
          [] OTHER -> <<[kind |-> "pair", key |-> NameB, value |-> NameB]>>]

MCDigest == [x \in {"old", "A", "B", "S", "partial", "empty"} |->
                CASE x = "A" -> <<2001>> [] x = "old" -> <<2002>> [] OTHER -> <<2003>>]

-----------------------------------------------------------------------------
(* Packages.                                                               *)
Header(name, contents) ==
    [name |-> name, fault |-> "none", how |-> "STORED", link |-> FALSE, crcOk |-> TRUE,
     contents |-> contents, chunks |-> 1, uncompLen |-> 1]

Archive(dir) == [head |-> "LOCSIG", eocd |-> TRUE, num |-> Len(dir), inside |-> TRUE, dir |-> dir]

Names == {NameA, NameADir, NameAB, NameAC, NameADash, NameB}
FileData == <<"A", "B", "old", "S">>
Dirs == UNION {{[i \in 1 .. n |-> Header(f[i], FileData[i])] : f \in [1 .. n -> Names]} : n \in 1 .. MaxDir}

Faults == {"end", "censig", "nameEnd", "nameChars", "madeBy", "local", "dataEnd"}
OddArchives ==
    {Archive(<<[Header(NameA, "A") EXCEPT !.fault = f]>>) : f \in Faults}
    \cup {[Archive(<<Header(NameA, "A")>>) EXCEPT !.head = h] : h \in {"ENDSIG", "other"}}
    \cup {[Archive(<<Header(NameA, "A"), Header(NameB, "B")>>) EXCEPT !.num = n] : n \in {0, 1, 3}}
    \cup {[Archive(<<Header(NameA, "A")>>) EXCEPT !.eocd = FALSE],
          [Archive(<<Header(NameA, "A")>>) EXCEPT !.inside = FALSE]}

ThePackage ==
    Archive(<<[Header(NameAC, "B") EXCEPT !.how = "DEFLATED"], Header(SCRIPT_NAME, "S"),
              Header(NameAB, "A"), Header(NameB, "B"), Header(NameADir, "A")>>)

LinkPackage == Archive(<<Header(NameAB, "A"), [Header(NameAC, "B") EXCEPT !.link = TRUE]>>)
EmptyLinkPackage == Archive(<<[Header(NameAC, "B") EXCEPT !.link = TRUE, !.chunks = 0, !.uncompLen = 0]>>)

(* Worlds.                                                                 *)
Bare == [p \in MCPaths |-> IF p = Root THEN "dir" ELSE "none"]
Full == [Bare EXCEPT ![PathA] = "dir", ![PathAB] = "old", ![PathD] = "dir"]
Linked == [Bare EXCEPT ![PathA] = "dir", ![PathAC] = "link", ![PathD] = "empty"]
Blocked == [Bare EXCEPT ![PathA] = "A"]

World(tree, fail, power) ==
    [tree |-> tree, fail |-> fail, power |-> power, off |-> FALSE, z |-> NoArchive, mounted |-> {},
     part |-> [p \in {BOOT} |-> "old"], meta |-> [p \in MCPaths |-> {}], pipe |-> << >>, baks |-> {},
     stage |-> EmptyString, command |-> TRUE, err |-> "none", log |-> << >>,
     firstErr |-> NoError, killed |-> FALSE]

Worlds(trees) ==
    {World(t, 0, FALSE) : t \in trees} \cup {World(t, k, p) : t \in trees, k \in 1 .. MaxFail, p \in BOOLEAN}

-----------------------------------------------------------------------------
DirectoryJobs == {[kind |-> "directory", archive |-> x, absent |-> <<120>>] :
                    x \in {Archive(d) : d \in Dirs} \cup OddArchives}

ExtractSmall ==
    {[kind |-> "extract", archive |-> Archive(d), w |-> w, zipDir |-> z, target |-> PathA, filesOnly |-> o] :
        d \in {d \in Dirs : Len(d) = 2}, w \in Worlds({Bare, Full}), z \in {NameA, NameADir}, o \in {TRUE}}

ExtractPackage ==
    {[kind |-> "extract", archive |-> x, w |-> w, zipDir |-> z, target |-> PathA, filesOnly |-> o] :
        x \in {ThePackage, LinkPackage, EmptyLinkPackage}, w \in Worlds({Bare, Full, Linked, Blocked}),
        z \in {NameA, SlashA}, o \in BOOLEAN}

Entries2 ==
    {[Header(NameA, "A") EXCEPT !.how = h, !.chunks = n, !.uncompLen = m, !.crcOk = k] :
        h \in {"STORED", "DEFLATED", "other"}, n \in 0 .. 2, m \in 0 .. 2, k \in BOOLEAN}

EntryJobs ==
    {[kind |-> "entry", archive |-> Archive(<<e>>), w |-> World(Bare, f, FALSE), room |-> r] :
        e \in Entries2, f \in 0 .. 2, r \in 0 .. 2}

-----------------------------------------------------------------------------
(* Scripts.                                                                *)
L(fn, strings) == Call(fn, [i \in DOMAIN strings |-> Lit(strings[i])])
Perms(e, perms) == [fn |-> e.fn, args |-> e.args, perms |-> perms]
SomePerms == {[key |-> "uid", valid |-> TRUE], [key |-> "dmode", valid |-> TRUE],
              [key |-> "fmode", valid |-> TRUE], [key |-> "mode", valid |-> FALSE],
              [key |-> "unknown", valid |-> TRUE]}

Resumable ==
    {L("mount", <<EXT4, EMMC, BOOT, SlashD>>), L("mount", <<EXT4, MTD, BOOT, SlashD>>),
     L("format", <<EXT4, EMMC, BOOT, <<48>>, SlashD>>), L("format", <<Bad, MTD, BOOT, <<48>>, SlashD>>),
     L("delete", <<SlashAB, SlashAC>>), L("delete_recursive", <<SlashA>>),
     L("package_extract_dir", <<NameA, SlashA>>), L("package_extract_file", <<NameAB, SlashAC>>),
     L("symlink", <<NameB, SlashAB>>), L("symlink", <<NameB, SlashAB, SlashAC>>),
     Perms(L("set_metadata", <<SlashA>>), SomePerms),
     Perms(L("set_metadata_recursive", <<SlashA>>), SomePerms),
     Call("write_raw_image", <<L("package_extract_file", <<NameAB>>), Lit(BOOT)>>),
     L("write_raw_image", <<SlashAB, BOOT>>),
     L("run_program", <<SlashAB>>), L("collect_backup_data", <<SlashA>>)}

Singles == Resumable \cup
    {L("mount", <<EXT4, MTD, Bad, SlashD>>), L("mount", <<EXT4, EMMC, EmptyString, SlashD>>),
     L("format", <<Bad, EMMC, BOOT, <<48>>, SlashD>>), L("format", <<Bad, MTD, Bad, <<48>>, SlashD>>),
     L("rename", <<SlashAB, SlashAC>>), L("rename", <<SlashA, SlashD>>),
     L("package_extract_file", <<Bad, SlashAC>>), L("package_extract_file", <<NameAC, SlashAB>>),
     L("file_getprop", <<SlashAB, NameA>>), L("file_getprop", <<SlashD, NameA>>),
     L("getprop", <<MTD>>), L("is_mounted", <<SlashD>>), L("unmount", <<EmptyString>>),
     L("show_progress", <<Two, Two>>), L("set_progress", <<Two>>), L("wipe_cache", << >>),
     L("ui_print", <<NameA, NameB>>), L("reboot_now", <<Bad, Bad>>), L("read_file", <<SlashAB>>),
     L("mount", <<EXT4>>)}

Other ==
    {Call("write_raw_image", <<L("package_extract_file", <<Bad>>), Lit(BOOT)>>),
     Call("write_raw_image", <<L("read_file", <<SlashAC>>), Lit(EmptyString)>>),
     Call("write_raw_image", <<L("read_file", <<SlashAB>>), L("read_file", <<SlashAB>>)>>),
     Call("sha1_check", <<L("read_file", <<SlashAB>>), Lit(<<2001>>), Lit(<<2002>>)>>),
     Call("sha1_check", <<L("read_file", <<SlashAB>>)>>),
     Call("delete", <<Lit(SlashAB), Call("abort", << >>)>>),
     Call("delete", <<Call("abort", <<Lit(Bad)>>), Lit(SlashAB)>>),
     Call("unmount", <<L("mount", <<EXT4, EMMC, BOOT, SlashD>>)>>),
     Call("is_mounted", <<L("mount", <<EXT4, EMMC, BOOT, SlashD>>)>>),
     Call("concat", <<L("set_stage", <<Bad, LongStage>>), L("get_stage", <<Bad>>)>>),
     Call("ifelse", <<Lit(T)>>), Call("less_than_int", <<Lit(T)>>), Call("greater_than_int", <<Lit(T)>>)}

Tests ==
    {L("less_than_int", <<Two, <<49, 48>>>>), L("greater_than_int", <<Two, T>>),
     L("is_substring", <<NameB, NameAB>>), L("==", <<T, T>>), L("!=", <<T, T>>), L("!", <<T>>),
     L("file_getprop", <<SlashAB, NameA>>), Call("abort", <<L("read_file", <<SlashAB>>)>>),
     L("package_extract_file", <<NameAB, SlashAC>>), L("sleep", <<Two>>), L("stdout", <<T, T>>)}

Act1 == L("symlink", <<NameB, SlashAC>>)
Act2 == L("rename", <<SlashAB, SlashAC>>)

Conditionals ==
    UNION {{Call("ifelse", <<t, Act1, Act2>>), Call("ifelse", <<t, Act2>>), Call("&&", <<t, Act2>>),
            Call("||", <<t, Act1>>), Sequence(Call("assert", <<Lit(T), t>>), Act1),
            Call("ui_print", <<t, Act2>>), Call("!", <<Sequence(t, Act2)>>)} : t \in Tests}

(* One step, a reboot, the next step.                                      *)
MultiStage ==
    Call("ifelse", <<Call("==", <<L("get_stage", <<Bad>>), Lit(Two)>>),
                     L("package_extract_file", <<NameAC, SlashAC>>),
                     Sequence(Call("assert", <<L("package_extract_file", <<NameAB, SlashAB>>)>>),
                              Sequence(L("set_stage", <<Bad, Two>>), L("reboot_now", <<Bad, Bad>>)))>>)

ScriptJobsOf(roots, trees) ==
    {[kind |-> "script", archive |-> ThePackage, w |-> w, script |-> [root |-> r, parses |-> TRUE]] :
        r \in roots, w \in Worlds(trees)}

OddScriptJobs ==
    {[kind |-> "script", archive |-> x, w |-> World(Full, 0, FALSE), script |-> [root |-> Lit(T), parses |-> p]] :
            x \in OddArchives \cup {ThePackage}, p \in BOOLEAN}

-----------------------------------------------------------------------------
(* Patches, made by finding in the source what is in the target.           *)
Bytes(n) == [1 .. n -> 0 .. Base - 1]
Stream(data) == [data |-> data, ends |-> TRUE]

(* The diff and extra data for a target cut as the control triples say.    *)
RECURSIVE DiffFor(_, _, _, _, _)
DiffFor(old, new, ctrl, oldpos, acc) ==
    IF ctrl = << >> THEN acc
    ELSE LET c == Head(ctrl)
             diff == [i \in 1 .. c[1] |->
                        IF oldpos + i \in DOMAIN old THEN (new[i] + Base - old[oldpos + i]) % Base ELSE new[i]] IN
         DiffFor(old, SubSeq(new, c[1] + c[2] + 1, Len(new)), Tail(ctrl), oldpos + c[1] + c[3],
                 [acc EXCEPT !.diff = @ \o diff, !.extra = @ \o SubSeq(new, c[1] + 1, c[1] + c[2])])

BSPatch(old, new, ctrl) ==
    LET d == DiffFor(old, new, ctrl, 0, [diff |-> << >>, extra |-> << >>]) IN
    [magic |-> "BSDIFF40", new_size |-> Len(new), ctrl |-> Stream(ctrl),
     diff |-> Stream(d.diff), extra |-> Stream(d.extra)]

Triples(n) ==
    {<<<<x, n - x, 0>>>> : x \in 0 .. n}
    \cup {<<<<x, y, z>>, <<u, n - (x + y + u), 0>>>> :
            x \in 0 .. n - 1, y \in 0 .. n - 1, z \in -3 .. 2, u \in 0 .. n}
Cover(n) == {t \in Triples(n) : \A i \in DOMAIN t : t[i][2] >= 0}

Normal(old, new, ctrl) ==
    [type |-> "CHUNK_NORMAL", src_start |-> 0, src_len |-> Len(old), bs |-> BSPatch(old, new, ctrl)]
RawChunk(data) == [type |-> "CHUNK_RAW", data |-> data]
ImageOf(chunks) == [magic |-> "IMGDIFF2", num_chunks |-> Len(chunks), chunks |-> chunks]
ImageJob(old, patch, target, good) ==
    [kind |-> "image", old |-> old, patch |-> patch, target |-> target, bonus |-> <<1>>,
     good |-> good, failAt |-> 0, part |-> 0]

BSDiffJobs ==
    UNION {{ImageJob(old, ImageOf(<<Normal(old, new, t)>>), new, TRUE) :
                old \in Bytes(2), new \in Bytes(n), t \in Cover(n)} : n \in 1 .. 3}

(* An image of three parts of which the second is deflated, and its patch. *)
OldImage == <<1, 0>> \o Deflate(<<0, 1>>) \o <<1>>
Deflated(i, new) ==
    LET old == IF i = 2 THEN <<0, 1, 1>> ELSE <<0, 1>> IN
    [type |-> "CHUNK_DEFLATE", src_start |-> 2, src_len |-> 4, expanded_len |-> Len(old),
     bs |-> BSPatch(old, new, <<<<1, Len(new) - 1, 0>>>>)]
ChunkOf(kind, i) ==
    CASE kind = "normal" -> Normal(OldImage, <<0, 0, 1>>, <<<<1, 0, 1>>, <<1, 1, 0>>>>)
      [] kind = "raw" -> RawChunk(<<1, 1>>)
      [] OTHER -> Deflated(i, <<1, 1, 0>>)
TargetOf(kind) == CASE kind = "normal" -> <<0, 0, 1>> [] kind = "raw" -> <<1, 1>> [] OTHER -> Deflate(<<1, 1, 0>>)

Kinds == UNION {[1 .. n -> {"normal", "raw", "deflate"}] : n \in 0 .. 3}
GoodImage(ks) ==
    ImageJob(OldImage, ImageOf([i \in DOMAIN ks |-> ChunkOf(ks[i], i)]),
             FlattenSeq([i \in DOMAIN ks |-> TargetOf(ks[i])]), TRUE)
ImageJobs == {[GoodImage(ks) EXCEPT !.failAt = k, !.part = p] : ks \in Kinds, k \in 0 .. 7, p \in 0 .. 2}

OddPatches ==
    LET good == BSPatch(OldImage, <<0, 1>>, <<<<1, 1, 0>>>>) IN
    {[good EXCEPT !.magic = "other"], [good EXCEPT !.new_size = -1], [good EXCEPT !.new_size = 3],
     [good EXCEPT !.ctrl = Stream(<< >>)], [good EXCEPT !.diff = Stream(<< >>)],
     [good EXCEPT !.extra = [data |-> << >>, ends |-> FALSE]], [good EXCEPT !.ctrl = Stream(<<<<-1, 1, 0>>>>)],
     [good EXCEPT !.ctrl = Stream(<<<<3, 0, 0>>>>)], [good EXCEPT !.ctrl = Stream(<<<<1, 2, 0>>>>)]}
OddChunks ==
    {[Normal(OldImage, <<0, 1>>, <<<<1, 1, 0>>>>) EXCEPT !.bs = b] : b \in OddPatches}
    \cup {[Deflated(1, <<0, 1>>) EXCEPT !.bs = b] : b \in OddPatches}
    \cup {[Deflated(1, <<0, 1>>) EXCEPT !.src_start = 1], [Deflated(1, <<0, 1>>) EXCEPT !.expanded_len = 3],
          [type |-> "other"]}
OddImageJobs ==
    {ImageJob(OldImage, ImageOf(<<c>>), <<0, 1>>, FALSE) : c \in OddChunks}
    \cup {ImageJob(OldImage, [ImageOf(<<RawChunk(<<0, 1>>)>>) EXCEPT !.num_chunks = 2], <<0, 1>>, FALSE),
          ImageJob(OldImage, [ImageOf(<< >>) EXCEPT !.magic = "other"], << >>, FALSE)}

-----------------------------------------------------------------------------
(* Directories, and backups made within the same minute.                   *)
Listed(name, kind, sub) ==
    [name |-> name, hidden |-> kind = "hidden", dir |-> kind \in {"dir", "both"}, ext |-> kind \in {"ab", "both"},
     entries |-> sub]
SubDir == <<Listed(2, "ab", << >>), Listed(1, "ab", << >>)>>
Listings ==
    UNION {{[i \in 1 .. n |-> Listed(p[i], k[i], IF p[i] = 1 THEN << >> ELSE SubDir)] :
                p \in Permutations(1 .. n), k \in [1 .. n -> {"dir", "ab", "both", "hidden", "other"}]} : n \in 1 .. 3}
Picks == {<<a>> : a \in 0 .. 3} \cup {<<a, b, c>> : a \in 0 .. 2, b \in {GoBack, 1}, c \in 0 .. 2}
ChooseJobs == {[kind |-> "choose", dir |-> d, picks |-> p] : d \in Listings, p \in Picks}

-----------------------------------------------------------------------------
MCJobs ==
    <<ChooseJobs, BSDiffJobs, ImageJobs, OddImageJobs, DirectoryJobs, ExtractSmall, ExtractPackage, EntryJobs, OddScriptJobs,
      ScriptJobsOf(Singles, {Bare, Full, Linked, Blocked}),
      ScriptJobsOf(Other, {Bare, Full, Linked, Blocked}),
      ScriptJobsOf(Conditionals, {Full}), ScriptJobsOf({MultiStage}, {Full}),
      ScriptJobsOf({Sequence(x, y) : x \in Resumable, y \in Resumable}, {Full})>>

-----------------------------------------------------------------------------
MCItems == {"a1", "a2", "b", "c"}
MCItemKey == [i \in MCItems |-> IF i \in {"a1", "a2"} THEN "a" ELSE i]
MCItemHash == [i \in MCItems |-> CASE i = "b" -> 5 [] i = "c" -> 7 [] OTHER -> 1]

MCLowerOf == [w \in {"Theme"} |-> "theme"]
Blue == <<"blue">>
BlueHash == <<"blue", "#", "2">>
MCThemeDirs == {Blue, BlueHash}
MCThemeTrees == {[t \in MCThemeDirs |-> IF t = Blue THEN x ELSE "named"] : x \in {"named", "noname"}}

(* A file with keys of its own, one that cannot be read, one whose error   *)
(* is forgotten, one without a section, continued and quoted values.       *)
MCEditedFiles ==
    {<<NewLine(<<"[", "settings", "]">>), NewLine(<<"Theme", "=", "blue">>), NewLine(<<"own", "=", "x">>),
       NewLine(<<"[", "more", "]">>), NewLine(<<"own", "=", "\"", "y", "#", "\"">>), NewLine(<<"void", "=">>)>>,
     <<NewLine(<<"[", "settings", "]">>), NewLine(<<"zip_sigverif", "=", "0", "#", "off">>), NewLine(<<"junk">>)>>,
     <<NewLine(<<"junk">>), NewLine(<<"[", "]">>), NewLine(<<"[", "settings", "]">>), NewLine(<<"own", "=", "\\">>),
       NewLine(<<"x", "\\">>), NewLine(<<"y">>), NewLine(<<"void", "=", "'", "'">>)>>,
     <<NewLine(<<"zip_sigverif", "=", "0">>), NewLine(<<"theme", "=", ";">>)>>}

-----------------------------------------------------------------------------
(* A state is that of a job, of a hash table, of a dictionary or of the    *)
(* settings.                                                               *)
NoJob == [kind |-> "none"]
NoSteps == [writes |-> MaxWrites, outside |-> MaxOutsideSteps]

SettingsIdle ==
    /\ proc = [Off EXCEPT !.up = "crashed"]
    /\ disk = [file |-> NoFile, mountable |-> FALSE, res |-> FALSE, themes |-> [t \in ThemeDirs |-> "absent"]]
    /\ known = [zip |-> {}, tests |-> {}, theme |-> {}, whole |-> FALSE, edited |-> FALSE]
    /\ steps = NoSteps

Init ==
    /\ HashInit /\ DictInit
    /\ \/ PackageInit /\ SettingsIdle
       \/ job = NoJob /\ out = Nothing /\ SettingsIdle
       \/ job = [kind |-> "settings"] /\ out = Nothing /\ SettingsInit

Next ==
    \/ job.kind \notin {"none", "settings"} /\ PackageNext /\ UNCHANGED <<hvars, dvars, svars>>
    \/ job = NoJob /\ dict = dictionary_new /\ HashNext /\ UNCHANGED <<pvars, dvars, svars>>
    \/ job = NoJob /\ table = TableCreate(1) /\ DictNext /\ UNCHANGED <<pvars, hvars, svars>>
    \/ job.kind = "settings" /\ SettingsNext /\ UNCHANGED <<pvars, hvars, dvars>>

Spec == Init /\ [][Next]_<<pvars, hvars, dvars, svars>>

=============================================================================
