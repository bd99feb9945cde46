------------------------------ MODULE Recovery ------------------------------
(***************************************************************************)
(* How a command survives: recovery.cpp (get_args, main, erase_volume,     *)
(* finish_recovery, prompt_and_wait), bootloader.cpp (the bootloader       *)
(* control block, BCB, in /misc), install.cpp, and the reboot_now and      *)
(* set_stage functions of updater/install.c.                               *)
(*                                                                         *)
(* The main system leaves a command in /cache/recovery/command and reboots *)
(* into recovery.  Recovery copies it to the BCB before it does anything,  *)
(* so that a device that dies is started in recovery again, and clears the *)
(* BCB when it is through.  The device may die between any two steps.      *)
(***************************************************************************)
EXTENDS Integers, Sequences, Functions

CONSTANTS
    Commands,       \* the command lines the main system may write
    BcbArgs,        \* how many arguments fit in the BCB's recovery field
    MiscIsMtd,      \* /misc is MTD flash: rewriting it erases it first
    PackageWipes,   \* may the package ask for a cache wipe (wipe_cache())?
    MultiStage,     \* may the package call set_stage and reboot_now?
    MenuChoices,    \* what users pick in the menu
    MaxCommands,    \* bound: commands of the main system
    MaxCrashes,     \* bound: power losses
    MaxErrors       \* bound: formats and installs that fail

Options == {"update", "wipe_data", "wipe_cache", "wipe_media", "just_exit",
            "show_text", "locale", "send_intent", "sideload"}
Volumes == {"data", "media", "cache"}
MenuItems == {"reboot", "wipe_data", "wipe_cache", "wipe_media", "other"}

ASSUME CommandsAssumption == Commands \subseteq Seq(Options)
ASSUME FlagsAssumption ==
    /\ MiscIsMtd \in BOOLEAN /\ PackageWipes \in BOOLEAN
    /\ MultiStage \in BOOLEAN /\ MenuChoices \subseteq MenuItems
ASSUME BoundsAssumption ==
    /\ BcbArgs \in Nat /\ MaxCommands \in Nat
    /\ MaxCrashes \in Nat /\ MaxErrors \in Nat

VARIABLES
    mode,       \* "off", "main" or "recovery"
    reason,     \* the reboot reason the bootloader will see
    bcb,        \* the BCB: command, recovery arguments, stage
    cmdfile,    \* COMMAND_FILE; << >> when there is none
    package,    \* is the OTA package on /cache?
    system,     \* "old", "half" (being patched) or "new"
    volume,     \* [Volumes -> {"used", "half", "blank", "broken"}]; a broken
                \* volume cannot be mounted
    pc, args, todo, wipeCache, status,  \* recovery's main()
    prompt,     \* is it in prompt_and_wait()?
    leave,      \* will it restart the device after finish_recovery()?
    pending,    \* history: what get_args() put in the BCB, until it is cleared
                \* or the user goes on from the menu
    shown,      \* history: was the user shown an error since?
    asked,      \* history: is there a wipe_data command not yet carried out?
    crashes, errors, commands

disks == <<bcb, cmdfile, package, system, volume>>
process == <<pc, args, todo, wipeCache, status, prompt, leave>>
history == <<pending, shown, asked>>
bounds == <<crashes, errors, commands>>
vars == <<mode, reason, bcb, cmdfile, package, system, volume, pc, args, todo,
          wipeCache, status, prompt, leave, pending, shown, asked, crashes,
          errors, commands>>

Has(a, option) == option \in Range(a)
NoBcb == [command |-> "", args |-> << >>, stage |-> ""]
Cleared(b) == b.command # "boot-recovery"

(* The variables keep their types; in particular erase_volume() is never   *)
(* asked for a volume that is not one of the user's.                       *)
TypeOK ==
    /\ mode \in {"off", "main", "recovery"} /\ reason \in {"", "recovery"}
    /\ bcb \in [command : {"", "boot-recovery"}, args : Seq(Options),
                stage : {"", "2/2"}]
    /\ cmdfile \in Seq(Options) /\ package \in BOOLEAN
    /\ system \in {"old", "half", "new"}
    /\ volume \in [Volumes -> {"used", "half", "blank", "broken"}]
    /\ pc \in {"none", "get_args", "set_bcb", "dispatch", "install",
               "installing", "staged", "rebooting", "erase", "erasing",
               "check", "finish", "clear_bcb", "unlink", "menu", "reboot"}
    /\ args \in Seq(Options) /\ todo \in Seq(SUBSET Volumes)
    /\ wipeCache \in BOOLEAN /\ prompt \in BOOLEAN /\ leave \in BOOLEAN
    /\ status \in {"success", "error", "none"}
    /\ pending \in Seq(Options) /\ shown \in BOOLEAN /\ asked \in BOOLEAN
    /\ crashes \in 0 .. MaxCrashes /\ errors \in 0 .. MaxErrors
    /\ commands \in 0 .. MaxCommands

Init ==
    /\ mode = "main" /\ reason = ""
    /\ bcb = NoBcb /\ cmdfile = << >> /\ package = FALSE
    /\ system = "old" /\ volume = [v \in Volumes |-> "used"]
    /\ pc = "none" /\ args = << >> /\ todo = << >> /\ wipeCache = FALSE
    /\ status = "success" /\ prompt = FALSE /\ leave = FALSE
    /\ pending = << >> /\ shown = FALSE /\ asked = FALSE
    /\ crashes = 0 /\ errors = 0 /\ commands = 0

Error == errors < MaxErrors /\ errors' = errors + 1
Goto(label) == pc' = label

(* A process that is started, or gone.                                     *)
Start(label) ==
    /\ pc' = label /\ args' = << >> /\ todo' = << >> /\ wipeCache' = FALSE
    /\ status' = "success" /\ prompt' = FALSE /\ leave' = FALSE

-----------------------------------------------------------------------------
(* The rest of the device, as recovery.cpp's comment describes it.         *)

(* The main system downloads a package, writes the command file and reboots*)
(* into recovery.  It has used every volume by then.                       *)
MainWritesCommand ==
    /\ mode = "main" /\ commands < MaxCommands
    /\ \E c \in Commands :
          /\ cmdfile' = c
          /\ package' = Has(c, "update")
          /\ asked' = (asked \/ Has(c, "wipe_data"))
    /\ volume["cache"] # "broken"
    /\ volume' = [v \in Volumes |-> "used"] /\ system' = "old"
    /\ mode' = "off" /\ reason' = "recovery"
    /\ commands' = commands + 1
    /\ UNCHANGED <<bcb, process, pending, shown, crashes, errors>>

(* Or the device is started in recovery without a new command.             *)
UserBootsRecovery ==
    /\ mode = "main" /\ commands < MaxCommands
    /\ mode' = "off" /\ reason' = "recovery"
    /\ commands' = commands + 1
    /\ UNCHANGED <<disks, process, history, crashes, errors>>

(* The bootloader.  A start of the main system ends the history.           *)
Bootloader ==
    /\ mode = "off"
    /\ reason' = ""
    /\ IF reason = "recovery" \/ ~Cleared(bcb)
         THEN /\ mode' = "recovery" /\ Goto("get_args")
              /\ UNCHANGED <<pending, shown>>
         ELSE /\ mode' = "main" /\ pending' = << >> /\ shown' = FALSE
              /\ UNCHANGED pc
    /\ UNCHANGED <<disks, args, todo, wipeCache, status, prompt, leave, asked,
                   bounds>>

(* The storage loses /cache, and with it the command and the package.      *)
CacheBreaks ==
    /\ mode = "off" /\ Error
    /\ volume' = [volume EXCEPT !["cache"] = "broken"]
    /\ cmdfile' = << >> /\ package' = FALSE
    /\ UNCHANGED <<mode, reason, bcb, system, process, history, crashes, commands>>

(* Power loss.  Formatting or patching is half done; an MTD /misc that was *)
(* being rewritten is blank.                                               *)
BcbAfterCrash ==
    {bcb} \cup IF MiscIsMtd /\ pc \in {"set_bcb", "clear_bcb"} THEN {NoBcb} ELSE {}

Crash ==
    /\ mode = "recovery" /\ crashes < MaxCrashes
    /\ crashes' = crashes + 1
    /\ mode' = "off" /\ Start("none")
    /\ bcb' \in BcbAfterCrash
    /\ UNCHANGED <<reason, cmdfile, package, system, volume, history, errors,
                   commands>>

-----------------------------------------------------------------------------
(* get_args(): the BCB's arguments if there are any, else the command      *)
(* file's, and none when /cache cannot be mounted.                         *)
ChooseArgs == IF bcb.args # << >> THEN bcb.args ELSE cmdfile

GetArgs ==
    /\ pc = "get_args"
    /\ args' = ChooseArgs
    /\ Goto("set_bcb")
    /\ UNCHANGED <<mode, reason, disks, todo, wipeCache, status, prompt, leave, history,
                   bounds>>

(* get_args() writes them back (strlcat into recovery[768]) and keeps the  *)
(* stage.  A failure of set_bootloader_message is ignored.                 *)
Truncated(a) == SubSeq(a, 1, IF Len(a) <= BcbArgs THEN Len(a) ELSE BcbArgs)

SetBcb ==
    /\ pc = "set_bcb"
    /\ \/ /\ bcb' = [bcb EXCEPT !.command = "boot-recovery",
                                !.args = Truncated(args)]
          /\ pending' = IF pending = << >> THEN args ELSE pending
          /\ UNCHANGED errors
       \/ Error /\ UNCHANGED <<bcb, pending>>
    /\ Goto("dispatch")
    /\ UNCHANGED <<mode, reason, cmdfile, package, system, volume, args, todo,
                   wipeCache, status, prompt, leave, shown, asked, crashes,
                   commands>>

(* main(): getopt, then the first branch that applies.  todo lists the     *)
(* volumes still to be erased; "data" with wipe_media is a forced format   *)
(* of both.                                                                *)
WipeDataArg == Has(args, "wipe_data")
DataVolumes == IF Has(args, "wipe_media") THEN {"data", "media"} ELSE {"data"}

Dispatch ==
    /\ pc = "dispatch"
    /\ wipeCache' = (WipeDataArg \/ Has(args, "wipe_cache"))
    /\ CASE Has(args, "update") ->
              Goto("install") /\ UNCHANGED <<todo, status, errors>>
         [] WipeDataArg /\ ~Has(args, "update") ->
              Goto("erase") /\ todo' = <<DataVolumes, {"cache"}>>
              /\ UNCHANGED <<status, errors>>
         [] ~WipeDataArg /\ ~Has(args, "update") /\ Has(args, "wipe_cache") ->
              Goto("erase") /\ todo' = <<{"cache"}>>
              /\ UNCHANGED <<status, errors>>
         [] OTHER ->
              IF Has(args, "wipe_media")
                THEN /\ Goto("erase") /\ todo' = <<{"media"}>>
                     /\ UNCHANGED <<status, errors>>
                ELSE /\ Goto("check") /\ UNCHANGED todo
                     /\ \/ /\ Has(args, "sideload")
                           /\ status' \in {"success", "none"} /\ UNCHANGED errors
                        \/ Has(args, "sideload") /\ Error /\ status' = "error"
                        \/ /\ ~Has(args, "sideload") /\ UNCHANGED errors
                           /\ status' = IF Has(args, "just_exit") THEN "success"
                                                                  ELSE "none"
    /\ UNCHANGED <<mode, reason, disks, args, prompt, leave, history, crashes,
                   commands>>

(* install_package(): a package that is not there is INSTALL_CORRUPT, and  *)
(* one that cannot be verified or mounted is not run.                      *)
InstallPackage ==
    /\ pc = "install"
    /\ \/ /\ package
          /\ system' = "half" /\ Goto("installing") /\ UNCHANGED <<status, errors>>
       \/ /\ package /\ Error
          /\ status' = "error" /\ Goto("check") /\ UNCHANGED system
       \/ /\ ~package
          /\ status' = "error" /\ Goto("check") /\ UNCHANGED <<system, errors>>
    /\ UNCHANGED <<mode, reason, bcb, cmdfile, package, volume, args, todo,
                   wipeCache, prompt, leave, history, crashes, commands>>

(* try_update_binary(): *wipe_cache is what the package says, and main()   *)
(* erases what the other arguments ask for after a success.                *)
WipeCacheAfter(request) == request
InstallDone ==
    /\ pc = "installing"
    /\ \/ /\ system' = "new" /\ status' = "success"
          /\ \E request \in {FALSE} \cup {PackageWipes} :
                /\ wipeCache' = WipeCacheAfter(request)
                /\ todo' = (IF WipeDataArg THEN <<DataVolumes>>
                            ELSE IF Has(args, "wipe_media") THEN <<{"media"}>>
                            ELSE << >>)
                           \o (IF wipeCache' THEN <<{"cache"}>> ELSE << >>)
          /\ Goto("erase") /\ UNCHANGED errors
       \/ /\ Error /\ status' = "error" /\ wipeCache' = FALSE
          /\ Goto("check") /\ UNCHANGED <<system, todo>>
    /\ UNCHANGED <<mode, reason, bcb, cmdfile, package, volume, args, prompt, leave,
                   history, crashes, commands>>

(* A multi-stage package: set_stage(), then reboot_now(misc, "recovery"),  *)
(* which zeroes only the command field and reboots.                        *)
SetStage ==
    /\ pc = "installing" /\ MultiStage /\ bcb.stage = ""
    /\ bcb' = [bcb EXCEPT !.stage = "2/2"]
    /\ Goto("staged")
    /\ UNCHANGED <<mode, reason, cmdfile, package, system, volume, args, todo,
                   wipeCache, status, prompt, leave, history, bounds>>

RebootNowZero ==
    /\ pc = "staged"
    /\ bcb' = [bcb EXCEPT !.command = ""]
    /\ Goto("rebooting")
    /\ UNCHANGED <<mode, reason, cmdfile, package, system, volume, args, todo,
                   wipeCache, status, prompt, leave, history, bounds>>

RebootNow ==
    /\ pc = "rebooting"
    /\ mode' = "off" /\ reason' = "recovery"
    /\ Start("none")
    /\ UNCHANGED <<disks, history, bounds>>

-----------------------------------------------------------------------------
(* What main() makes of a failed erase_volume(): after an install a cache  *)
(* that cannot be wiped is only logged, and the menu ignores failures.     *)
EraseFailureIgnored == status' = status
EraseFailed ==
    status' = IF prompt \/ (Has(args, "update") /\ Head(todo) = {"cache"})
              THEN status ELSE "error"

(* format_volume() gives up before it touches the volume.                  *)
EraseRefused ==
    /\ pc = "erase" /\ todo # << >>
    /\ Error /\ EraseFailed
    /\ todo' = Tail(todo)
    /\ UNCHANGED <<mode, reason, disks, pc, args, wipeCache, prompt, leave,
                   history, crashes, commands>>

(* erase_volume() of the next volumes: format_volume() removes the files   *)
(* of a /cache it can mount, in any order, and formats a broken one ...    *)
EraseBegin ==
    /\ pc = "erase" /\ todo # << >>
    /\ volume' = [v \in Volumes |->
                     IF v \in Head(todo) /\ volume[v] # "broken" THEN "half"
                     ELSE volume[v]]
    /\ cmdfile' \in {cmdfile} \cup {<< >> : v \in Head(todo) \cap {"cache"}}
    /\ package' \in {package} \cup {FALSE : v \in Head(todo) \cap {"cache"}}
    /\ Goto("erasing")
    /\ UNCHANGED <<mode, reason, bcb, system, args, todo, wipeCache, status,
                   prompt, leave, history, bounds>>

(* ... and its result.                                                     *)
EraseEnd ==
    /\ pc = "erasing"
    /\ todo' = Tail(todo)
    /\ Goto("erase")
    /\ \/ /\ volume' = [v \in Volumes |->
                           IF v \in Head(todo) THEN "blank" ELSE volume[v]]
          /\ IF "cache" \in Head(todo)
               THEN cmdfile' = << >> /\ package' = FALSE
               ELSE UNCHANGED <<cmdfile, package>>
          /\ UNCHANGED <<status, errors>>
       \/ Error /\ EraseFailed /\ UNCHANGED <<volume, cmdfile, package>>
    /\ UNCHANGED <<mode, reason, bcb, system, args, wipeCache,
                   prompt, leave, history, crashes, commands>>

Erased ==
    /\ pc = "erase" /\ todo = << >>
    /\ Goto(IF prompt THEN "finish" ELSE "check")
    /\ UNCHANGED <<mode, reason, disks, args, todo, wipeCache, status, prompt, leave,
                   history, bounds>>

(* main() after the work: an error, no command or visible text means the   *)
(* menu; otherwise the device restarts.                                    *)
CheckStatus ==
    /\ pc = "check"
    /\ leave' = (status = "success" /\ ~Has(args, "show_text"))
    /\ shown' = (shown \/ status = "error")
    /\ prompt' = ~leave'
    /\ Goto("finish")
    /\ UNCHANGED <<mode, reason, disks, args, todo, wipeCache, status, pending,
                   asked, bounds>>

(* finish_recovery(): the intent, locale and log files.  When /cache is    *)
(* broken, fopen_path(LOCALE_FILE) is NULL, and writing the locale to it   *)
(* kills the process; init starts it again.                                *)
LocaleKills == Has(args, "locale") /\ volume["cache"] = "broken"

FinishRecovery ==
    /\ pc = "finish"
    /\ IF LocaleKills
         THEN Start("get_args")
         ELSE /\ Goto("clear_bcb")
              /\ UNCHANGED <<args, todo, wipeCache, status, prompt, leave>>
    /\ UNCHANGED <<mode, reason, disks, history, bounds>>

(* "Reset to normal system boot so recovery won't cycle indefinitely."     *)
BcbNotReset == bcb' = bcb
CommandReset == bcb' = [bcb EXCEPT !.command = ""]
ResetBcb == bcb' = NoBcb
ClearBcb ==
    /\ pc = "clear_bcb"
    /\ \/ /\ ResetBcb
          /\ pending' = << >> /\ asked' = (asked /\ ~WipeDataArg) /\ UNCHANGED errors
       \/ Error /\ UNCHANGED <<bcb, pending, asked>>
    /\ Goto("unlink")
    /\ UNCHANGED <<mode, reason, cmdfile, package, system, volume, args, todo,
                   wipeCache, status, prompt, leave, shown, crashes, commands>>

(* "Remove the command file, so recovery won't repeat indefinitely."       *)
UnlinkCommandFile == cmdfile' = << >>
UnlinkCommand ==
    /\ pc = "unlink"
    /\ UnlinkCommandFile
    /\ asked' = (asked /\ Has(bcb.args, "wipe_data"))
    /\ Goto(IF leave THEN "reboot" ELSE "menu")
    /\ UNCHANGED <<mode, reason, bcb, package, system, volume, args, todo,
                   wipeCache, status, prompt, leave, pending, shown, bounds>>

(* prompt_and_wait(): what the user picks is done and the loop calls       *)
(* finish_recovery() again, or leaves when the text was hidden.            *)
Menu ==
    /\ pc = "menu"
    /\ \E choice \in MenuChoices, hidden \in BOOLEAN :
          /\ leave' = (hidden \/ choice = "reboot")
          /\ todo' = CASE choice = "wipe_data" -> <<{"data"}, {"cache"}>>
                       [] choice = "wipe_cache" -> <<{"cache"}>>
                       [] choice = "wipe_media" -> <<{"media"}>>
                       [] OTHER -> << >>
    /\ pending' = << >>
    /\ Goto("erase")
    /\ UNCHANGED <<mode, reason, disks, args, wipeCache, status, prompt,
                   shown, asked, bounds>>

(* The end of main(): reboot.                                              *)
Reboot ==
    /\ pc = "reboot"
    /\ mode' = "off" /\ reason' = ""
    /\ Start("none")
    /\ UNCHANGED <<disks, history, bounds>>

Program == \/ GetArgs \/ SetBcb \/ Dispatch \/ InstallPackage \/ InstallDone
           \/ SetStage \/ RebootNowZero \/ RebootNow \/ EraseRefused
           \/ EraseBegin \/ EraseEnd \/ Erased \/ CheckStatus
           \/ FinishRecovery \/ ClearBcb \/ UnlinkCommand \/ Reboot

(* The main system runs on when nobody asks for anything.                  *)
MainRuns == mode = "main" /\ UNCHANGED vars

Next == \/ MainWritesCommand \/ UserBootsRecovery \/ MainRuns
        \/ Bootloader \/ CacheBreaks \/ Crash \/ Menu \/ Program

Spec == Init /\ [][Next]_vars

(* A device that is on runs: the bootloader and recovery take their steps; *)
(* the user and the main system need not.                                  *)
FairSpec == Spec /\ WF_vars(Bootloader) /\ WF_vars(Program)

-----------------------------------------------------------------------------
(* Is what an option asks for done?                                        *)
Achieved(option) ==
    CASE option = "update" -> system = "new"
      [] option = "wipe_data" -> volume["data"] = "blank"
      [] option = "wipe_cache" -> volume["cache"] = "blank"
      [] option = "wipe_media" -> volume["media"] = "blank"
      [] OTHER -> TRUE

(* Once get_args() has put a command in the BCB, the device will not start *)
(* the main system before the command is carried out or the user has seen  *)
(* that it failed: nothing clears the BCB's command earlier, in whatever   *)
(* order crashes, restarts and failures come ("after this, rebooting will  *)
(* restart the erase", recovery.cpp:155).  The exception is a package that *)
(* calls reboot_now().                                                     *)
ClearedOnlyWhenDone ==
    [][~Cleared(bcb) /\ Cleared(bcb') /\ pc # "staged" =>
          shown \/ \A option \in Range(pending) : Achieved(option)]_vars

(* A crash is never mistaken for a failure: the user is shown an error     *)
(* only if a format, an install or a write failed ("must be safely         *)
(* restartable at any point", recovery.cpp:148).  Two exceptions: a        *)
(* package that is installed and had its cache wiped, itself on it, and a  *)
(* multi-stage package that died between zeroing the BCB and the reboot.   *)
NoSpuriousError ==
    [][errors = 0 /\ ~shown /\ shown' => system = "new" \/ bcb.stage # ""]_vars

(* User data is erased on command only, and once the command is carried    *)
(* out it is not erased again when the device is next started in recovery, *)
(* even if it died before finish_recovery() removed the command file.      *)
NoSurpriseWipe ==
    [][errors = 0 /\ ~prompt /\ pc = "erase" /\ pc' = "erasing"
          => asked \/ "data" \notin Head(todo)]_vars

(* A device left alone ends in the main system or shows the menu: recovery *)
(* does not cycle indefinitely.  (It does when it is given a locale and    *)
(* /cache cannot be mounted.)                                              *)
ReachesUser == []<>(mode = "main" \/ pc = "menu" \/ LocaleKills)

=============================================================================
