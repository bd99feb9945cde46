--------------------------- MODULE RecoveryProofs ---------------------------
(***************************************************************************)
(* Proofs about how a command survives, for any commands, power losses,    *)
(* failures and choices in the menu.                                       *)
(***************************************************************************)
EXTENDS Recovery, TLAPS

(* No command asks for a package and for a wipe of the user's data.        *)
PackageOrWipe == \A c \in Commands : ~(Has(c, "update") /\ Has(c, "wipe_data"))

(* Every command fits in the BCB.                                          *)
Fits == \A c \in Commands : Len(c) <= BcbArgs

(* main() carries out all that a command asks for: a package decides about *)
(* the cache itself, and of the wipes only the first branch is taken.      *)
Combinable == \A c \in Commands :
    /\ ~(Has(c, "update") /\ Has(c, "wipe_cache"))
    /\ Has(c, "wipe_cache") /\ Has(c, "wipe_media") => Has(c, "wipe_data")

Installs == {"install", "installing", "staged", "rebooting"}
Finishes == {"finish", "clear_bcb", "unlink"}

(* The types of what is computed with.                                     *)
Shape ==
    /\ bcb \in [command : {"", "boot-recovery"}, args : Seq(Options), stage : {"", "2/2"}]
    /\ cmdfile \in Seq(Options) /\ args \in Seq(Options)
    /\ todo \in Seq(SUBSET Volumes)
    /\ volume \in [Volumes -> {"used", "half", "blank", "broken"}]
    /\ errors \in Nat

(* Where main() is.                                                        *)
Located ==
    /\ mode # "recovery" => pc = "none"
    /\ pc = "none" => args = << >>
    /\ pc \in {"none", "get_args", "set_bcb", "dispatch", "check"} \cup Installs => ~prompt
    /\ pc \in Finishes => leave \/ prompt
    /\ pc = "menu" => prompt
    /\ pc \in Installs => Has(args, "update")
    /\ pc = "erasing" => todo # << >>

ProcessInv == Shape /\ Located

-----------------------------------------------------------------------------
(* While nothing fails, a wipe_data that is still written somewhere, or    *)
(* that main() is carrying out, was asked for ...                          *)
WipesAsked ==
    /\ Has(bcb.args, "wipe_data") \/ Has(cmdfile, "wipe_data") => asked
    /\ ~prompt /\ pc # "unlink" /\ pc # "reboot" /\ Has(args, "wipe_data") => asked
    /\ ~prompt /\ pc \in {"erase", "erasing"} =>
           \A i \in 1 .. Len(todo) : "data" \in todo[i] => Has(args, "wipe_data")

(* ... and wiping the data ends with the cache and the command file on it. *)
Done == prompt \/ pc \in {"check", "reboot"} \cup Finishes
WipesForget ==
    /\ Done /\ Has(args, "wipe_data") => ~Has(cmdfile, "wipe_data")
    /\ ~prompt /\ pc \in {"erase", "erasing"} /\ Has(args, "wipe_data") =>
           ~Has(cmdfile, "wipe_data") \/ \E i \in 1 .. Len(todo) : "cache" \in todo[i]
    /\ pc = "unlink" => bcb.args = << >>

NotBoth(a) == ~(Has(a, "update") /\ Has(a, "wipe_data"))
WipeInv ==
    /\ ProcessInv
    /\ NotBoth(bcb.args) /\ NotBoth(cmdfile) /\ NotBoth(args)
    /\ errors = 0 => WipesAsked /\ WipesForget

-----------------------------------------------------------------------------
(* While nothing fails, a command that names a package has it, or it is    *)
(* installed, or a multi-stage package is at work.                         *)
Excused == system = "new" \/ bcb.stage # ""
Provided ==
    /\ Has(cmdfile, "update") => package \/ system = "new"
    /\ Has(bcb.args, "update") => package \/ Excused
    /\ ~prompt /\ Has(args, "update") /\ pc \notin {"unlink", "reboot"} => package \/ Excused
    /\ status = "error" => Done
    /\ pc = "check" /\ status = "error" => Excused
    /\ ~prompt /\ pc \in {"erase", "erasing"} /\ Has(args, "update") => system = "new"

(* The command main() carries out is the one on the disks; the BCB starts  *)
(* recovery as long as it holds one, except for a multi-stage package.     *)
SameCommand ==
    /\ mode = "main" => Cleared(bcb)
    /\ Cleared(bcb) /\ bcb.args # << >> => Has(bcb.args, "update") /\ bcb.stage # ""
    /\ pc \in {"staged", "rebooting"} => bcb.stage # ""
    /\ bcb.args # << >> /\ Has(cmdfile, "update") => Has(bcb.args, "update")
    /\ pc = "set_bcb" => args = ChooseArgs
    /\ ~prompt /\ pc \notin {"none", "get_args", "set_bcb", "unlink", "reboot"} =>
           args = bcb.args /\ (Has(cmdfile, "update") => Has(args, "update"))
    /\ pc = "unlink" => bcb = NoBcb
    /\ pc = "menu" \/ (prompt /\ pc \in {"erase", "erasing"}) => bcb.args = << >> /\ cmdfile = << >>

Known(a) == a = << >> \/ a \in Commands
ErrorInv ==
    /\ ProcessInv
    /\ Known(bcb.args) /\ Known(cmdfile) /\ Known(args)
    /\ errors = 0 => Provided /\ SameCommand

-----------------------------------------------------------------------------
(* What get_args() put in the BCB is what main() carries out.              *)
InBcb ==
    /\ pending # << >> => pending = bcb.args
    /\ pc \notin {"none", "get_args"} /\ pending # << >> => pending = args

Wants(v) ==
    \/ v = "data" /\ Has(args, "wipe_data")
    \/ v = "cache" /\ Has(args, "wipe_cache")
    \/ v = "media" /\ Has(args, "wipe_media")
Undone(v) == Wants(v) /\ volume[v] # "blank"

(* Until the user goes on from the menu, what is not done is in main()'s   *)
(* list, or has failed.                                                    *)
AllDone == (Has(args, "update") => system = "new") /\ \A v \in Volumes : ~Undone(v)
Remaining ==
    /\ pc \in {"erase", "erasing"} /\ ~prompt /\ status # "error" =>
           /\ Has(args, "update") => system = "new"
           /\ \A v \in Volumes : Undone(v) => \E i \in 1 .. Len(todo) : v \in todo[i]
    /\ pc = "check" /\ status # "error" => AllDone
    /\ pc \in Finishes \cup {"menu", "reboot"} /\ pending # << >> => shown \/ AllDone
    /\ prompt /\ pc \in {"erase", "erasing"} => pending = << >>

DoneInv ==
    /\ ProcessInv
    /\ Known(bcb.args) /\ Known(cmdfile) /\ Known(args)
    /\ InBcb /\ Remaining

-----------------------------------------------------------------------------
LEMMA HasNothing == \A option : ~Has(<< >>, option)
  BY DEF Has, Range

LEMMA TruncatedHas ==
  ASSUME NEW a \in Seq(Options)
  PROVE  /\ Truncated(a) \in Seq(Options)
         /\ \A option : Has(Truncated(a), option) => Has(a, option)
         /\ Len(a) <= BcbArgs => Truncated(a) = a
<1>1. Len(a) \in Nat /\ BcbArgs \in Nat
  BY BoundsAssumption
<1> DEFINE n == IF Len(a) <= BcbArgs THEN Len(a) ELSE BcbArgs
<1>2. n \in 0 .. Len(a)
  BY <1>1
<1>3. Truncated(a) = SubSeq(a, 1, n)
  BY DEF Truncated
<1> HIDE DEF n
<1>4. /\ SubSeq(a, 1, n) \in Seq(Options) /\ Len(SubSeq(a, 1, n)) = n
      /\ \A i \in 1 .. n : SubSeq(a, 1, n)[i] = a[i]
  BY <1>1, <1>2
<1>5. \A option : Has(Truncated(a), option) => Has(a, option)
  BY <1>1, <1>2, <1>3, <1>4 DEF Has, Range
<1>6. Len(a) <= BcbArgs => Truncated(a) = a
  <2>1. n = Len(a) => SubSeq(a, 1, n) = a
    BY <1>4
  <2> QED
    BY <1>3, <2>1 DEF n
<1> QED
  BY <1>3, <1>4, <1>5, <1>6

LEMMA TailParts ==
  ASSUME NEW S, NEW s \in Seq(S), s # << >>
  PROVE  /\ Len(s) \in Nat /\ Tail(s) \in Seq(S) /\ Len(Tail(s)) = Len(s) - 1
         /\ Head(s) = s[1] /\ 1 \in 1 .. Len(s) /\ Head(s) \in S
         /\ \A i \in 1 .. Len(Tail(s)) : Tail(s)[i] = s[i + 1] /\ i + 1 \in 1 .. Len(s)
         /\ \A i \in 1 .. Len(s) : i = 1 \/ (i - 1 \in 1 .. Len(Tail(s)) /\ Tail(s)[i - 1] = s[i])
<1>1. /\ Len(s) \in Nat /\ Tail(s) \in Seq(S) /\ Len(Tail(s)) = Len(s) - 1
      /\ Head(s) = s[1] /\ 1 \in 1 .. Len(s) /\ Head(s) \in S
      /\ \A i \in 1 .. Len(Tail(s)) : Tail(s)[i] = s[i + 1] /\ i + 1 \in 1 .. Len(s)
  OBVIOUS
<1>2. ASSUME NEW i \in 1 .. Len(s), i # 1
      PROVE  i - 1 \in 1 .. Len(Tail(s)) /\ Tail(s)[i - 1] = s[i]
  <2>1. i - 1 \in 1 .. Len(Tail(s)) /\ (i - 1) + 1 = i
    BY <1>1, <1>2
  <2> QED
    BY <1>1, <2>1
<1> QED
  BY <1>1, <1>2

(* The lists of volumes main() makes.                                      *)
LEMMA TodoLists ==
  /\ << >> \in Seq(SUBSET Volumes)
  /\ \A U, V \in SUBSET Volumes : <<U>> \in Seq(SUBSET Volumes) /\ <<U, V>> \in Seq(SUBSET Volumes)
  /\ DataVolumes \in SUBSET Volumes /\ {"media"} \in SUBSET Volumes
  /\ {"cache"} \in SUBSET Volumes /\ {"data"} \in SUBSET Volumes
  BY DEF DataVolumes, Volumes

(* How a step changes them.                                                *)
Lists == {<< >>, <<DataVolumes>>, <<{"media"}>>, <<{"cache"}>>, <<DataVolumes, {"cache"}>>,
          <<{"media"}, {"cache"}>>, <<{"data"}, {"cache"}>>}
Changes ==
    /\ errors' = errors \/ errors' = errors + 1
    /\ \/ bcb' = bcb \/ bcb' = NoBcb
       \/ bcb' = [bcb EXCEPT !.command = "boot-recovery", !.args = Truncated(args)]
       \/ bcb' = [bcb EXCEPT !.command = ""] \/ bcb' = [bcb EXCEPT !.stage = "2/2"]
    /\ cmdfile' = cmdfile \/ cmdfile' = << >> \/ cmdfile' \in Commands
    /\ args' = args \/ args' = << >> \/ args' = bcb.args \/ args' = cmdfile
    /\ todo' = todo \/ todo' \in Lists \/ (todo # << >> /\ todo' = Tail(todo))
    /\ \A v \in Volumes : volume'[v] = volume[v] \/ volume'[v] \in {"used", "half", "blank", "broken"}
    /\ volume' = [v \in Volumes |-> volume'[v]]

LEMMA ListsJoined ==
  ASSUME NEW U, NEW V
  PROVE  << >> \o << >> = << >> /\ << >> \o <<V>> = <<V>> /\ <<U>> \o << >> = <<U>>
         /\ <<U>> \o <<V>> = <<U, V>>
<1>1. << >> \o << >> = << >>
  OBVIOUS
<1>2. << >> \o <<V>> = <<V>>
  OBVIOUS
<1>3. <<U>> \o << >> = <<U>>
  OBVIOUS
<1>4. <<U>> \o <<V>> = <<U, V>>
  <2>1. <<U>> \in Seq({U, V}) /\ <<V>> \in Seq({U, V}) /\ <<U, V>> \in Seq({U, V})
    OBVIOUS
  <2>2. Len(<<U>>) = 1 /\ Len(<<V>>) = 1 /\ Len(<<U, V>>) = 2
    OBVIOUS
  <2>3. \A i \in 1 .. 2 : (<<U>> \o <<V>>)[i] = <<U, V>>[i]
    <3>1. (<<U>> \o <<V>>)[1] = U
      BY <2>1, <2>2
    <3>2. (<<U>> \o <<V>>)[2] = V
      BY <2>1, <2>2
    <3> QED
      BY <3>1, <3>2
  <2>4. <<U>> \o <<V>> \in Seq({U, V}) /\ Len(<<U>> \o <<V>>) = 2
    BY <2>1, <2>2
  <2> DEFINE s == <<U>> \o <<V>>
             t == <<U, V>>
  <2>5. s \in Seq({U, V}) /\ t \in Seq({U, V}) /\ Len(s) = 2 /\ Len(t) = 2
        /\ \A i \in 1 .. 2 : s[i] = t[i]
    BY <2>1, <2>2, <2>3, <2>4
  <2> HIDE DEF s, t
  <2>6. s = t
    BY <2>5
  <2> QED
    BY <2>6 DEF s, t
<1> QED
  BY <1>1, <1>2, <1>3, <1>4

LEMMA ChangesKeepShape == Shape /\ Changes => Shape'
<1> SUFFICES ASSUME Shape, Changes PROVE Shape'
  OBVIOUS
<1> DEFINE Bcbs == [command : {"", "boot-recovery"}, args : Seq(Options), stage : {"", "2/2"}]
<1>0. bcb \in Bcbs /\ cmdfile \in Seq(Options) /\ args \in Seq(Options)
  BY Zenon DEF Shape
<1>1. /\ cmdfile \in Seq(Options) /\ args \in Seq(Options) /\ bcb.args \in Seq(Options)
      /\ << >> \in Seq(Options) /\ Commands \subseteq Seq(Options)
  <2>1. bcb.args \in Seq(Options)
    BY Zenon, <1>0
  <2>2. << >> \in Seq(Options)
    OBVIOUS
  <2> QED
    BY Zenon, <1>0, <2>1, <2>2, CommandsAssumption
<1>2. bcb' \in Bcbs
  <2>1. Truncated(args) \in Seq(Options) /\ NoBcb \in Bcbs
    BY <1>1, TruncatedHas DEF NoBcb
  <2>2. /\ [bcb EXCEPT !.command = "boot-recovery", !.args = Truncated(args)] \in Bcbs
        /\ [bcb EXCEPT !.command = ""] \in Bcbs /\ [bcb EXCEPT !.stage = "2/2"] \in Bcbs
    BY Zenon, <1>0, <2>1
  <2> QED
    BY Zenon, <1>0, <2>1, <2>2 DEF Changes
<1>3. cmdfile' = cmdfile \/ cmdfile' = << >> \/ cmdfile' \in Commands
  BY Zenon DEF Changes
<1>4. args' = args \/ args' = << >> \/ args' = bcb.args \/ args' = cmdfile
  BY Zenon DEF Changes
<1>5. cmdfile' \in Seq(Options) /\ args' \in Seq(Options)
  BY Zenon, <1>1, <1>3, <1>4
<1>6. todo \in Seq(SUBSET Volumes)
  BY Zenon DEF Shape
<1>7. todo' = todo \/ todo' \in Lists \/ (todo # << >> /\ todo' = Tail(todo))
  BY Zenon DEF Changes
<1>8. todo' \in Seq(SUBSET Volumes)
  <2>1. Lists \subseteq Seq(SUBSET Volumes)
    BY Zenon, TodoLists DEF Lists
  <2> QED
    BY <1>6, <1>7, <2>1, TailParts
<1>9. volume' \in [Volumes -> {"used", "half", "blank", "broken"}]
  BY Zenon DEF Shape, Changes
<1>10. errors \in Nat /\ (errors' = errors \/ errors' = errors + 1)
  BY Zenon DEF Shape, Changes
<1>11. errors' \in Nat
  BY <1>10
<1> QED
  BY Zenon, <1>2, <1>5, <1>8, <1>9, <1>11 DEF Shape

(* The types are kept, and main() goes its way.                            *)
LEMMA ProcessSteps == ProcessInv /\ [Next]_vars => Changes /\ Located'
<1> SUFFICES ASSUME ProcessInv, [Next]_vars PROVE Changes /\ Located'
  OBVIOUS
<1>0. /\ Shape /\ Located
      /\ volume = [v \in Volumes |-> volume[v]]
  BY Zenon DEF ProcessInv, Shape
<1> USE DEF Start, Goto, Error, disks, process, history, bounds
<1>1. CASE MainWritesCommand
  <2>1. Changes
    BY <1>0, <1>1 DEF Located, Changes, Lists, MainWritesCommand
  <2>2. Located'
    BY Zenon, <1>0, <1>1 DEF Shape, Located, Installs, Finishes, MainWritesCommand
  <2> QED
    BY <2>1, <2>2
<1>2. CASE UserBootsRecovery
  <2>1. Changes
    BY <1>0, <1>2 DEF Located, Changes, Lists, UserBootsRecovery
  <2>2. Located'
    BY Zenon, <1>0, <1>2 DEF Shape, Located, Installs, Finishes, UserBootsRecovery
  <2> QED
    BY <2>1, <2>2
<1>3. CASE Bootloader
  <2>1. Changes
    BY Zenon, <1>0, <1>3 DEF Located, Changes, Lists, Bootloader
  <2>2. Located'
    BY Zenon, <1>0, <1>3 DEF Shape, Located, Installs, Finishes, Bootloader
  <2> QED
    BY <2>1, <2>2
<1>4. CASE CacheBreaks
  <2>1. Changes
    BY Zenon, <1>0, <1>4 DEF Located, Changes, Lists, CacheBreaks
  <2>2. Located'
    BY Zenon, <1>0, <1>4 DEF Shape, Located, Installs, Finishes, CacheBreaks
  <2> QED
    BY <2>1, <2>2
<1>5. CASE Crash
  <2>1. Changes
    BY Zenon, <1>0, <1>5 DEF Located, Changes, Lists, Crash, BcbAfterCrash
  <2>2. Located'
    BY Zenon, <1>0, <1>5 DEF Shape, Located, Installs, Finishes, Crash, BcbAfterCrash, NoBcb
  <2> QED
    BY <2>1, <2>2
<1>6. CASE Menu
  <2>1. Changes
    BY <1>0, <1>6 DEF Located, Changes, Lists, Menu
  <2>2. Located'
    BY Zenon, <1>0, <1>6, TodoLists DEF Shape, Located, Installs, Finishes, Menu
  <2> QED
    BY <2>1, <2>2
<1>7. CASE GetArgs
  <2>1. Changes
    BY <1>0, <1>7 DEF Located, Changes, Lists, GetArgs, ChooseArgs
  <2>2. Located'
    BY Zenon, <1>0, <1>7 DEF Shape, Located, Installs, Finishes, GetArgs, ChooseArgs
  <2> QED
    BY <2>1, <2>2
<1>8. CASE SetBcb
  <2>1. Changes
    BY Zenon, <1>0, <1>8 DEF Located, Changes, Lists, SetBcb
  <2>2. Located'
    BY Zenon, <1>0, <1>8, TruncatedHas DEF Shape, Located, Installs, Finishes, SetBcb
  <2> QED
    BY <2>1, <2>2
<1>9. CASE Dispatch
  <2>1. Changes
    BY <1>0, <1>9 DEF Located, Changes, Lists, Dispatch, WipeDataArg
  <2>2. Located'
    BY Zenon, <1>0, <1>9, TodoLists DEF Shape, Located, Installs, Finishes, Dispatch, WipeDataArg
  <2> QED
    BY <2>1, <2>2
<1>10. CASE InstallPackage
  <2>1. Changes
    BY <1>0, <1>10 DEF Located, Changes, Lists, InstallPackage
  <2>2. Located'
    BY Zenon, <1>0, <1>10 DEF Shape, Located, Installs, Finishes, InstallPackage
  <2> QED
    BY <2>1, <2>2
<1>11. CASE InstallDone
  <2>1. Changes
    <3>1. todo' = todo \/ todo' \in Lists
      BY Zenon, <1>11, ListsJoined DEF InstallDone, Lists
    <3> QED
      BY Zenon, <1>0, <1>11, <3>1 DEF Changes, InstallDone
  <2>2. Located'
    BY Zenon, <1>0, <1>11, TodoLists DEF Shape, Located, Installs, Finishes, InstallDone, WipeDataArg, WipeCacheAfter
  <2> QED
    BY <2>1, <2>2
<1>12. CASE SetStage
  <2>1. Changes
    BY Zenon, <1>0, <1>12 DEF Located, Changes, Lists, SetStage
  <2>2. Located'
    BY Zenon, <1>0, <1>12 DEF Shape, Located, Installs, Finishes, SetStage
  <2> QED
    BY <2>1, <2>2
<1>13. CASE RebootNowZero
  <2>1. Changes
    BY Zenon, <1>0, <1>13 DEF Located, Changes, Lists, RebootNowZero
  <2>2. Located'
    BY Zenon, <1>0, <1>13 DEF Shape, Located, Installs, Finishes, RebootNowZero
  <2> QED
    BY <2>1, <2>2
<1>14. CASE RebootNow
  <2>1. Changes
    BY <1>0, <1>14 DEF Located, Changes, Lists, RebootNow
  <2>2. Located'
    BY Zenon, <1>0, <1>14 DEF Shape, Located, Installs, Finishes, RebootNow
  <2> QED
    BY <2>1, <2>2
<1>15. CASE EraseRefused
  <2>1. Changes
    BY <1>0, <1>15 DEF Located, Changes, Lists, EraseRefused, EraseFailed
  <2>2. Located'
    BY Zenon, <1>0, <1>15, TailParts DEF Shape, Located, Installs, Finishes, EraseRefused, EraseFailed
  <2> QED
    BY <2>1, <2>2
<1>16. CASE EraseBegin
  <2>1. Changes
    BY <1>0, <1>16 DEF Located, Changes, Lists, EraseBegin
  <2>2. Located'
    BY Zenon, <1>0, <1>16 DEF Shape, Located, Installs, Finishes, EraseBegin
  <2> QED
    BY <2>1, <2>2
<1>17. CASE EraseEnd
  <2>1. Changes
    BY <1>0, <1>17 DEF Located, Changes, Lists, EraseEnd, EraseFailed
  <2>2. Located'
    BY Zenon, <1>0, <1>17, TailParts DEF Shape, Located, Installs, Finishes, EraseEnd, EraseFailed
  <2> QED
    BY <2>1, <2>2
<1>18. CASE Erased
  <2>1. Changes
    BY <1>0, <1>18 DEF Located, Changes, Lists, Erased
  <2>2. Located'
    BY Zenon, <1>0, <1>18 DEF Shape, Located, Installs, Finishes, Erased
  <2> QED
    BY <2>1, <2>2
<1>19. CASE CheckStatus
  <2>1. Changes
    BY <1>0, <1>19 DEF Located, Changes, Lists, CheckStatus
  <2>2. Located'
    BY Zenon, <1>0, <1>19 DEF Shape, Located, Installs, Finishes, CheckStatus
  <2> QED
    BY <2>1, <2>2
<1>20. CASE FinishRecovery
  <2>1. Changes
    BY <1>0, <1>20 DEF Located, Changes, Lists, FinishRecovery
  <2>2. Located'
    BY Zenon, <1>0, <1>20 DEF Shape, Located, Installs, Finishes, FinishRecovery
  <2> QED
    BY <2>1, <2>2
<1>21. CASE ClearBcb
  <2>1. Changes
    BY Zenon, <1>0, <1>21 DEF Located, Changes, Lists, ClearBcb, ResetBcb, WipeDataArg
  <2>2. Located'
    BY Zenon, <1>0, <1>21 DEF Shape, Located, Installs, Finishes, ClearBcb, ResetBcb, WipeDataArg
  <2> QED
    BY <2>1, <2>2
<1>22. CASE UnlinkCommand
  <2>1. Changes
    BY <1>0, <1>22 DEF Located, Changes, Lists, UnlinkCommand, UnlinkCommandFile
  <2>2. Located'
    BY Zenon, <1>0, <1>22 DEF Shape, Located, Installs, Finishes, UnlinkCommand, UnlinkCommandFile
  <2> QED
    BY <2>1, <2>2
<1>23. CASE Reboot
  <2>1. Changes
    BY Zenon, <1>0, <1>23 DEF Located, Changes, Lists, Reboot
  <2>2. Located'
    BY Zenon, <1>0, <1>23 DEF Shape, Located, Installs, Finishes, Reboot
  <2> QED
    BY <2>1, <2>2
<1>24. CASE UNCHANGED vars
  BY <1>0, <1>24 DEF vars, Changes, Located
<1> QED
  BY <1>1, <1>2, <1>3, <1>4, <1>5, <1>6, <1>7, <1>8, <1>9, <1>10, <1>11, <1>12, <1>13, <1>14, <1>15, <1>16, <1>17, <1>18, <1>19, <1>20, <1>21, <1>22, <1>23, <1>24 DEF Next, Program, MainRuns

LEMMA ProcessInvNext == ProcessInv /\ [Next]_vars => ProcessInv'
  BY ProcessSteps, ChangesKeepShape DEF ProcessInv

LEMMA ProcessInvInit == Init => ProcessInv
<1> SUFFICES ASSUME Init PROVE Shape /\ Located
  BY DEF ProcessInv
<1>1. bcb \in [command : {"", "boot-recovery"}, args : Seq(Options), stage : {"", "2/2"}]
  <2>1. << >> \in Seq(Options)
    OBVIOUS
  <2> QED
    BY Zenon, <2>1 DEF Init, NoBcb
<1>2. todo \in Seq(SUBSET Volumes) /\ cmdfile \in Seq(Options) /\ args \in Seq(Options)
  <2>1. << >> \in Seq(Options)
    OBVIOUS
  <2> QED
    BY Zenon, <2>1, TodoLists DEF Init
<1>3. volume \in [Volumes -> {"used", "half", "blank", "broken"}] /\ errors \in Nat
  BY Zenon DEF Init
<1>4. Located
  BY Zenon DEF Init, Located, Installs, Finishes
<1> QED
  BY Zenon, <1>1, <1>2, <1>3, <1>4 DEF Shape

-----------------------------------------------------------------------------
(* The fields of the BCB.                                                  *)
LEMMA BcbFields ==
  /\ NoBcb.args = << >> /\ NoBcb.stage = "" /\ NoBcb.command = ""
  /\ Shape => LET set == [bcb EXCEPT !.command = "boot-recovery", !.args = Truncated(args)]
              IN  /\ set.args = Truncated(args) /\ set.stage = bcb.stage
                  /\ set.command = "boot-recovery"
  /\ Shape => LET zeroed == [bcb EXCEPT !.command = ""]
              IN  zeroed.args = bcb.args /\ zeroed.stage = bcb.stage /\ zeroed.command = ""
  /\ Shape => LET staged == [bcb EXCEPT !.stage = "2/2"]
              IN  staged.args = bcb.args /\ staged.stage = "2/2" /\ staged.command = bcb.command
  BY DEF NoBcb, Shape

LEMMA ArgsChange ==
  ASSUME Shape, Changes
  PROVE  bcb'.args = bcb.args \/ bcb'.args = << >> \/ bcb'.args = Truncated(args)
<1>1. \/ bcb' = bcb \/ bcb' = NoBcb
      \/ bcb' = [bcb EXCEPT !.command = "boot-recovery", !.args = Truncated(args)]
      \/ bcb' = [bcb EXCEPT !.command = ""] \/ bcb' = [bcb EXCEPT !.stage = "2/2"]
  BY Zenon DEF Changes
<1> QED
  BY Zenon, <1>1, BcbFields

LEMMA NotBothNext ==
  ASSUME PackageOrWipe, Shape, Changes, NotBoth(bcb.args), NotBoth(cmdfile), NotBoth(args)
  PROVE  NotBoth(bcb'.args) /\ NotBoth(cmdfile') /\ NotBoth(args')
<1>1. NotBoth(<< >>) /\ \A c \in Commands : NotBoth(c)
  BY HasNothing DEF NotBoth, PackageOrWipe
<1>2. NotBoth(Truncated(args))
  BY Zenon, TruncatedHas DEF Shape, NotBoth
<1>3. bcb'.args = bcb.args \/ bcb'.args = << >> \/ bcb'.args = Truncated(args)
  BY ArgsChange
<1>4. cmdfile' = cmdfile \/ cmdfile' = << >> \/ cmdfile' \in Commands
  BY Zenon DEF Changes
<1>5. args' = args \/ args' = << >> \/ args' = bcb.args \/ args' = cmdfile
  BY Zenon DEF Changes
<1> QED
  BY Zenon, <1>1, <1>2, <1>3, <1>4, <1>5

(* A wipe is asked for, and forgotten once done.                           *)
LEMMA WipesNext ==
  ASSUME WipeInv, [Next]_vars, errors' = 0
  PROVE  WipesAsked' /\ WipesForget'
<1>0. /\ Shape /\ Located /\ NotBoth(args) /\ errors = 0
      /\ WipesAsked /\ WipesForget
  <2>1. Shape /\ Located /\ NotBoth(args)
    BY DEF WipeInv, ProcessInv
  <2>2. errors \in Nat /\ (errors' = errors \/ errors' = errors + 1)
    BY Zenon, <2>1, ProcessSteps DEF WipeInv, ProcessInv, Changes, Shape
  <2>3. errors = 0
    BY <2>2
  <2> QED
    BY <2>1, <2>3 DEF WipeInv
<1> USE HasNothing
<1> USE DEF Start, Goto, Error, disks, process, history, bounds, Installs, Finishes, Done
<1>1. CASE MainWritesCommand
  <2>1. WipesAsked'
    BY Zenon, <1>0, <1>1 DEF Shape, Located, NotBoth, WipesAsked, MainWritesCommand
  <2>2. WipesForget'
    BY Zenon, <1>0, <1>1 DEF Shape, Located, NotBoth, WipesForget, MainWritesCommand
  <2> QED
    BY <2>1, <2>2
<1>2. CASE UserBootsRecovery
  <2>1. WipesAsked'
    BY Zenon, <1>0, <1>2 DEF Shape, Located, NotBoth, WipesAsked, UserBootsRecovery
  <2>2. WipesForget'
    BY Zenon, <1>0, <1>2 DEF Shape, Located, NotBoth, WipesForget, UserBootsRecovery
  <2> QED
    BY <2>1, <2>2
<1>3. CASE Bootloader
  <2>1. WipesAsked'
    BY Zenon, <1>0, <1>3 DEF Shape, Located, NotBoth, WipesAsked, Bootloader
  <2>2. WipesForget'
    BY Zenon, <1>0, <1>3 DEF Shape, Located, NotBoth, WipesForget, Bootloader
  <2> QED
    BY <2>1, <2>2
<1>4. CASE CacheBreaks
  <2>1. WipesAsked'
    BY Zenon, <1>0, <1>4 DEF Shape, Located, NotBoth, WipesAsked, CacheBreaks
  <2>2. WipesForget'
    BY Zenon, <1>0, <1>4 DEF Shape, Located, NotBoth, WipesForget, CacheBreaks
  <2> QED
    BY <2>1, <2>2
<1>5. CASE Crash
  <2>1. bcb'.args = bcb.args \/ bcb'.args = << >>
    BY Zenon, <1>5, BcbFields DEF Crash, BcbAfterCrash
  <2>2. cmdfile' = cmdfile /\ args' = << >> /\ pc' = "none" /\ ~prompt' /\ asked' = asked
    BY SMTT(20), <1>5 DEF Crash
  <2> QED
    BY SMTT(20), <1>0, <2>1, <2>2 DEF WipesAsked, WipesForget
<1>6. CASE Menu
  <2>1. WipesAsked'
    BY Zenon, <1>0, <1>6, TodoLists DEF Shape, Located, NotBoth, WipesAsked, Menu
  <2>2. WipesForget'
    BY Zenon, <1>0, <1>6, TodoLists DEF Shape, Located, NotBoth, WipesForget, Menu
  <2> QED
    BY <2>1, <2>2
<1>7. CASE GetArgs
  <2>1. WipesAsked'
    BY Zenon, <1>0, <1>7 DEF Shape, Located, NotBoth, WipesAsked, GetArgs, ChooseArgs
  <2>2. WipesForget'
    BY Zenon, <1>0, <1>7 DEF Shape, Located, NotBoth, WipesForget, GetArgs, ChooseArgs
  <2> QED
    BY <2>1, <2>2
<1>8. CASE SetBcb
  <2>1. bcb'.args = bcb.args \/ bcb'.args = Truncated(args)
    <3>1. bcb' = bcb \/ bcb' = [bcb EXCEPT !.command = "boot-recovery", !.args = Truncated(args)]
      BY <1>8 DEF SetBcb
    <3> QED
      BY Zenon, <1>0, <3>1, BcbFields
  <2>2. Has(bcb'.args, "wipe_data") => Has(bcb.args, "wipe_data") \/ Has(args, "wipe_data")
    <3>1. args \in Seq(Options)
      BY Zenon, <1>0 DEF Shape
    <3>2. Has(Truncated(args), "wipe_data") => Has(args, "wipe_data")
      BY Zenon, <3>1, TruncatedHas
    <3> QED
      BY Zenon, <2>1, <3>2
  <2>3. /\ pc = "set_bcb" /\ ~prompt /\ pc' = "dispatch"
        /\ UNCHANGED <<cmdfile, args, prompt, asked>>
    BY <1>0, <1>8 DEF SetBcb, Located
  <2> QED
    BY <1>0, <2>2, <2>3 DEF WipesAsked, WipesForget
<1>9. CASE Dispatch
  <2>1. /\ pc = "dispatch" /\ ~prompt /\ UNCHANGED <<cmdfile, bcb, args, prompt, asked>>
    BY SMTT(20), <1>0, <1>9 DEF Dispatch, Located
  <2>2. Has(args, "update") => pc' = "install"
    BY <1>9 DEF Dispatch
  <2>3. ASSUME Has(args, "wipe_data"), ~Has(args, "update")
        PROVE  pc' = "erase" /\ todo' = <<DataVolumes, {"cache"}>>
    BY <1>9, <2>3 DEF Dispatch, WipeDataArg
  <2>4. ASSUME ~Has(args, "wipe_data"), ~Has(args, "update")
        PROVE  \/ pc' = "erase" /\ (todo' = <<{"cache"}>> \/ todo' = <<{"media"}>>)
               \/ pc' = "check"
    BY <1>9, <2>4 DEF Dispatch, WipeDataArg
  <2>5. /\ \A v \in {{"cache"}, {"media"}} : \A i \in 1 .. Len(<<v>>) : "data" \notin <<v>>[i]
        /\ Len(<<DataVolumes, {"cache"}>>) = 2 /\ <<DataVolumes, {"cache"}>>[2] = {"cache"}
    OBVIOUS
  <2>6. Has(args, "wipe_data") => asked
    BY <1>0, <2>1 DEF WipesAsked
  <2>7. CASE Has(args, "update")
    BY <1>0, <2>1, <2>2, <2>6, <2>7 DEF WipesAsked, WipesForget
  <2>8. CASE ~Has(args, "update") /\ Has(args, "wipe_data")
    <3>1. \E i \in 1 .. Len(todo') : "cache" \in todo'[i]
      BY SMTT(20), <2>3, <2>5, <2>8
    <3> QED
      BY SMTT(20), <1>0, <2>1, <2>3, <2>6, <2>8, <3>1 DEF WipesAsked, WipesForget
  <2>9. CASE ~Has(args, "update") /\ ~Has(args, "wipe_data")
    <3>1. pc' = "erase" => \A i \in 1 .. Len(todo') : "data" \notin todo'[i]
      BY SMTT(20), <2>4, <2>5, <2>9
    <3> QED
      BY SMTT(20), <1>0, <2>1, <2>4, <2>9, <3>1 DEF WipesAsked, WipesForget
  <2> QED
    BY SMTT(20), <2>7, <2>8, <2>9
<1>10. CASE InstallPackage
  <2>1. WipesAsked'
    BY Zenon, <1>0, <1>10 DEF Shape, Located, NotBoth, WipesAsked, InstallPackage
  <2>2. WipesForget'
    BY Zenon, <1>0, <1>10 DEF Shape, Located, NotBoth, WipesForget, InstallPackage
  <2> QED
    BY <2>1, <2>2
<1>11. CASE InstallDone
  <2>1. /\ pc = "installing" /\ ~prompt /\ Has(args, "update") /\ ~Has(args, "wipe_data")
        /\ UNCHANGED <<cmdfile, bcb, args, prompt, asked>> /\ pc' \in {"erase", "check"}
    BY <1>0, <1>11 DEF InstallDone, Located, NotBoth
  <2>2. pc' = "erase" => todo' \in {<< >>, <<{"media"}>>, <<{"cache"}>>, <<{"media"}, {"cache"}>>}
    BY Zenon, <1>11, <2>1, ListsJoined DEF InstallDone, WipeDataArg
  <2>3. pc' = "erase" => \A i \in 1 .. Len(todo') : "data" \notin todo'[i]
    BY <2>2
  <2> QED
    BY SMTT(20), <1>0, <2>1, <2>3 DEF WipesAsked, WipesForget
<1>12. CASE SetStage
  <2>1. WipesAsked'
    BY Zenon, <1>0, <1>12 DEF Shape, Located, NotBoth, WipesAsked, SetStage
  <2>2. WipesForget'
    BY Zenon, <1>0, <1>12 DEF Shape, Located, NotBoth, WipesForget, SetStage
  <2> QED
    BY <2>1, <2>2
<1>13. CASE RebootNowZero
  <2>1. WipesAsked'
    BY Zenon, <1>0, <1>13 DEF Shape, Located, NotBoth, WipesAsked, RebootNowZero
  <2>2. WipesForget'
    BY Zenon, <1>0, <1>13 DEF Shape, Located, NotBoth, WipesForget, RebootNowZero
  <2> QED
    BY <2>1, <2>2
<1>14. CASE RebootNow
  <2>1. WipesAsked'
    BY Zenon, <1>0, <1>14 DEF Shape, Located, NotBoth, WipesAsked, RebootNow
  <2>2. WipesForget'
    BY Zenon, <1>0, <1>14 DEF Shape, Located, NotBoth, WipesForget, RebootNow
  <2> QED
    BY <2>1, <2>2
<1>15. CASE EraseRefused
  BY <1>0, <1>15 DEF EraseRefused
<1>16. CASE EraseBegin
  <2>1. /\ pc = "erase" /\ pc' = "erasing" /\ (cmdfile' = cmdfile \/ cmdfile' = << >>)
        /\ UNCHANGED <<bcb, args, todo, prompt, asked>>
    BY SMTT(20), <1>16 DEF EraseBegin
  <2> QED
    BY <1>0, <2>1 DEF WipesAsked, WipesForget
<1>17. CASE EraseEnd
  <2>1. /\ pc = "erasing" /\ pc' = "erase" /\ todo' = Tail(todo)
        /\ todo \in Seq(SUBSET Volumes) /\ todo # << >>
        /\ UNCHANGED <<bcb, args, prompt, asked>>
    BY Zenon, <1>0, <1>17 DEF EraseEnd, Located, Shape
  <2>2. cmdfile' = IF "cache" \in Head(todo) THEN << >> ELSE cmdfile
    BY <1>0, <1>17 DEF EraseEnd
  <2>3. \A i \in 1 .. Len(todo') : todo'[i] = todo[i + 1] /\ i + 1 \in 1 .. Len(todo)
    BY <2>1, TailParts
  <2>4. WipesAsked'
    BY SMTT(20), <1>0, <2>1, <2>2, <2>3 DEF WipesAsked
  <2>5. ASSUME "cache" \notin Head(todo), NEW i \in 1 .. Len(todo), "cache" \in todo[i]
        PROVE  \E j \in 1 .. Len(todo') : "cache" \in todo'[j]
    BY Zenon, <2>1, <2>5, TailParts
  <2>6. WipesForget'
    BY <1>0, <2>1, <2>2, <2>5 DEF WipesForget
  <2> QED
    BY <2>4, <2>6
<1>18. CASE Erased
  <2>1. /\ pc = "erase" /\ todo = << >> /\ pc' = (IF prompt THEN "finish" ELSE "check")
        /\ UNCHANGED <<bcb, cmdfile, args, prompt, asked, todo>>
    BY <1>18 DEF Erased
  <2>2. Len(todo) = 0
    BY SMTT(20), <2>1
  <2> QED
    BY <1>0, <2>1, <2>2 DEF WipesAsked, WipesForget
<1>19. CASE CheckStatus
  <2>1. WipesAsked'
    BY Zenon, <1>0, <1>19 DEF Shape, Located, NotBoth, WipesAsked, CheckStatus
  <2>2. WipesForget'
    BY Zenon, <1>0, <1>19 DEF Shape, Located, NotBoth, WipesForget, CheckStatus
  <2> QED
    BY <2>1, <2>2
<1>20. CASE FinishRecovery
  <2>1. UNCHANGED <<bcb, cmdfile, asked>> /\ pc = "finish"
    BY <1>20 DEF FinishRecovery
  <2>2. \/ pc' = "get_args" /\ args' = << >> /\ ~prompt'
        \/ pc' = "clear_bcb" /\ UNCHANGED <<args, prompt>>
    BY <1>20 DEF FinishRecovery
  <2> QED
    BY SMTT(20), <1>0, <2>1, <2>2 DEF WipesAsked, WipesForget
<1>21. CASE ClearBcb
  <2>1. /\ pc = "clear_bcb" /\ pc' = "unlink" /\ bcb' = NoBcb
        /\ UNCHANGED <<cmdfile, args, prompt>> /\ asked' = (asked /\ ~Has(args, "wipe_data"))
    BY SMTT(20), <1>0, <1>21 DEF ClearBcb, ResetBcb, WipeDataArg
  <2> QED
    BY Zenon, <1>0, <2>1, BcbFields DEF WipesAsked, WipesForget
<1>22. CASE UnlinkCommand
  <2>1. WipesAsked'
    BY Zenon, <1>0, <1>22 DEF Shape, Located, NotBoth, WipesAsked, UnlinkCommand, UnlinkCommandFile
  <2>2. WipesForget'
    BY Zenon, <1>0, <1>22 DEF Shape, Located, NotBoth, WipesForget, UnlinkCommand, UnlinkCommandFile
  <2> QED
    BY <2>1, <2>2
<1>23. CASE Reboot
  <2>1. WipesAsked'
    BY Zenon, <1>0, <1>23 DEF Shape, Located, NotBoth, WipesAsked, Reboot
  <2>2. WipesForget'
    BY Zenon, <1>0, <1>23 DEF Shape, Located, NotBoth, WipesForget, Reboot
  <2> QED
    BY <2>1, <2>2
<1>24. CASE UNCHANGED vars
  BY <1>0, <1>24 DEF vars, WipesAsked, WipesForget
<1> QED
  BY SMTT(20), <1>1, <1>2, <1>3, <1>4, <1>5, <1>6, <1>7, <1>8, <1>9, <1>10, <1>11, <1>12, <1>13, <1>14, <1>15, <1>16, <1>17, <1>18, <1>19, <1>20, <1>21, <1>22, <1>23, <1>24 DEF Next, Program, MainRuns

LEMMA WipeInvInit == Init => WipeInv
<1> SUFFICES ASSUME Init PROVE WipeInv
  OBVIOUS
<1>1. bcb.args = << >> /\ cmdfile = << >> /\ args = << >> /\ ~asked /\ pc = "none"
  BY Zenon, BcbFields DEF Init
<1>2. NotBoth(bcb.args) /\ NotBoth(cmdfile) /\ NotBoth(args)
  BY <1>1, HasNothing DEF NotBoth
<1>3. WipesAsked /\ WipesForget
  BY <1>1, HasNothing DEF WipesAsked, WipesForget
<1> QED
  BY <1>2, <1>3, ProcessInvInit DEF WipeInv

LEMMA WipeInvNext == ASSUME PackageOrWipe PROVE WipeInv /\ [Next]_vars => WipeInv'
<1> SUFFICES ASSUME WipeInv, [Next]_vars PROVE WipeInv'
  OBVIOUS
<1>1. ProcessInv /\ NotBoth(bcb.args) /\ NotBoth(cmdfile) /\ NotBoth(args)
  BY Zenon DEF WipeInv
<1>2. Changes /\ Shape /\ ProcessInv'
  BY SMTT(20), <1>1, ProcessSteps, ProcessInvNext DEF ProcessInv
<1>3. NotBoth(bcb'.args) /\ NotBoth(cmdfile') /\ NotBoth(args')
  BY <1>1, <1>2, NotBothNext
<1>4. errors' = 0 => WipesAsked' /\ WipesForget'
  BY WipesNext
<1> QED
  BY Zenon, <1>2, <1>3, <1>4 DEF WipeInv, NotBoth

(* The user's data is erased on command only, and once the command is      *)
(* carried out it is not erased again, whenever the device dies: wiping    *)
(* the data ends with erasing /cache and the command file on it, before    *)
(* finish_recovery() clears the BCB and removes the file.  For every set   *)
(* of commands, size of the BCB and kind of /misc, as long as no command   *)
(* asks for a package and for the wipe (main() then leaves the command     *)
(* file, and erases again when the device dies before it is removed).      *)
THEOREM WipesOnlyWhenAsked == ASSUME PackageOrWipe PROVE Spec => NoSurpriseWipe
<1>1. WipeInv /\ [Next]_vars =>
      [errors = 0 /\ ~prompt /\ pc = "erase" /\ pc' = "erasing"
          => asked \/ "data" \notin Head(todo)]_vars
  <2> SUFFICES ASSUME WipeInv, [Next]_vars, errors = 0, ~prompt, pc = "erase", pc' = "erasing",
                      "data" \in Head(todo)
               PROVE  asked
    OBVIOUS
  <2>1. WipesAsked /\ Shape
    BY Zenon DEF WipeInv, ProcessInv
  <2>2. todo \in Seq(SUBSET Volumes)
    BY Zenon, <2>1 DEF Shape
  <2>3. todo # << >>
    BY Zenon DEF Next, vars, MainWritesCommand, UserBootsRecovery, MainRuns, Bootloader, CacheBreaks,
           Crash, Start, Goto, Menu, Program, GetArgs, SetBcb, Dispatch, InstallPackage,
           InstallDone, SetStage, RebootNowZero, RebootNow, EraseRefused, EraseBegin, EraseEnd,
           Erased, CheckStatus, FinishRecovery, ClearBcb, UnlinkCommand, Reboot, process
  <2>4. Head(todo) = todo[1] /\ 1 \in 1 .. Len(todo)
    BY <2>2, <2>3
  <2>5. Has(args, "wipe_data")
    BY <2>1, <2>4 DEF WipesAsked
  <2> QED
    BY <2>1, <2>5 DEF WipesAsked
<1> QED
  BY <1>1, WipeInvInit, WipeInvNext, PTL DEF Spec, NoSurpriseWipe

LEMMA KnownNext ==
  ASSUME Fits, Shape, Changes, Known(bcb.args), Known(cmdfile), Known(args)
  PROVE  Known(bcb'.args) /\ Known(cmdfile') /\ Known(args') /\ Truncated(args) = args
<1>1. Len(args) <= BcbArgs
  BY BoundsAssumption DEF Known, Fits
<1>2. Truncated(args) = args
  BY Zenon, <1>1, TruncatedHas DEF Shape
<1>3. bcb'.args = bcb.args \/ bcb'.args = << >> \/ bcb'.args = Truncated(args)
  BY ArgsChange
<1>4. cmdfile' = cmdfile \/ cmdfile' = << >> \/ cmdfile' \in Commands
  BY Zenon DEF Changes
<1>5. args' = args \/ args' = << >> \/ args' = bcb.args \/ args' = cmdfile
  BY Zenon DEF Changes
<1> QED
  BY Zenon, <1>2, <1>3, <1>4, <1>5 DEF Known

(* The command main() carries out has its package, and is the one on the   *)
(* disks.                                                                  *)
LEMMA ProvidedNext ==
  ASSUME ErrorInv, [Next]_vars, errors' = 0, Truncated(args) = args
  PROVE  Provided' /\ SameCommand'
<1>0. Shape /\ Located /\ errors = 0 /\ Provided /\ SameCommand
  <2>1. Shape /\ Located /\ (errors = 0 => Provided /\ SameCommand)
    BY Zenon DEF ErrorInv, ProcessInv
  <2>2. errors \in Nat /\ (errors' = errors \/ errors' = errors + 1)
    BY Zenon, <2>1, ProcessSteps DEF ProcessInv, Changes, Shape
  <2>3. errors = 0
    BY <2>2
  <2> QED
    BY <2>1, <2>3
<1> USE HasNothing
<1> USE DEF Start, Goto, Error, disks, process, history, bounds, Installs, Finishes, Done
<1>1. CASE MainWritesCommand
  <2>0. /\ mode = "main" /\ mode' = "off" /\ UNCHANGED <<bcb, pc, args, prompt, status>>
        /\ Has(cmdfile', "update") => package'
    BY <1>1 DEF MainWritesCommand
  <2>1. Provided'
    BY Zenon, <1>0, <2>0, BcbFields DEF Located, Provided, SameCommand, Excused, ChooseArgs
  <2>2. SameCommand'
    BY Zenon, <1>0, <2>0, BcbFields DEF Located, SameCommand, Cleared, ChooseArgs
  <2> QED
    BY <2>1, <2>2
<1>2. CASE UserBootsRecovery
  <2>0. /\ mode' = "off" /\ UNCHANGED <<bcb, cmdfile, package, system, pc, args, prompt, status>>
    BY <1>2 DEF UserBootsRecovery
  <2>1. Provided'
    BY Zenon, <1>0, <2>0, BcbFields DEF Located, Provided, SameCommand, Excused, ChooseArgs
  <2>2. SameCommand'
    BY Zenon, <1>0, <2>0, BcbFields DEF Located, SameCommand, Cleared, ChooseArgs
  <2> QED
    BY <2>1, <2>2
<1>3. CASE Bootloader
  <2>0. /\ mode' = "main" => Cleared(bcb) /\ UNCHANGED pc
        /\ mode' # "main" => pc' = "get_args"
        /\ pc = "none" /\ args = << >>
        /\ UNCHANGED <<bcb, cmdfile, package, system, args, prompt, status>>
    BY Zenon, <1>0, <1>3 DEF Bootloader, Located
  <2>1. Provided'
    BY Zenon, <1>0, <2>0, BcbFields DEF Located, Provided, SameCommand, Excused, ChooseArgs
  <2>2. SameCommand'
    BY Zenon, <1>0, <2>0, BcbFields DEF Located, SameCommand, Cleared, ChooseArgs
  <2> QED
    BY <2>1, <2>2
<1>4. CASE CacheBreaks
  BY SMTT(20), <1>0, <1>4 DEF CacheBreaks
<1>5. CASE Crash
  <2>0. /\ mode' = "off" /\ pc' = "none" /\ args' = << >> /\ ~prompt' /\ status' = "success"
        /\ bcb' = bcb \/ bcb' = NoBcb
        /\ UNCHANGED <<cmdfile, package, system>>
    BY <1>5 DEF Crash, BcbAfterCrash
  <2>1. Provided'
    BY Zenon, <1>0, <2>0, BcbFields DEF Located, Provided, SameCommand, Excused, ChooseArgs
  <2>2. SameCommand'
    BY Zenon, <1>0, <2>0, BcbFields DEF Located, SameCommand, Cleared, ChooseArgs
  <2> QED
    BY <2>1, <2>2
<1>6. CASE Menu
  <2>0. /\ pc = "menu" /\ pc' = "erase" /\ UNCHANGED <<mode, bcb, cmdfile, package, system, args, prompt, status>>
    BY <1>6 DEF Menu
  <2>1. Provided'
    BY Zenon, <1>0, <2>0, BcbFields DEF Located, Provided, SameCommand, Excused, ChooseArgs
  <2>2. SameCommand'
    BY Zenon, <1>0, <2>0, BcbFields DEF Located, SameCommand, Cleared, ChooseArgs
  <2> QED
    BY <2>1, <2>2
<1>7. CASE GetArgs
  <2>0. /\ pc = "get_args" /\ pc' = "set_bcb" /\ args' = ChooseArgs
        /\ UNCHANGED <<mode, bcb, cmdfile, package, system, prompt, status>>
    BY <1>7 DEF GetArgs
  <2>1. Provided'
    BY Zenon, <1>0, <2>0, BcbFields DEF Located, Provided, SameCommand, Excused, ChooseArgs
  <2>2. SameCommand'
    BY Zenon, <1>0, <2>0, BcbFields DEF Located, SameCommand, Cleared, ChooseArgs
  <2> QED
    BY <2>1, <2>2
<1>8. CASE SetBcb
  <2>0. /\ bcb'.args = args /\ bcb'.stage = bcb.stage /\ bcb'.command = "boot-recovery"
        /\ pc = "set_bcb" /\ pc' = "dispatch" /\ UNCHANGED <<mode, cmdfile, package, system, args, prompt, status>>
    <3>1. bcb' = [bcb EXCEPT !.command = "boot-recovery", !.args = Truncated(args)]
      BY <1>0, <1>8 DEF SetBcb
    <3>2. /\ bcb'.args = Truncated(args) /\ bcb'.stage = bcb.stage
          /\ bcb'.command = "boot-recovery"
      BY Zenon, <1>0, <3>1, BcbFields
    <3> QED
      BY <1>8, <3>2 DEF SetBcb
  <2>1. Provided'
    BY Zenon, <1>0, <2>0, BcbFields DEF Located, Provided, SameCommand, Excused, ChooseArgs
  <2>2. SameCommand'
    BY Zenon, <1>0, <2>0, BcbFields DEF Located, SameCommand, Cleared, ChooseArgs
  <2> QED
    BY <2>1, <2>2
<1>9. CASE Dispatch
  <2>0. /\ pc = "dispatch" /\ (Has(args, "update") => pc' = "install")
        /\ pc' \in {"install", "erase", "check"}
        /\ ~Has(args, "update") => pc' # "install"
        /\ status' = "error" => status = "error"
        /\ UNCHANGED <<mode, bcb, cmdfile, package, system, args, prompt>>
    BY <1>0, <1>9 DEF Dispatch, WipeDataArg
  <2>1. Provided'
    BY Zenon, <1>0, <2>0, BcbFields DEF Located, Provided, SameCommand, Excused, ChooseArgs
  <2>2. SameCommand'
    BY Zenon, <1>0, <2>0, BcbFields DEF Located, SameCommand, Cleared, ChooseArgs
  <2> QED
    BY <2>1, <2>2
<1>10. CASE InstallPackage
  <2>0. /\ pc = "install" /\ UNCHANGED <<mode, bcb, cmdfile, package, args, prompt>>
        /\ \/ pc' = "installing" /\ package /\ status' = status
           \/ pc' = "check" /\ ~package /\ system' = system
    BY <1>0, <1>10 DEF InstallPackage
  <2>1. Provided'
    BY Zenon, <1>0, <2>0, BcbFields DEF Located, Provided, SameCommand, Excused, ChooseArgs
  <2>2. SameCommand'
    BY Zenon, <1>0, <2>0, BcbFields DEF Located, SameCommand, Cleared, ChooseArgs
  <2> QED
    BY <2>1, <2>2
<1>11. CASE InstallDone
  <2>0. /\ pc = "installing" /\ pc' = "erase" /\ system' = "new" /\ status' = "success"
        /\ UNCHANGED <<mode, bcb, cmdfile, package, args, prompt>>
    BY <1>0, <1>11 DEF InstallDone
  <2>1. Provided'
    BY Zenon, <1>0, <2>0, BcbFields DEF Located, Provided, SameCommand, Excused, ChooseArgs
  <2>2. SameCommand'
    BY Zenon, <1>0, <2>0, BcbFields DEF Located, SameCommand, Cleared, ChooseArgs
  <2> QED
    BY <2>1, <2>2
<1>12. CASE SetStage
  <2>0. /\ pc = "installing" /\ pc' = "staged"
        /\ bcb'.args = bcb.args /\ bcb'.stage = "2/2" /\ bcb'.command = bcb.command
        /\ UNCHANGED <<mode, cmdfile, package, system, args, prompt, status>>
    BY Zenon, <1>0, BcbFields, <1>12 DEF SetStage
  <2>1. Provided'
    BY Zenon, <1>0, <2>0, BcbFields DEF Located, Provided, SameCommand, Excused, ChooseArgs
  <2>2. SameCommand'
    BY Zenon, <1>0, <2>0, BcbFields DEF Located, SameCommand, Cleared, ChooseArgs
  <2> QED
    BY <2>1, <2>2
<1>13. CASE RebootNowZero
  <2>0. /\ pc = "staged" /\ pc' = "rebooting"
        /\ bcb'.args = bcb.args /\ bcb'.stage = bcb.stage /\ bcb'.command = ""
        /\ UNCHANGED <<mode, cmdfile, package, system, args, prompt, status>>
    BY Zenon, <1>0, BcbFields, <1>13 DEF RebootNowZero
  <2>1. Provided'
    BY Zenon, <1>0, <2>0, BcbFields DEF Located, Provided, SameCommand, Excused, ChooseArgs
  <2>2. SameCommand'
    BY Zenon, <1>0, <2>0, BcbFields DEF Located, SameCommand, Cleared, ChooseArgs
  <2> QED
    BY <2>1, <2>2
<1>14. CASE RebootNow
  <2>0. /\ mode' = "off" /\ pc' = "none" /\ args' = << >> /\ ~prompt' /\ status' = "success"
        /\ UNCHANGED <<bcb, cmdfile, package, system>>
    BY <1>14 DEF RebootNow
  <2>1. Provided'
    BY Zenon, <1>0, <2>0, BcbFields DEF Located, Provided, SameCommand, Excused, ChooseArgs
  <2>2. SameCommand'
    BY Zenon, <1>0, <2>0, BcbFields DEF Located, SameCommand, Cleared, ChooseArgs
  <2> QED
    BY <2>1, <2>2
<1>15. CASE EraseRefused
  BY SMTT(20), <1>0, <1>15 DEF EraseRefused
<1>16. CASE EraseBegin
  <2>0. /\ pc = "erase" /\ pc' = "erasing" /\ (cmdfile' = cmdfile \/ cmdfile' = << >>)
        /\ UNCHANGED <<mode, bcb, system, args, prompt, status>>
    BY <1>16 DEF EraseBegin
  <2>1. Provided'
    BY Zenon, <1>0, <2>0, BcbFields DEF Located, Provided, SameCommand, Excused, ChooseArgs
  <2>2. SameCommand'
    BY Zenon, <1>0, <2>0, BcbFields DEF Located, SameCommand, Cleared, ChooseArgs
  <2> QED
    BY <2>1, <2>2
<1>17. CASE EraseEnd
  <2>0. /\ pc = "erasing" /\ pc' = "erase" /\ (cmdfile' = cmdfile \/ cmdfile' = << >>)
        /\ UNCHANGED <<mode, bcb, system, args, prompt, status>>
    BY <1>0, <1>17 DEF EraseEnd
  <2>1. Provided'
    BY Zenon, <1>0, <2>0, BcbFields DEF Located, Provided, SameCommand, Excused, ChooseArgs
  <2>2. SameCommand'
    BY Zenon, <1>0, <2>0, BcbFields DEF Located, SameCommand, Cleared, ChooseArgs
  <2> QED
    BY <2>1, <2>2
<1>18. CASE Erased
  <2>0. /\ pc = "erase" /\ pc' = (IF prompt THEN "finish" ELSE "check")
        /\ UNCHANGED <<mode, bcb, cmdfile, package, system, args, prompt, status>>
    BY <1>18 DEF Erased
  <2>1. Provided'
    BY Zenon, <1>0, <2>0, BcbFields DEF Located, Provided, SameCommand, Excused, ChooseArgs
  <2>2. SameCommand'
    BY Zenon, <1>0, <2>0, BcbFields DEF Located, SameCommand, Cleared, ChooseArgs
  <2> QED
    BY <2>1, <2>2
<1>19. CASE CheckStatus
  <2>0. /\ pc = "check" /\ pc' = "finish"
        /\ UNCHANGED <<mode, bcb, cmdfile, package, system, args, status>>
    BY <1>19 DEF CheckStatus
  <2>1. Provided'
    BY Zenon, <1>0, <2>0, BcbFields DEF Located, Provided, SameCommand, Excused, ChooseArgs
  <2>2. SameCommand'
    BY Zenon, <1>0, <2>0, BcbFields DEF Located, SameCommand, Cleared, ChooseArgs
  <2> QED
    BY <2>1, <2>2
<1>20. CASE FinishRecovery
  <2>0. /\ pc = "finish" /\ UNCHANGED <<mode, bcb, cmdfile, package, system>>
        /\ \/ pc' = "get_args" /\ args' = << >> /\ ~prompt' /\ status' = "success"
           \/ pc' = "clear_bcb" /\ UNCHANGED <<args, prompt, status>>
    BY <1>20 DEF FinishRecovery
  <2>1. Provided'
    BY Zenon, <1>0, <2>0, BcbFields DEF Located, Provided, SameCommand, Excused, ChooseArgs
  <2>2. SameCommand'
    BY Zenon, <1>0, <2>0, BcbFields DEF Located, SameCommand, Cleared, ChooseArgs
  <2> QED
    BY <2>1, <2>2
<1>21. CASE ClearBcb
  <2>0. /\ pc = "clear_bcb" /\ pc' = "unlink" /\ bcb' = NoBcb
        /\ UNCHANGED <<mode, cmdfile, package, system, args, prompt, status>>
    BY <1>0, <1>21 DEF ClearBcb, ResetBcb
  <2>1. Provided'
    BY Zenon, <1>0, <2>0, BcbFields DEF Located, Provided, SameCommand, Excused, ChooseArgs
  <2>2. SameCommand'
    BY Zenon, <1>0, <2>0, BcbFields DEF Located, SameCommand, Cleared, ChooseArgs
  <2> QED
    BY <2>1, <2>2
<1>22. CASE UnlinkCommand
  <2>0. /\ pc = "unlink" /\ pc' \in {"reboot", "menu"} /\ cmdfile' = << >>
        /\ UNCHANGED <<mode, bcb, package, system, args, prompt, status>>
        /\ pc' = "menu" => prompt
    BY <1>0, <1>22 DEF UnlinkCommand, UnlinkCommandFile, Located
  <2>1. Provided'
    BY Zenon, <1>0, <2>0, BcbFields DEF Located, Provided, SameCommand, Excused, ChooseArgs
  <2>2. SameCommand'
    BY Zenon, <1>0, <2>0, BcbFields DEF Located, SameCommand, Cleared, ChooseArgs
  <2> QED
    BY <2>1, <2>2
<1>23. CASE Reboot
  <2>0. /\ mode' = "off" /\ pc' = "none" /\ args' = << >> /\ ~prompt' /\ status' = "success"
        /\ UNCHANGED <<bcb, cmdfile, package, system>>
    BY Zenon, <1>23 DEF Reboot
  <2>1. Provided'
    BY Zenon, <1>0, <2>0, BcbFields DEF Located, Provided, SameCommand, Excused, ChooseArgs
  <2>2. SameCommand'
    BY Zenon, <1>0, <2>0, BcbFields DEF Located, SameCommand, Cleared, ChooseArgs
  <2> QED
    BY <2>1, <2>2
<1>24. CASE UNCHANGED vars
  <2>0. UNCHANGED <<mode, bcb, cmdfile, package, system, pc, args, prompt, status>>
    BY <1>24 DEF vars
  <2>1. Provided'
    BY Zenon, <1>0, <2>0 DEF Provided, Excused
  <2>2. SameCommand'
    BY Zenon, <1>0, <2>0 DEF SameCommand, Cleared, ChooseArgs
  <2> QED
    BY <2>1, <2>2
<1> QED
  BY SMTT(20), <1>1, <1>2, <1>3, <1>4, <1>5, <1>6, <1>7, <1>8, <1>9, <1>10, <1>11, <1>12, <1>13, <1>14, <1>15, <1>16, <1>17, <1>18, <1>19, <1>20, <1>21, <1>22, <1>23, <1>24 DEF Next, Program, MainRuns

LEMMA ErrorInvInit == Init => ErrorInv
<1> SUFFICES ASSUME Init PROVE ErrorInv
  OBVIOUS
<1>1. /\ bcb.args = << >> /\ cmdfile = << >> /\ args = << >> /\ Cleared(bcb)
      /\ pc = "none" /\ status = "success" /\ ~prompt
  BY Zenon, BcbFields DEF Init, Cleared
<1>2. Provided /\ SameCommand
  BY <1>1, HasNothing DEF Provided, SameCommand
<1> QED
  BY <1>1, <1>2, ProcessInvInit DEF ErrorInv, Known

LEMMA ErrorInvNext == ASSUME Fits PROVE ErrorInv /\ [Next]_vars => ErrorInv'
<1> SUFFICES ASSUME ErrorInv, [Next]_vars PROVE ErrorInv'
  OBVIOUS
<1>1. ProcessInv /\ Known(bcb.args) /\ Known(cmdfile) /\ Known(args)
  BY Zenon DEF ErrorInv
<1>2. Changes /\ Shape /\ ProcessInv'
  BY <1>1, ProcessSteps, ProcessInvNext DEF ProcessInv
<1>3. Known(bcb'.args) /\ Known(cmdfile') /\ Known(args') /\ Truncated(args) = args
  BY <1>1, <1>2, KnownNext
<1>4. errors' = 0 => Provided' /\ SameCommand'
  BY <1>3, ProvidedNext
<1> QED
  BY Zenon, <1>2, <1>3, <1>4 DEF ErrorInv, Known

(* Only main() after its work shows the user an error.                     *)
LEMMA ShownByCheck ==
  ASSUME [Next]_vars, ~shown, shown'
  PROVE  pc = "check" /\ status = "error"
<1> SUFFICES ASSUME Next PROVE pc = "check" /\ status = "error"
  BY Zenon DEF vars
<1>1. CheckStatus \/ (shown' = shown) \/ (shown' = FALSE)
  BY Zenon DEF Next, MainWritesCommand, UserBootsRecovery, MainRuns, vars, Bootloader, CacheBreaks,
         Crash, Menu, Program, GetArgs, SetBcb, Dispatch, InstallPackage, InstallDone, SetStage,
         RebootNowZero, RebootNow, EraseRefused, EraseBegin, EraseEnd, Erased, FinishRecovery,
         ClearBcb, UnlinkCommand, Reboot, history
<1>2. CheckStatus
  BY Zenon, <1>1
<1> QED
  BY Zenon, <1>2 DEF CheckStatus

(* A crash is never mistaken for a failure: while no format, install or    *)
(* write fails, the user is shown an error only when the package is        *)
(* installed, or a multi-stage package has zeroed the BCB's command.  For  *)
(* every set of commands that fit in the BCB and however often the device  *)
(* dies: get_args() finds a command again where it was, with its package.  *)
(* (A command that does not fit, on an MTD /misc, is started again with    *)
(* fewer arguments.)                                                       *)
THEOREM CrashesAreNoErrors == ASSUME Fits PROVE Spec => NoSpuriousError
<1>1. ErrorInv /\ [Next]_vars =>
      [errors = 0 /\ ~shown /\ shown' => system = "new" \/ bcb.stage # ""]_vars
  <2> SUFFICES ASSUME ErrorInv, [Next]_vars, errors = 0, ~shown, shown'
               PROVE  system = "new" \/ bcb.stage # ""
    BY Zenon
  <2>1. pc = "check" /\ status = "error"
    BY ShownByCheck
  <2>2. Provided
    BY Zenon DEF ErrorInv
  <2> QED
    BY Zenon, <2>1, <2>2 DEF Provided, Excused
<1> QED
  BY <1>1, ErrorInvInit, ErrorInvNext, PTL DEF Spec, NoSpuriousError

(* A volume that still has to be erased stays on main()'s list when the    *)
(* first entry of the list is not it.                                      *)
LEMMA StillListed ==
  ASSUME NEW v, NEW i \in 1 .. Len(todo), v \in todo[i], v \notin Head(todo), todo # << >>,
         todo \in Seq(SUBSET Volumes), todo' = Tail(todo)
  PROVE  \E j \in 1 .. Len(todo') : v \in todo'[j]
  BY Zenon, TailParts

(* When an erase fails, main() has an error, or the user is in the menu,   *)
(* or a package wanted its cache wiped.                                    *)
LEMMA EraseFailedListed ==
  ASSUME EraseFailed, Combinable, Known(args), UNCHANGED <<args, prompt, volume, system>>,
         todo # << >>, todo \in Seq(SUBSET Volumes), todo' = Tail(todo),
         ~prompt, status' # "error",
         status # "error" => /\ Has(args, "update") => system = "new"
                             /\ \A v \in Volumes : Undone(v) => \E i \in 1 .. Len(todo) : v \in todo[i]
  PROVE  /\ Has(args', "update") => system' = "new"
         /\ \A v \in Volumes : Undone(v)' => \E i \in 1 .. Len(todo') : v \in todo'[i]
<1>1. status # "error" /\ Has(args, "update") /\ Head(todo) = {"cache"}
  BY DEF EraseFailed
<1>2. ~Has(args, "wipe_cache")
  BY <1>1, HasNothing DEF Combinable, Known
<1>3. \A v \in Volumes : Undone(v) => v \notin Head(todo)
  BY <1>1, <1>2 DEF Undone, Wants
<1>4. \A v \in Volumes : Undone(v)' <=> Undone(v)
  BY SMTT(20) DEF Undone, Wants
<1> QED
  BY <1>1, <1>3, <1>4, StillListed

(* main()'s list covers what a command asks for and is not done.           *)
LEMMA DoneNext ==
  ASSUME DoneInv, ~MiscIsMtd, Combinable, [Next]_vars, Truncated(args) = args
  PROVE  InBcb' /\ Remaining'
<1>0. Shape /\ Located /\ InBcb /\ Remaining /\ Known(args)
  BY Zenon DEF DoneInv, ProcessInv
<1>t. todo \in Seq(SUBSET Volumes)
  BY Zenon, <1>0 DEF Shape
<1> USE HasNothing
<1> USE DEF Start, Goto, disks, process, history, bounds, Installs, Finishes
<1>1. CASE MainWritesCommand
  <2>0. /\ UNCHANGED <<bcb, pc, args, prompt, pending>> /\ pc = "none"
    BY <1>0, <1>1 DEF MainWritesCommand, Located
  <2>1. InBcb'
    BY SMTT(20), <1>0, <2>0 DEF Located, InBcb
  <2>2. Remaining'
    BY <1>0, <2>0 DEF Located, Remaining, AllDone, Undone, Wants
  <2> QED
    BY SMTT(20), <2>1, <2>2
<1>2. CASE UserBootsRecovery
  <2>0. /\ UNCHANGED <<bcb, pc, args, prompt, pending>> /\ pc = "none"
    BY SMTT(20), <1>0, <1>2 DEF UserBootsRecovery, Located
  <2>1. InBcb'
    BY <1>0, <2>0 DEF Located, InBcb
  <2>2. Remaining'
    BY <1>0, <2>0 DEF Located, Remaining, AllDone, Undone, Wants
  <2> QED
    BY <2>1, <2>2
<1>3. CASE Bootloader
  <2>0. /\ pc = "none" /\ pc' \in {"none", "get_args"} /\ UNCHANGED <<bcb, args>>
        /\ pending' = pending \/ pending' = << >>
    BY Zenon, <1>0, <1>3 DEF Bootloader, Located
  <2>1. InBcb'
    BY SMTT(20), <1>0, <2>0 DEF Located, InBcb
  <2>2. Remaining'
    BY SMTT(20), <1>0, <2>0 DEF Located, Remaining, AllDone, Undone, Wants
  <2> QED
    BY <2>1, <2>2
<1>4. CASE CacheBreaks
  <2>0. /\ UNCHANGED <<bcb, pc, args, prompt, pending>> /\ pc = "none"
    BY SMTT(20), <1>0, <1>4 DEF CacheBreaks, Located
  <2>1. InBcb'
    BY <1>0, <2>0 DEF Located, InBcb
  <2>2. Remaining'
    BY <1>0, <2>0 DEF Located, Remaining, AllDone, Undone, Wants
  <2> QED
    BY <2>1, <2>2
<1>5. CASE Crash
  <2>0. /\ pc' = "none" /\ UNCHANGED <<bcb, pending>>
    BY <1>5 DEF Crash, BcbAfterCrash
  <2>1. InBcb'
    BY SMTT(20), <1>0, <2>0 DEF Located, InBcb
  <2>2. Remaining'
    BY SMTT(20), <1>0, <2>0 DEF Located, Remaining, AllDone, Undone, Wants
  <2> QED
    BY <2>1, <2>2
<1>6. CASE Menu
  <2>0. /\ pending' = << >> /\ pc' = "erase" /\ prompt'
    BY SMTT(20), <1>0, <1>6 DEF Menu, Located
  <2>1. InBcb'
    BY SMTT(20), <1>0, <2>0 DEF Located, InBcb
  <2>2. Remaining'
    BY <1>0, <2>0 DEF Located, Remaining, AllDone, Undone, Wants
  <2> QED
    BY <2>1, <2>2
<1>7. CASE GetArgs
  <2>0. /\ pc = "get_args" /\ pc' = "set_bcb" /\ args' = ChooseArgs
        /\ UNCHANGED <<bcb, pending>>
    BY <1>7 DEF GetArgs
  <2>1. InBcb'
    BY SMTT(20), <1>0, <2>0 DEF Located, InBcb, ChooseArgs
  <2>2. Remaining'
    BY SMTT(20), <1>0, <2>0 DEF Located, Remaining, AllDone, Undone, Wants
  <2> QED
    BY <2>1, <2>2
<1>8. CASE SetBcb
  <2>0. pc = "set_bcb" /\ pc' = "dispatch" /\ args' = args
    BY <1>8 DEF SetBcb
  <2>1. InBcb'
    <3>1. \/ /\ bcb' = [bcb EXCEPT !.command = "boot-recovery", !.args = Truncated(args)]
             /\ pending' = IF pending = << >> THEN args ELSE pending
          \/ UNCHANGED <<bcb, pending>>
      BY <1>8 DEF SetBcb
    <3>2. \/ bcb'.args = args /\ pending' = (IF pending = << >> THEN args ELSE pending)
          \/ UNCHANGED <<bcb, pending>>
      BY Zenon, <1>0, <3>1, BcbFields
    <3> QED
      BY SMTT(20), <1>0, <2>0, <3>2 DEF InBcb
  <2>2. Remaining'
    BY <2>0 DEF Remaining
  <2> QED
    BY <2>1, <2>2
<1>9. CASE Dispatch
  <2>0. /\ pc = "dispatch" /\ pc' \in {"install", "erase", "check"} /\ ~prompt
        /\ UNCHANGED <<bcb, args, prompt, pending, volume, system>>
    BY SMTT(20), <1>0, <1>9 DEF Dispatch, Located
  <2>1. InBcb'
    BY <1>0, <2>0 DEF InBcb
  <2>2. Has(args, "wipe_cache") /\ Has(args, "wipe_media") => Has(args, "wipe_data")
    BY <1>0 DEF Combinable, Known
  <2>3. CASE Has(args, "update")
    <3>1. pc' = "install"
      BY SMTT(20), <1>9, <2>3 DEF Dispatch
    <3> QED
      BY <2>1, <3>1 DEF Remaining
  <2>4. CASE ~Has(args, "update") /\ Has(args, "wipe_data")
    <3>1. pc' = "erase" /\ todo' = <<DataVolumes, {"cache"}>>
      BY <1>9, <2>4 DEF Dispatch, WipeDataArg
    <3>2. Len(todo') = 2 /\ todo'[1] = DataVolumes /\ todo'[2] = {"cache"}
      BY SMTT(20), <3>1
    <3>3. \A v \in Volumes : Undone(v)' => v \in todo'[1] \/ v \in todo'[2]
      BY SMTT(20), <2>0, <3>2 DEF Undone, Wants, DataVolumes
    <3> QED
      BY SMTT(20), <2>0, <2>1, <2>4, <3>1, <3>2, <3>3 DEF Remaining
  <2>5. CASE ~Has(args, "update") /\ ~Has(args, "wipe_data") /\ Has(args, "wipe_cache")
    <3>1. pc' = "erase" /\ todo' = <<{"cache"}>>
      BY <1>9, <2>5 DEF Dispatch, WipeDataArg
    <3>2. Len(todo') = 1 /\ todo'[1] = {"cache"}
      BY SMTT(20), <3>1
    <3>3. \A v \in Volumes : Undone(v)' => v \in todo'[1]
      BY SMTT(20), <2>0, <2>2, <2>5, <3>2 DEF Undone, Wants
    <3> QED
      BY SMTT(20), <2>0, <2>1, <2>5, <3>1, <3>2, <3>3 DEF Remaining
  <2>6. CASE ~Has(args, "update") /\ ~Has(args, "wipe_data") /\ ~Has(args, "wipe_cache")
    <3>1. CASE Has(args, "wipe_media")
      <4>1. pc' = "erase" /\ todo' = <<{"media"}>>
        BY SMTT(20), <1>9, <2>6, <3>1 DEF Dispatch, WipeDataArg
      <4>2. Len(todo') = 1 /\ todo'[1] = {"media"}
        BY <4>1
      <4>3. \A v \in Volumes : Undone(v)' => v \in todo'[1]
        BY SMTT(20), <2>0, <2>6, <4>2 DEF Undone, Wants
      <4> QED
        BY SMTT(20), <2>0, <2>1, <2>6, <4>1, <4>2, <4>3 DEF Remaining
    <3>2. CASE ~Has(args, "wipe_media")
      <4>1. pc' = "check"
        BY SMTT(20), <1>9, <2>6, <3>2 DEF Dispatch, WipeDataArg
      <4>2. AllDone'
        BY SMTT(20), <2>0, <2>6, <3>2 DEF AllDone, Undone, Wants
      <4> QED
        BY SMTT(20), <2>0, <2>1, <4>1, <4>2 DEF Remaining
    <3> QED
      BY SMTT(20), <3>1, <3>2
  <2> QED
    BY SMTT(20), <2>3, <2>4, <2>5, <2>6
<1>10. CASE InstallPackage
  <2>0. /\ pc = "install" /\ (pc' = "installing" \/ (pc' = "check" /\ status' = "error"))
        /\ UNCHANGED <<bcb, args, prompt, pending>>
    BY <1>10 DEF InstallPackage
  <2>1. InBcb'
    BY SMTT(20), <1>0, <2>0 DEF Located, InBcb
  <2>2. Remaining'
    BY SMTT(20), <1>0, <2>0 DEF Located, Remaining, AllDone, Undone, Wants
  <2> QED
    BY <2>1, <2>2
<1>11. CASE InstallDone
  <2>0. pc = "installing" /\ ~prompt /\ Has(args, "update") /\ UNCHANGED <<bcb, args, prompt, pending, volume>>
    BY <1>0, <1>11 DEF InstallDone, Located
  <2>1. InBcb' \/ pc' = "none"
    BY SMTT(20), <1>0, <2>0 DEF InBcb
  <2>2. CASE pc' = "check" /\ status' = "error"
    BY SMTT(20), <1>0, <2>0, <2>2 DEF InBcb, Remaining
  <2>3. CASE /\ pc' = "erase" /\ system' = "new"
             /\ \/ todo' = (IF WipeDataArg THEN <<DataVolumes>>
                           ELSE IF Has(args, "wipe_media") THEN <<{"media"}>> ELSE << >>) \o <<{"cache"}>>
                \/ todo' = (IF WipeDataArg THEN <<DataVolumes>>
                           ELSE IF Has(args, "wipe_media") THEN <<{"media"}>> ELSE << >>) \o << >>
    <3>1. ~Has(args, "wipe_cache")
      BY SMTT(20), <1>0, <2>0 DEF Combinable, Known
    <3>2. InBcb'
      BY SMTT(20), <1>0, <2>0, <2>3 DEF InBcb
    <3>3. CASE Has(args, "wipe_data")
      <4>1. todo' = <<DataVolumes, {"cache"}>> \/ todo' = <<DataVolumes>>
        BY SMTT(20), <2>3, <3>3, ListsJoined DEF WipeDataArg
      <4>2. 1 \in 1 .. Len(todo') /\ todo'[1] = DataVolumes
        BY <4>1
      <4>3. \A v \in Volumes : Undone(v)' => v \in todo'[1]
        BY SMTT(20), <2>0, <3>1, <3>3, <4>2 DEF Undone, Wants, DataVolumes
      <4> QED
        BY SMTT(20), <2>0, <2>3, <3>2, <4>2, <4>3 DEF Remaining
    <3>4. CASE ~Has(args, "wipe_data") /\ Has(args, "wipe_media")
      <4>1. todo' = <<{"media"}, {"cache"}>> \/ todo' = <<{"media"}>>
        BY <2>3, <3>4, ListsJoined DEF WipeDataArg
      <4>2. 1 \in 1 .. Len(todo') /\ todo'[1] = {"media"}
        BY <4>1
      <4>3. \A v \in Volumes : Undone(v)' => v \in todo'[1]
        BY SMTT(20), <2>0, <3>1, <3>4, <4>2 DEF Undone, Wants
      <4> QED
        BY SMTT(20), <2>0, <2>3, <3>2, <4>2, <4>3 DEF Remaining
    <3>5. CASE ~Has(args, "wipe_data") /\ ~Has(args, "wipe_media")
      <4>1. \A v \in Volumes : ~Undone(v)'
        BY SMTT(20), <2>0, <3>1, <3>5 DEF Undone, Wants
      <4> QED
        BY SMTT(20), <2>0, <2>3, <3>2, <4>1 DEF Remaining
    <3> QED
      BY SMTT(20), <3>3, <3>4, <3>5
  <2> QED
    BY Zenon, <1>11, <2>2, <2>3 DEF InstallDone
<1>12. CASE SetStage
  <2>0. /\ pc = "installing" /\ pc' = "staged" /\ bcb'.args = bcb.args
        /\ UNCHANGED <<args, prompt, pending>>
    BY Zenon, <1>0, BcbFields, <1>12 DEF SetStage
  <2>1. InBcb'
    BY Zenon, <1>0, <2>0, BcbFields DEF Located, InBcb
  <2>2. Remaining'
    BY SMTT(20), <1>0, <2>0 DEF Located, Remaining, AllDone, Undone, Wants
  <2> QED
    BY <2>1, <2>2
<1>13. CASE RebootNowZero
  <2>0. /\ pc = "staged" /\ pc' = "rebooting" /\ bcb'.args = bcb.args
        /\ UNCHANGED <<args, prompt, pending>>
    BY Zenon, <1>0, BcbFields, <1>13 DEF RebootNowZero
  <2>1. InBcb'
    BY Zenon, <1>0, <2>0, BcbFields DEF Located, InBcb
  <2>2. Remaining'
    BY SMTT(20), <1>0, <2>0 DEF Located, Remaining, AllDone, Undone, Wants
  <2> QED
    BY <2>1, <2>2
<1>14. CASE RebootNow
  <2>0. /\ pc' = "none" /\ UNCHANGED <<bcb, pending>>
    BY SMTT(20), <1>14 DEF RebootNow
  <2>1. InBcb'
    BY <1>0, <2>0 DEF Located, InBcb
  <2>2. Remaining'
    BY <1>0, <2>0 DEF Located, Remaining, AllDone, Undone, Wants
  <2> QED
    BY <2>1, <2>2
<1>15. CASE EraseRefused
  <2>0. /\ pc = "erase" /\ pc' = "erase" /\ todo # << >> /\ todo' = Tail(todo) /\ EraseFailed
        /\ UNCHANGED <<bcb, args, prompt, pending, volume, system>>
    BY <1>15 DEF EraseRefused
  <2>1. InBcb'
    BY SMTT(20), <1>0, <2>0 DEF InBcb
  <2>2. ASSUME ~prompt, status' # "error"
        PROVE  /\ Has(args', "update") => system' = "new"
               /\ \A v \in Volumes : Undone(v)' => \E i \in 1 .. Len(todo') : v \in todo'[i]
    BY SMTT(20), <1>0, <1>t, <2>0, <2>2, EraseFailedListed DEF Remaining
  <2>3. Remaining'
    BY SMTT(20), <1>0, <2>0, <2>2 DEF Remaining
  <2> QED
    BY <2>1, <2>3
<1>16. CASE EraseBegin
  <2>0. /\ pc = "erase" /\ pc' = "erasing" /\ todo # << >>
        /\ UNCHANGED <<bcb, args, prompt, pending, todo, status, system>>
    BY <1>16 DEF EraseBegin
  <2>1. InBcb'
    BY <1>0, <2>0 DEF InBcb
  <2>2. Head(todo) = todo[1] /\ 1 \in 1 .. Len(todo)
    BY SMTT(20), <1>t, <2>0
  <2>3. \A v \in Volumes : Undone(v)' => Undone(v) \/ v \in Head(todo)
    BY SMTT(20), <1>16, <2>0 DEF EraseBegin, Undone, Wants
  <2>4. Remaining'
    BY SMTT(20), <1>0, <2>0, <2>2, <2>3 DEF Remaining
  <2> QED
    BY <2>1, <2>4
<1>17. CASE EraseEnd
  <2>0. /\ pc = "erasing" /\ pc' = "erase" /\ todo # << >> /\ todo' = Tail(todo)
        /\ UNCHANGED <<bcb, args, prompt, pending, system>>
    BY <1>0, <1>17 DEF EraseEnd, Located
  <2>1. InBcb'
    BY SMTT(20), <1>0, <2>0 DEF InBcb
  <2>2. CASE EraseFailed /\ UNCHANGED volume
    <3>1. ASSUME ~prompt, status' # "error"
          PROVE  /\ Has(args', "update") => system' = "new"
                 /\ \A v \in Volumes : Undone(v)' => \E i \in 1 .. Len(todo') : v \in todo'[i]
      BY SMTT(20), <1>0, <1>t, <2>0, <2>2, <3>1, EraseFailedListed DEF Remaining
    <3> QED
      BY SMTT(20), <1>0, <2>0, <2>1, <3>1 DEF Remaining
  <2>3. CASE /\ volume' = [v \in Volumes |-> IF v \in Head(todo) THEN "blank" ELSE volume[v]]
             /\ UNCHANGED status
    <3>1. \A v \in Volumes : Undone(v)' => Undone(v) /\ v \notin Head(todo)
      BY SMTT(20), <2>0, <2>3 DEF Undone, Wants
    <3>2. ASSUME ~prompt, status' # "error"
          PROVE  \A v \in Volumes : Undone(v)' => \E i \in 1 .. Len(todo') : v \in todo'[i]
      <4>1. \A v \in Volumes : Undone(v) => \E i \in 1 .. Len(todo) : v \in todo[i]
        BY SMTT(20), <1>0, <2>0, <2>3, <3>2 DEF Remaining
      <4> QED
        BY Zenon, <1>t, <2>0, <3>1, <4>1, StillListed
    <3> QED
      BY SMTT(20), <1>0, <2>0, <2>1, <2>3, <3>2 DEF Remaining
  <2> QED
    BY SMTT(20), <1>17, <2>2, <2>3 DEF EraseEnd
<1>18. CASE Erased
  <2>0. /\ pc = "erase" /\ todo = << >> /\ pc' = (IF prompt THEN "finish" ELSE "check")
        /\ UNCHANGED <<bcb, args, prompt, pending, volume, status, system>>
    BY <1>18 DEF Erased
  <2>1. InBcb'
    BY <1>0, <2>0 DEF InBcb
  <2>2. Len(todo) = 0
    BY <2>0
  <2>3. ~prompt /\ status # "error" => AllDone
    BY SMTT(20), <1>0, <2>0, <2>2 DEF Remaining, AllDone
  <2>4. AllDone' <=> AllDone
    BY SMTT(20), <2>0 DEF AllDone, Undone, Wants
  <2>5. Remaining'
    BY <1>0, <2>0, <2>3, <2>4 DEF Remaining
  <2> QED
    BY <2>1, <2>5
<1>19. CASE CheckStatus
  <2>0. /\ pc = "check" /\ pc' = "finish" /\ (status = "error" => shown')
        /\ UNCHANGED <<bcb, args, pending, volume, system>>
    BY Zenon, <1>19 DEF CheckStatus
  <2>1. InBcb'
    BY <1>0, <2>0 DEF InBcb
  <2>2. UNCHANGED <<args, volume, system>> => (AllDone' <=> AllDone)
    BY DEF AllDone, Undone, Wants
  <2>3. Remaining'
    BY SMTT(20), <1>0, <2>0, <2>2 DEF Remaining
  <2> QED
    BY <2>1, <2>3
<1>20. CASE FinishRecovery
  <2>0. /\ pc = "finish" /\ UNCHANGED <<bcb, pending, volume, system, shown>>
        /\ pc' = "get_args" \/ (pc' = "clear_bcb" /\ args' = args)
    BY <1>20 DEF FinishRecovery
  <2>1. InBcb'
    BY SMTT(20), <1>0, <2>0 DEF InBcb
  <2>2. UNCHANGED <<args, volume, system>> => (AllDone' <=> AllDone)
    BY DEF AllDone, Undone, Wants
  <2>3. Remaining'
    BY SMTT(20), <1>0, <2>0, <2>2 DEF Remaining
  <2> QED
    BY <2>1, <2>3
<1>21. CASE ClearBcb
  <2>0. /\ pc = "clear_bcb" /\ pc' = "unlink" /\ UNCHANGED <<args, volume, system, shown>>
        /\ pending' = << >> \/ UNCHANGED <<bcb, pending>>
    BY <1>21 DEF ClearBcb
  <2>1. InBcb'
    BY SMTT(20), <1>0, <2>0 DEF InBcb
  <2>2. UNCHANGED <<args, volume, system>> => (AllDone' <=> AllDone)
    BY DEF AllDone, Undone, Wants
  <2>3. Remaining'
    BY SMTT(20), <1>0, <2>0, <2>2 DEF Remaining
  <2> QED
    BY <2>1, <2>3
<1>22. CASE UnlinkCommand
  <2>0. /\ pc = "unlink" /\ pc' \in {"reboot", "menu"}
        /\ UNCHANGED <<bcb, args, pending, volume, system, shown>>
    BY <1>22 DEF UnlinkCommand
  <2>1. InBcb'
    BY SMTT(20), <1>0, <2>0 DEF InBcb
  <2>2. UNCHANGED <<args, volume, system>> => (AllDone' <=> AllDone)
    BY DEF AllDone, Undone, Wants
  <2>3. Remaining'
    BY SMTT(20), <1>0, <2>0, <2>2 DEF Remaining
  <2> QED
    BY <2>1, <2>3
<1>23. CASE Reboot
  <2>0. /\ pc' = "none" /\ UNCHANGED <<bcb, pending>>
    BY Zenon, <1>23 DEF Reboot
  <2>1. InBcb'
    BY <1>0, <2>0 DEF Located, InBcb
  <2>2. Remaining'
    BY <1>0, <2>0 DEF Located, Remaining, AllDone, Undone, Wants
  <2> QED
    BY <2>1, <2>2
<1>24. CASE UNCHANGED vars
  <2>0. UNCHANGED <<bcb, pc, args, prompt, pending, volume, status, system, shown, todo>>
    BY <1>24 DEF vars
  <2>1. InBcb'
    BY SMTT(20), <1>0, <2>0 DEF InBcb
  <2>2. (AllDone' <=> AllDone) /\ \A v \in Volumes : Undone(v)' <=> Undone(v)
    BY SMTT(20), <2>0 DEF AllDone, Undone, Wants
  <2>3. Remaining'
    BY SMTT(20), <1>0, <2>0, <2>2 DEF Remaining
  <2> QED
    BY <2>1, <2>3
<1> QED
  BY SMTT(20), <1>1, <1>2, <1>3, <1>4, <1>5, <1>6, <1>7, <1>8, <1>9, <1>10, <1>11, <1>12, <1>13, <1>14, <1>15, <1>16, <1>17, <1>18, <1>19, <1>20, <1>21, <1>22, <1>23, <1>24 DEF Next, Program, MainRuns

LEMMA DoneInvInit == Init => DoneInv
<1> SUFFICES ASSUME Init PROVE DoneInv
  OBVIOUS
<1>1. bcb.args = << >> /\ cmdfile = << >> /\ args = << >> /\ pending = << >> /\ pc = "none"
  BY Zenon, BcbFields DEF Init
<1>2. InBcb /\ Remaining
  BY <1>1 DEF InBcb, Remaining, Finishes
<1> QED
  BY <1>1, <1>2, ProcessInvInit DEF DoneInv, Known

LEMMA DoneInvNext ==
  ASSUME ~MiscIsMtd, Fits, Combinable PROVE DoneInv /\ [Next]_vars => DoneInv'
<1> SUFFICES ASSUME DoneInv, [Next]_vars PROVE DoneInv'
  OBVIOUS
<1>1. ProcessInv /\ Known(bcb.args) /\ Known(cmdfile) /\ Known(args)
  BY Zenon DEF DoneInv
<1>2. Changes /\ Shape /\ ProcessInv'
  BY SMTT(20), <1>1, ProcessSteps, ProcessInvNext DEF ProcessInv
<1>3. Known(bcb'.args) /\ Known(cmdfile') /\ Known(args') /\ Truncated(args) = args
  BY SMTT(20), <1>1, <1>2, KnownNext
<1>4. InBcb' /\ Remaining'
  BY <1>3, DoneNext
<1> QED
  BY Zenon, <1>2, <1>3, <1>4 DEF DoneInv, Known

(* Only finish_recovery() and reboot_now() clear the BCB's command, when   *)
(* /misc is not MTD flash.                                                 *)
LEMMA ClearedByFinish ==
  ASSUME Shape, ~MiscIsMtd, [Next]_vars, ~Cleared(bcb), Cleared(bcb'), pc # "staged"
  PROVE  pc = "clear_bcb"
<1>1. bcb' # bcb
  OBVIOUS
<1>2. Next
  BY SMTT(20), <1>1 DEF vars
<1>3. SetBcb \/ SetStage \/ RebootNowZero \/ ClearBcb
  BY Zenon, <1>1, <1>2 DEF Next, MainWritesCommand, UserBootsRecovery, MainRuns, vars, Bootloader,
         CacheBreaks, Crash, BcbAfterCrash, Menu, Program, GetArgs, Dispatch, InstallPackage,
         InstallDone, RebootNow, EraseRefused, EraseBegin, EraseEnd, Erased, CheckStatus,
         FinishRecovery, UnlinkCommand, Reboot, disks
<1>4. ~SetBcb
  <2> SUFFICES ASSUME SetBcb PROVE FALSE
    OBVIOUS
  <2>1. bcb' = [bcb EXCEPT !.command = "boot-recovery", !.args = Truncated(args)]
    BY <1>1 DEF SetBcb
  <2> QED
    BY Zenon, <2>1, BcbFields DEF Cleared
<1>5. ~SetStage
  <2> SUFFICES ASSUME SetStage PROVE FALSE
    OBVIOUS
  <2>1. bcb' = [bcb EXCEPT !.stage = "2/2"]
    BY Zenon DEF SetStage
  <2> QED
    BY Zenon, <2>1, BcbFields DEF Cleared
<1> QED
  BY Zenon, <1>3, <1>4, <1>5 DEF RebootNowZero, ClearBcb

(* Once get_args() has put a command in the BCB, nothing clears the BCB    *)
(* before main() has carried the command out or the user has seen that it  *)
(* failed, however crashes, restarts and failures fall: what is not done   *)
(* is on the list main() works off, and get_args() finds the command in    *)
(* the BCB again.  For every set of commands that fit in the BCB and that  *)
(* main() can carry out whole.  (When /misc is MTD flash, rewriting the    *)
(* BCB erases it first; a command cut off in the BCB loses arguments, and  *)
(* main() takes one branch of a command that combines them otherwise.)     *)
THEOREM CommandsCarriedOut ==
  ASSUME ~MiscIsMtd, Fits, Combinable PROVE Spec => ClearedOnlyWhenDone
<1>1. DoneInv /\ [Next]_vars =>
      [~Cleared(bcb) /\ Cleared(bcb') /\ pc # "staged" =>
          shown \/ \A option \in Range(pending) : Achieved(option)]_vars
  <2> SUFFICES ASSUME DoneInv, [Next]_vars, ~Cleared(bcb), Cleared(bcb'), pc # "staged", ~shown,
                      NEW option \in Range(pending)
               PROVE  Achieved(option)
    OBVIOUS
  <2>1. Shape /\ InBcb /\ Remaining
    BY Zenon DEF DoneInv, ProcessInv
  <2>2. pc = "clear_bcb"
    BY <2>1, ClearedByFinish
  <2>3. pending # << >>
    BY HasNothing DEF Has
  <2>4. AllDone /\ pending = args
    BY <2>1, <2>2, <2>3 DEF Remaining, Finishes, InBcb
  <2>5. Has(args, option)
    BY <2>4 DEF Has
  <2>6. "data" \in Volumes /\ "cache" \in Volumes /\ "media" \in Volumes
    BY DEF Volumes
  <2> QED
    BY <2>4, <2>5, <2>6 DEF AllDone, Undone, Wants, Achieved
<1> QED
  BY <1>1, DoneInvInit, DoneInvNext, PTL DEF Spec, ClearedOnlyWhenDone

=============================================================================
