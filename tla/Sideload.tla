------------------------------ MODULE Sideload ------------------------------
(***************************************************************************)
(* The key queue and the threads around it: ui.cpp (process_key, time_key, *)
(* EnqueueKey, CancelWaitKey, WaitKey, FlushKeys, VolumesChanged), and the *)
(* menus of recovery.cpp while adb_install.cpp waits for a package.        *)
(*                                                                         *)
(* The input thread queues the keys that are typed, timer threads watch    *)
(* for long presses, the sideload thread queues -2 when minadbd exits, and *)
(* the vold monitor sets a flag that WaitKey() polls.  main takes keys from*)
(* the queue.  What is done under key_queue_mutex is one step.             *)
(***************************************************************************)
EXTENDS Integers, Sequences, Functions

CONSTANTS
    Keys,           \* keys of the device
    ToggleKeys,     \* those for which CheckKey() says TOGGLE
    QueueMax,       \* entries of key_queue[]
    MaxPresses,     \* bound: keys pressed
    MaxChanges,     \* bound: volumes coming or going
    MaxSessions     \* bound: sideloads

Cancel == "cancel"      \* -2
NoKey == "none"         \* -1

ASSUME KeysAssumption ==
    {Cancel, NoKey} \cap Keys = {} /\ ToggleKeys \subseteq Keys
ASSUME BoundsAssumption ==
    /\ QueueMax \in Nat \ {0}
    /\ MaxPresses \in Nat /\ MaxChanges \in Nat /\ MaxSessions \in Nat

VARIABLES
    queue,          \* key_queue
    pressed, lastDown, downCount, longPress,    \* key_pressed, key_last_down,
                    \* key_down_count, key_long_press
    timers,         \* sleeping time_key() threads, with key_code and count
    typed,          \* the key the input thread is about to enqueue
    dialog,         \* is an error dialog showing?
    volsChanged,    \* v_changed
    pc,             \* where main is
    menu,           \* the menu it shows: "outer" or "sideload"
    seen,           \* VolumesChanged()'s ret
    item,           \* what the sideload menu returned
    child,          \* the minadbd process
    waiter,         \* adb_sideload_thread: "none", "waiting" or "finished"
    file,           \* ADB_SIDELOAD_FILENAME
    text, textEver, \* show_text, show_text_ever
    byCommand,      \* is the sideload the command --sideload of main()?
    changes, sessions

keyboard == <<pressed, lastDown, downCount, longPress, timers, typed>>
shown == <<text, textEver>>
session == <<item, child, waiter, file, sessions, byCommand>>
volumes == <<volsChanged, changes>>
vars == <<queue, pressed, lastDown, downCount, longPress, timers, typed,
          dialog, volsChanged, pc, menu, seen, item, child, waiter,
          file, text, textEver, byCommand, changes, sessions>>

Timers == [key : Keys, count : 1 .. MaxPresses]

(* CancelWaitKey() does not look at the length of the queue, so that it    *)
(* may write one entry beyond its end.                                     *)
TypeOK ==
    /\ queue \in Seq(Keys \cup {Cancel}) /\ Len(queue) <= QueueMax + 1
    /\ pressed \subseteq Keys /\ lastDown \in Keys \cup {NoKey}
    /\ downCount \in 0 .. MaxPresses /\ longPress \in BOOLEAN
    /\ timers \subseteq Timers /\ typed \in Keys \cup {NoKey}
    /\ dialog \in BOOLEAN /\ volsChanged \in BOOLEAN /\ seen \in BOOLEAN
    /\ pc \in {"flush", "waitkey", "asleep", "checking", "start", "stop",
               "join", "flushkeys", "apply", "reboot"}
    /\ menu \in {"outer", "sideload"} /\ item \in {"item", "noaction", "refresh"}
    /\ child \in {"none", "running", "receiving", "received", "exited"}
    /\ waiter \in {"none", "waiting", "finished"}
    /\ file \in {"none", "partial", "complete"}
    /\ text \in BOOLEAN /\ textEver \in BOOLEAN /\ byCommand \in BOOLEAN
    /\ changes \in 0 .. MaxChanges /\ sessions \in 0 .. MaxSessions

(* main() goes to its menus with the text shown, or straight to the        *)
(* sideload that was asked for.  v_changed is not initialised.             *)
Init ==
    /\ queue = << >> /\ pressed = {} /\ lastDown = NoKey /\ downCount = 0
    /\ longPress = FALSE /\ timers = {} /\ typed = NoKey
    /\ dialog = FALSE /\ volsChanged \in BOOLEAN /\ seen = FALSE
    /\ menu = "outer" /\ item = "item"
    /\ child = "none" /\ waiter = "none" /\ file = "none"
    /\ \/ pc = "flush" /\ text = TRUE /\ byCommand = FALSE
       \/ pc = "start" /\ text \in BOOLEAN /\ byCommand = TRUE
    /\ textEver = text
    /\ changes = 0 /\ sessions = 0

(* WaitKey() holds the mutex while it looks at v_changed.                  *)
MutexFree == pc # "checking"

-----------------------------------------------------------------------------
(* process_key() on the input thread: a key goes down ...                  *)
Press(k) ==
    /\ MutexFree /\ typed = NoKey /\ k \notin pressed /\ downCount < MaxPresses
    /\ pressed' = pressed \cup {k}
    /\ downCount' = downCount + 1
    /\ lastDown' = k /\ longPress' = FALSE
    /\ timers' = timers \cup {[key |-> k, count |-> downCount']}
    /\ UNCHANGED <<queue, typed, dialog, volumes, pc, menu, seen, session, shown>>

(* ... or up, and is registered if it was the last to go down.             *)
LastDownForgotten == lastDown' = NoKey

Release(k) ==
    /\ MutexFree /\ typed = NoKey /\ k \in pressed
    /\ pressed' = pressed \ {k}
    /\ typed' = IF lastDown = k THEN k ELSE NoKey
    /\ LastDownForgotten
    /\ UNCHANGED <<queue, downCount, longPress, timers, dialog, volumes, pc,
                   menu, seen, session, shown>>

(* A registered key that toggles the text ...                              *)
ToggleText ==
    /\ typed \in ToggleKeys
    /\ typed' = NoKey
    /\ text' = ~text /\ textEver' = (textEver \/ text')
    /\ UNCHANGED <<queue, pressed, lastDown, downCount, longPress, timers,
                   dialog, volumes, pc, menu, seen, session>>

(* ... or goes to EnqueueKey(): a dialog swallows it, and a full queue     *)
(* drops it.                                                               *)
HasRoom == Len(queue) < QueueMax

EnqueueKey ==
    /\ typed \in Keys \ ToggleKeys /\ (MutexFree \/ dialog)
    /\ typed' = NoKey /\ dialog' = FALSE
    /\ queue' = IF ~dialog /\ HasRoom THEN Append(queue, typed) ELSE queue
    /\ UNCHANGED <<pressed, lastDown, downCount, longPress, timers,
                   volumes, pc, menu, seen, session, shown>>

(* time_key(), 750 ms after a key went down.                               *)
SameKey(t) == lastDown = t.key
SamePress(t) == lastDown = t.key /\ downCount = t.count

TimeKey ==
    /\ MutexFree
    /\ \E t \in timers :
          /\ timers' = timers \ {t}
          /\ longPress' = (longPress \/ SamePress(t))
    /\ UNCHANGED <<queue, pressed, lastDown, downCount, typed,
                   dialog, volumes, pc, menu, seen, session, shown>>

(* NotifyVolumesChanged() on the vold monitor, without the mutex.          *)
NotifyVolumesChanged ==
    /\ changes < MaxChanges /\ changes' = changes + 1
    /\ volsChanged' = TRUE
    /\ UNCHANGED <<queue, keyboard, dialog, pc, menu, seen, session, shown>>

-----------------------------------------------------------------------------
(* get_menu_selection(): FlushKeys(), then WaitKey() until a key ends the  *)
(* menu.                                                                   *)
FlushKeys ==
    /\ pc = "flush"
    /\ queue' = << >> /\ pc' = "waitkey"
    /\ UNCHANGED <<keyboard, dialog, volumes, menu, seen, session, shown>>

(* The sideload menu returns to enter_sideload_mode(), and any other to    *)
(* code that shows another or reboots.                                     *)
Returned(result) ==
    IF menu = "sideload" THEN pc' = "stop" /\ item' = result
    ELSE pc' \in {"flush", "reboot"} /\ UNCHANGED item

(* WaitKey() finds a key, or sleeps.  HandleMenuKey() makes nothing of a   *)
(* key while the text is hidden.                                           *)
TakeKey ==
    /\ pc = "waitkey" /\ queue # << >>
    /\ queue' = Tail(queue)
    /\ \/ Head(queue) = Cancel /\ Returned("noaction")
       \/ Head(queue) # Cancel /\ text /\ Returned("item")
       \/ Head(queue) # Cancel /\ UNCHANGED <<pc, item>>
       \/ /\ Head(queue) # Cancel /\ text /\ menu = "outer" /\ sessions < MaxSessions
          /\ pc' = "start" /\ UNCHANGED item
    /\ UNCHANGED <<keyboard, dialog, volumes, menu, seen, child, waiter, file,
                   sessions, byCommand, shown>>

Sleep ==
    /\ pc = "waitkey" /\ queue = << >>
    /\ pc' = "asleep"
    /\ UNCHANGED <<queue, keyboard, dialog, volumes, menu, seen, session, shown>>

(* pthread_cond_timedwait() returns, signalled or after a second, and      *)
(* VolumesChanged() reads v_changed ...                                    *)
WakeUp ==
    /\ pc = "asleep"
    /\ seen' = volsChanged /\ pc' = "checking"
    /\ UNCHANGED <<queue, keyboard, dialog, volumes, menu, session, shown>>

(* ... and clears it, according to what it read or to what it reads again. *)
(* A change that comes in between may be lost.  The last of 120 seconds    *)
(* without a key or a cable ends the menu if the text was never visible.   *)
CheckVolumes ==
    /\ pc = "checking"
    /\ volsChanged' \in IF seen THEN {FALSE} ELSE {volsChanged, FALSE}
    /\ \/ seen /\ Returned("refresh")
       \/ ~seen /\ pc' = "waitkey" /\ UNCHANGED item
       \/ ~seen /\ queue = << >> /\ ~textEver /\ Returned("item")
    /\ UNCHANGED <<queue, keyboard, dialog, menu, seen, child, waiter, file,
                   shown, byCommand, changes, sessions>>

-----------------------------------------------------------------------------
(* enter_sideload_mode(): start_sideload() forks minadbd and creates the   *)
(* thread that waits for it.                                               *)
StartSideload ==
    /\ pc = "start"
    /\ menu' = "sideload" /\ pc' = "flush"
    /\ child' = "running" /\ waiter' = "waiting"
    /\ sessions' = sessions + 1
    /\ UNCHANGED <<queue, keyboard, dialog, volumes, seen, item, file, byCommand, shown>>

(* minadbd: sideload_service() creates the file, fills it and exits; a     *)
(* broken transfer leaves it partial, and a failed exec leaves none.       *)
Minadbd ==
    /\ \/ child = "running" /\ child' = "receiving" /\ file' = "partial"
       \/ child = "receiving" /\ child' = "received" /\ file' = "complete"
       \/ child = "receiving" /\ child' = "running" /\ UNCHANGED file
       \/ child \in {"running", "received"} /\ child' = "exited" /\ UNCHANGED file
    /\ UNCHANGED <<queue, keyboard, dialog, volumes, pc, menu, seen, item,
                   waiter, sessions, byCommand, shown>>

(* adb_sideload_thread: waitpid() returns; CancelWaitKey().                *)
CancelIfRoom == IF HasRoom THEN Append(queue, Cancel) ELSE queue
WithCancel == Append(queue, Cancel)

CancelWaitKey ==
    /\ MutexFree /\ waiter = "waiting" /\ child = "exited"
    /\ queue' = WithCancel
    /\ waiter' = "finished"
    /\ UNCHANGED <<keyboard, dialog, volumes, pc, menu, seen, item, child, file,
                   sessions, byCommand, shown>>

(* stop_sideload(): kill(), pthread_join() and FlushKeys().  The signal    *)
(* ends minadbd wherever it is.                                            *)
Killed == "exited"

KillMinadbd ==
    /\ pc = "stop"
    /\ child' = Killed /\ pc' = "join"
    /\ UNCHANGED <<queue, keyboard, dialog, volumes, menu, seen, item, waiter,
                   file, sessions, byCommand, shown>>

JoinedAtOnce == TRUE
Joined == waiter = "finished"

JoinWaiter ==
    /\ pc = "join" /\ Joined
    /\ pc' = "flushkeys"
    /\ UNCHANGED <<queue, keyboard, dialog, volumes, menu, seen, session, shown>>

FlushAfterSideload ==
    /\ pc = "flushkeys"
    /\ queue' = << >>
    /\ menu' = "outer" /\ pc' = "apply"
    /\ UNCHANGED <<keyboard, dialog, volumes, seen, session, shown>>

(* The rest of enter_sideload_mode(): if the menu was cancelled,           *)
(* apply_from_adb() installs what is there and removes it.  The menu that  *)
(* asked shows a failure in a dialog; main() shows the text and its menus. *)
(* After a success nobody sees, the device reboots.                        *)
Statuses ==
    CASE item # "noaction" \/ file = "none" -> {"none"}
      [] item = "noaction" /\ file = "partial" -> {"error"}
      [] item = "noaction" /\ file = "complete" -> {"success", "error"}

ApplyFromAdb ==
    /\ pc = "apply"
    /\ file' = IF item = "noaction" THEN "none" ELSE file
    /\ \E status \in Statuses :
          LET reboots == status = "success" /\ ~text IN
          /\ pc' = IF reboots THEN "reboot" ELSE "flush"
          /\ dialog' = (dialog \/ (status = "error" /\ ~byCommand))
          /\ text' = (text \/ (byCommand /\ ~reboots))
          /\ textEver' = (textEver \/ text')
    /\ byCommand' = FALSE
    /\ UNCHANGED <<queue, keyboard, volumes, menu, seen, item, child, waiter,
                   sessions>>

(* main() has returned.                                                    *)
Rebooted == pc = "reboot" /\ UNCHANGED vars

Main == \/ FlushKeys \/ TakeKey \/ Sleep \/ WakeUp \/ CheckVolumes
        \/ StartSideload \/ KillMinadbd \/ JoinWaiter \/ FlushAfterSideload
        \/ ApplyFromAdb

Next == \/ /\ pc # "reboot"
           /\ \/ \E k \in Keys : Press(k) \/ Release(k)
              \/ ToggleText \/ EnqueueKey \/ TimeKey \/ NotifyVolumesChanged
              \/ Main \/ Minadbd \/ CancelWaitKey
        \/ Rebooted

Spec == Init /\ [][Next]_vars

(* Threads that can run do; the mutex is free whenever WaitKey() sleeps,   *)
(* and a thread that asks for it again and again gets it.                  *)
FairSpec == Spec /\ WF_vars(Main) /\ SF_vars(CancelWaitKey)

-----------------------------------------------------------------------------

(* A press is long only if its own 750 ms are over, not those of an        *)
(* earlier press of the same key (key_down_count tells them apart).        *)
LongPressOwn ==
    longPress /\ lastDown # NoKey =>
        [key |-> lastDown, count |-> downCount] \notin timers

(* A cancellation never outlives its sideload: outside of it, no menu can  *)
(* take the -2 of a sideload thread for its own, because stop_sideload()   *)
(* joins the thread before it flushes the keys.                            *)
NoStaleCancel ==
    menu = "outer" => Cancel \notin Range(queue) /\ waiter # "waiting"

WaitingInSideload ==
    menu = "sideload" /\ pc \in {"waitkey", "asleep", "checking"}

(* While the sideload menu waits, the end of minadbd ends the menu, with   *)
(* any keys typed before and any disks coming and going.                   *)
MenuEnds ==
    WaitingInSideload /\ waiter = "waiting" /\ child = "exited"
        ~> ~WaitingInSideload

=============================================================================
