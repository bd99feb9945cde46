----------------------------- MODULE VoldClient -----------------------------
(***************************************************************************)
(* The client of the volume daemon: voldclient/event_loop.cpp,             *)
(* dispatcher.cpp and commands.cpp.  Any thread of recovery sends commands *)
(* over one socket; a monitor thread reads replies and broadcasts, keeps   *)
(* the list of volumes, and mounts a disk that is inserted.                *)
(*                                                                         *)
(* What a thread does with the mutex held is one step.  pthread_cond_wait  *)
(* is a set of sleepers, of which pthread_cond_signal wakes one.           *)
(***************************************************************************)
EXTENDS Integers, Sequences, FiniteSets

CONSTANTS
    Volumes,        \* the volumes vold manages
    Main, Threads,  \* threads that send commands and wait for the result
    Monitor,        \* the event thread
    NoVolume,       \* "no volume", for commands and the monitor
    MaxOps,         \* bound: operations of the threads
    MaxEvents,      \* bound: disks inserted or removed
    MaxLosses       \* bound: deaths of vold

ASSUME ThreadsAssumption ==
    Main \in Threads /\ Monitor \notin Threads /\ NoVolume \notin Volumes
ASSUME VolumesAssumption == IsFiniteSet(Volumes)
ASSUME BoundsAssumption ==
    MaxOps \in Nat /\ MaxEvents \in Nat /\ MaxLosses \in Nat

(* Volume::State_*, with Busy for Pending, Checking, Unmounting and         *)
(* Formatting; a volume that is not listed reads as NoMedia.               *)
States == {"NoMedia", "Idle", "Busy", "Mounted"}
Senders == Threads \cup {Monitor}
Requests == [op : {"list", "mount", "unmount", "format"},
             vol : Volumes \cup {NoVolume}, by : Senders]
Codes == {"ok", "fail"}

VARIABLES
    real,       \* vold's own volume states
    toVold,     \* commands written to the socket
    fromVold,   \* lines not yet read by the monitor
    link,       \* is vold at the other end of the socket?
    known,      \* volume_head: [Volumes -> States \cup {"unlisted"}]
    listing,    \* is_listing_volumes
    inflight, result,   \* cmd_inflight, cmd_result
    waiting, woken,     \* sleepers on "completion", and those signalled
    pc,         \* where each thread is, see Labels
    left,       \* the volumes vold_unmount_all() has still to look at
    ret,        \* what vold_command returns to each thread
    reply,      \* history: vold's answer to each thread's last command
    automount,  \* should_automount
    inserted,   \* the volume the monitor is about to mount
    ops, events, losses

vars == <<real, toVold, fromVold, link, known, listing, inflight, result,
          waiting, woken, pc, left, ret, reply, automount, inserted,
          ops, events, losses>>
daemon == <<real, link, events, losses>>
threads == <<pc, left, ret, reply, automount, ops>>

(* "command" and "unmountwait" are inside vold_command(), the second below *)
(* vold_unmount_all(), after which the caller reboots.                     *)
Labels == {"start", "idle", "command", "returned", "unmounting",
           "unmountwait", "unmounted"}

(* Lines of vold: results of commands, items of a list, and broadcasts.    *)
Reply(code, by) == [type |-> "reply", vol |-> NoVolume, state |-> code, by |-> by]
Item(v) == [type |-> "item", vol |-> v, state |-> real[v], by |-> Monitor]
Changed(v, s) == [type |-> "changed", vol |-> v, state |-> s, by |-> Monitor]
DiskInserted(v) == [type |-> "inserted", vol |-> v, state |-> "Idle", by |-> Monitor]
DiskRemoved(v) == [type |-> "removed", vol |-> v, state |-> "NoMedia", by |-> Monitor]
Lines == [type : {"reply", "item", "changed", "inserted", "removed"},
          vol : Volumes \cup {NoVolume}, state : States \cup Codes, by : Senders]

(* The variables keep their types: the count of commands in flight is      *)
(* never negative.                                                         *)
TypeOK ==
    /\ real \in [Volumes -> States]
    /\ toVold \in Seq(Requests) /\ fromVold \in Seq(Lines)
    /\ link \in BOOLEAN /\ listing \in BOOLEAN
    /\ known \in [Volumes -> States \cup {"unlisted"}]
    /\ inflight \in Nat /\ result \in Codes
    /\ waiting \subseteq Threads /\ woken \subseteq Threads
    /\ pc \in [Threads -> Labels] /\ left \in [Threads -> SUBSET Volumes]
    /\ ret \in [Threads -> Codes] /\ reply \in [Threads -> Codes \cup {"none"}]
    /\ automount \in BOOLEAN /\ inserted \in Volumes \cup {NoVolume}
    /\ ops \in 0 .. MaxOps /\ events \in 0 .. MaxEvents /\ losses \in 0 .. MaxLosses

(* vold_client_start() has its monitor, and main is about to list.         *)
Init ==
    /\ real \in [Volumes -> {"NoMedia", "Idle"}]
    /\ toVold = << >> /\ fromVold = << >> /\ link = TRUE
    /\ known = [v \in Volumes |-> "unlisted"] /\ listing = FALSE
    /\ inflight = 0 /\ result = "ok"
    /\ waiting = {} /\ woken = {}
    /\ pc = [t \in Threads |-> "start"] /\ left = [t \in Threads |-> {}]
    /\ ret = [t \in Threads |-> "ok"] /\ reply = [t \in Threads |-> "none"]
    /\ automount = FALSE /\ inserted = NoVolume
    /\ ops = 0 /\ events = 0 /\ losses = 0

-----------------------------------------------------------------------------
(* vold_command().  A write to a socket without vold fails, and is counted *)
(* all the same.                                                           *)
Write(op, v, t) ==
    toVold' = IF link THEN Append(toVold, [op |-> op, vol |-> v, by |-> t])
              ELSE toVold

CountInflight == inflight' = inflight + 1

SendAndWait(op, v, t, at) ==
    /\ Write(op, v, t)
    /\ CountInflight
    /\ waiting' = waiting \cup {t}
    /\ pc' = [pc EXCEPT ![t] = at]
    /\ reply' = [reply EXCEPT ![t] = "none"]
    /\ UNCHANGED ret

Return(t, code) ==
    /\ pc' = [pc EXCEPT ![t] = "returned"]
    /\ ret' = [ret EXCEPT ![t] = code]
    /\ reply' = [reply EXCEPT ![t] = code]
    /\ UNCHANGED <<toVold, inflight, waiting>>

Rest == <<daemon, fromVold, known, listing, result, woken, inserted>>

(* vold_update_volumes(), called by vold_client_start().                   *)
UpdateVolumes ==
    /\ pc[Main] = "start"
    /\ SendAndWait("list", NoVolume, Main, "command")
    /\ UNCHANGED <<Rest, left, automount, ops>>

(* main(): vold_set_automount(1); the user interface and its threads come  *)
(* up after it.                                                            *)
SetAutomount ==
    /\ pc[Main] = "returned" /\ ~automount
    /\ automount' = TRUE
    /\ pc' = [t \in Threads |-> "idle"]
    /\ UNCHANGED <<Rest, toVold, inflight, waiting, left, ret, reply, ops>>

NewOp ==
    /\ automount /\ pc[Main] \in {"idle", "returned"}
    /\ ops < MaxOps /\ ops' = ops + 1
    /\ UNCHANGED <<left, automount>>

(* main's vold_mount_volume(path, 1), vold_unmount_volume(path, 0, 1) and  *)
(* vold_format_volume(path, 1), with the "auto" forms that name a volume   *)
(* by its label.                                                           *)
MountVolume(v) ==
    /\ NewOp
    /\ CASE known[v] = "Mounted" -> Return(Main, "ok")
         [] known[v] = "Idle" -> SendAndWait("mount", v, Main, "command")
         [] OTHER -> Return(Main, "fail")
    /\ UNCHANGED Rest

UnmountVolume(v) ==
    /\ NewOp
    /\ CASE known[v] = "Mounted" -> SendAndWait("unmount", v, Main, "command")
         [] known[v] = "Busy" -> Return(Main, "fail")
         [] OTHER -> Return(Main, "ok")
    /\ UNCHANGED Rest

FormatVolume(v) ==
    /\ NewOp
    /\ SendAndWait("format", v, Main, "command")
    /\ UNCHANGED Rest

(* vold_unmount_all(): main before it reboots, and the input thread when   *)
(* CheckKey() answers REBOOT, as that of RecoveryUI does (DefaultUI's      *)
(* never does).                                                            *)
UnmountAll(t) ==
    /\ automount /\ pc[t] \in {"idle", "returned"}
    /\ pc' = [pc EXCEPT ![t] = "unmounting"]
    /\ left' = [left EXCEPT ![t] = Volumes]
    /\ UNCHANGED <<Rest, toVold, inflight, waiting, ret, reply, automount, ops>>

UnmountNext(t) ==
    /\ pc[t] = "unmounting"
    /\ \E v \in left[t] :
          /\ left' = [left EXCEPT ![t] = @ \ {v}]
          /\ IF known[v] = "Mounted"
               THEN SendAndWait("unmount", v, t, "unmountwait")
               ELSE UNCHANGED <<toVold, inflight, waiting, pc, reply, ret>>
    /\ UNCHANGED <<Rest, automount, ops>>

UnmountedAll(t) ==
    /\ pc[t] = "unmounting" /\ left[t] = {}
    /\ pc' = [pc EXCEPT ![t] = "unmounted"]
    /\ UNCHANGED <<Rest, toVold, inflight, waiting, left, ret, reply, automount, ops>>

(* A signalled thread has the mutex again: "while (cmd_inflight)".         *)
StillInflightIgnored == FALSE
StillInflight == inflight # 0

Wake(t) ==
    /\ t \in woken
    /\ woken' = woken \ {t}
    /\ ret' = [ret EXCEPT ![t] = result]
    /\ IF StillInflight
         THEN waiting' = waiting \cup {t} /\ UNCHANGED pc
         ELSE /\ pc' = [pc EXCEPT ![t] = IF @ = "command" THEN "returned"
                                          ELSE "unmounting"]
              /\ UNCHANGED waiting
    /\ UNCHANGED <<daemon, toVold, fromVold, known, listing, inflight, result,
                   left, reply, automount, inserted, ops>>

-----------------------------------------------------------------------------
(* monitor(): the next line.  pthread_cond_signal wakes one sleeper.       *)
NoSignal == UNCHANGED <<waiting, woken>>
Signal ==
    \/ \E t \in waiting : waiting' = waiting \ {t} /\ woken' = woken \cup {t}
    \/ waiting = {} /\ UNCHANGED <<waiting, woken>>

Line == Head(fromVold)
Read(type) ==
    /\ fromVold # << >> /\ inserted = NoVolume
    /\ Line.type = type
    /\ fromVold' = Tail(fromVold)

(* A result code, 200 to 599; the first CommandOkay ends a listing.        *)
NewResult == Line.state

HandleResult ==
    /\ Read("reply")
    /\ listing' = (listing /\ Line.state # "ok")
    /\ result' = NewResult
    /\ inflight' = inflight - 1
    /\ Signal
    /\ reply' = IF Line.by \in Threads
                THEN [reply EXCEPT ![Line.by] = Line.state] ELSE reply
    /\ UNCHANGED <<daemon, toVold, known, pc, left, ret, automount, inserted, ops>>

(* vold_handle_volume_list(): the first item replaces the list.            *)
ListCleared == IF listing THEN known ELSE [v \in Volumes |-> "unlisted"]
HandleVolumeList ==
    /\ Read("item")
    /\ known' = [ListCleared EXCEPT ![Line.vol] = Line.state]
    /\ listing' = TRUE
    /\ UNCHANGED <<daemon, toVold, inflight, result, waiting, woken, threads, inserted>>

(* set_volume_state(): only a listed volume has a node to update.          *)
SetAvailableState(v, s) ==
    known' = IF known[v] \in {"unlisted", "NoMedia"} THEN known
             ELSE [known EXCEPT ![v] = s]
SetVolumeState(v, s) ==
    known' = IF known[v] = "unlisted" THEN known ELSE [known EXCEPT ![v] = s]

HandleVolumeStateChange ==
    /\ Read("changed")
    /\ SetVolumeState(Line.vol, Line.state)
    /\ UNCHANGED <<daemon, toVold, listing, inflight, result, waiting, woken,
                   threads, inserted>>

HandleVolumeRemoved ==
    /\ Read("removed")
    /\ SetVolumeState(Line.vol, Line.state)
    /\ UNCHANGED <<daemon, toVold, listing, inflight, result, waiting, woken,
                   threads, inserted>>

HandleVolumeInserted ==
    /\ Read("inserted")
    /\ SetVolumeState(Line.vol, Line.state)
    /\ inserted' = IF automount THEN Line.vol ELSE NoVolume
    /\ UNCHANGED <<daemon, toVold, listing, inflight, result, waiting, woken, threads>>

(* vold_mount_volume(path, false), from the monitor thread.                *)
Automount ==
    /\ inserted # NoVolume
    /\ inserted' = NoVolume
    /\ IF known[inserted] = "Idle"
         THEN Write("mount", inserted, Monitor) /\ CountInflight
         ELSE UNCHANGED <<toVold, inflight>>
    /\ UNCHANGED <<daemon, fromVold, known, listing, result, waiting, woken, threads>>

-----------------------------------------------------------------------------
(* vold, as the client sees it: it serves commands in order, and answers   *)
(* after the broadcasts that a command causes.                             *)
Outcomes(r) ==
    {[to |-> real, said |-> <<Reply("fail", r.by)>>]} \cup
    CASE r.op = "mount" /\ real[r.vol] = "Idle" ->
           {[to |-> [real EXCEPT ![r.vol] = "Mounted"],
             said |-> <<Changed(r.vol, "Busy"), Changed(r.vol, "Mounted"),
                       Reply("ok", r.by)>>]}
      [] r.op = "unmount" /\ real[r.vol] = "Mounted" ->
           {[to |-> [real EXCEPT ![r.vol] = "Idle"],
             said |-> <<Changed(r.vol, "Busy"), Changed(r.vol, "Idle"),
                       Reply("ok", r.by)>>]}
      [] r.op = "format" /\ real[r.vol] = "Idle" ->
           {[to |-> real, said |-> <<Reply("ok", r.by)>>]}
      [] OTHER -> {}

VoldServes ==
    /\ link /\ toVold # << >> /\ Head(toVold).op # "list"
    /\ toVold' = Tail(toVold)
    /\ \E o \in Outcomes(Head(toVold)) :
          real' = o.to /\ fromVold' = fromVold \o o.said
    /\ UNCHANGED <<link, known, listing, inflight, result, waiting, woken,
                   threads, inserted, events, losses>>

VoldLists ==
    /\ link /\ toVold # << >> /\ Head(toVold).op = "list"
    /\ toVold' = Tail(toVold)
    /\ \E order \in [1 .. Cardinality(Volumes) -> Volumes] :
          /\ \A v \in Volumes : \E i \in DOMAIN order : order[i] = v
          /\ fromVold' = fromVold \o [i \in DOMAIN order |-> Item(order[i])]
                                  \o <<Reply("ok", Head(toVold).by)>>
    /\ UNCHANGED <<daemon, known, listing, inflight, result, waiting, woken,
                   threads, inserted>>

VoldDisk(v) ==
    /\ link /\ events < MaxEvents /\ events' = events + 1
    /\ IF real[v] = "NoMedia"
         THEN /\ real' = [real EXCEPT ![v] = "Idle"]
              /\ fromVold' = fromVold \o <<DiskInserted(v), Changed(v, "Idle")>>
         ELSE /\ real' = [real EXCEPT ![v] = "NoMedia"]
              /\ fromVold' = Append(fromVold, DiskRemoved(v))
    /\ UNCHANGED <<toVold, link, known, listing, inflight, result, waiting,
                   woken, threads, inserted, losses>>

(* vold dies.  sock stays > 0, so vold_connect() never connects again.     *)
VoldDies ==
    /\ link /\ losses < MaxLosses /\ losses' = losses + 1
    /\ link' = FALSE /\ toVold' = << >>
    /\ UNCHANGED <<real, fromVold, known, listing, inflight, result, waiting,
                   woken, threads, inserted, events>>

-----------------------------------------------------------------------------
ThreadStep(t) == UnmountNext(t) \/ UnmountedAll(t) \/ Wake(t)
MainStep == UpdateVolumes \/ SetAutomount
MainOp == \E v \in Volumes : MountVolume(v) \/ UnmountVolume(v) \/ FormatVolume(v)
MonitorStep == \/ HandleResult \/ HandleVolumeList \/ HandleVolumeStateChange
               \/ HandleVolumeRemoved \/ HandleVolumeInserted \/ Automount
VoldStep == VoldServes \/ VoldLists

(* Nobody has anything to do but a user who may still ask for something.   *)
Quiet == /\ pc[Main] # "start" /\ \A t \in Threads : pc[t] # "unmounting"
         /\ fromVold = << >> /\ toVold = << >> /\ UNCHANGED vars

Next == \/ \E t \in Threads : ThreadStep(t) \/ UnmountAll(t)
        \/ MainStep \/ MainOp
        \/ MonitorStep \/ VoldStep
        \/ \E v \in Volumes : VoldDisk(v)
        \/ VoldDies \/ Quiet

Spec == Init /\ [][Next]_vars

(* Threads that can run do, and vold serves what it is sent.               *)
FairSpec == /\ Spec /\ WF_vars(MonitorStep) /\ WF_vars(VoldStep)
            /\ WF_vars(MainStep) /\ \A t \in Threads : WF_vars(ThreadStep(t))

-----------------------------------------------------------------------------
Replies == {i \in DOMAIN fromVold : fromVold[i].type = "reply"}

(* No thread returns from vold_command before vold has answered it.        *)
ReturnsAnswered ==
    \A t \in Threads :
        pc[t] \in {"returned", "unmounting", "unmounted"} =>
            t \notin {toVold[i].by : i \in DOMAIN toVold}
                \cup {fromVold[i].by : i \in Replies}

(* When every line has been read the client's list shows vold's states:    *)
(* no interleaving of a listing with disks coming and going leaves it with *)
(* a stale one.                                                            *)
ListAccurate ==
    fromVold = << >> /\ automount => \A v \in Volumes : known[v] = real[v]

(* "send a command to vold. waits for completion and returns result code   *)
(* if wait is 1": a command that waits returns.                            *)
CommandsReturn ==
    \A t \in Threads : pc[t] \in {"command", "unmountwait"}
                            ~> pc[t] \notin {"command", "unmountwait"}

(* vold_command() "waits for completion and returns result code" as long   *)
(* as at most one thread waits at a time.  It returns if vold lives: the   *)
(* replies to the monitor's automounts, which share the counter and the    *)
(* signal, never leave the waiter asleep.  And it returns vold's answer to *)
(* that command if no disk is mounted automatically.  (It is not enough    *)
(* that one command at a time is in flight: an automount that starts       *)
(* between the signal and the waiter's turn replaces cmd_result.)          *)
LoneCommandsReturn ==
    [](Cardinality(waiting \cup woken) <= 1) =>
        /\ [](losses = 0) => CommandsReturn
        /\ [](inserted = NoVolume) => [](\A t \in Threads : pc[t] = "returned" => ret[t] = reply[t])

=============================================================================
