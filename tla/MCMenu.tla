------------------------------- MODULE MCMenu -------------------------------
(***************************************************************************)
(* The four parts of the screen, which share no state: menus shorter and   *)
(* longer than a screen of three rows, and one that StartMenu() cuts; a    *)
(* panel of three by three places; a progress bar; and a log of three rows.*)
(* A behaviour is one of one of them.                                      *)
(***************************************************************************)
EXTENDS Menu, Progress, TextLog, TouchPanel

MCMenuSizes == {1, 2, 3, 5, 8}
MCPanelMax == [x |-> 2, y |-> 2]
MCFb == [x |-> 5, y |-> 6]
MCVirtualKey == [min |-> [x |-> 0, y |-> 6], max |-> [x |-> 1, y |-> 7]]
MCFewPoints == {[x |-> 0, y |-> 0], [x |-> 2, y |-> 2]}
MCMessages == {<<"a">>, <<"b", "c", "nl">>, <<"a", "b", "c", "nl", "nl">>}

VARIABLE part
allvars == <<part, mvars, gvars, lvars, tvars>>

ProgressIdle ==
    /\ bar = [type |-> "EMPTY", start |-> 0, size |-> 0, progress |-> 0, timed |-> FALSE, elapsed |-> Full]
    /\ loops = [i \in LoopThreads |-> "none"] /\ installing = FALSE

MCInit ==
    /\ part \in {"menu", "progress", "log", "touch"}
    /\ MenuInit /\ LogInit /\ TouchInit
    /\ IF part = "progress" THEN ProgressInit ELSE ProgressIdle
    /\ part # "touch" => panel.kind = "A" /\ ~panel.btn

MenuPart == part = "menu" /\ MenuNext /\ UNCHANGED <<part, gvars, lvars, tvars>>
ProgressPart == part = "progress" /\ ProgressNext /\ UNCHANGED <<part, mvars, lvars, tvars>>
LogPart == part = "log" /\ LogNext /\ UNCHANGED <<part, mvars, gvars, tvars>>
TouchPart == part = "touch" /\ TouchNext /\ UNCHANGED <<part, mvars, gvars, lvars>>
MCNext == MenuPart \/ ProgressPart \/ LogPart \/ TouchPart

(* A thread that is not blocked runs.                                       *)
LoopRuns(i) == part = "progress" /\ LoopStep(i) /\ UNCHANGED <<part, mvars, lvars, tvars>>
MCSpec ==
    /\ MCInit /\ [][MCNext]_allvars
    /\ \A i \in LoopThreads : WF_allvars(LoopRuns(i))

=============================================================================
