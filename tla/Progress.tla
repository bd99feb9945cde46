------------------------------ MODULE Progress ------------------------------
(***************************************************************************)
(* The progress bar of screen_ui.cpp: main sets it, and a thread for each  *)
(* time it was turned on animates it and moves it forward with the time.   *)
(* What is done under updateMutex is one step; a thread looks at the type  *)
(* of the bar again without the mutex.  A fraction is a number of Full     *)
(* parts, a portion one of pixels of the bar.                              *)
(***************************************************************************)
EXTENDS Integers

CONSTANTS
    Full,           \* 1.0
    Portions,       \* of the bar that a scope may have
    BarWidth,       \* bound: the portions that are shown add up to no more
    LoopThreads     \* bound: progress threads that exist at a time

ASSUME ProgressAssumption ==
    Full \in Nat \ {0} /\ Portions \subseteq Nat /\ BarWidth \in Nat

VARIABLES
    bar,            \* progressBarType, progressScopeStart, -Size, progress,
                    \* whether -Duration > 0, and the time since -Time
    loops,          \* where each progress thread is
    installing      \* is main in install_package()?
gvars == <<bar, loops, installing>>

(* progressScopeTime and -Duration are not initialised.                    *)
ProgressInit ==
    /\ bar \in [type : {"EMPTY"}, start : {0}, size : {0}, progress : {0},
                timed : BOOLEAN, elapsed : 0 .. Full]
    /\ loops = [i \in LoopThreads |-> "none"] /\ installing = FALSE

Running == {i \in LoopThreads : loops[i] # "none"}

-----------------------------------------------------------------------------
NewThread(type) == type # "EMPTY" /\ bar.type # type

(* main turns the bar on to install or to erase, and off before a menu.    *)
SetProgressType(type) ==
    /\ bar' = [bar EXCEPT !.type = type, !.start = 0, !.size = 0, !.progress = 0]
    /\ IF NewThread(type)
         THEN \E i \in LoopThreads \ Running : loops' = [loops EXCEPT ![i] = "loop"]
         ELSE UNCHANGED loops
    /\ installing' = (type = "DETERMINATE")

ShowProgress(portion, timed) ==
    /\ installing /\ bar.start + bar.size + portion <= BarWidth
    /\ bar' = [bar EXCEPT !.type = "DETERMINATE", !.start = @ + bar.size, !.size = portion,
                          !.elapsed = 0, !.timed = timed, !.progress = 0]
    /\ UNCHANGED <<loops, installing>>

(* "Skip updates that aren't visibly different."                           *)
Pixel(fraction) == (fraction * bar.size) \div Full

SetProgress(fraction) ==
    /\ installing
    /\ bar.type = "DETERMINATE" /\ fraction > bar.progress /\ Pixel(fraction) # Pixel(bar.progress)
    /\ bar' = [bar EXCEPT !.progress = fraction]
    /\ UNCHANGED <<loops, installing>>

TimePasses ==
    /\ bar.elapsed < Full
    /\ bar' = [bar EXCEPT !.elapsed = @ + 1]
    /\ UNCHANGED <<loops, installing>>

(* progress_loop()                                                         *)
NotToTheEnd == IF bar.elapsed > bar.progress /\ bar.elapsed < Full THEN bar.elapsed ELSE bar.progress
Advanced == IF bar.elapsed > bar.progress THEN bar.elapsed ELSE bar.progress

LoopBody(i) ==
    /\ loops[i] = "loop"
    /\ bar' = IF bar.type = "DETERMINATE" /\ bar.timed THEN [bar EXCEPT !.progress = Advanced] ELSE bar
    /\ loops' = [loops EXCEPT ![i] = "check"]
    /\ UNCHANGED installing

Leaves == bar.type = "EMPTY"

LoopCheck(i) ==
    /\ loops[i] = "check"
    /\ loops' = [loops EXCEPT ![i] = IF Leaves THEN "leaving" ELSE "loop"]
    /\ UNCHANGED <<bar, installing>>

LoopEnd(i) ==
    /\ loops[i] = "leaving"
    /\ loops' = [loops EXCEPT ![i] = "none"]
    /\ UNCHANGED <<bar, installing>>

LoopStep(i) == LoopBody(i) \/ LoopCheck(i) \/ LoopEnd(i)

ProgressNext ==
    \/ \E type \in {"EMPTY", "INDETERMINATE", "DETERMINATE"} : SetProgressType(type)
    \/ \E portion \in Portions, timed \in BOOLEAN : ShowProgress(portion, timed)
    \/ \E fraction \in 0 .. Full : SetProgress(fraction)
    \/ TimePasses
    \/ \E i \in LoopThreads : LoopStep(i)

-----------------------------------------------------------------------------

TimedOut == bar.type = "DETERMINATE" /\ bar.timed /\ bar.elapsed = Full

(* "seconds - expected time interval (progress bar moves at this minimum   *)
(* rate)" (ui.h): once the time of a scope is over the bar is at its end,  *)
(* unless the scope is over too.                                           *)
TimedBarFills == TimedOut ~> (bar.progress = Full \/ ~TimedOut)

=============================================================================
