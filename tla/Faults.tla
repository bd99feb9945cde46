------------------------------- MODULE Faults -------------------------------
(***************************************************************************)
(* One fault in a sequence of calls to the system.  A world is a record w  *)
(* whose field fail counts down to the call that fails (0: none does).  In *)
(* a world with w.power that call is the one during which the power goes   *)
(* off, after which w.off holds and no call does anything.                 *)
(***************************************************************************)
EXTENDS Integers

Fails(w) == w.off \/ w.fail = 1
Tick(w) == [w EXCEPT !.fail = IF @ = 0 THEN 0 ELSE @ - 1, !.off = @ \/ (w.power /\ w.fail = 1)]

(* What follows a call with the result [ok, w]: rest in the world it left  *)
(* if it succeeded, nothing if it failed; or rest whatever it gave.        *)
Then(r, rest(_)) == IF r.ok THEN rest(r.w) ELSE r
Given(r, rest(_)) == rest(r)

=============================================================================
