---------------------------- MODULE AtomicUpdate ----------------------------
(***************************************************************************)
(* What an update script promises, whatever happens while it runs: its     *)
(* jobs take effect one at a time, each at once, in the order of the       *)
(* script, and never again; it reports success when all have.  A restart   *)
(* forgets how far the script was, not which jobs have taken effect.       *)
(***************************************************************************)
EXTENDS Integers

CONSTANT NumJobs
VARIABLES patched, outcome

Jobs == 1 .. NumJobs
avars == <<patched, outcome>>

AInit == patched = {} /\ outcome = "running"

Patch ==
    /\ outcome = "running"
    /\ \E j \in Jobs \ patched :
          /\ 1 .. (j - 1) \subseteq patched
          /\ patched' = patched \cup {j}
    /\ UNCHANGED outcome

Succeed == /\ outcome = "running" /\ patched = Jobs
           /\ outcome' = "done" /\ UNCHANGED patched

Abort == /\ outcome = "running"
         /\ outcome' = "failed" /\ UNCHANGED patched

Rerun == outcome' = "running" /\ UNCHANGED patched

ANext == Patch \/ Succeed \/ Abort \/ Rerun

ASpec == AInit /\ [][ANext]_avars

=============================================================================
