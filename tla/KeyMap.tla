------------------------------- MODULE KeyMap -------------------------------
(***************************************************************************)
(* What a dictionary promises: a map from keys to values.  answer is what  *)
(* the last call returned; lost says that memory ran out, after which the  *)
(* map may not be used.                                                    *)
(***************************************************************************)
CONSTANTS Keys, Vals, NotThere
VARIABLES map, lost, answer

Init == map = [k \in {} |-> NotThere] /\ lost = FALSE /\ answer = NotThere

Get(k) ==
    /\ answer' = IF k \in DOMAIN map THEN map[k] ELSE NotThere
    /\ UNCHANGED <<map, lost>>

Set(k, v) ==
    /\ map' = [j \in DOMAIN map \cup {k} |-> IF j = k THEN v ELSE map[j]]
    /\ UNCHANGED <<lost, answer>>

Unset(k) == map' = [j \in DOMAIN map \ {k} |-> map[j]] /\ UNCHANGED <<lost, answer>>

Lose == lost' = TRUE /\ UNCHANGED <<map, answer>>

Next == ~lost /\ (Lose \/ \E k \in Keys : Get(k) \/ Unset(k) \/ \E v \in Vals : Set(k, v))

Spec == Init /\ [][Next]_<<map, lost, answer>>

=============================================================================
