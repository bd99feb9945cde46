------------------------------ MODULE ItemSet -------------------------------
(***************************************************************************)
(* What a hash table promises: a set of items no two of which compare      *)
(* equal.  answer is what the last call returned: << >> or <<item>>.       *)
(***************************************************************************)
CONSTANTS Items, Same(_, _)
VARIABLES set, answer

Init == set = {} /\ answer = << >>

Equals(i) == {j \in set : Same(j, i)}

Find(i) == set' = set /\ answer' \in IF Equals(i) = {} THEN {<< >>} ELSE {<<j>> : j \in Equals(i)}

Add(i) ==
    \/ Equals(i) # {} /\ Find(i)
    \/ Equals(i) = {} /\ set' = set \cup {i} /\ answer' = <<i>>

Delete(i) == set' = set \ {i} /\ answer' = IF i \in set THEN <<i>> ELSE << >>

DeleteAll == set' = {} /\ answer' = << >>

Next == DeleteAll \/ \E i \in Items : Find(i) \/ Add(i) \/ Delete(i)

Spec == Init /\ [][Next]_<<set, answer>>

=============================================================================
