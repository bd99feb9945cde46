---------------------------- MODULE Dictionary ------------------------------
(***************************************************************************)
(* cot/iniparser/dictionary.c: an array of slots that is searched from its *)
(* start, filled from slot n on and doubled when it is full.  A slot is    *)
(* << >> or <<key, value>>; a value is << >> (NULL) or <<text>>.  The hash *)
(* that is stored with a key only speeds the comparison up.                *)
(***************************************************************************)
EXTENDS Integers

CONSTANT DICTMINSZ      \* the size of a new dictionary

ASSUME DictMinAssumption == DICTMINSZ \in Nat \ {0}

FreeSlot == << >>
NoValue == << >>

dictionary_new ==
    [n |-> 0, size |-> DICTMINSZ, lost |-> FALSE, slot |-> [i \in 0 .. DICTMINSZ - 1 |-> FreeSlot]]

Used(d) == {i \in 0 .. d.size - 1 : d.slot[i] # FreeSlot}
Holding(d, key) == {i \in Used(d) : d.slot[i][1] = key}

(* The first slot with the key.                                            *)
SlotOf(d, key) == CHOOSE i \in Holding(d, key) : \A j \in Holding(d, key) : i <= j

dictionary_get(d, key, def) ==
    IF Holding(d, key) = {} THEN def ELSE d.slot[SlotOf(d, key)][2]

(* mem_double(), three times: the new half is empty.                       *)
Doubled(d) ==
    [d EXCEPT !.size = 2 * d.size,
              !.slot = [i \in 0 .. 2 * d.size - 1 |-> IF i < d.size THEN d.slot[i] ELSE FreeSlot]]

Unwrapped(d) == d.n

(* Start at n and wrap at size: how many slots are passed on the way to i. *)
StepsTo(d, i) == IF i >= d.n THEN i - d.n ELSE (i + d.size) - d.n

EmptySlot(d) ==
    CHOOSE i \in (0 .. d.size - 1) \ Used(d) :
        \A j \in (0 .. d.size - 1) \ Used(d) : StepsTo(d, i) <= StepsTo(d, j)

(* mem: whether there is memory for a larger array.  When there is none    *)
(* an array is lost, and the next call will follow a NULL pointer.         *)
dictionary_set(d, key, val, mem) ==
    IF d.n > 0 /\ Holding(d, key) # {}
    THEN [rc |-> 0, d |-> [d EXCEPT !.slot[SlotOf(d, key)] = <<key, val>>]]
    ELSE IF d.n = d.size /\ ~mem
    THEN [rc |-> -1, d |-> [d EXCEPT !.lost = TRUE]]
    ELSE LET g == IF d.n = d.size THEN Doubled(d) ELSE d IN
         [rc |-> 0, d |-> [g EXCEPT !.slot[EmptySlot(g)] = <<key, val>>, !.n = @ + 1]]

OneLess(d) == d.n - 1

dictionary_unset(d, key) ==
    IF Holding(d, key) = {} THEN d
    ELSE [d EXCEPT !.slot[SlotOf(d, key)] = FreeSlot, !.n = OneLess(d)]

=============================================================================
