----------------------------- MODULE HashTable ------------------------------
(***************************************************************************)
(* A hash table under any sequence of lookups, additions, removals and     *)
(* clearings, against the set it stands for.                               *)
(***************************************************************************)
EXTENDS Hash

CONSTANTS Items,                \* what may be stored
          ItemKey, ItemHash,    \* functions: what the items are compared by, their hashes
          MaxTable              \* bound: no call that would grow the table beyond it

VARIABLES table, answer
hvars == <<table, answer>>

SameItem(i, j) == ItemKey[i] = ItemKey[j]

HashInit == table = TableCreate(1) /\ answer = NotFound

HashLookup(i, doAdd) ==
    LET r == TableLookup(table, ItemHash[i], i, {j \in Items : SameItem(j, i)}, doAdd) IN
    /\ TableSize(r.table) <= MaxTable
    /\ table' = r.table
    /\ answer' = r.found

HashRemove(i) ==
    LET r == TableRemove(table, ItemHash[i], i) IN
    /\ table' = r.table
    /\ answer' = IF r.removed THEN <<i>> ELSE NotFound

HashClear == table' = TableClear(table) /\ answer' = NotFound

HashNext ==
    \/ HashClear
    \/ \E i \in Items :
        \/ \E doAdd \in BOOLEAN : HashLookup(i, doAdd)
        \/ HashRemove(i)

HashSpec == HashInit /\ [][HashNext]_hvars

-----------------------------------------------------------------------------

Set == INSTANCE ItemSet WITH set <- Contents(table), Same <- SameItem

(* Tombstones, probing past them and moving every entry when the table     *)
(* grows never lose, duplicate or confuse an item: the table behaves as a  *)
(* set of items, and each call returns what the set would.                 *)
ImplementsItemSet == Set!Spec

=============================================================================
