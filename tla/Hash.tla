-------------------------------- MODULE Hash --------------------------------
(***************************************************************************)
(* The hash table of minzip/Hash.c: open addressing with linear probing,   *)
(* tombstones, and a table that doubles when live and dead entries pass    *)
(* 5/8 of it.  A table is a record [slot, num, dead]; a slot is Empty,     *)
(* Tombstone, or an Entry.                                                 *)
(***************************************************************************)
EXTENDS Integers, FiniteSets, SequencesExt

Empty == [kind |-> "NULL"]
Tombstone == [kind |-> "HASH_TOMBSTONE"]
Entry(hash, item) == [kind |-> "entry", hash |-> hash, data |-> item]
NotFound == << >>       \* a search returns << >> or <<item>>

TableSize(t) == Cardinality(DOMAIN t.slot)
Live(e) == e.kind = "entry"
Entries(t) == {i \in DOMAIN t.slot : Live(t.slot[i])}
Contents(t) == {t.slot[i].data : i \in Entries(t)}

(* mzHashSize(): the capacity that holds size elements.                    *)
HashSize(size) == (size * 8) \div 5 + 1

(* roundUpPower2(): the bits below the highest one of val - 1 are set, and *)
(* one is added.                                                           *)
RoundUpPower2(val) == CHOOSE p \in {2 ^ k : k \in 0 .. 16} : p >= val /\ p < 2 * val

NewSlots(size) == [i \in 0 .. size - 1 |-> Empty]

TableCreate(initialSize) == [slot |-> NewSlots(RoundUpPower2(initialSize)), num |-> 0, dead |-> 0]

TableClear(t) == [slot |-> NewSlots(TableSize(t)), num |-> 0, dead |-> 0]

(* The index at which a search that starts at the hash's own slot and      *)
(* wraps around ends: at the first slot that is empty or one of stops.     *)
Probe(slot, hash, stops) ==
    LET size == Cardinality(DOMAIN slot)
        Ends(k) == LET i == (hash + k) % size IN slot[i] = Empty \/ i \in stops IN
    (hash + CHOOSE k \in 0 .. size - 1 : Ends(k) /\ \A j \in 0 .. k - 1 : ~Ends(j)) % size

(* resizeHash(): the entries are put into a new array in the order of the  *)
(* old one; tombstones are dropped.                                        *)
Reinsert(slot, e) ==
    IF Live(e) THEN [slot EXCEPT ![Probe(slot, e.hash, {})] = e] ELSE slot

TableResize(t, newSize) ==
    [t EXCEPT !.slot = FoldLeft(Reinsert, NewSlots(newSize),
                                [i \in 1 .. TableSize(t) |-> t.slot[i - 1]]),
              !.dead = 0]

(* The table is too close to full.                                         *)
Overloaded(t) == (t.num + t.dead) * 8 > TableSize(t) * 5

Added(t, i, itemHash, item) ==
    LET a == [t EXCEPT !.slot[i] = Entry(itemHash, item), !.num = @ + 1] IN
    IF Overloaded(a) THEN TableResize(a, TableSize(a) * 2) ELSE a

(* mzHashTableLookup(): [table, found].  equals are the items for which    *)
(* cmpFunc says that they are the one looked for.                          *)
EqualSlots(t, itemHash, equals) ==
    {i \in Entries(t) : t.slot[i].hash = itemHash /\ t.slot[i].data \in equals}

TableLookup(t, itemHash, item, equals, doAdd) ==
    LET i == Probe(t.slot, itemHash, EqualSlots(t, itemHash, equals)) IN
    CASE t.slot[i] # Empty -> [table |-> t, found |-> <<t.slot[i].data>>]
      [] t.slot[i] = Empty /\ doAdd -> [table |-> Added(t, i, itemHash, item), found |-> <<item>>]
      [] OTHER -> [table |-> t, found |-> NotFound]

(* mzHashTableRemove(): the item itself, not one that compares equal.      *)
EmptyBehind == Empty
Behind == Tombstone

TableRemove(t, itemHash, item) ==
    LET i == Probe(t.slot, itemHash, {j \in Entries(t) : t.slot[j].data = item}) IN
    IF t.slot[i] = Empty THEN [table |-> t, removed |-> FALSE]
    ELSE [table |-> [t EXCEPT !.slot[i] = Behind, !.num = @ - 1, !.dead = @ + 1],
          removed |-> TRUE]

=============================================================================
