----------------------------- MODULE DictTable ------------------------------
(***************************************************************************)
(* A dictionary under any sequence of calls, against the map it stands for.*)
(***************************************************************************)
EXTENDS Dictionary, FiniteSets

CONSTANTS DictKeys, DictVals, NotThere,
          MaxDict       \* bound: no call that would grow the dictionary beyond it

VARIABLES dict, got
dvars == <<dict, got>>

DictInit == dict = dictionary_new /\ got = NotThere

DictGet(k) == got' = dictionary_get(dict, k, NotThere) /\ UNCHANGED dict

DictSet(k, v, mem) ==
    LET r == dictionary_set(dict, k, v, mem) IN
    /\ r.d.size <= MaxDict
    /\ dict' = r.d
    /\ UNCHANGED got

DictUnset(k) == dict' = dictionary_unset(dict, k) /\ UNCHANGED got

DictNext ==
    /\ ~dict.lost
    /\ \E k \in DictKeys :
        \/ DictGet(k)
        \/ \E v \in DictVals, mem \in BOOLEAN : DictSet(k, v, mem)
        \/ DictUnset(k)

DictSpec == DictInit /\ [][DictNext]_dvars

-----------------------------------------------------------------------------
(* "Because d->n < d->size this will necessarily terminate."               *)
(* (dictionary.c:266): n counts the slots that are taken, holes left by    *)
(* dictionary_unset() included in neither, so that a key which is added    *)
(* finds a free slot; and no key is in two slots, of which only the first  *)
(* would ever be read, replaced or removed.                                *)
SlotsCounted ==
    /\ dict.n = Cardinality(Used(dict)) /\ dict.n <= dict.size
    /\ \A i, j \in Used(dict) : dict.slot[i][1] = dict.slot[j][1] => i = j

MapOf(d) == [k \in {k \in DictKeys : Holding(d, k) # {}} |-> dictionary_get(d, k, NotThere)]
Map == INSTANCE KeyMap WITH Keys <- DictKeys, Vals <- DictVals, map <- MapOf(dict), lost <- dict.lost, answer <- got

(* Whatever the order of the calls, and across the growth of the array,    *)
(* no key is lost or confused with another: the dictionary is a map.       *)
ImplementsKeyMap == Map!Spec

=============================================================================
