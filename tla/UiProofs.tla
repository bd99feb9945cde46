------------------------------ MODULE UiProofs ------------------------------
(***************************************************************************)
(* Proofs about the user interface: Menu, for menus of any length on       *)
(* screens of any height; Sideload, for any keys, queue length and number  *)
(* of presses and sideloads; and DictTable, where the settings behind the  *)
(* menus are kept, for any keys, values, first size and growth.            *)
(***************************************************************************)
EXTENDS Menu, Sideload, DictTable, FiniteSetTheorems, WellFoundedInduction, TLAPS

-----------------------------------------------------------------------------
(* The dictionary: n counts the slots in use, no key is in two of them,    *)
(* and the dictionary is a map from keys to values.  A step either puts a  *)
(* key into one slot or empties one (Puts, Takes), or fails for want of    *)
(* memory; that the slot that dictionary_set() fills was free needs the    *)
(* count.                                                                  *)
SlotValues == {FreeSlot} \cup (DictKeys \X DictVals)

(* What the three arrays and n are, and that they agree.                   *)
DictOK(d) ==
    /\ DOMAIN d = {"n", "size", "lost", "slot"}
    /\ d.n \in Nat /\ d.size \in Nat \ {0}
    /\ d.slot \in [0 .. d.size - 1 -> SlotValues]
    /\ d.n = Cardinality(Used(d)) /\ d.n <= d.size
    /\ \A i, j \in Used(d) : d.slot[i][1] = d.slot[j][1] => i = j

(* A slot that holds a key is not free.                                    *)
LEMMA PairNotFree ==
    ASSUME NEW k, NEW v PROVE <<k, v>> # FreeSlot
  BY DEF FreeSlot

(* There are as many slots as the size says.                               *)
LEMMA SlotsFinite ==
    ASSUME NEW n \in Nat \ {0}
    PROVE  IsFiniteSet(0 .. n - 1) /\ Cardinality(0 .. n - 1) = n
  <1>1. 0 \in Int /\ n - 1 \in Int /\ ~(0 > n - 1) /\ (n - 1) - 0 + 1 = n
    OBVIOUS
  <1> DEFINE m == n - 1
  <1>2. m \in Int /\ ~(0 > m) /\ m - 0 + 1 = n
    BY <1>1
  <1> HIDE DEF m
  <1>3. /\ IsFiniteSet(0 .. m)
        /\ Cardinality(0 .. m) = IF 0 > m THEN 0 ELSE m - 0 + 1
    BY <1>1, <1>2, FS_Interval
  <1>4. IsFiniteSet(0 .. m) /\ Cardinality(0 .. m) = n
    BY <1>2, <1>3
  <1> QED
    BY <1>4 DEF m

(* The slots in use are a finite set, of no more than size slots.          *)
LEMMA UsedFinite ==
    ASSUME NEW d, d.size \in Nat \ {0}
    PROVE  /\ IsFiniteSet(Used(d)) /\ Cardinality(Used(d)) \in Nat
           /\ Cardinality(Used(d)) <= d.size
           /\ Cardinality(Used(d)) = d.size => Used(d) = 0 .. d.size - 1
  <1>1. IsFiniteSet(0 .. d.size - 1) /\ Cardinality(0 .. d.size - 1) = d.size
    BY SlotsFinite
  <1>2. Used(d) \in SUBSET (0 .. d.size - 1)
    BY DEF Used
  <1>3. IsFiniteSet(Used(d))
    BY <1>1, <1>2, FS_Subset
  <1>4. /\ Cardinality(Used(d)) <= Cardinality(0 .. d.size - 1)
        /\ Cardinality(0 .. d.size - 1) = Cardinality(Used(d)) => 0 .. d.size - 1 = Used(d)
    BY <1>1, <1>2, FS_Subset
  <1> QED
    BY <1>1, <1>3, <1>4, FS_CardinalityType

(* The slot that a key is found in holds the key: there is but one.        *)
LEMMA SlotOfHolds ==
    ASSUME NEW d, DictOK(d), NEW k, Holding(d, k) # {}
    PROVE  SlotOf(d, k) \in Holding(d, k)
  <1>1. PICK i \in Holding(d, k) : TRUE
    OBVIOUS
  <1>2. \A j \in Holding(d, k) : i = j
    BY <1>1 DEF DictOK, Holding
  <1>3. \A j \in Holding(d, k) : i <= j
    BY <1>1, <1>2 DEF Holding, Used
  <1> QED
    BY <1>1, <1>3 DEF SlotOf

(* A set of natural numbers that is not empty has a smallest one.          *)
LEMMA LeastNatural ==
    ASSUME NEW T \in SUBSET Nat, T # {}
    PROVE  \E x \in T : \A y \in T : x <= y
  <1> DEFINE Less == {ss \in Nat \X Nat : ss[1] < ss[2]}
  <1>1. IsWellFoundedOn(Less, Nat)
    BY NatLessThanWellFounded, Zenon DEF OpToRel
  <1> HIDE DEF Less
  <1>2. PICK x \in T : \A y \in T : ~ (<<y, x>> \in Less)
    BY <1>1, WFMin, Zenon
  <1>3. \A y \in T : ~ (y < x)
    BY Zenon, <1>2 DEF Less
  <1> QED
    BY <1>2, <1>3

(* "Because d->n < d->size this will necessarily terminate."               *)
LEMMA EmptySlotIsEmpty ==
    ASSUME NEW d, DictOK(d), d.n < d.size
    PROVE  EmptySlot(d) \in (0 .. d.size - 1) \ Used(d)
  <1> DEFINE Free == (0 .. d.size - 1) \ Used(d)
             Steps == {StepsTo(d, i) : i \in Free}
  <1>1. Used(d) # 0 .. d.size - 1
    <2>1. SUFFICES ASSUME Used(d) = 0 .. d.size - 1 PROVE FALSE
      OBVIOUS
    <2>2. Cardinality(0 .. d.size - 1) = d.size
      BY SlotsFinite DEF DictOK
    <2> QED
      BY <2>1, <2>2 DEF DictOK
  <1>2. Free # {}
    BY <1>1 DEF Used
  <1>3. \A i \in Free : StepsTo(d, i) \in Nat
    BY DEF StepsTo, DictOK
  <1>4. Steps \in SUBSET Nat /\ Steps # {}
    BY <1>2, <1>3
  <1> HIDE DEF Steps
  <1>5. \E x \in Steps : \A y \in Steps : x <= y
    BY <1>4, LeastNatural
  <1> USE DEF Steps
  <1>6. \E i \in Free : \A j \in Free : StepsTo(d, i) <= StepsTo(d, j)
    BY <1>5
  <1> QED
    BY <1>6 DEF EmptySlot

-----------------------------------------------------------------------------
(* f is d with the key and the value in slot e.                            *)
Puts(d, f, e, k, v) ==
    /\ DictOK(f) /\ f.lost = d.lost
    /\ Used(f) = Used(d) \cup {e} /\ f.slot[e] = <<k, v>>
    /\ \A i \in Used(d) \ {e} : f.slot[i] = d.slot[i]

(* A key and its value put into a free slot.                               *)
LEMMA SlotFilled ==
    ASSUME NEW d, DictOK(d), NEW k \in DictKeys, NEW v \in DictVals, Holding(d, k) = {},
           NEW e \in (0 .. d.size - 1) \ Used(d)
    PROVE  Puts(d, [d EXCEPT !.slot[e] = <<k, v>>, !.n = @ + 1], e, k, v)
  <1> DEFINE f == [d EXCEPT !.slot[e] = <<k, v>>, !.n = @ + 1]
  <1>1. /\ DOMAIN f = {"n", "size", "lost", "slot"}
        /\ f.n = d.n + 1 /\ f.size = d.size /\ f.lost = d.lost
        /\ f.slot = [d.slot EXCEPT ![e] = <<k, v>>]
    BY DEF DictOK
  <1> HIDE DEF f
  <1>2. /\ f.slot \in [0 .. d.size - 1 -> SlotValues] /\ f.slot[e] = <<k, v>>
        /\ \A i \in (0 .. d.size - 1) \ {e} : f.slot[i] = d.slot[i]
    BY <1>1 DEF DictOK, SlotValues
  <1>3. Used(f) = Used(d) \cup {e}
    BY <1>1, <1>2, PairNotFree DEF Used
  <1>4. Cardinality(Used(f)) = Cardinality(Used(d)) + 1
    <2>1. IsFiniteSet(Used(d)) /\ e \notin Used(d)
      BY UsedFinite DEF DictOK
    <2> QED
      BY Zenon, <1>3, <2>1, FS_AddElement
  <1>5. f.n <= f.size
    BY <1>1, <1>4, UsedFinite DEF DictOK
  <1>6. ASSUME NEW i \in Used(f), NEW j \in Used(f), f.slot[i][1] = f.slot[j][1] PROVE i = j
    <2>1. \A h \in Used(d) : f.slot[h] = d.slot[h] /\ d.slot[h][1] # k
      BY <1>2 DEF Used, Holding
    <2>2. f.slot[e][1] = k
      BY <1>2
    <2> QED
      BY <1>3, <1>6, <2>1, <2>2 DEF DictOK
  <1>7. DictOK(f)
    BY <1>1, <1>2, <1>4, <1>5, <1>6 DEF DictOK
  <1>8. Puts(d, f, e, k, v)
    BY <1>1, <1>2, <1>3, <1>7 DEF Puts, Used
  <1> QED
    BY <1>8 DEF f

(* A larger array has the same slots in use.                               *)
LEMMA DoubledOK ==
    ASSUME NEW d, DictOK(d)
    PROVE  /\ DictOK(Doubled(d)) /\ Doubled(d).size = 2 * d.size /\ Doubled(d).n = d.n
           /\ \A k : Holding(Doubled(d), k) = Holding(d, k)
           /\ Doubled(d).lost = d.lost /\ Used(Doubled(d)) = Used(d)
           /\ \A i \in Used(d) : Doubled(d).slot[i] = d.slot[i]
  <1> DEFINE f == Doubled(d)
  <1>1. /\ DOMAIN f = {"n", "size", "lost", "slot"}
        /\ f.n = d.n /\ f.size = 2 * d.size /\ f.lost = d.lost
        /\ f.slot = [i \in 0 .. 2 * d.size - 1 |-> IF i < d.size THEN d.slot[i] ELSE FreeSlot]
    BY DEF DictOK, Doubled
  <1> HIDE DEF f
  <1>2. /\ f.slot \in [0 .. 2 * d.size - 1 -> SlotValues]
        /\ \A i \in 0 .. d.size - 1 : i \in 0 .. 2 * d.size - 1 /\ f.slot[i] = d.slot[i]
        /\ \A i \in 0 .. 2 * d.size - 1 : i \notin 0 .. d.size - 1 => f.slot[i] = FreeSlot
    BY <1>1 DEF DictOK, SlotValues
  <1>3. Used(f) = Used(d) /\ \A i \in Used(d) : f.slot[i] = d.slot[i]
    BY Zenon, <1>1, <1>2 DEF Used
  <1>4. \A k : Holding(f, k) = Holding(d, k)
    BY <1>3 DEF Holding
  <1>5. 2 * d.size \in Nat \ {0} /\ d.n <= 2 * d.size
    BY DEF DictOK
  <1>6. \A i, j \in Used(f) : f.slot[i][1] = f.slot[j][1] => i = j
    BY <1>3 DEF DictOK
  <1>7. DictOK(f)
    BY Zenon, <1>1, <1>2, <1>3, <1>5, <1>6 DEF DictOK
  <1> QED
    BY <1>1, <1>3, <1>4, <1>7 DEF f

(* The value of a key that is in a slot is replaced.                       *)
LEMMA SlotReplaced ==
    ASSUME NEW d, DictOK(d), NEW k \in DictKeys, NEW v \in DictVals, NEW e \in Holding(d, k)
    PROVE  Puts(d, [d EXCEPT !.slot[e] = <<k, v>>], e, k, v)
  <1> DEFINE f == [d EXCEPT !.slot[e] = <<k, v>>]
  <1>1. /\ DOMAIN f = {"n", "size", "lost", "slot"}
        /\ f.n = d.n /\ f.size = d.size /\ f.lost = d.lost
        /\ f.slot = [d.slot EXCEPT ![e] = <<k, v>>]
    BY DEF DictOK
  <1> HIDE DEF f
  <1>2. e \in Used(d) /\ e \in 0 .. d.size - 1 /\ d.slot[e][1] = k
    BY DEF Holding, Used
  <1>3. /\ f.slot \in [0 .. d.size - 1 -> SlotValues] /\ f.slot[e] = <<k, v>>
        /\ \A i \in (0 .. d.size - 1) \ {e} : f.slot[i] = d.slot[i]
    BY <1>1, <1>2 DEF DictOK, SlotValues
  <1>4. Used(f) = Used(d)
    BY <1>1, <1>2, <1>3, PairNotFree DEF Used
  <1>5. \A i \in Used(d) : f.slot[i][1] = d.slot[i][1]
    BY <1>2, <1>3 DEF Used
  <1>6. \A i, j \in Used(f) : f.slot[i][1] = f.slot[j][1] => i = j
    BY <1>4, <1>5 DEF DictOK
  <1>7. DictOK(f)
    BY <1>1, <1>3, <1>4, <1>6 DEF DictOK
  <1>8. Puts(d, f, e, k, v)
    BY <1>1, <1>2, <1>3, <1>4, <1>7 DEF Puts, Used
  <1> QED
    BY <1>8 DEF f

(* f is d without what was in slot e.                                      *)
Takes(d, f, e) ==
    /\ DictOK(f) /\ f.lost = d.lost
    /\ Used(f) = Used(d) \ {e} /\ \A i \in Used(d) \ {e} : f.slot[i] = d.slot[i]

(* A slot is emptied.                                                      *)
LEMMA SlotEmptied ==
    ASSUME NEW d, DictOK(d), NEW e \in Used(d)
    PROVE  Takes(d, [d EXCEPT !.slot[e] = FreeSlot, !.n = d.n - 1], e)
  <1> DEFINE f == [d EXCEPT !.slot[e] = FreeSlot, !.n = d.n - 1]
  <1>1. /\ DOMAIN f = {"n", "size", "lost", "slot"}
        /\ f.n = d.n - 1 /\ f.size = d.size /\ f.lost = d.lost
        /\ f.slot = [d.slot EXCEPT ![e] = FreeSlot]
    BY DEF DictOK
  <1> HIDE DEF f
  <1>2. e \in 0 .. d.size - 1
    BY DEF Used
  <1>3. /\ f.slot \in [0 .. d.size - 1 -> SlotValues] /\ f.slot[e] = FreeSlot
        /\ \A i \in (0 .. d.size - 1) \ {e} : f.slot[i] = d.slot[i]
    BY <1>1, <1>2 DEF DictOK, SlotValues
  <1>4. Used(f) = Used(d) \ {e}
    BY <1>1, <1>2, <1>3 DEF Used
  <1>5. Cardinality(Used(f)) = Cardinality(Used(d)) - 1
    BY ZenonT(60), <1>4, UsedFinite, FS_RemoveElement DEF DictOK
  <1>6. Cardinality(Used(f)) \in Nat /\ Cardinality(Used(f)) <= f.size
    BY <1>1, UsedFinite DEF DictOK
  <1>7. \A i, j \in Used(f) : f.slot[i][1] = f.slot[j][1] => i = j
    BY ZenonT(60), <1>3, <1>4 DEF DictOK, Used
  <1>8. DictOK(f)
    <2>1. d.n = Cardinality(Used(d)) /\ d.size \in Nat \ {0}
      BY DEF DictOK
    <2>2. f.n = Cardinality(Used(f)) /\ f.size \in Nat \ {0}
      BY <1>1, <1>5, <2>1
    <2>3. f.n \in Nat /\ f.n <= f.size
      BY <1>6, <2>2
    <2>4. f.slot \in [0 .. f.size - 1 -> SlotValues]
      BY <1>1, <1>3
    <2> QED
      BY Zenon, <1>1, <1>7, <2>2, <2>3, <2>4 DEF DictOK
  <1>9. Takes(d, f, e)
    BY <1>1, <1>3, <1>4, <1>8 DEF Takes, Used
  <1> QED
    BY <1>9 DEF f

-----------------------------------------------------------------------------
(* dictionary_set() fails for want of memory and changes nothing else, or  *)
(* puts the key into its slot or into a free one.                          *)
LEMMA SetEffect ==
    ASSUME NEW d, DictOK(d), NEW k \in DictKeys, NEW v \in DictVals, NEW mem,
           NEW f, f = dictionary_set(d, k, v, mem).d
    PROVE  \/ DictOK(f) /\ f.lost = TRUE /\ Used(f) = Used(d) /\ f.slot = d.slot
           \/ \E e : Puts(d, f, e, k, v) /\ (e \in Used(d) => d.slot[e][1] = k)
  <1>0. d.n = 0 => Used(d) = {}
    BY Zenon, UsedFinite, FS_EmptySet DEF DictOK
  <1>1. CASE d.n > 0 /\ Holding(d, k) # {}
    <2>1. SlotOf(d, k) \in Holding(d, k)
      BY <1>1, SlotOfHolds
    <2>2. f = [d EXCEPT !.slot[SlotOf(d, k)] = <<k, v>>]
      BY <1>1 DEF dictionary_set
    <2>3. Puts(d, f, SlotOf(d, k), k, v)
      BY <2>1, <2>2, SlotReplaced
    <2> QED
      BY <2>1, <2>3 DEF Holding
  <1>2. CASE ~(d.n > 0 /\ Holding(d, k) # {}) /\ d.n = d.size /\ ~mem
    <2>1. f = [d EXCEPT !.lost = TRUE]
      BY <1>2 DEF dictionary_set
    <2>2. DOMAIN f = DOMAIN d /\ f.n = d.n /\ f.size = d.size /\ f.slot = d.slot /\ f.lost = TRUE
      BY <2>1 DEF DictOK
    <2>3. Used(f) = Used(d)
      BY <2>2 DEF Used
    <2>4. DictOK(f)
      BY <2>2, <2>3 DEF DictOK
    <2> QED
      BY <2>2, <2>3, <2>4
  <1>3. CASE ~(d.n > 0 /\ Holding(d, k) # {}) /\ ~(d.n = d.size /\ ~mem)
    <2> DEFINE g == IF d.n = d.size THEN Doubled(d) ELSE d
    <2>1. f = [g EXCEPT !.slot[EmptySlot(g)] = <<k, v>>, !.n = @ + 1]
      BY <1>3 DEF dictionary_set
    <2>2. Holding(d, k) = {}
      BY <1>0, <1>3 DEF Holding, DictOK
    <2>3. DictOK(g) /\ g.n < g.size /\ Holding(g, k) = {}
      <3>1. DictOK(g) /\ Holding(g, k) = {}
        BY Zenon, <2>2, DoubledOK
      <3>2. d.n \in Nat /\ d.size \in Nat \ {0} /\ d.n <= d.size
        BY DEF DictOK
      <3>3. d.n = d.size => g.n = d.n /\ g.size = 2 * d.size
        BY Zenon, DoubledOK
      <3>4. d.n # d.size => g = d
        OBVIOUS
      <3> HIDE DEF g
      <3>5. g.n < g.size
        <4>1. ASSUME NEW m \in Nat, NEW s \in Nat \ {0}, m <= s
              PROVE  m < 2 * s /\ (m # s => m < s)
          BY <4>1
        <4>2. d.n < 2 * d.size
          BY Zenon, <3>2, <4>1
        <4>3. d.n # d.size => d.n < d.size
          BY Zenon, <3>2, <4>1
        <4> QED
          BY Zenon, <3>3, <3>4, <4>2, <4>3
      <3> QED
        BY Zenon, <3>1, <3>5
    <2>4. Used(g) = Used(d) /\ g.lost = d.lost /\ \A i \in Used(d) : g.slot[i] = d.slot[i]
      BY DoubledOK
    <2> HIDE DEF g
    <2>5. EmptySlot(g) \in (0 .. g.size - 1) \ Used(g)
      BY <2>3, EmptySlotIsEmpty
    <2>6. Puts(g, [g EXCEPT !.slot[EmptySlot(g)] = <<k, v>>, !.n = @ + 1], EmptySlot(g), k, v)
      BY Zenon, <2>3, <2>5, SlotFilled
    <2>7. Puts(d, f, EmptySlot(g), k, v)
      BY <2>1, <2>4, <2>6 DEF Puts
    <2> QED
      BY <2>4, <2>5, <2>7
  <1> QED
    BY Zenon, <1>1, <1>2, <1>3

(* dictionary_unset() empties the slot of the key, if it has one.          *)
LEMMA UnsetEffect ==
    ASSUME NEW d, DictOK(d), NEW k, NEW f, f = dictionary_unset(d, k)
    PROVE  \/ Holding(d, k) = {} /\ f = d
           \/ \E e \in Holding(d, k) : Takes(d, f, e)
  <1>1. CASE Holding(d, k) = {}
    BY <1>1 DEF dictionary_unset
  <1>2. CASE Holding(d, k) # {}
    <2>1. SlotOf(d, k) \in Holding(d, k) /\ SlotOf(d, k) \in Used(d)
      BY <1>2, SlotOfHolds DEF Holding
    <2>2. f = [d EXCEPT !.slot[SlotOf(d, k)] = FreeSlot, !.n = d.n - 1]
      BY <1>2 DEF dictionary_unset, OneLess
    <2>3. Takes(d, f, SlotOf(d, k))
      BY Zenon, <2>1, <2>2, SlotEmptied
    <2> QED
      BY <2>1, <2>3
  <1> QED
    BY <1>1, <1>2

(* A new dictionary is in order, and empty.                                *)
LEMMA NewOK == DictOK(dictionary_new) /\ Used(dictionary_new) = {} /\ dictionary_new.lost = FALSE
  <1> DEFINE f == dictionary_new
  <1>1. /\ DOMAIN f = {"n", "size", "lost", "slot"} /\ f.n = 0 /\ f.size = DICTMINSZ
        /\ f.slot = [i \in 0 .. DICTMINSZ - 1 |-> FreeSlot]
    BY DEF dictionary_new
  <1>0. f.lost = FALSE
    BY DEF dictionary_new
  <1> HIDE DEF f
  <1>2. Used(f) = {}
    BY <1>1 DEF Used
  <1>3. f.slot \in [0 .. f.size - 1 -> SlotValues]
    BY <1>1 DEF SlotValues
  <1>4. DictOK(f)
    BY <1>1, <1>2, <1>3, DictMinAssumption, FS_EmptySet DEF DictOK
  <1> QED
    BY <1>0, <1>2, <1>4 DEF f

(* The dictionary is in order in every state.                              *)
THEOREM DictAlwaysOK == DictSpec => []DictOK(dict)
  <1>1. DictInit => DictOK(dict)
    BY NewOK DEF DictInit
  <1>2. DictOK(dict) /\ [DictNext]_dvars => DictOK(dict)'
    <2> SUFFICES ASSUME DictOK(dict), [DictNext]_dvars PROVE DictOK(dict')
      OBVIOUS
    <2>1. ASSUME NEW k \in DictKeys, DictGet(k) PROVE DictOK(dict')
      BY <2>1 DEF DictGet
    <2>2. ASSUME NEW k \in DictKeys, NEW v \in DictVals, NEW mem \in BOOLEAN, DictSet(k, v, mem)
          PROVE  DictOK(dict')
      BY Zenon, <2>2, SetEffect DEF DictSet, Puts
    <2>3. ASSUME NEW k \in DictKeys, DictUnset(k) PROVE DictOK(dict')
      BY <2>3, UnsetEffect DEF DictUnset, Takes
    <2>4. CASE UNCHANGED dvars
      BY <2>4 DEF dvars
    <2> QED
      BY <2>1, <2>2, <2>3, <2>4 DEF DictNext
  <1> QED
    BY <1>1, <1>2, PTL DEF DictSpec

(* For every DICTMINSZ, and whatever the calls: n counts the slots in use  *)
(* (so that the search for a free slot in dictionary_set() ends), and no   *)
(* key is in two slots.                                                    *)
THEOREM SlotsAlwaysCounted == DictSpec => []SlotsCounted
  <1>1. DictOK(dict) => SlotsCounted
    BY DEF DictOK, SlotsCounted
  <1> QED
    BY <1>1, DictAlwaysOK, PTL

-----------------------------------------------------------------------------
(* dictionary_get() returns the value in the slot of the key.              *)
LEMMA GetValue ==
    ASSUME NEW d, DictOK(d), NEW k, NEW i \in Holding(d, k), NEW def
    PROVE  dictionary_get(d, k, def) = d.slot[i][2]
  <1>1. SlotOf(d, k) \in Holding(d, k)
    BY SlotOfHolds
  <1>2. SlotOf(d, k) = i
    BY <1>1 DEF Holding, DictOK
  <1> QED
    BY <1>2 DEF dictionary_get

(* Keys whose slots are the same have the same value.                      *)
LEMMA SameValue ==
    ASSUME NEW d, DictOK(d), NEW f, DictOK(f), NEW k, Holding(f, k) = Holding(d, k),
           \A i \in Holding(d, k) : f.slot[i] = d.slot[i]
    PROVE  dictionary_get(f, k, NotThere) = dictionary_get(d, k, NotThere)
  <1>1. CASE Holding(d, k) = {}
    BY <1>1 DEF dictionary_get
  <1>2. CASE Holding(d, k) # {}
    <2>1. PICK i \in Holding(d, k) : TRUE
      BY <1>2
    <2>2. dictionary_get(f, k, NotThere) = f.slot[i][2]
      BY <2>1, GetValue
    <2>3. dictionary_get(d, k, NotThere) = d.slot[i][2]
      BY <2>1, GetValue
    <2> QED
      BY <2>1, <2>2, <2>3
  <1> QED
    BY <1>1, <1>2

WithKey(m, k, v) == [j \in DOMAIN m \cup {k} |-> IF j = k THEN v ELSE m[j]]
WithoutKey(m, k) == [j \in DOMAIN m \ {k} |-> m[j]]

(* The map after a key was put into a slot.                                *)
LEMMA PutMap ==
    ASSUME NEW d, DictOK(d), NEW f, NEW e, NEW k \in DictKeys, NEW v,
           Puts(d, f, e, k, v), e \in Used(d) => d.slot[e][1] = k
    PROVE  MapOf(f) = WithKey(MapOf(d), k, v)
  <1>1. e \in Holding(f, k) /\ f.slot[e][2] = v /\ DictOK(f)
    BY DEF Puts, Holding
  <1>2. dictionary_get(f, k, NotThere) = v
    BY <1>1, GetValue
  <1>3. ASSUME NEW j \in DictKeys \ {k}
        PROVE  /\ Holding(f, j) = Holding(d, j)
               /\ \A i \in Holding(d, j) : f.slot[i] = d.slot[i]
    BY <1>3 DEF Puts, Holding
  <1>4. \A j \in DictKeys \ {k} : dictionary_get(f, j, NotThere) = dictionary_get(d, j, NotThere)
    BY <1>1, <1>3, SameValue
  <1> DEFINE A == {j \in DictKeys : Holding(d, j) # {}}
             B == {j \in DictKeys : Holding(f, j) # {}}
  <1>5. B = A \cup {k}
    BY <1>1, <1>3
  <1>6. DOMAIN MapOf(d) = A /\ \A j \in A : MapOf(d)[j] = dictionary_get(d, j, NotThere)
    BY DEF MapOf
  <1>7. MapOf(f) = [j \in B |-> dictionary_get(f, j, NotThere)]
    BY DEF MapOf
  <1>8. \A j \in B : dictionary_get(f, j, NotThere) = IF j = k THEN v ELSE MapOf(d)[j]
    BY <1>2, <1>4, <1>5, <1>6
  <1> HIDE DEF A, B
  <1> QED
    BY <1>5, <1>6, <1>7, <1>8 DEF WithKey

(* The map after the slot of a key was emptied.                            *)
LEMMA TakeMap ==
    ASSUME NEW d, DictOK(d), NEW f, NEW k \in DictKeys, NEW e \in Holding(d, k), Takes(d, f, e)
    PROVE  MapOf(f) = WithoutKey(MapOf(d), k)
  <1>1. Holding(d, k) = {e}
    BY DEF DictOK, Holding
  <1>2. Holding(f, k) = {}
    BY <1>1 DEF Takes, Holding
  <1>3. ASSUME NEW j \in DictKeys \ {k}
        PROVE  /\ Holding(f, j) = Holding(d, j)
               /\ \A i \in Holding(d, j) : f.slot[i] = d.slot[i]
    BY <1>1, <1>3 DEF Takes, Holding
  <1>4. \A j \in DictKeys \ {k} : dictionary_get(f, j, NotThere) = dictionary_get(d, j, NotThere)
    BY <1>3, SameValue DEF Takes
  <1> DEFINE A == {j \in DictKeys : Holding(d, j) # {}}
             B == {j \in DictKeys : Holding(f, j) # {}}
  <1>5. B = A \ {k}
    BY <1>2, <1>3
  <1>6. DOMAIN MapOf(d) = A /\ \A j \in A : MapOf(d)[j] = dictionary_get(d, j, NotThere)
    BY DEF MapOf
  <1>7. MapOf(f) = [j \in B |-> dictionary_get(f, j, NotThere)]
    BY DEF MapOf
  <1>8. \A j \in B : dictionary_get(f, j, NotThere) = MapOf(d)[j]
    BY <1>4, <1>5, <1>6
  <1> HIDE DEF A, B
  <1> QED
    BY <1>5, <1>6, <1>7, <1>8 DEF WithoutKey

(* A key that is not there is not in the map either.                       *)
LEMMA AbsentMap ==
    ASSUME NEW d, NEW k, Holding(d, k) = {}
    PROVE  MapOf(d) = WithoutKey(MapOf(d), k)
  BY DEF MapOf, WithoutKey

(* Every step of a dictionary is one of the map, or none.                  *)
LEMMA StepRefines ==
    ASSUME DictOK(dict), [DictNext]_dvars
    PROVE  [Map!Next]_<<MapOf(dict), dict.lost, got>>
  <1>1. ASSUME ~dict.lost, NEW k \in DictKeys, DictGet(k) PROVE Map!Next
    <2>1. got' = IF k \in DOMAIN MapOf(dict) THEN MapOf(dict)[k] ELSE NotThere
      BY <1>1 DEF DictGet, MapOf, dictionary_get
    <2>2. Map!Get(k)
      BY <1>1, <2>1 DEF DictGet, Map!Get
    <2> QED
      BY <1>1, <2>2 DEF Map!Next
  <1>2. ASSUME ~dict.lost, NEW k \in DictKeys, NEW v \in DictVals, NEW mem \in BOOLEAN,
               DictSet(k, v, mem)
        PROVE  Map!Next
    <2>1. dict' = dictionary_set(dict, k, v, mem).d /\ got' = got
      BY ZenonT(60), <1>2 DEF DictSet
    <2>2. CASE DictOK(dict') /\ dict'.lost = TRUE /\ Used(dict') = Used(dict) /\ dict'.slot = dict.slot
      <3>1. \A j \in DictKeys : Holding(dict', j) = Holding(dict, j)
        BY <2>2 DEF Holding
      <3>2. \A j \in DictKeys :
               dictionary_get(dict', j, NotThere) = dictionary_get(dict, j, NotThere)
        BY <2>2, <3>1, SameValue
      <3>3. MapOf(dict') = MapOf(dict)
        BY <3>1, <3>2 DEF MapOf
      <3> QED
        BY <1>2, <2>1, <2>2, <3>3 DEF Map!Next, Map!Lose
    <2>3. CASE \E e : Puts(dict, dict', e, k, v) /\ (e \in Used(dict) => dict.slot[e][1] = k)
      <3>1. PICK e : Puts(dict, dict', e, k, v) /\ (e \in Used(dict) => dict.slot[e][1] = k)
        BY <2>3
      <3>2. MapOf(dict') = WithKey(MapOf(dict), k, v)
        BY <3>1, PutMap
      <3>3. Map!Set(k, v)
        BY <2>1, <3>1, <3>2 DEF Map!Set, Puts, WithKey
      <3> QED
        BY SMTT(60), <1>2, <3>3 DEF Map!Next
    <2> QED
      BY Zenon, <2>1, <2>2, <2>3, SetEffect
  <1>3. ASSUME ~dict.lost, NEW k \in DictKeys, DictUnset(k) PROVE Map!Next
    <2>1. dict' = dictionary_unset(dict, k) /\ got' = got
      BY <1>3 DEF DictUnset
    <2>2. CASE Holding(dict, k) = {} /\ dict' = dict
      <3>1. MapOf(dict') = WithoutKey(MapOf(dict), k)
        BY <2>2, AbsentMap
      <3>2. Map!Unset(k)
        BY <2>1, <2>2, <3>1 DEF Map!Unset, WithoutKey
      <3> QED
        BY <1>3, <3>2 DEF Map!Next
    <2>3. CASE \E e \in Holding(dict, k) : Takes(dict, dict', e)
      <3>1. MapOf(dict') = WithoutKey(MapOf(dict), k)
        BY <2>3, TakeMap
      <3>2. Map!Unset(k)
        BY <2>1, <2>3, <3>1 DEF Map!Unset, Takes, WithoutKey
      <3> QED
        BY <1>3, <3>2 DEF Map!Next
    <2> QED
      BY <2>1, <2>2, <2>3, UnsetEffect
  <1>4. CASE UNCHANGED dvars
    BY <1>4 DEF dvars
  <1> QED
    BY <1>1, <1>2, <1>3, <1>4 DEF DictNext

(* For every DICTMINSZ: a dictionary is a map from keys to values, across  *)
(* the growth of its array and the holes that removals leave.              *)
THEOREM DictionaryIsMap == DictSpec => ImplementsKeyMap
  <1>1. DictInit => Map!Init
    <2> SUFFICES ASSUME DictInit PROVE Map!Init
      OBVIOUS
    <2>1. \A k : Holding(dict, k) = {}
      BY NewOK DEF DictInit, Holding
    <2>2. MapOf(dict) = [k \in {} |-> NotThere]
      BY <2>1 DEF MapOf
    <2> QED
      BY <2>2, NewOK DEF DictInit, Map!Init
  <1>2. DictOK(dict) /\ [DictNext]_dvars => [Map!Next]_<<MapOf(dict), dict.lost, got>>
    BY StepRefines
  <1> QED
    BY <1>1, <1>2, DictAlwaysOK, PTL DEF DictSpec, ImplementsKeyMap, Map!Spec

-----------------------------------------------------------------------------
(* The menus.                                                              *)
(* The items that StartMenu() copied are the caller's, or the first of     *)
(* them.                                                                   *)
Copied ==
    running => /\ menuItems \in 1 .. kMaxMenuRows /\ menuItems <= itemCount
               /\ itemCount > menuItems => menuItems = kMaxMenuRows

(* The view outlives a menu; all that is known then is that it does not    *)
(* start before the first item.                                            *)
MenuInv ==
    /\ MenuTyped /\ Copied /\ menuShowStart >= 0
    /\ SelectionValid /\ ViewValid /\ ChosenValid /\ TouchedItem

(* The two halves of the type invariant.                                   *)
Numbers ==
    /\ menuItems \in 0 .. kMaxMenuRows /\ menuSel \in Int /\ menuShowStart \in Int
    /\ itemCount \in Nat /\ selected \in Int /\ chosen \in Int
    /\ touched \in Nat \cup {kNoAction, Nothing}
Flags ==
    /\ showMenu \in BOOLEAN /\ running \in BOOLEAN /\ rootMenu \in BOOLEAN
    /\ showText \in BOOLEAN /\ showTextEver \in BOOLEAN

(* One wrap is enough: a selection that is one item too far, or an item of *)
(* the view plus a row of the screen, ends up in the menu.                 *)
LEMMA WrapInRange ==
    ASSUME menuItems \in Nat \ {0}, NEW s \in Int,
           s >= -1, s <= 2 * menuItems - 1
    PROVE  /\ Wrapped(s) \in 0 .. menuItems - 1
           /\ s \in 0 .. menuItems - 1 => Wrapped(s) = s
  BY DEF Wrapped

(* SelectMenu() moves the view so that the selected item is on it.         *)
LEMMA ViewFollows ==
    ASSUME menuItems \in Nat \ {0}, NEW s \in 0 .. menuItems - 1,
           menuShowStart \in 0 .. menuItems - 1
    PROVE  /\ View(s) \in 0 .. menuItems - 1
           /\ s \in View(s) .. View(s) + MaxMenuRows - 1
  BY RowsAssumption DEF View

(* A menu that starts, starts with a view on one of its items.             *)
LEMMA StartViewValid ==
    ASSUME NEW n \in Nat \ {0}, NEW s \in 0 .. n - 1, menuShowStart \in Nat
    PROVE  StartView(s) \in 0 .. n - 1
  BY RowsAssumption DEF StartView

(* The invariant holds before the first menu.                              *)
LEMMA MenuInvInit == MenuInit => MenuInv
  <1> SUFFICES ASSUME MenuInit PROVE MenuInv
    OBVIOUS
  <1>1. Numbers /\ Copied /\ menuShowStart >= 0 /\ SelectionValid /\ ViewValid
    BY RowsAssumption DEF MenuInit, Numbers, Copied, SelectionValid, ViewValid, kNoAction
  <1>2. ChosenValid /\ TouchedItem
    BY DEF MenuInit, ChosenValid, TouchedItem, kNoAction
  <1>3. Flags
    BY Zenon DEF MenuInit, Flags
  <1> QED
    BY <1>1, <1>2, <1>3, Zenon DEF MenuInv, MenuTyped, Flags, Numbers

(* A touched row plus the start of the view is in reach of one wrap.       *)
LEMMA TouchInReach ==
    ASSUME MenuInv, running, NEW row \in 0 .. TouchRows - 1, row < itemCount
    PROVE  TouchSelection(row) \in 0 .. 2 * menuItems - 2
  <1>1. row <= menuItems - 1
    BY RowsAssumption DEF MenuInv, Copied, MenuTyped
  <1> QED
    BY <1>1 DEF MenuInv, ViewValid, MenuTyped, TouchSelection

(* The flags stay Boolean.                                                 *)
LEMMA FlagsNext == Flags /\ [MenuNext]_mvars => Flags'
  <1> SUFFICES ASSUME Flags, [MenuNext]_mvars PROVE Flags'
    OBVIOUS
  <1> USE DEF Flags
  <1>1. CASE StartMenu
    BY <1>1 DEF StartMenu, shownText
  <1>2. CASE HighlightUp \/ HighlightDown \/ ScrollUp \/ ScrollDown
    BY <1>2 DEF HighlightUp, HighlightDown, ScrollUp, ScrollDown, shownText
  <1>3. CASE InvokeItem \/ GoBack \/ Touch \/ Timeout
    BY Zenon, <1>3 DEF InvokeItem, GoBack, Touch, Timeout, EndMenu, shownText
  <1>4. CASE Interrupted
    BY Zenon, <1>4 DEF Interrupted, shownText
  <1>5. CASE ShowText
    BY <1>5 DEF ShowText, screen
  <1>6. CASE UNCHANGED mvars
    BY <1>6 DEF mvars
  <1> QED
    BY <1>1, <1>2, <1>3, <1>4, <1>5, <1>6 DEF MenuNext

(* What SelectMenu() does to a valid selection and view.                   *)
LEMMA SelectMenuEffect ==
    ASSUME MenuInv, running, NEW s \in Int, s >= -1, s <= 2 * menuItems - 1,
           SelectMenu(s)
    PROVE  /\ menuItems' = menuItems
           /\ menuSel' \in 0 .. menuItems - 1 /\ selected' = menuSel'
           /\ menuShowStart' \in 0 .. menuItems - 1
           /\ menuSel' \in menuShowStart' .. menuShowStart' + MaxMenuRows - 1
           /\ s \in 0 .. menuItems - 1 => menuSel' = s
  <1>1. menuItems \in Nat \ {0} /\ menuShowStart \in 0 .. menuItems - 1
    BY RowsAssumption DEF MenuInv, Copied, ViewValid, MenuTyped
  <1> QED
    BY <1>1, WrapInRange, ViewFollows DEF SelectMenu

(* Every key, touch, timeout and interruption preserves the invariant.     *)
LEMMA MenuInvNext == MenuInv /\ [MenuNext]_mvars => MenuInv'
  <1> DEFINE Rest == /\ Numbers /\ Copied /\ menuShowStart >= 0
                     /\ SelectionValid /\ ViewValid /\ ChosenValid /\ TouchedItem
  <1> SUFFICES ASSUME MenuInv, [MenuNext]_mvars PROVE MenuInv'
    OBVIOUS
  <1>1. Flags' /\ Flags /\ Numbers
    BY FlagsNext, Zenon DEF MenuInv, MenuTyped, Flags, Numbers
  <1>2. Rest
    BY <1>1 DEF MenuInv
  <1> USE DEF Numbers, Copied, SelectionValid, ViewValid, ChosenValid,
              TouchedItem, kNoAction, Nothing
  <1>3. CASE StartMenu
    <2>1. PICK n \in MenuSizes :
             /\ itemCount' = n
             /\ menuItems' = IF n <= kMaxMenuRows THEN n ELSE kMaxMenuRows
      BY <1>3 DEF StartMenu, CopiedItems
    <2>2. /\ menuItems' \in 1 .. kMaxMenuRows /\ menuItems' <= itemCount'
          /\ itemCount' > menuItems' => menuItems' = kMaxMenuRows
          /\ itemCount' \in Nat /\ menuItems' \in Nat \ {0}
      BY <2>1, SizesAssumption, RowsAssumption
    <2>3. /\ selected' \in 0 .. menuItems' - 1 /\ menuSel' = selected'
          /\ menuShowStart' = StartView(selected')
          /\ running' /\ chosen' = kNoAction /\ touched' = kNoAction
      BY <1>3 DEF StartMenu
    <2>4. menuShowStart \in Nat
      BY <1>2
    <2>5. menuShowStart' \in 0 .. menuItems' - 1
      BY Zenon, <2>2, <2>3, <2>4, StartViewValid
    <2>6. Numbers'
      BY <2>2, <2>3, <2>5
    <2>7. Copied' /\ SelectionValid' /\ ViewValid'
      BY <2>2, <2>3, <2>5, Zenon
    <2>8. menuShowStart' >= 0 /\ ChosenValid' /\ TouchedItem'
      BY <2>2, <2>3, <2>5
    <2>9. Rest'
      BY Zenon, <2>6, <2>7, <2>8
    <2> QED
      BY <1>1, <2>9, Zenon DEF MenuInv, MenuTyped, Flags, Numbers
  <1>4. CASE HighlightUp \/ HighlightDown
    <2>1. PICK s \in {selected - 1, selected + 1} :
             /\ running /\ touched' = kNoAction /\ SelectMenu(s)
             /\ itemCount' = itemCount /\ chosen' = chosen /\ running' = running
      BY <1>4 DEF HighlightUp, HighlightDown, Handled
    <2>2. s \in Int /\ s >= -1 /\ s <= 2 * menuItems - 1
      BY <1>2, <2>1
    <2>3. /\ menuItems' = menuItems
          /\ menuSel' \in 0 .. menuItems - 1 /\ selected' = menuSel'
          /\ menuShowStart' \in 0 .. menuItems - 1
      BY Zenon, <2>1, <2>2, SelectMenuEffect
    <2>4. Rest'
      BY <1>2, <2>1, <2>3
    <2> QED
      BY <1>1, <2>4, Zenon DEF MenuInv, MenuTyped, Flags, Numbers
  <1>5. CASE ScrollUp \/ ScrollDown
    <2>1. Rest'
      BY SMTT(60), <1>2, <1>5, RowsAssumption DEF ScrollUp, ScrollDown, Handled
    <2> QED
      BY <1>1, <2>1, Zenon DEF MenuInv, MenuTyped, Flags, Numbers
  <1>6. CASE InvokeItem \/ GoBack \/ Timeout \/ Interrupted
    <2>1. Rest'
      BY <1>2, <1>6 DEF InvokeItem, GoBack, Timeout, Interrupted, EndMenu,
                        Handled, screen, kGoBack, kRefresh
    <2> QED
      BY <1>1, <2>1, Zenon DEF MenuInv, MenuTyped, Flags, Numbers
  <1>7. CASE Touch
    <2>1. PICK row \in 0 .. TouchRows - 1 :
             /\ row < itemCount /\ SelectMenu(TouchSelection(row))
             /\ touched' = RowItem(row) /\ EndMenu(selected')
      BY <1>7 DEF Touch
    <2>2. running /\ itemCount' = itemCount
      BY <1>7 DEF Touch
    <2>3. TouchSelection(row) \in 0 .. 2 * menuItems - 2
      BY <2>1, <2>2, TouchInReach
    <2>4. /\ menuItems' = menuItems
          /\ menuSel' \in 0 .. menuItems - 1 /\ selected' = menuSel'
          /\ menuShowStart' \in 0 .. menuItems - 1
          /\ TouchSelection(row) \in 0 .. menuItems - 1
                 => menuSel' = TouchSelection(row)
      BY SMTT(60), <1>2, <2>1, <2>2, <2>3, SelectMenuEffect
    <2>5. /\ touched' \in Nat \cup {Nothing}
          /\ touched' >= 0 => touched' = TouchSelection(row)
                              /\ TouchSelection(row) \in 0 .. menuItems - 1
      BY SMTT(60), <1>2, <2>1, <2>2, RowsAssumption DEF RowItem, Rows, TouchSelection
    <2>6. Rest'
      BY SMTT(60), <1>2, <2>1, <2>2, <2>4, <2>5 DEF EndMenu
    <2> QED
      BY <1>1, <2>6, Zenon DEF MenuInv, MenuTyped, Flags, Numbers
  <1>8. CASE ShowText \/ UNCHANGED mvars
    <2>1. Rest'
      BY <1>2, <1>8 DEF ShowText, mvars, screen
    <2> QED
      BY <1>1, <2>1, Zenon DEF MenuInv, MenuTyped, Flags, Numbers
  <1> QED
    BY <1>3, <1>4, <1>5, <1>6, <1>7, <1>8 DEF MenuNext

-----------------------------------------------------------------------------
(* Every reachable state satisfies the invariant.                          *)
THEOREM MenuCorrect == MenuSpec => []MenuInv
  BY MenuInvInit, MenuInvNext, PTL DEF MenuSpec

(* The highlighted item is one of the menu's, on the screen and in         *)
(* get_menu_selection() alike, for any sequence of keys, touches and menus.*)
THEOREM HighlightInMenu == MenuSpec => []SelectionValid
  <1>1. MenuInv => SelectionValid
    BY DEF MenuInv
  <1> QED
    BY <1>1, MenuCorrect, PTL

(* The view starts at an item of the menu, whatever menu it was left by.   *)
THEOREM ViewInMenu == MenuSpec => []ViewValid
  <1>1. MenuInv => ViewValid
    BY DEF MenuInv
  <1> QED
    BY <1>1, MenuCorrect, PTL

(* get_menu_selection() returns no index beyond the caller's list.         *)
THEOREM ChoiceInList == MenuSpec => []ChosenValid
  <1>1. MenuInv => ChosenValid
    BY DEF MenuInv
  <1> QED
    BY <1>1, MenuCorrect, PTL

(* A touch on an item invokes that item.                                   *)
THEOREM TouchInvokes == MenuSpec => []TouchedItem
  <1>1. MenuInv => TouchedItem
    BY DEF MenuInv
  <1> QED
    BY <1>1, MenuCorrect, PTL

(* A highlight that moves is on the screen afterwards.                     *)
THEOREM HighlightVisible == MenuSpec => HighlightShown
  <1> DEFINE Shown ==
        running /\ selected' # selected /\ running' =>
            menuSel' \in menuShowStart' .. menuShowStart' + MaxMenuRows - 1
  <1>1. MenuInv /\ [MenuNext]_mvars => [Shown]_mvars
    <2> SUFFICES ASSUME MenuInv, MenuNext, running, running', selected' # selected
                 PROVE  menuSel' \in menuShowStart' .. menuShowStart' + MaxMenuRows - 1
      BY ZenonT(60)
    <2>1. HighlightUp \/ HighlightDown
      BY DEF MenuNext, StartMenu, ScrollUp, ScrollDown, InvokeItem, GoBack, Touch,
             Timeout, Interrupted, EndMenu, ShowText
    <2>2. PICK s \in {selected - 1, selected + 1} : SelectMenu(s)
      BY <2>1 DEF HighlightUp, HighlightDown
    <2>3. s \in Int /\ s >= -1 /\ s <= 2 * menuItems - 1
      BY <2>2 DEF MenuInv, SelectionValid, MenuTyped
    <2> QED
      BY <2>2, <2>3, SelectMenuEffect
  <1> QED
    BY <1>1, MenuCorrect, PTL DEF MenuSpec, HighlightShown

-----------------------------------------------------------------------------
(* The key queue and the sideload.                                         *)
(* What the argument needs of the types: what the queue holds, and what    *)
(* the input thread may append to it.                                      *)
QueueTyped ==
    queue \in Seq(Keys \cup {Cancel}) /\ typed \in Keys \cup {NoKey}

NoCancelQueued == \A i \in 1 .. Len(queue) : queue[i] # Cancel

(* The inductive strengthening of NoStaleCancel: the keys are flushed only *)
(* after the thread that queues the cancellation has ended.                *)
CancelInv ==
    /\ QueueTyped
    /\ menu = "outer" => NoCancelQueued /\ waiter # "waiting"
    /\ pc = "flushkeys" => waiter = "finished"

(* The queue holds no -2 exactly when -2 is not among its entries.         *)
LEMMA NoCancelMeans ==
    ASSUME queue \in Seq(Keys \cup {Cancel})
    PROVE  NoCancelQueued <=> Cancel \notin Range(queue)
BY DEF NoCancelQueued, Range

LEMMA CancelInvInit == Init => CancelInv
BY DEF Init, CancelInv, QueueTyped, NoCancelQueued, Cancel, NoKey

(* A step of the input thread appends no -2.                               *)
LEMMA EnqueueKeeps == CancelInv /\ EnqueueKey => CancelInv'
<1> SUFFICES ASSUME CancelInv, EnqueueKey PROVE CancelInv'
  OBVIOUS
<1>1. typed \in Keys /\ typed # Cancel /\ typed' = NoKey
  BY KeysAssumption DEF EnqueueKey
<1>2. UNCHANGED <<menu, waiter, pc>>
  BY DEF EnqueueKey, session
<1>3. queue' = queue \/ queue' = Append(queue, typed)
  BY DEF EnqueueKey
<1>4. QueueTyped'
  BY <1>1, <1>3 DEF CancelInv, QueueTyped
<1>5. NoCancelQueued => NoCancelQueued'
  BY <1>1, <1>3 DEF CancelInv, QueueTyped, NoCancelQueued
<1> QED
  BY <1>2, <1>4, <1>5 DEF CancelInv

(* WaitKey() takes a key from the head of the queue.                       *)
LEMMA TakeKeeps == CancelInv /\ TakeKey => CancelInv'
<1> SUFFICES ASSUME CancelInv, TakeKey PROVE CancelInv'
  OBVIOUS
<1>1. queue # << >> /\ queue' = Tail(queue) /\ UNCHANGED <<typed, menu, waiter>>
  BY DEF TakeKey, keyboard
<1>2. pc' # "flushkeys"
  BY DEF TakeKey, Returned
<1>3. QueueTyped'
  BY <1>1 DEF CancelInv, QueueTyped
<1>4. NoCancelQueued => NoCancelQueued'
  BY <1>1 DEF CancelInv, QueueTyped, NoCancelQueued
<1> QED
  BY <1>1, <1>2, <1>3, <1>4 DEF CancelInv

(* The sideload thread queues -2 only while its sideload lasts.            *)
LEMMA CancelKeeps == CancelInv /\ CancelWaitKey => CancelInv'
<1> SUFFICES ASSUME CancelInv, CancelWaitKey PROVE CancelInv'
  OBVIOUS
<1>1. waiter = "waiting" /\ waiter' = "finished" /\ UNCHANGED <<typed, menu, pc>>
  BY DEF CancelWaitKey, keyboard
<1>2. QueueTyped'
  BY <1>1 DEF CancelWaitKey, WithCancel, CancelInv, QueueTyped
<1>3. menu # "outer"
  BY <1>1 DEF CancelInv
<1> QED
  BY <1>1, <1>2, <1>3 DEF CancelInv

(* The two flushes empty the queue.                                        *)
LEMMA FlushKeeps ==
    CancelInv /\ (FlushKeys \/ FlushAfterSideload) => CancelInv'
<1> SUFFICES ASSUME CancelInv, FlushKeys \/ FlushAfterSideload PROVE CancelInv'
  OBVIOUS
<1>1. queue' = << >> /\ typed' = typed /\ waiter' = waiter /\ pc' # "flushkeys"
  BY DEF FlushKeys, FlushAfterSideload, keyboard, session
<1>2. QueueTyped' /\ NoCancelQueued'
  BY <1>1 DEF CancelInv, QueueTyped, NoCancelQueued
<1>3. menu' = "outer" => waiter' # "waiting"
  BY <1>1 DEF CancelInv, FlushKeys, FlushAfterSideload
<1> QED
  BY <1>1, <1>2, <1>3 DEF CancelInv

(* Every other step leaves the queue alone.                                *)
LEMMA OthersKeep ==
    ASSUME CancelInv, queue' = queue, typed' \in Keys \cup {NoKey},
           menu' = "outer" => menu = "outer" /\ waiter' = waiter,
           pc' = "flushkeys" => waiter' = "finished"
    PROVE  CancelInv'
BY DEF CancelInv, QueueTyped, NoCancelQueued

LEMMA CancelInvNext == CancelInv /\ [Next]_vars => CancelInv'
<1> SUFFICES ASSUME CancelInv, [Next]_vars PROVE CancelInv'
  OBVIOUS
<1> USE DEF keyboard, session, shown, volumes
<1>0. typed \in Keys \cup {NoKey} /\ (pc = "flushkeys" => waiter = "finished")
  BY DEF CancelInv, QueueTyped
<1>1. ASSUME NEW k \in Keys, Press(k) PROVE CancelInv'
  BY <1>0, <1>1, OthersKeep DEF Press
<1>2. ASSUME NEW k \in Keys, Release(k) PROVE CancelInv'
  BY <1>0, <1>2, OthersKeep DEF Release
<1>3. CASE ToggleText
  BY <1>0, <1>3, OthersKeep DEF ToggleText
<1>4. CASE EnqueueKey
  BY <1>4, EnqueueKeeps
<1>5. CASE TimeKey
  BY <1>0, <1>5, OthersKeep DEF TimeKey
<1>6. CASE NotifyVolumesChanged
  BY <1>0, <1>6, OthersKeep DEF NotifyVolumesChanged
<1>7. CASE FlushKeys \/ FlushAfterSideload
  BY <1>7, FlushKeeps
<1>8. CASE TakeKey
  BY <1>8, TakeKeeps
<1>9. CASE Sleep \/ WakeUp
  BY <1>0, <1>9, OthersKeep DEF Sleep, WakeUp
<1>10. CASE CheckVolumes
  BY <1>0, <1>10, OthersKeep DEF CheckVolumes, Returned
<1>11. CASE StartSideload
  BY <1>0, <1>11, OthersKeep DEF StartSideload
<1>12. CASE Minadbd
  BY <1>0, <1>12, OthersKeep DEF Minadbd
<1>13. CASE CancelWaitKey
  BY <1>13, CancelKeeps
<1>14. CASE KillMinadbd
  BY <1>0, <1>14, OthersKeep DEF KillMinadbd
<1>15. CASE JoinWaiter
  BY <1>0, <1>15, OthersKeep DEF JoinWaiter, Joined
<1>16. CASE ApplyFromAdb
  BY SMTT(60), <1>0, <1>16, OthersKeep DEF ApplyFromAdb
<1>17. CASE UNCHANGED vars
  BY <1>0, <1>17, OthersKeep DEF vars
<1> QED
  BY ZenonT(60), <1>1, <1>2, <1>3, <1>4, <1>5, <1>6, <1>7, <1>8, <1>9, <1>10, <1>11, <1>12,
     <1>13, <1>14, <1>15, <1>16, <1>17 DEF Next, Main, Rebooted

(* No menu outside a sideload can take the -2 that CancelWaitKey() queued  *)
(* for it: stop_sideload() joins the thread and then flushes the keys.     *)
THEOREM CancelsEndWithSideload == Spec => []NoStaleCancel
<1>1. CancelInv => NoStaleCancel
  BY Zenon, NoCancelMeans DEF CancelInv, QueueTyped, NoStaleCancel
<1> QED
  BY <1>1, CancelInvInit, CancelInvNext, PTL DEF Spec

-----------------------------------------------------------------------------
(* A sideload is started from outside of one.                              *)
StartsOutside == pc = "start" => menu = "outer"

(* The inductive strengthening of the bound on the queue: only the thread  *)
(* of a sideload that still lasts has written beyond QueueMax entries.     *)
QueueInv ==
    /\ CancelInv /\ StartsOutside
    /\ Len(queue) <= QueueMax
           \/ (Len(queue) = QueueMax + 1 /\ menu # "outer" /\ waiter = "finished")

(* CancelWaitKey() does not look at the length of key_queue, yet never     *)
(* writes more than one entry beyond the QueueMax that EnqueueKey() fills. *)
QueueBounded == Len(queue) <= QueueMax + 1

LEMMA QueueInvNext == QueueInv /\ [Next]_vars => QueueInv'
<1> SUFFICES ASSUME QueueInv, [Next]_vars PROVE QueueInv'
  OBVIOUS
<1> USE DEF keyboard, session, shown, volumes, QueueInv
<1>0. CancelInv' /\ Len(queue) \in Nat /\ QueueMax \in Nat
  <2>1. CancelInv'
    BY Zenon, CancelInvNext
  <2>2. queue \in Seq(Keys \cup {Cancel})
    BY Zenon DEF CancelInv, QueueTyped
  <2> QED
    BY <2>1, <2>2, BoundsAssumption
<1>1. StartsOutside'
  BY ZenonT(60) DEF Next, Main, StartsOutside, Press, Release, ToggleText, EnqueueKey, TimeKey,
         NotifyVolumesChanged, FlushKeys, TakeKey, Returned, Sleep, WakeUp,
         CheckVolumes, StartSideload, Minadbd, CancelWaitKey, KillMinadbd,
         JoinWaiter, FlushAfterSideload, ApplyFromAdb, Rebooted, vars
<1>2. CASE EnqueueKey
  <2>1. queue' = queue \/ (Len(queue) < QueueMax /\ queue' = Append(queue, typed))
    BY <1>2 DEF EnqueueKey, HasRoom
  <2>2. Len(queue') = Len(queue) \/ Len(queue') <= QueueMax
    BY <1>0, <2>1 DEF CancelInv, QueueTyped
  <2> QED
    BY <1>0, <1>1, <1>2, <2>2 DEF EnqueueKey
<1>3. CASE TakeKey
  <2>1. Len(queue') < Len(queue) /\ Len(queue') \in Nat
    BY <1>0, <1>3 DEF TakeKey, CancelInv, QueueTyped
  <2> QED
    BY <1>0, <1>1, <2>1
<1>4. CASE CancelWaitKey
  <2>1. waiter = "waiting" /\ waiter' = "finished" /\ menu # "outer" /\ menu' = menu
    BY <1>4 DEF CancelWaitKey, CancelInv
  <2>2. Len(queue) <= QueueMax
    BY <2>1
  <2>3. Len(queue') = Len(queue) + 1
    BY <1>4 DEF CancelWaitKey, WithCancel, CancelInv, QueueTyped
  <2> QED
    BY <1>0, <1>1, <2>1, <2>2, <2>3
<1>5. CASE FlushKeys \/ FlushAfterSideload
  BY SMTT(60), <1>0, <1>1, <1>5 DEF FlushKeys, FlushAfterSideload
<1>6. CASE StartSideload
  BY <1>0, <1>1, <1>6 DEF StartSideload, StartsOutside
<1>7. CASE UNCHANGED <<queue, menu, waiter>>
  BY <1>0, <1>1, <1>7
<1> QED
  BY ZenonT(60), <1>2, <1>3, <1>4, <1>5, <1>6, <1>7
     DEF Next, Main, Press, Release, ToggleText, TimeKey, NotifyVolumesChanged,
         Sleep, WakeUp, CheckVolumes, Minadbd, KillMinadbd, JoinWaiter,
         ApplyFromAdb, Rebooted, vars

(* The key queue holds at most one entry more than its array, whatever is  *)
(* typed while minadbd ends.                                               *)
THEOREM CancelOverrunsByOne == Spec => []QueueBounded
<1>1. Init => QueueInv
  BY CancelInvInit, BoundsAssumption DEF Init, QueueInv, StartsOutside
<1>2. QueueInv => QueueBounded
  BY BoundsAssumption DEF QueueInv, CancelInv, QueueTyped, QueueBounded
<1> QED
  BY <1>1, <1>2, QueueInvNext, PTL DEF Spec

-----------------------------------------------------------------------------
(* A sleeping time_key() is known by its key and its count.                *)
LongPressInv == timers \subseteq [key : Keys, count : Nat] /\ downCount \in Nat
                    /\ LongPressOwn

(* A press that counts as long has slept its own 750 ms: process_key()     *)
(* clears key_long_press, and time_key() sets it for the press it was      *)
(* started for and no other.                                               *)
THEOREM LongPressesOwn == Spec => []LongPressOwn
<1>1. Init => LongPressInv
  <2>1. Init => timers = {} /\ downCount = 0
    BY Zenon DEF Init
  <2>2. Init => LongPressOwn
    BY Zenon DEF Init, LongPressOwn
  <2>3. 0 \in Nat
    OBVIOUS
  <2> QED
    BY Zenon, <2>1, <2>2, <2>3 DEF LongPressInv
<1>2. LongPressInv /\ [Next]_vars => LongPressInv'
  <2> SUFFICES ASSUME LongPressInv, [Next]_vars PROVE LongPressInv'
    OBVIOUS
  <2> USE DEF LongPressInv, LongPressOwn
  <2>1. ASSUME NEW k \in Keys, Press(k) PROVE LongPressInv'
    BY <2>1 DEF Press
  <2>2. ASSUME NEW k \in Keys, Release(k) PROVE LongPressInv'
    BY <2>2 DEF Release, LastDownForgotten
  <2>3. CASE TimeKey
    <3>1. PICK t \in timers : /\ timers' = timers \ {t}
                              /\ longPress' = (longPress \/ SamePress(t))
      BY Zenon, <2>3 DEF TimeKey
    <3>2. UNCHANGED <<lastDown, downCount>>
      BY <2>3 DEF TimeKey
    <3>3. SamePress(t) => t = [key |-> lastDown, count |-> downCount]
      BY Zenon DEF SamePress
    <3> QED
      BY ZenonT(60), <3>1, <3>2, <3>3
  <2>4. CASE UNCHANGED <<lastDown, downCount, longPress, timers>>
    BY <2>4
  <2> QED
    BY ZenonT(60), <2>1, <2>2, <2>3, <2>4
       DEF Next, Main, ToggleText, EnqueueKey, NotifyVolumesChanged, FlushKeys,
           TakeKey, Sleep, WakeUp, CheckVolumes, StartSideload, Minadbd,
           CancelWaitKey, KillMinadbd, JoinWaiter, FlushAfterSideload, ApplyFromAdb,
           Rebooted, keyboard, vars
<1>3. LongPressInv => LongPressOwn
  BY DEF LongPressInv
<1> QED
  BY <1>1, <1>2, <1>3, PTL DEF Spec
=============================================================================
