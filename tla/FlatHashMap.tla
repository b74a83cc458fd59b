----------------------------- MODULE FlatHashMap -----------------------------
(***************************************************************************)
(* src/include/FastNet/FlatHashMap.h: the open-addressing table in which   *)
(* EventPoller keeps the callbacks of its descriptors and IoUringPoller    *)
(* those of its operations.  Robin Hood insertion, deletion by backward    *)
(* shift.  A table t has slots 0..cap-1; psl is 0 in an empty slot and     *)
(* else one more than the distance of its element from its home.           *)
(*                                                                         *)
(* Every assignment of hashes to keys is an initial state, so that keys    *)
(* collide in all ways, round the end of the table included.               *)
(***************************************************************************)
EXTENDS Integers, FiniteSetsExt

CONSTANTS Key, Value,
          HashValues,   \* hashes, after the mixing of hashOf()
          PslMax,       \* kPslMax
          MaxCapacity,  \* bound on the growth of the table
          Reserved      \* arguments of reserve()

VARIABLES
    m,         \* the table
    hash,      \* hashOf()
    contents,  \* history: what was put and not erased
    it,        \* the slot of an iterator, or -1
    due        \* history: keys the iteration has still to come by

NPos == -1
Empty == 0
Slots(t) == 0 .. t.cap - 1
Occupied(t) == {i \in Slots(t) : t.psl[i] # Empty}
FreshTable(cap) ==
    [cap |-> cap, size |-> 0, psl |-> [i \in 0 .. cap - 1 |-> Empty], kv |-> [i \in 0 .. cap - 1 |-> <<>>]]

SlotOf(t, n) == n % t.cap

RECURSIVE Probe(_, _, _, _)
Probe(t, key, slot, dist) ==
    CASE t.psl[slot] = Empty \/ t.psl[slot] < dist -> NPos
      [] t.psl[slot] = dist /\ t.kv[slot][1] = key -> slot
      [] OTHER -> IF dist + 1 = PslMax THEN NPos ELSE Probe(t, key, SlotOf(t, slot + 1), dist + 1)

FindSlot(t, key) == IF t.cap = 0 THEN NPos ELSE Probe(t, key, SlotOf(t, hash[key]), 1)

Store(t, slot, pair, dist) == [t EXCEPT !.kv[slot] = pair, !.psl[slot] = dist]

\* The pair moves on until it finds an empty slot; from a slot whose element is
\* nearer to its home it takes the place, and that element moves on.  The result
\* is the table and the slot that got the first pair.
RECURSIVE Place(_, _, _, _, _)
Place(t, pair, slot, dist, first) ==
    LET psl == t.psl[slot]
        swap == psl < dist
        at == IF swap /\ first = NPos THEN slot ELSE first
        next == IF swap THEN psl + 1 ELSE dist + 1
    IN  CASE psl = Empty -> [table |-> [Store(t, slot, pair, dist) EXCEPT !.size = @ + 1],
                             slot |-> IF first = NPos THEN slot ELSE first]
          [] psl # Empty /\ next = PslMax ->
               [table |-> IF swap THEN Store(t, slot, pair, dist) ELSE t, slot |-> at]
          [] OTHER -> Place(IF swap THEN Store(t, slot, pair, dist) ELSE t,
                            IF swap THEN t.kv[slot] ELSE pair, SlotOf(t, slot + 1), next, at)

InsertUnchecked(t, pair) == Place(t, pair, SlotOf(t, hash[pair[1]]), 1, NPos)

\* The elements of a table, in the order of its slots, go into another one.
RECURSIVE InsertAll(_, _, _)
InsertAll(t, old, from) ==
    IF from = old.cap THEN t
    ELSE InsertAll(IF old.psl[from] = Empty THEN t ELSE InsertUnchecked(t, old.kv[from]).table, old, from + 1)

Rehash(t, cap) == InsertAll(FreshTable(cap), t, 0)

GrowIfNeeded(t) ==
    IF t.size + 1 > (t.cap * 3) \div 4 THEN Rehash(t, IF t.cap = 0 THEN 8 ELSE t.cap * 2) ELSE t

\* Every element up to the next one at home, or to an empty slot, moves back.
RECURSIVE BackwardShift(_, _)
BackwardShift(t, current) ==
    LET next == SlotOf(t, current + 1) IN
    IF t.psl[next] <= 1 THEN Store(t, current, <<>>, Empty)
    ELSE BackwardShift(Store(t, current, t.kv[next], t.psl[next] - 1), next)

\* Mutation of BackwardShiftErase: the slot is emptied and nothing moves.
BackwardShiftEraseHole(t, slot) == [Store(t, slot, <<>>, Empty) EXCEPT !.size = @ - 1]
BackwardShiftErase(t, slot) == [BackwardShift(t, slot) EXCEPT !.size = @ - 1]

NextPow2(n) == Min({p \in {2 ^ k : k \in 0 .. n} : p >= n})

\* The first occupied slot from i on, or the end.
NextOccupied(t, i) == Min({j \in Occupied(t) : j >= i} \cup {t.cap})

-----------------------------------------------------------------------------
\* FlatHashMap(4): the constructor asks for at least four slots.
HashInit ==
    /\ hash \in [Key -> HashValues]
    /\ m = FreshTable(4) /\ contents = <<>> /\ it = -1 /\ due = {}

\* A change of the table by anyone but the iterator ends the iteration.
Mutates(t, c) == m' = t /\ contents' = c /\ it' = -1 /\ due' = {} /\ UNCHANGED hash

With(key, value) == [k \in DOMAIN contents \cup {key} |-> IF k = key THEN value ELSE contents[k]]
Without(key) == [k \in DOMAIN contents \ {key} |-> contents[k]]

\* map[key] = value: insertOrGet() gives the slot to which the value is assigned.
Assign(key, value) ==
    LET slot == FindSlot(m, key)
        new == InsertUnchecked(GrowIfNeeded(m), <<key, CHOOSE v \in Value : TRUE>>)
        got == IF slot = NPos THEN new ELSE [table |-> m, slot |-> slot]
    IN  Mutates([got.table EXCEPT !.kv[got.slot][2] = value], With(key, value))

Emplace(key, value) ==
    IF FindSlot(m, key) # NPos THEN Mutates(m, contents)
    ELSE Mutates(InsertUnchecked(GrowIfNeeded(m), <<key, value>>).table, With(key, value))

Erase(key) ==
    LET slot == FindSlot(m, key) IN
    Mutates(IF slot = NPos THEN m ELSE BackwardShiftErase(m, slot), Without(key))

Clear == Mutates(FreshTable(m.cap), <<>>)

Reserve(n) ==
    LET needed == (n * 4 + 2) \div 3 IN
    Mutates(IF needed > m.cap THEN Rehash(m, NextPow2(needed)) ELSE m, contents)

\* The table is replaced by a copy of itself.
CopyAssign == Mutates(IF m.cap > 0 THEN InsertAll(FreshTable(m.cap), m, 0) ELSE FreshTable(0), contents)

\* What is left when the table is moved to another one.
MoveAway == Mutates(FreshTable(0), <<>>)

Begin ==
    /\ it' = NextOccupied(m, 0) /\ due' = {m.kv[i][1] : i \in Occupied(m)}
    /\ UNCHANGED <<m, hash, contents>>

Advance ==
    /\ it \in Slots(m)
    /\ it' = NextOccupied(m, it + 1) /\ due' = due \ {m.kv[it][1]}
    /\ UNCHANGED <<m, hash, contents>>

\* erase(iterator) gives the iterator to go on with.
EraseIterator ==
    /\ it \in Slots(m)
    /\ m' = BackwardShiftErase(m, it)
    /\ it' = NextOccupied(m', it)
    /\ contents' = Without(m.kv[it][1]) /\ due' = due \ {m.kv[it][1]}
    /\ UNCHANGED hash

HashNext ==
    \/ /\ m.size + 1 <= (MaxCapacity * 3) \div 4
       /\ \E key \in Key, value \in Value : Assign(key, value) \/ Emplace(key, value)
    \/ \E key \in Key : Erase(key)
    \/ \E n \in Reserved : Reserve(n)
    \/ Clear \/ CopyAssign \/ MoveAway \/ Begin \/ Advance \/ EraseIterator

\* Whatever the collisions and the order of the calls, a lookup finds exactly what
\* was put and not erased, with its value; size() counts it; some slot stays empty,
\* so that findSlot() ends.  A loop that erases as it goes misses no element, though
\* elements move below the iterator: what it has not come by is at its slot or
\* behind it.
AgreesWithMap ==
    /\ \A key \in Key :
         LET slot == FindSlot(m, key) IN
         IF key \in DOMAIN contents THEN slot # NPos /\ m.kv[slot] = <<key, contents[key]>>
                                    ELSE slot = NPos
    /\ m.size = Cardinality(Occupied(m)) /\ m.size = Cardinality(DOMAIN contents)
    /\ m.cap > 0 => Occupied(m) # Slots(m)
    /\ due # {} => \A key \in due : FindSlot(m, key) >= it
=============================================================================
