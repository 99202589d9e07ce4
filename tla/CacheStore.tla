----------------------------- MODULE CacheStore -----------------------------
(***************************************************************************)
(* benchmark1/store.c: an open addressing hash table with linear probing,  *)
(* tombstones and growth by doubling, driven by a caller that keeps the    *)
(* strings of the stored entries readable.  (CacheBench drives the same    *)
(* table with the caller the program really has.)                          *)
(*                                                                         *)
(* One call runs at a time.  Every iteration of a probing loop and of the  *)
(* rehashing loop is a step, so that the loops may fail to end in the      *)
(* model as they may in the code: for (;;) has no other exit than a match  *)
(* or a slot that was never used.                                          *)
(***************************************************************************)
EXTENDS Integers, FiniteSets

CONSTANTS
    Key,              \* the keys, compared by content
    Value,            \* value pointer, length and ttl: what an update replaces
    Hash,             \* hash_key: FNV-1a of the key's bytes
    Nothing,          \* NULL
    InitialCapacity,  \* what store_create(4) rounds up to
    MaxCapacity       \* bound: no growth beyond this many slots

ASSUME HashAssumption == Hash \in [Key -> Nat]
ASSUME CapacityAssumption == /\ InitialCapacity \in Nat
                             /\ InitialCapacity >= 4
                             /\ MaxCapacity \in Nat
ASSUME NothingAssumption == Nothing \notin Value \cup BOOLEAN

VARIABLES
    \* struct Store
    capacity, entries, size, tombstones,
    \* store_grow: the array being filled and the index of the entry to move
    newEntries, moving,
    \* the call under way, where its loop stands, and the last result
    pc, call, seen, grave, ret

tableVars == <<capacity, entries, size, tombstones>>
growVars  == <<newEntries, moving>>
callVars  == <<pc, call, seen, grave, ret>>
vars      == <<tableVars, growVars, callVars>>

-----------------------------------------------------------------------------
EmptyEntry     == [state |-> "empty",     key |-> Nothing, value |-> Nothing]
TombstoneEntry == [state |-> "tombstone", key |-> Nothing, value |-> Nothing]
OccupiedEntry(k, v) == [state |-> "occupied", key |-> k, value |-> v]

Entry == {EmptyEntry, TombstoneEntry}
             \cup [state : {"occupied"}, key : Key, value : Value]

Slots(cap) == 0 .. cap - 1

EmptyArray(cap) == [i \in Slots(cap) |-> EmptyEntry]

\* Capacities are powers of two, so masking with capacity - 1 is % capacity.
Home(k, cap) == Hash[k] % cap

\* The slot a probe looks at after passing n others.
ProbeSlot(k, n, cap) ==
    IF Home(k, cap) + n < cap THEN Home(k, cap) + n ELSE Home(k, cap) + n - cap

Occupied   == {i \in Slots(capacity) : entries[i].state = "occupied"}
Tombstones == {i \in Slots(capacity) : entries[i].state = "tombstone"}

\* Seeded fault: deleted slots not counted as used.
Loaded_NoTombstones == 10 * size > 6 * capacity

\* load_factor(store) > 0.60, in integers.
Loaded == 10 * (size + tombstones) > 6 * capacity

NoSlot  == -1
NoCall  == [op |-> "none", key |-> Nothing, value |-> Nothing]
Call == [op : {"insert"}, key : Key, value : Value]
            \cup [op : {"find", "delete"}, key : Key, value : {Nothing}]

Here     == ProbeSlot(call.key, seen, capacity)
Matches  == entries[Here].state = "occupied" /\ entries[Here].key = call.key
Inserting == call.op = "insert"

-----------------------------------------------------------------------------
\* store_create
Init == /\ capacity = InitialCapacity
        /\ entries = EmptyArray(InitialCapacity)
        /\ size = 0 /\ tombstones = 0
        /\ newEntries = <<>> /\ moving = 0
        /\ pc = "idle" /\ call = NoCall
        /\ seen = 0 /\ grave = NoSlot /\ ret = Nothing

\* The prologue of a call: an insertion into a loaded table grows it first,
\* whether or not the key is already there.
Begin(op, k, v) ==
    /\ pc = "idle"
    /\ call' = [op |-> op, key |-> k, value |-> v]
    /\ seen' = 0 /\ grave' = NoSlot
    /\ IF op = "insert" /\ Loaded
       THEN /\ 2 * capacity <= MaxCapacity
            /\ pc' = "grow"
            /\ newEntries' = EmptyArray(2 * capacity)
            /\ moving' = 0
       ELSE /\ pc' = "probe"
            /\ UNCHANGED growVars
    /\ UNCHANGED <<tableVars, ret>>

BeginInsert == \E k \in Key, v \in Value : Begin("insert", k, v)
BeginFind   == \E k \in Key : Begin("find", k, Nothing)
BeginDelete == \E k \in Key : Begin("delete", k, Nothing)

-----------------------------------------------------------------------------
\* store_grow: slot `moving' of the old array; only occupied entries move.
Growing == pc = "grow" /\ moving < capacity

Target == ProbeSlot(entries[moving].key, seen, 2 * capacity)

\* Seeded fault: a slot without entry does not advance the index.
GrowSkip_Stuck ==
    /\ Growing
    /\ entries[moving].state # "occupied"
    /\ UNCHANGED vars

GrowSkip ==
    /\ Growing
    /\ entries[moving].state # "occupied"
    /\ moving' = moving + 1
    /\ UNCHANGED <<tableVars, newEntries, callVars>>

\* reinsert_entry: the slot looked at is taken, or takes the entry.
GrowProbe ==
    /\ Growing
    /\ entries[moving].state = "occupied"
    /\ newEntries[Target].state = "occupied"
    /\ seen' = seen + 1
    /\ UNCHANGED <<tableVars, growVars, pc, call, grave, ret>>

\* Seeded fault: the entry also stays at the index it had.
GrowPlace_LeaveCopy ==
    /\ Growing
    /\ entries[moving].state = "occupied"
    /\ newEntries[Target].state # "occupied"
    /\ newEntries' = [newEntries EXCEPT ![Target] = entries[moving],
                                        ![moving] = entries[moving]]
    /\ moving' = moving + 1
    /\ seen' = 0
    /\ UNCHANGED <<tableVars, pc, call, grave, ret>>

GrowPlace ==
    /\ Growing
    /\ entries[moving].state = "occupied"
    /\ newEntries[Target].state # "occupied"
    /\ newEntries' = [newEntries EXCEPT ![Target] = entries[moving]]
    /\ moving' = moving + 1
    /\ seen' = 0
    /\ UNCHANGED <<tableVars, pc, call, grave, ret>>

\* Seeded fault: the count of tombstones survives the growth.
GrowFinish_KeepCount ==
    /\ pc = "grow" /\ moving = capacity
    /\ entries' = newEntries
    /\ capacity' = 2 * capacity
    /\ newEntries' = <<>> /\ moving' = 0
    /\ pc' = "probe"
    /\ UNCHANGED <<size, tombstones, call, seen, grave, ret>>

GrowFinish ==
    /\ pc = "grow" /\ moving = capacity
    /\ entries' = newEntries
    /\ capacity' = 2 * capacity
    /\ tombstones' = 0
    /\ newEntries' = <<>> /\ moving' = 0
    /\ pc' = "probe"
    /\ UNCHANGED <<size, call, seen, grave, ret>>

-----------------------------------------------------------------------------
\* find_slot and the loop of store_find: an entry of another key, or a
\* tombstone, is passed.  Only find_slot remembers the first tombstone.
ProbeOccupied ==
    /\ pc = "probe"
    /\ entries[Here].state = "occupied" /\ ~Matches
    /\ seen' = seen + 1
    /\ UNCHANGED <<tableVars, growVars, pc, call, grave, ret>>

ProbeTombstone ==
    /\ pc = "probe"
    /\ entries[Here].state = "tombstone"
    /\ seen' = seen + 1
    /\ grave' = IF call.op # "find" /\ grave = NoSlot THEN Here ELSE grave
    /\ UNCHANGED <<tableVars, growVars, pc, call, ret>>

Return(r) == pc' = "idle" /\ call' = NoCall /\ seen' = 0 /\ grave' = NoSlot /\ ret' = r

\* The slot find_slot returns when the key is not stored.
Vacant == IF grave # NoSlot THEN grave ELSE Here

\* An existing entry keeps its key and gets a new value.
InsertUpdate ==
    /\ pc = "probe" /\ Inserting /\ Matches
    /\ entries' = [entries EXCEPT ![Here].value = call.value]
    /\ Return(TRUE)
    /\ UNCHANGED <<capacity, size, tombstones, growVars>>

\* Seeded fault: the first tombstone is taken without looking any further.
InsertNew_Eager ==
    /\ pc = "probe" /\ Inserting /\ entries[Here].state # "occupied"
    /\ tombstones' = IF entries[Vacant].state = "tombstone"
                     THEN tombstones - 1 ELSE tombstones
    /\ entries' = [entries EXCEPT ![Vacant] = OccupiedEntry(call.key, call.value)]
    /\ size' = size + 1
    /\ Return(TRUE)
    /\ UNCHANGED <<capacity, growVars>>

InsertNew ==
    /\ pc = "probe" /\ Inserting /\ entries[Here].state = "empty"
    /\ tombstones' = IF entries[Vacant].state = "tombstone"
                     THEN tombstones - 1 ELSE tombstones
    /\ entries' = [entries EXCEPT ![Vacant] = OccupiedEntry(call.key, call.value)]
    /\ size' = size + 1
    /\ Return(TRUE)
    /\ UNCHANGED <<capacity, growVars>>

FindHit ==
    /\ pc = "probe" /\ call.op = "find" /\ Matches
    /\ Return(entries[Here].value)
    /\ UNCHANGED <<tableVars, growVars>>

FindMiss ==
    /\ pc = "probe" /\ call.op = "find" /\ entries[Here].state = "empty"
    /\ Return(Nothing)
    /\ UNCHANGED <<tableVars, growVars>>

\* Seeded fault: entry_reset alone, the slot reads as never used.
DeleteHit_NoTombstone ==
    /\ pc = "probe" /\ call.op = "delete" /\ Matches
    /\ entries' = [entries EXCEPT ![Here] = EmptyEntry]
    /\ size' = size - 1
    /\ Return(TRUE)
    /\ UNCHANGED <<capacity, tombstones, growVars>>

DeleteHit ==
    /\ pc = "probe" /\ call.op = "delete" /\ Matches
    /\ entries' = [entries EXCEPT ![Here] = TombstoneEntry]
    /\ size' = size - 1
    /\ tombstones' = tombstones + 1
    /\ Return(TRUE)
    /\ UNCHANGED <<capacity, growVars>>

\* Seeded fault: size-- whether or not the key was found.
DeleteMiss_Counted ==
    /\ pc = "probe" /\ call.op = "delete" /\ entries[Here].state = "empty"
    /\ size' = size - 1
    /\ Return(FALSE)
    /\ UNCHANGED <<capacity, entries, tombstones, growVars>>

DeleteMiss ==
    /\ pc = "probe" /\ call.op = "delete" /\ entries[Here].state = "empty"
    /\ Return(FALSE)
    /\ UNCHANGED <<tableVars, growVars>>

-----------------------------------------------------------------------------
GrowStep == GrowSkip \/ GrowProbe \/ GrowPlace \/ GrowFinish

ProbeStep == ProbeOccupied \/ ProbeTombstone

Finish == \/ InsertUpdate \/ InsertNew
          \/ FindHit \/ FindMiss
          \/ DeleteHit \/ DeleteMiss

\* A call that has begun goes on until it returns: it is one thread's code.
CallStep == GrowStep \/ ProbeStep \/ Finish

Next == BeginInsert \/ BeginFind \/ BeginDelete \/ CallStep

Spec == Init /\ [][Next]_vars /\ WF_vars(CallStep)

-----------------------------------------------------------------------------
TypeOK ==
    /\ capacity \in Nat /\ capacity >= 4
    /\ entries \in [Slots(capacity) -> Entry]
    /\ size \in Nat /\ tombstones \in Nat
    /\ pc \in {"idle", "grow", "probe"}
    /\ IF pc = "idle" THEN call = NoCall ELSE call \in Call
    /\ pc = "grow" => Inserting
    /\ seen \in Nat
    /\ grave \in Slots(capacity) \cup {NoSlot}
    /\ ret \in Value \cup BOOLEAN \cup {Nothing}
    /\ pc = "grow" => /\ newEntries \in [Slots(2 * capacity) -> Entry]
                      /\ moving \in 0 .. capacity

\* The counters the load factor is computed from are the numbers of
\* occupied and of deleted slots (store->size++, size--, tombstones++, -- and
\* the reset to 0 in store_grow): a drift would let the table fill up.
CountersExact ==
    /\ size = Cardinality(Occupied)
    /\ tombstones = Cardinality(Tombstones)

\* Some slot was never used, at every moment a loop may be probing: the only
\* exit of the for (;;) of find_slot and store_find when the key is absent.
ProbeCanStop == size + tombstones < capacity

KeysUnique ==
    \A i, j \in Occupied : entries[i].key = entries[j].key => i = j

Reachable ==
    \A i \in Occupied :
        \E n \in Slots(capacity) :
            /\ ProbeSlot(entries[i].key, n, capacity) = i
            /\ \A m \in 0 .. n - 1 :
                   entries[ProbeSlot(entries[i].key, m, capacity)].state # "empty"

\* A key is stored once (find_slot looks past every tombstone before it lets
\* store_insert reuse the first one), and probing from its home slot meets no
\* never-used slot before it (deletion leaves a tombstone, growth places
\* every entry again): a lookup cannot miss it or see another value for it.
LookupSound == KeysUnique /\ Reachable

\* Growth loses no entry: what was moved is in the new array, in one slot of it
\* each; the rest is still to come, and the array holds nothing else
\* (reinsert_entry, called for every occupied slot in turn).
GrowKeepsEntries ==
    LET placed == {j \in Slots(2 * capacity) : newEntries[j].state = "occupied"}
    IN  pc = "grow" =>
            /\ {newEntries[j] : j \in placed}
                  = {entries[i] : i \in Occupied \cap (0 .. moving - 1)}
            /\ \A j, l \in placed : newEntries[j].key = newEntries[l].key => j = l

\* Every call returns: the loops of store_insert, store_find and store_delete
\* end whatever calls came before.
EveryCallReturns == pc # "idle" ~> pc = "idle"

\* The map the table stands for.
Dict == [k \in Key |->
            IF \E i \in Occupied : entries[i].key = k
            THEN entries[CHOOSE i \in Occupied : entries[i].key = k].value
            ELSE Nothing]

Map == INSTANCE KVMap WITH dict <- Dict, req <- call, ret <- ret

\* The table is a map from keys to values: each call of store.h has the result
\* and the effect it has on KVMap, at the step it returns, whatever collisions,
\* tombstones or growth do.
ImplementsMap == Map!Spec
=============================================================================
