---------------------------- MODULE CacheProofs -----------------------------
(***************************************************************************)
(* CacheStore for every set of keys and values, every hash function and    *)
(* every initial capacity of at least 4.  IInv: the counters of the table  *)
(* are exact, some slot is always never used, and so no probing loop ever  *)
(* comes back to where it started.  LInv: every key is stored once, on the *)
(* path a lookup of it takes, and growth moves every entry.  From both,    *)
(* step by step, the refinement: the table is the map KVMap describes.     *)
(*                                                                         *)
(* Then CacheBench, whose table is this one for as long as main uses it:   *)
(* what it stores is dangling between two commands, so that no step which  *)
(* would read a stored string is ever taken.                               *)
(***************************************************************************)
EXTENDS CacheBench, TLAPS, FiniteSetTheorems

NewOccupied == {j \in Slots(2 * capacity) : newEntries[j].state = "occupied"}
Moved       == {i \in Slots(capacity) : i < moving /\ entries[i].state = "occupied"}

\* The slots a probe has passed were all in use.
Passed ==
    /\ pc = "probe" =>
          \A m \in 0 .. seen - 1 :
              entries[ProbeSlot(call.key, m, capacity)].state # "empty"
    /\ pc = "grow" =>
          \/ seen = 0
          \/ /\ moving < capacity
             /\ entries[moving].state = "occupied"
             /\ \A m \in 0 .. seen - 1 :
                   newEntries[ProbeSlot(entries[moving].key, m, 2 * capacity)].state
                       = "occupied"

\* What store_grow has moved so far, as numbers.
GrowCounts ==
    pc = "grow" =>
        /\ Cardinality(NewOccupied) = Cardinality(Moved)
        /\ \A j \in Slots(2 * capacity) : newEntries[j].state # "tombstone"

\* The first tombstone of a probe is remembered only during that probe.
GraveSound ==
    /\ pc # "probe" => grave = NoSlot
    /\ grave # NoSlot => entries[grave].state = "tombstone"

\* An insertion probes a table with room for one more entry.
RoomToInsert == pc = "probe" /\ Inserting => ~Loaded

\* The inductive invariant.
IInv == /\ TypeOK
        /\ CountersExact
        /\ ProbeCanStop
        /\ Passed
        /\ GrowCounts
        /\ GraveSound
        /\ RoomToInsert

-----------------------------------------------------------------------------
\* The three shapes of an entry.
LEMMA EntryShape ==
    ASSUME NEW e \in Entry
    PROVE  /\ e.state \in {"empty", "tombstone", "occupied"}
           /\ e.state = "occupied" => e.key \in Key /\ e.value \in Value
BY DEF Entry, EmptyEntry, TombstoneEntry

LEMMA EntryTypes ==
    /\ EmptyEntry \in Entry /\ EmptyEntry.state = "empty"
    /\ TombstoneEntry \in Entry /\ TombstoneEntry.state = "tombstone"
    /\ \A k \in Key, v \in Value : /\ OccupiedEntry(k, v) \in Entry
                                   /\ OccupiedEntry(k, v).state = "occupied"
BY DEF Entry, EmptyEntry, TombstoneEntry, OccupiedEntry

\* A probe of an array of cap slots stays inside it for cap slots.
LEMMA ProbeInside ==
    ASSUME NEW cap \in Nat, cap > 0, NEW k \in Key
    PROVE  /\ Home(k, cap) \in Slots(cap)
           /\ \A n \in Slots(cap) : ProbeSlot(k, n, cap) \in Slots(cap)
<1>1. Hash[k] \in Nat
  BY HashAssumption
<1>2. Home(k, cap) \in Slots(cap)
  BY <1>1 DEF Home, Slots
<1> QED
  BY <1>2 DEF ProbeSlot, Slots

\* ... and visits every slot of it.
LEMMA ProbeVisitsAll ==
    ASSUME NEW cap \in Nat, cap > 0, NEW k \in Key, NEW i \in Slots(cap)
    PROVE  \E n \in Slots(cap) : ProbeSlot(k, n, cap) = i
<1>1. Home(k, cap) \in Slots(cap)
  BY ProbeInside
<1> DEFINE n == IF i >= Home(k, cap) THEN i - Home(k, cap)
                ELSE i - Home(k, cap) + cap
<1>2. n \in Slots(cap)
  BY <1>1 DEF Slots
<1>3. ProbeSlot(k, n, cap) = i
  BY <1>1, <1>2 DEF Slots, ProbeSlot
<1> QED
  BY <1>2, <1>3

LEMMA SlotsFinite ==
    ASSUME NEW cap \in Nat
    PROVE  /\ IsFiniteSet(Slots(cap))
           /\ Cardinality(Slots(cap)) = cap
           /\ \A S \in SUBSET Slots(cap) :
                 IsFiniteSet(S) /\ Cardinality(S) \in Nat /\ Cardinality(S) <= cap
<1>1. IsFiniteSet(Slots(cap)) /\ Cardinality(Slots(cap)) = cap
  BY FS_Interval DEF Slots
<1>2. ASSUME NEW S \in SUBSET Slots(cap)
      PROVE  IsFiniteSet(S) /\ Cardinality(S) \in Nat /\ Cardinality(S) <= cap
  BY <1>1, FS_Subset, FS_CardinalityType
<1> QED
  BY <1>1, <1>2

\* Two sets of slots too small to cover the array leave a slot out.
LEMMA SlotLeft ==
    ASSUME NEW cap \in Nat,
           NEW S \in SUBSET Slots(cap), NEW T \in SUBSET Slots(cap),
           Cardinality(S) + Cardinality(T) < cap
    PROVE  \E i \in Slots(cap) : i \notin S /\ i \notin T
<1>1. /\ IsFiniteSet(S) /\ Cardinality(S) \in Nat
      /\ IsFiniteSet(T) /\ Cardinality(T) \in Nat
      /\ Cardinality(Slots(cap)) = cap
  BY SlotsFinite
<1>2. Cardinality(S \cup T) = Cardinality(S) + Cardinality(T) - Cardinality(S \cap T)
  BY <1>1, FS_Union
<1>3. Cardinality(S \cap T) \in Nat
  BY <1>1, FS_Intersection, FS_CardinalityType
<1>4. Cardinality(S \cup T) < cap
  BY <1>1, <1>2, <1>3
<1>5. S \cup T # Slots(cap)
  <2> SUFFICES ASSUME S \cup T = Slots(cap) PROVE FALSE
    OBVIOUS
  <2>1. Cardinality(S \cup T) = cap
    BY <1>1, Zenon
  <2>2. Cardinality(S \cup T) \in Nat
    BY <1>1, FS_Union, FS_CardinalityType
  <2> QED
    BY <1>4, <2>1, <2>2
<1> QED
  BY <1>5

-----------------------------------------------------------------------------
\* A probe of the table has not gone round.
LEMMA ProbeBounded ==
    ASSUME IInv, pc = "probe"
    PROVE  seen < capacity /\ Here \in Slots(capacity) /\ call.key \in Key
<1>1. /\ capacity \in Nat /\ capacity > 0 /\ seen \in Nat
      /\ entries \in [Slots(capacity) -> Entry]
      /\ call.key \in Key
  BY DEF IInv, TypeOK, Call
<1>2. PICK i \in Slots(capacity) : i \notin Occupied /\ i \notin Tombstones
  <2>1. /\ Occupied \in SUBSET Slots(capacity)
        /\ Tombstones \in SUBSET Slots(capacity)
        /\ Cardinality(Occupied) + Cardinality(Tombstones) < capacity
    BY DEF IInv, CountersExact, ProbeCanStop, Occupied, Tombstones
  <2> QED
    BY <1>1, <2>1, SlotLeft
<1>3. entries[i].state = "empty"
  BY <1>1, <1>2, EntryShape DEF Occupied, Tombstones
<1>4. PICK n \in Slots(capacity) : ProbeSlot(call.key, n, capacity) = i
  BY <1>1, ProbeVisitsAll
<1>5. \A m \in 0 .. seen - 1 :
          entries[ProbeSlot(call.key, m, capacity)].state # "empty"
  BY DEF IInv, Passed
<1>6. ~ (n < seen)
  BY <1>1, <1>3, <1>4, <1>5 DEF Slots
<1>7. seen \in Slots(capacity)
  BY <1>1, <1>4, <1>6 DEF Slots
<1>8. Here \in Slots(capacity)
  BY <1>1, <1>7, ProbeInside DEF Here
<1> QED
  BY <1>1, <1>7, <1>8 DEF Slots

\* Nor has the search for a place in the new array.
LEMMA GrowBounded ==
    ASSUME IInv, Growing, entries[moving].state = "occupied"
    PROVE  /\ seen < 2 * capacity
           /\ Target \in Slots(2 * capacity)
           /\ entries[moving] \in Entry /\ entries[moving].key \in Key
<1>1. /\ capacity \in Nat /\ capacity > 0 /\ seen \in Nat
      /\ 2 * capacity \in Nat /\ 2 * capacity > 0
      /\ moving \in Slots(capacity)
      /\ pc = "grow"
      /\ entries \in [Slots(capacity) -> Entry]
      /\ newEntries \in [Slots(2 * capacity) -> Entry]
  BY DEF IInv, TypeOK, Growing, Slots
<1>2. entries[moving] \in Entry /\ entries[moving].key \in Key
  BY <1>1, EntryShape
<1>3. /\ Moved \in SUBSET Occupied /\ Occupied \in SUBSET Slots(capacity)
      /\ NewOccupied \in SUBSET Slots(2 * capacity)
  BY DEF Moved, Occupied, NewOccupied
<1>4. Cardinality(NewOccupied) < 2 * capacity
  <2>1. Cardinality(Moved) \in Nat /\ Cardinality(Moved) <= capacity
    BY <1>1, <1>3, SlotsFinite
  <2> QED
    BY <1>1, <2>1 DEF IInv, GrowCounts
<1>5. PICK i \in Slots(2 * capacity) : i \notin NewOccupied
  <2>1. Cardinality(NewOccupied) \in Nat
    BY <1>1, <1>3, SlotsFinite
  <2>2. Cardinality(NewOccupied) + Cardinality({}) < 2 * capacity
    BY <1>4, <2>1, FS_EmptySet
  <2> QED
    BY <1>1, <1>3, <2>2, SlotLeft
<1>6. PICK n \in Slots(2 * capacity) : ProbeSlot(entries[moving].key, n, 2 * capacity) = i
  BY <1>1, <1>2, ProbeVisitsAll
<1>7. ~ (n < seen)
  BY <1>1, <1>5, <1>6 DEF IInv, Passed, NewOccupied, Slots
<1>8. seen \in Slots(2 * capacity)
  BY <1>1, <1>6, <1>7 DEF Slots
<1>9. \A m \in Slots(2 * capacity) :
          ProbeSlot(entries[moving].key, m, 2 * capacity) \in Slots(2 * capacity)
  BY <1>1, <1>2, ProbeInside
<1>10. Target \in Slots(2 * capacity)
  BY <1>8, <1>9 DEF Target
<1> QED
  BY <1>1, <1>2, <1>8, <1>10 DEF Slots

-----------------------------------------------------------------------------
LEMMA InvInit == Init => IInv
<1> SUFFICES ASSUME Init PROVE IInv
  OBVIOUS
<1> USE CapacityAssumption, EntryTypes DEF Init
<1>1. TypeOK
  BY DEF TypeOK, EmptyArray, Slots, NoSlot, Inserting, NoCall
<1>2. Occupied = {} /\ Tombstones = {}
  BY DEF Occupied, Tombstones, EmptyArray
<1>3. CountersExact /\ ProbeCanStop
  BY <1>2, FS_EmptySet DEF CountersExact, ProbeCanStop
<1> QED
  BY <1>1, <1>3 DEF IInv, Passed, GrowCounts, GraveSound, RoomToInsert

\* A call begins: the table stays, the loops start afresh.
LEMMA InvBegin ==
    ASSUME IInv, NEW op \in {"insert", "find", "delete"},
           NEW k \in Key, NEW v \in Value \cup {Nothing},
           IF op = "insert" THEN v \in Value ELSE v = Nothing,
           Begin(op, k, v)
    PROVE  IInv'
<1>1. tableVars' = tableVars /\ ret' = ret /\ seen' = 0 /\ grave' = NoSlot /\ pc = "idle"
  BY DEF Begin
<1>2. call' \in Call /\ call'.op = op
  BY DEF Begin, Call
<1>3. \/ pc' = "probe" /\ (op = "insert" => ~Loaded)
      \/ /\ pc' = "grow" /\ op = "insert"
         /\ newEntries' = EmptyArray(2 * capacity) /\ moving' = 0
  BY DEF Begin
<1>4. Occupied' = Occupied /\ Tombstones' = Tombstones
  BY <1>1 DEF tableVars, Occupied, Tombstones
<1>5. CountersExact' /\ ProbeCanStop'
  BY <1>1, <1>4 DEF IInv, CountersExact, ProbeCanStop, tableVars
<1>6. TypeOK'
  BY <1>1, <1>2, <1>3, EntryTypes
     DEF IInv, TypeOK, tableVars, EmptyArray, Slots, Inserting, NoSlot
<1>7. GraveSound' /\ RoomToInsert' /\ Passed'
  BY <1>1, <1>2, <1>3
     DEF IInv, TypeOK, GraveSound, RoomToInsert, Loaded, Inserting, Passed, tableVars
<1>8. GrowCounts'
  <2> SUFFICES ASSUME pc' = "grow"
               PROVE  /\ Cardinality(NewOccupied') = Cardinality(Moved')
                      /\ \A j \in Slots(2 * capacity') : newEntries'[j].state # "tombstone"
    BY DEF GrowCounts
  <2>1. newEntries' = EmptyArray(2 * capacity) /\ moving' = 0 /\ capacity' = capacity
    BY <1>1, <1>3 DEF tableVars
  <2>2. NewOccupied' = {}
    BY <2>1, EntryTypes DEF NewOccupied, EmptyArray
  <2>3. Moved' = {}
    BY <2>1 DEF Moved, Slots
  <2> QED
    BY <2>1, <2>2, <2>3, EntryTypes DEF EmptyArray
<1> QED
  BY <1>5, <1>6, <1>7, <1>8 DEF IInv

-----------------------------------------------------------------------------
\* Steps that leave the table alone keep what is said of it alone.
LEMMA TableKept ==
    ASSUME IInv, UNCHANGED tableVars
    PROVE  CountersExact' /\ ProbeCanStop'
<1>1. Occupied' = Occupied /\ Tombstones' = Tombstones
  BY DEF tableVars, Occupied, Tombstones
<1> QED
  BY <1>1 DEF IInv, CountersExact, ProbeCanStop, tableVars

\* The loop over the old array passes a slot without entry ...
LEMMA InvGrowSkip == ASSUME IInv, GrowSkip PROVE IInv'
<1>1. CountersExact' /\ ProbeCanStop'
  BY TableKept DEF GrowSkip
<1>2. TypeOK'
  BY DEF IInv, TypeOK, GrowSkip, Growing, tableVars, callVars, Slots, Inserting
<1>3. GraveSound' /\ RoomToInsert'
  BY DEF IInv, GraveSound, RoomToInsert, GrowSkip, Growing, tableVars, callVars
<1>4. Passed'
  BY DEF IInv, Passed, GrowSkip, Growing, tableVars, callVars
<1>5. GrowCounts'
  <2>1. moving \in Nat
    BY DEF IInv, TypeOK, GrowSkip, Growing
  <2>2. NewOccupied' = NewOccupied /\ Moved' = Moved
    BY <2>1 DEF GrowSkip, Growing, tableVars, callVars, NewOccupied, Moved, Slots
  <2> QED
    BY <2>2 DEF IInv, GrowCounts, GrowSkip, Growing, tableVars, callVars
<1> QED
  BY <1>1, <1>2, <1>3, <1>4, <1>5 DEF IInv

\* ... looks at the next place for an entry ...
LEMMA InvGrowProbe == ASSUME IInv, GrowProbe PROVE IInv'
<1>1. CountersExact' /\ ProbeCanStop'
  BY TableKept DEF GrowProbe
<1>2. TypeOK'
  BY DEF IInv, TypeOK, GrowProbe, Growing, tableVars, growVars, Slots, Inserting
<1>3. GraveSound' /\ RoomToInsert'
  BY DEF IInv, GraveSound, RoomToInsert, GrowProbe, Growing, tableVars
<1>4. Passed'
  <2>1. \A m \in 0 .. seen :
          newEntries[ProbeSlot(entries[moving].key, m, 2 * capacity)].state = "occupied"
    BY DEF IInv, TypeOK, Passed, GrowProbe, Growing, Target
  <2>2. seen' = seen + 1 /\ seen \in Nat
    BY DEF IInv, TypeOK, GrowProbe
  <2> QED
    BY <2>1, <2>2 DEF Passed, GrowProbe, Growing, tableVars, growVars
<1>5. GrowCounts'
  <2>1. NewOccupied' = NewOccupied /\ Moved' = Moved
    BY DEF GrowProbe, tableVars, growVars, NewOccupied, Moved
  <2> QED
    BY <2>1 DEF IInv, GrowCounts, GrowProbe, Growing, tableVars, growVars
<1> QED
  BY <1>1, <1>2, <1>3, <1>4, <1>5 DEF IInv

\* ... and takes it.
LEMMA InvGrowPlace == ASSUME IInv, GrowPlace PROVE IInv'
<1>1. CountersExact' /\ ProbeCanStop'
  BY TableKept DEF GrowPlace
<1>2. /\ Target \in Slots(2 * capacity) /\ entries[moving] \in Entry
      /\ capacity \in Nat /\ moving \in Slots(capacity) /\ 2 * capacity \in Nat
      /\ newEntries \in [Slots(2 * capacity) -> Entry]
      /\ entries[moving].state = "occupied" /\ newEntries[Target].state # "occupied"
      /\ newEntries' = [newEntries EXCEPT ![Target] = entries[moving]]
      /\ moving' = moving + 1 /\ capacity' = capacity /\ entries' = entries
  BY GrowBounded DEF IInv, TypeOK, GrowPlace, Growing, tableVars, Slots
<1>3. TypeOK'
  BY <1>2 DEF IInv, TypeOK, GrowPlace, Growing, tableVars, Slots, Inserting
<1>4. GraveSound' /\ RoomToInsert'
  BY DEF IInv, GraveSound, RoomToInsert, GrowPlace, Growing, tableVars
<1>5. Passed'
  BY DEF Passed, GrowPlace, Growing
<1>6. GrowCounts'
  <2>1. NewOccupied' = NewOccupied \cup {Target} /\ Target \notin NewOccupied
    BY <1>2 DEF NewOccupied
  <2>2. Moved' = Moved \cup {moving} /\ moving \notin Moved
    BY <1>2 DEF Moved, Slots
  <2>3. IsFiniteSet(NewOccupied) /\ IsFiniteSet(Moved)
    <3>1. NewOccupied \in SUBSET Slots(2 * capacity) /\ Moved \in SUBSET Slots(capacity)
      BY DEF NewOccupied, Moved
    <3> QED
      BY <1>2, <3>1, SlotsFinite
  <2>4. Cardinality(NewOccupied') = Cardinality(NewOccupied) + 1
    BY <2>1, <2>3, FS_AddElement
  <2>5. Cardinality(Moved') = Cardinality(Moved) + 1
    BY <2>2, <2>3, FS_AddElement
  <2>6. pc = "grow"
    BY DEF GrowPlace, Growing
  <2> QED
    BY <1>2, <2>4, <2>5, <2>6 DEF IInv, GrowCounts
<1> QED
  BY <1>1, <1>3, <1>4, <1>5, <1>6 DEF IInv

\* The new array takes the place of the old one: it has as many entries, no
\* tombstones, and room.
LEMMA InvGrowFinish == ASSUME IInv, GrowFinish PROVE IInv'
<1>1. /\ capacity \in Nat /\ capacity >= 4 /\ moving = capacity /\ pc = "grow" /\ seen = 0
      /\ newEntries \in [Slots(2 * capacity) -> Entry] /\ size \in Nat
      /\ capacity' = 2 * capacity /\ entries' = newEntries /\ tombstones' = 0
      /\ size' = size /\ pc' = "probe" /\ call' = call /\ seen' = seen
      /\ grave' = grave /\ ret' = ret /\ grave = NoSlot
  BY DEF IInv, TypeOK, Passed, GraveSound, GrowFinish
<1>2. TypeOK'
  BY <1>1 DEF IInv, TypeOK, Inserting
<1>3. Occupied' = NewOccupied /\ Tombstones' = {}
  BY <1>1 DEF IInv, GrowCounts, Occupied, Tombstones, NewOccupied
<1>4. Moved = Occupied
  BY <1>1 DEF Moved, Occupied, Slots
<1>5. Cardinality(Occupied') = size
  BY <1>1, <1>3, <1>4 DEF IInv, GrowCounts, CountersExact
<1>6. size < capacity
  BY <1>1 DEF IInv, TypeOK, ProbeCanStop
<1>7. CountersExact' /\ ProbeCanStop' /\ RoomToInsert'
  BY <1>1, <1>3, <1>5, <1>6, FS_EmptySet
     DEF CountersExact, ProbeCanStop, RoomToInsert, Loaded
<1>8. Passed' /\ GrowCounts' /\ GraveSound'
  BY <1>1 DEF Passed, GrowCounts, GraveSound
<1> QED
  BY <1>2, <1>7, <1>8 DEF IInv

-----------------------------------------------------------------------------
\* A probe passes a slot in use, of another key or deleted.
LEMMA InvProbeStep == ASSUME IInv, ProbeStep PROVE IInv'
<1>1. /\ pc = "probe" /\ pc' = pc /\ seen' = seen + 1 /\ call' = call /\ ret' = ret
      /\ UNCHANGED tableVars /\ entries[Here].state # "empty"
      /\ \/ grave' = grave
         \/ grave' = Here /\ entries[Here].state = "tombstone"
  BY DEF ProbeStep, ProbeOccupied, ProbeTombstone
<1>2. seen \in Nat /\ Here \in Slots(capacity)
  BY ProbeBounded, <1>1 DEF IInv, TypeOK
<1>3. CountersExact' /\ ProbeCanStop'
  BY <1>1, TableKept
<1>4. TypeOK'
  BY <1>1, <1>2 DEF IInv, TypeOK, tableVars, Inserting
<1>5. GraveSound' /\ RoomToInsert' /\ GrowCounts'
  BY <1>1, <1>2 DEF IInv, GraveSound, RoomToInsert, GrowCounts, Loaded, Inserting, tableVars,
                    NoSlot, Slots
<1>6. Passed'
  <2>1. \A m \in 0 .. seen :
          entries[ProbeSlot(call.key, m, capacity)].state # "empty"
    BY <1>1, <1>2 DEF IInv, Passed, Here
  <2> QED
    BY <1>1, <1>2, <2>1 DEF Passed, tableVars
<1> QED
  BY <1>3, <1>4, <1>5, <1>6 DEF IInv

\* What a finishing step has to show: the rest is reset by Return.
LEMMA InvReturn ==
    ASSUME IInv, NEW r \in Value \cup BOOLEAN \cup {Nothing}, Return(r),
           capacity' = capacity, entries' \in [Slots(capacity) -> Entry],
           size' \in Nat, tombstones' \in Nat,
           CountersExact', ProbeCanStop'
    PROVE  IInv'
BY DEF IInv, TypeOK, Return, Passed, GrowCounts, GraveSound, RoomToInsert, Inserting, NoCall

LEMMA InvInsertUpdate == ASSUME IInv, InsertUpdate PROVE IInv'
<1>1. /\ Here \in Slots(capacity) /\ call.value \in Value /\ Matches
      /\ entries \in [Slots(capacity) -> Entry] /\ size \in Nat /\ tombstones \in Nat
      /\ capacity' = capacity /\ size' = size /\ tombstones' = tombstones
      /\ entries' = [entries EXCEPT ![Here].value = call.value] /\ Return(TRUE)
  BY ProbeBounded DEF InsertUpdate, IInv, TypeOK, Call, Inserting
<1>2. /\ entries'[Here] \in Entry /\ entries'[Here].state = "occupied"
      /\ \A i \in Slots(capacity) : i # Here => entries'[i] = entries[i]
  <2>1. entries[Here] \in [state : {"occupied"}, key : Key, value : Value]
    BY <1>1 DEF Entry, EmptyEntry, TombstoneEntry, Matches
  <2>2. entries'[Here] = [entries[Here] EXCEPT !.value = call.value]
    BY <1>1
  <2> QED
    BY <1>1, <2>1, <2>2 DEF Entry
<1>3. entries' \in [Slots(capacity) -> Entry]
  BY <1>1, <1>2
<1>4. Occupied' = Occupied /\ Tombstones' = Tombstones
  BY <1>1, <1>2 DEF Occupied, Tombstones, Matches
<1>5. CountersExact' /\ ProbeCanStop'
  BY <1>1, <1>4 DEF IInv, CountersExact, ProbeCanStop
<1> QED
  BY <1>1, <1>3, <1>5, InvReturn

LEMMA InvInsertNew == ASSUME IInv, InsertNew PROVE IInv'
<1> DEFINE e == OccupiedEntry(call.key, call.value)
<1>1. /\ capacity \in Nat /\ capacity >= 4 /\ capacity' = capacity
      /\ entries \in [Slots(capacity) -> Entry]
      /\ size \in Nat /\ size' = size + 1 /\ tombstones \in Nat
      /\ tombstones' = IF entries[Vacant].state = "tombstone" THEN tombstones - 1
                       ELSE tombstones
      /\ entries' = [entries EXCEPT ![Vacant] = e]
      /\ e \in Entry /\ e.state = "occupied"
      /\ Return(TRUE) /\ pc = "probe" /\ ~Loaded
  BY ProbeBounded, EntryTypes DEF InsertNew, IInv, TypeOK, RoomToInsert, Call, Inserting
<1>2. Vacant \in Slots(capacity) /\ entries[Vacant].state # "occupied"
  BY ProbeBounded DEF Vacant, InsertNew, IInv, TypeOK, GraveSound
<1>3. entries' \in [Slots(capacity) -> Entry]
  BY <1>1
<1>4. /\ IsFiniteSet(Occupied) /\ IsFiniteSet(Tombstones) 
      /\ Cardinality(Tombstones) \in Nat
  <2>1. Occupied \in SUBSET Slots(capacity) /\ Tombstones \in SUBSET Slots(capacity)
    BY DEF Occupied, Tombstones
  <2> QED
    BY <1>1, <2>1, SlotsFinite
<1>5. Cardinality(Occupied') = size'
  <2>1. Occupied' = Occupied \cup {Vacant} /\ Vacant \notin Occupied
    BY <1>1, <1>2 DEF Occupied
  <2> QED
    BY <1>1, <1>4, <2>1, FS_AddElement DEF IInv, CountersExact
<1>6. Cardinality(Tombstones') = tombstones' /\ tombstones' \in Nat
  <2>1. Tombstones' = Tombstones \ {Vacant}
    BY <1>1, <1>2 DEF Tombstones
  <2>2. Vacant \in Tombstones <=> entries[Vacant].state = "tombstone"
    BY <1>2 DEF Tombstones
  <2>3. Cardinality(Tombstones \ {Vacant}) =
            IF Vacant \in Tombstones THEN Cardinality(Tombstones) - 1
            ELSE Cardinality(Tombstones)
    BY <1>4, FS_RemoveElement
  <2>4. Cardinality(Tombstones \ {Vacant}) \in Nat
    BY <1>4, FS_RemoveElement, FS_CardinalityType
  <2> QED
    BY <1>1, <2>1, <2>2, <2>3, <2>4 DEF IInv, CountersExact
<1>7. ProbeCanStop'
  BY <1>1, <1>6 DEF ProbeCanStop, Loaded
<1>8. CountersExact' /\ size' \in Nat
  BY <1>1, <1>5, <1>6 DEF CountersExact
<1> QED
  BY <1>1, <1>3, <1>6, <1>7, <1>8, InvReturn

LEMMA InvDeleteHit == ASSUME IInv, DeleteHit PROVE IInv'
<1>1. /\ capacity \in Nat /\ capacity' = capacity /\ Here \in Slots(capacity)
      /\ entries \in [Slots(capacity) -> Entry] /\ entries[Here].state = "occupied"
      /\ size \in Nat /\ size' = size - 1
      /\ tombstones \in Nat /\ tombstones' = tombstones + 1
      /\ entries' = [entries EXCEPT ![Here] = TombstoneEntry] /\ Return(TRUE)
  BY ProbeBounded DEF DeleteHit, Matches, IInv, TypeOK
<1>2. entries' \in [Slots(capacity) -> Entry]
  BY <1>1, EntryTypes
<1>3. IsFiniteSet(Occupied) /\ IsFiniteSet(Tombstones)
  <2>1. Occupied \in SUBSET Slots(capacity) /\ Tombstones \in SUBSET Slots(capacity)
    BY DEF Occupied, Tombstones
  <2> QED
    BY <1>1, <2>1, SlotsFinite
<1>4. Cardinality(Occupied') = size' /\ size' \in Nat
  <2>1. Occupied' = Occupied \ {Here} /\ Here \in Occupied
    BY <1>1, EntryTypes DEF Occupied
  <2>2. Cardinality(Occupied') = Cardinality(Occupied) - 1
    BY <1>3, <2>1, FS_RemoveElement
  <2>3. Cardinality(Occupied') \in Nat
    BY <1>3, <2>1, FS_RemoveElement, FS_CardinalityType
  <2> QED
    BY <1>1, <2>2, <2>3 DEF IInv, CountersExact
<1>5. Cardinality(Tombstones') = tombstones'
  <2>1. Tombstones' = Tombstones \cup {Here} /\ Here \notin Tombstones
    BY <1>1, EntryTypes DEF Tombstones
  <2> QED
    BY <1>1, <1>3, <2>1, FS_AddElement DEF IInv, CountersExact
<1>6. ProbeCanStop'
  BY <1>1 DEF IInv, ProbeCanStop
<1>7. CountersExact' /\ tombstones' \in Nat
  BY <1>1, <1>4, <1>5 DEF CountersExact
<1> QED
  BY <1>1, <1>2, <1>4, <1>6, <1>7, InvReturn

\* The calls that answer without changing the table.
LEMMA InvAnswer ==
    ASSUME IInv, FindHit \/ FindMiss \/ DeleteMiss
    PROVE  IInv'
<1>1. CountersExact' /\ ProbeCanStop'
  BY TableKept DEF FindHit, FindMiss, DeleteMiss
<1>2. PICK r \in Value \cup BOOLEAN \cup {Nothing} : Return(r)
  <2>1. CASE FindHit
    <3>1. entries[Here] \in Entry /\ entries[Here].state = "occupied"
      BY <2>1, ProbeBounded DEF FindHit, Matches, IInv, TypeOK
    <3> QED
      BY <2>1, <3>1, EntryShape DEF FindHit
  <2>2. CASE FindMiss \/ DeleteMiss
    BY <2>2 DEF FindMiss, DeleteMiss
  <2> QED
    BY <2>1, <2>2
<1> QED
  BY <1>1, <1>2, InvReturn DEF FindHit, FindMiss, DeleteMiss, tableVars, IInv, TypeOK

LEMMA InvStutter == ASSUME IInv, UNCHANGED vars PROVE IInv'
BY DEF IInv, TypeOK, CountersExact, ProbeCanStop, Passed, GrowCounts, GraveSound, RoomToInsert,
       vars, tableVars, growVars, callVars, Occupied, Tombstones, NewOccupied, Moved,
       Inserting, Loaded

\* Every step keeps the invariant.
LEMMA InvNext == IInv /\ [Next]_vars => IInv'
<1> SUFFICES ASSUME IInv, [Next]_vars PROVE IInv'
  OBVIOUS
<1>1. CASE BeginInsert
  BY <1>1, InvBegin DEF BeginInsert
<1>2. CASE BeginFind
  BY <1>2, InvBegin DEF BeginFind
<1>3. CASE BeginDelete
  BY <1>3, InvBegin DEF BeginDelete
<1>4. CASE GrowStep
  BY <1>4, InvGrowSkip, InvGrowProbe, InvGrowPlace, InvGrowFinish DEF GrowStep
<1>5. CASE ProbeStep
  BY <1>5, InvProbeStep
<1>6. CASE Finish
  BY <1>6, InvInsertUpdate, InvInsertNew, InvDeleteHit, InvAnswer DEF Finish
<1>7. CASE UNCHANGED vars
  BY <1>7, InvStutter
<1> QED
  BY <1>1, <1>2, <1>3, <1>4, <1>5, <1>6, <1>7 DEF Next, CallStep

\* The inductive invariant of the table holds throughout.
THEOREM TableInvariant == Spec => []IInv
<1>1. Init => IInv
  BY InvInit
<1>2. IInv /\ [Next]_vars => IInv'
  BY InvNext
<1> QED
  BY <1>1, <1>2, PTL DEF Spec

\* Every variable of the table and of the call under way keeps its type.
THEOREM TypeCorrect == Spec => []TypeOK
<1>1. IInv => TypeOK
  BY DEF IInv
<1> QED
  BY <1>1, TableInvariant, PTL

\* size and tombstones are the numbers of occupied and of deleted slots.
THEOREM CountersAreExact == Spec => []CountersExact
<1>1. IInv => CountersExact
  BY DEF IInv
<1> QED
  BY <1>1, TableInvariant, PTL

\* The table is never full of entries and tombstones.
THEOREM ProbesCanStop == Spec => []ProbeCanStop
<1>1. IInv => ProbeCanStop
  BY DEF IInv
<1> QED
  BY <1>1, TableInvariant, PTL

\* No probe of find_slot, store_find or reinsert_entry comes back to the slot
\* it started from.
NoFullCircle == /\ pc = "probe" => seen < capacity
                /\ Growing /\ entries[moving].state = "occupied" => seen < 2 * capacity

\* This is why the for (;;) of find_slot, store_find and reinsert_entry end.
THEOREM NoProbeGoesRound == Spec => []NoFullCircle
<1>1. IInv => NoFullCircle
  BY ProbeBounded, GrowBounded DEF NoFullCircle
<1> QED
  BY <1>1, TableInvariant, PTL

-----------------------------------------------------------------------------
\* What LookupSound says, of any array of slots.
Holds(arr, i, k) == arr[i].state = "occupied" /\ arr[i].key = k

UniqueIn(arr, cap) ==
    \A i, j \in Slots(cap) :
        arr[i].state = "occupied" /\ Holds(arr, j, arr[i].key) => i = j

\* The n slots a probe for k passes first have been used.
UsedUpTo(arr, k, n, cap) ==
    \A m \in 0 .. n - 1 : arr[ProbeSlot(k, m, cap)].state # "empty"

ReachableIn(arr, cap) ==
    \A i \in Slots(cap) :
        arr[i].state = "occupied" =>
            \E n \in Slots(cap) : /\ ProbeSlot(arr[i].key, n, cap) = i
                                  /\ UsedUpTo(arr, arr[i].key, n, cap)

\* No slot a probe has passed holds its key, and a remembered tombstone is one of
\* the slots it has passed.
PassedOthers ==
    pc = "probe" =>
        /\ \A m \in 0 .. seen - 1 :
              ~Holds(entries, ProbeSlot(call.key, m, capacity), call.key)
        /\ grave # NoSlot => \E m \in 0 .. seen - 1 : grave = ProbeSlot(call.key, m, capacity)

\* GrowKeepsEntries, slot by slot.
MovedExactly(new, old, cap, m) ==
    /\ \A j \in Slots(2 * cap) : new[j].state = "occupied" =>
          \E i \in Slots(cap) : i < m /\ old[i].state = "occupied" /\ new[j] = old[i]
    /\ \A i \in Slots(cap) : i < m /\ old[i].state = "occupied" =>
          \E j \in Slots(2 * cap) : new[j].state = "occupied" /\ new[j] = old[i]

\* The array being filled is itself a table in which lookups would be sound, and
\* holds exactly the entries that have been moved.
NewTableSound ==
    pc = "grow" => /\ UniqueIn(newEntries, 2 * capacity)
                   /\ ReachableIn(newEntries, 2 * capacity)
                   /\ MovedExactly(newEntries, entries, capacity, moving)

LInv == /\ UniqueIn(entries, capacity)
        /\ ReachableIn(entries, capacity)
        /\ PassedOthers
        /\ NewTableSound

LEMMA LInvIsSound ==
    ASSUME TypeOK, LInv PROVE LookupSound /\ GrowKeepsEntries
<1>1. KeysUnique
  BY DEF LInv, UniqueIn, KeysUnique, Holds, Occupied
<1>2. Reachable
  BY DEF LInv, ReachableIn, UsedUpTo, Reachable, Occupied
<1>3. GrowKeepsEntries
  <2> SUFFICES ASSUME pc = "grow" PROVE GrowKeepsEntries
    BY DEF GrowKeepsEntries
  <2> DEFINE J == {j \in Slots(2 * capacity) : newEntries[j].state = "occupied"}
             I == Occupied \cap (0 .. moving - 1)
  <2>1. moving \in Nat /\ capacity \in Nat
    BY DEF TypeOK
  <2>2. \A i : i \in I <=> i \in Slots(capacity) /\ i < moving /\ entries[i].state = "occupied"
    BY <2>1 DEF Occupied, Slots
  <2>3. /\ \A j \in J : \E i \in I : newEntries[j] = entries[i]
        /\ \A i \in I : \E j \in J : newEntries[j] = entries[i]
    BY <2>2 DEF LInv, NewTableSound, MovedExactly
  <2>4. {newEntries[j] : j \in J} = {entries[i] : i \in I}
    <3> HIDE DEF I, J
    <3>1. \A e : e \in {newEntries[j] : j \in J} => e \in {entries[i] : i \in I}
      BY <2>3
    <3>2. \A e : e \in {entries[i] : i \in I} => e \in {newEntries[j] : j \in J}
      BY <2>3
    <3> QED
      BY <3>1, <3>2
  <2>5. \A j, l \in J : newEntries[j].key = newEntries[l].key => j = l
    BY DEF LInv, NewTableSound, UniqueIn, Holds
  <2> QED
    BY <2>4, <2>5 DEF GrowKeepsEntries
<1> QED
  BY <1>1, <1>2, <1>3 DEF LookupSound

\* A probe that has come to a slot never used, past slots of other keys, has
\* shown that its key is not stored.
LEMMA AbsentAfterProbe ==
    ASSUME NEW arr, NEW cap \in Nat, NEW k, NEW n \in Slots(cap),
           ReachableIn(arr, cap),
           arr[ProbeSlot(k, n, cap)].state = "empty",
           \A m \in 0 .. n - 1 : ~Holds(arr, ProbeSlot(k, m, cap), k)
    PROVE  \A i \in Slots(cap) : ~Holds(arr, i, k)
<1> SUFFICES ASSUME NEW i \in Slots(cap), Holds(arr, i, k) PROVE FALSE
  OBVIOUS
<1>1. PICK p \in Slots(cap) : /\ ProbeSlot(k, p, cap) = i
                              /\ UsedUpTo(arr, k, p, cap)
  BY DEF ReachableIn, Holds
<1>2. n \in Int /\ p \in Int /\ 0 <= n /\ 0 <= p
  BY DEF Slots
<1>3. CASE n < p
  <2>1. n \in 0 .. p - 1
    BY <1>2, <1>3
  <2> QED
    BY <1>1, <2>1 DEF UsedUpTo
<1>4. CASE n = p
  BY <1>1, <1>4 DEF Holds
<1>5. CASE p < n
  <2>1. p \in 0 .. n - 1
    BY <1>2, <1>5
  <2> QED
    BY <1>1, <2>1
<1> QED
  BY <1>2, <1>3, <1>4, <1>5

\* An entry written to a slot the probe for its key leads to, past slots in use,
\* into an array without that key, leaves all entries where they are found.
LEMMA StoreKeepsSound ==
    ASSUME NEW cap \in Nat, NEW arr, NEW arr2, NEW s \in Slots(cap), NEW n \in Slots(cap), NEW e,
           DOMAIN arr = Slots(cap), arr2 = [arr EXCEPT ![s] = e],
           \A i \in Slots(cap) : arr[i].state = "occupied" => arr[i].key \in Key,
           e.state = "occupied", e.key \in Key,
           ProbeSlot(e.key, n, cap) = s, UsedUpTo(arr, e.key, n, cap),
           \A i \in Slots(cap) : ~Holds(arr, i, e.key),
           UniqueIn(arr, cap), ReachableIn(arr, cap)
    PROVE  UniqueIn(arr2, cap) /\ ReachableIn(arr2, cap)
<1>1. arr2[s] = e /\ \A i \in Slots(cap) : i # s => arr2[i] = arr[i]
  OBVIOUS
<1>2. UniqueIn(arr2, cap)
  BY <1>1 DEF UniqueIn, Holds
<1>3. \A k \in Key, p \in Slots(cap) :
         UsedUpTo(arr, k, p, cap) => UsedUpTo(arr2, k, p, cap)
  <2> SUFFICES ASSUME NEW k \in Key, NEW p \in Slots(cap), UsedUpTo(arr, k, p, cap),
                      NEW m \in 0 .. p - 1
               PROVE  arr2[ProbeSlot(k, m, cap)].state # "empty"
    BY DEF UsedUpTo
  <2>1. cap > 0 /\ m \in Slots(cap)
    BY DEF Slots
  <2>2. ProbeSlot(k, m, cap) \in Slots(cap)
    BY <2>1, ProbeInside
  <2> QED
    BY <1>1, <2>2 DEF UsedUpTo
<1>4. \A i \in Slots(cap) : arr2[i].state = "occupied" => arr2[i].key \in Key
  BY <1>1
<1>5. ReachableIn(arr2, cap)
  <2> SUFFICES ASSUME NEW i \in Slots(cap), arr2[i].state = "occupied"
               PROVE  \E p \in Slots(cap) : /\ ProbeSlot(arr2[i].key, p, cap) = i
                                            /\ UsedUpTo(arr2, arr2[i].key, p, cap)
    BY DEF ReachableIn
  <2>1. CASE i = s
    BY <1>1, <1>3, <2>1
  <2>2. CASE i # s
    <3>1. arr2[i] = arr[i] /\ arr[i].key \in Key
      BY <1>1, <1>4, <2>2
    <3> QED
      BY <1>3, <3>1 DEF ReachableIn
  <2> QED
    BY <2>1, <2>2
<1> QED
  BY <1>2, <1>5

-----------------------------------------------------------------------------
LEMMA LInvInit == Init => LInv
<1> SUFFICES ASSUME Init PROVE LInv
  OBVIOUS
<1>1. \A i \in Slots(capacity) : entries[i].state = "empty"
  BY DEF Init, EmptyArray, EmptyEntry
<1> QED
  BY <1>1 DEF LInv, UniqueIn, ReachableIn, Holds, PassedOthers, NewTableSound, Init

LEMMA LBegin ==
    ASSUME IInv, LInv, NEW op, NEW k, NEW v, Begin(op, k, v)
    PROVE  LInv'
<1>1. entries' = entries /\ capacity' = capacity /\ seen' = 0 /\ grave' = NoSlot
  BY DEF Begin, tableVars
<1>2. UniqueIn(entries, capacity)' /\ ReachableIn(entries, capacity)'
  BY <1>1 DEF LInv
<1>3. PassedOthers'
  BY <1>1 DEF PassedOthers
<1>4. ASSUME pc' = "grow" PROVE NewTableSound'
  <2>1. newEntries' = EmptyArray(2 * capacity) /\ moving' = 0
    BY <1>4 DEF Begin
  <2>2. \A j \in Slots(2 * capacity) : newEntries'[j].state # "occupied"
    BY <2>1 DEF EmptyArray, EmptyEntry
  <2>3. UniqueIn(newEntries, 2 * capacity)' /\ ReachableIn(newEntries, 2 * capacity)'
    BY <1>1, <2>2 DEF UniqueIn, ReachableIn
  <2>4. MovedExactly(newEntries, entries, capacity, moving)'
    BY <1>1, <2>1, <2>2 DEF MovedExactly, Slots
  <2> QED
    BY <2>3, <2>4 DEF NewTableSound
<1> QED
  BY <1>2, <1>3, <1>4 DEF LInv, NewTableSound

\* The steps of growth that move nothing.
LEMMA LGrowPasses ==
    ASSUME IInv, LInv, GrowSkip \/ GrowProbe
    PROVE  LInv'
<1>1. /\ UNCHANGED <<entries, capacity, newEntries, pc>> /\ pc = "grow"
      /\ moving \in Slots(capacity) /\ moving' \in {moving, moving + 1}
      /\ moving' = moving + 1 => entries[moving].state # "occupied"
  BY DEF GrowSkip, GrowProbe, Growing, tableVars, callVars, growVars, IInv, TypeOK, Slots
<1>2. UniqueIn(entries, capacity)' /\ ReachableIn(entries, capacity)'
  BY <1>1 DEF LInv
<1>3. \A i \in Slots(capacity) : entries[i].state = "occupied" => (i < moving <=> i < moving')
  BY <1>1 DEF Slots
<1>4. MovedExactly(newEntries, entries, capacity, moving)'
  BY <1>1, <1>3 DEF LInv, NewTableSound, MovedExactly
<1>5. UniqueIn(newEntries, 2 * capacity)' /\ ReachableIn(newEntries, 2 * capacity)'
  BY <1>1 DEF LInv, NewTableSound
<1> QED
  BY <1>1, <1>2, <1>4, <1>5 DEF LInv, PassedOthers, NewTableSound

\* An entry that moves is put where lookups in the new array will find it.
LEMMA LGrowPlace ==
    ASSUME IInv, LInv, GrowPlace PROVE LInv'
<1> DEFINE e == entries[moving]
           cap == 2 * capacity
<1>1. /\ TypeOK /\ TypeOK' /\ pc = "grow" /\ pc' = "grow"
      /\ capacity \in Nat /\ cap \in Nat /\ capacity' = capacity /\ entries' = entries
      /\ moving \in Slots(capacity) /\ moving' = moving + 1
      /\ newEntries \in [Slots(cap) -> Entry] /\ newEntries[Target].state # "occupied"
      /\ newEntries' = [newEntries EXCEPT ![Target] = e] /\ e.state = "occupied"
  BY InvGrowPlace DEF IInv, TypeOK, GrowPlace, Growing, tableVars, Slots
<1>2. Target \in Slots(cap) /\ e.key \in Key /\ seen \in Slots(cap)
  BY <1>1, GrowBounded DEF GrowPlace, IInv, TypeOK, Slots
<1>3. MovedExactly(newEntries, entries, capacity, moving)
  BY <1>1 DEF LInv, NewTableSound
<1>4. \A j \in Slots(cap) : ~Holds(newEntries, j, e.key)
  <2> SUFFICES ASSUME NEW j \in Slots(cap), Holds(newEntries, j, e.key) PROVE FALSE
    OBVIOUS
  <2>1. PICK i \in Slots(capacity) :
            i < moving /\ entries[i].state = "occupied" /\ newEntries[j] = entries[i]
    BY <1>3 DEF Holds, MovedExactly
  <2>2. i = moving
    BY <1>1, <2>1 DEF Holds, LInv, UniqueIn
  <2> QED
    BY <1>1, <2>1, <2>2 DEF Slots
<1>5. UsedUpTo(newEntries, e.key, seen, cap)
  BY <1>1 DEF IInv, Passed, UsedUpTo
<1>6. \A j \in Slots(cap) : newEntries[j].state = "occupied" => newEntries[j].key \in Key
  BY <1>1, EntryShape
<1>7. UniqueIn(newEntries', cap) /\ ReachableIn(newEntries', cap)
  <2>1. ProbeSlot(e.key, seen, cap) = Target
    BY DEF Target
  <2>2. DOMAIN newEntries = Slots(cap)
    BY <1>1
  <2>3. UniqueIn(newEntries, cap) /\ ReachableIn(newEntries, cap)
    BY <1>1 DEF LInv, NewTableSound
  <2> HIDE DEF cap, e
  <2> QED
    BY <1>1, <1>2, <1>4, <1>5, <1>6, <2>1, <2>2, <2>3, StoreKeepsSound
<1>8. MovedExactly(newEntries, entries, capacity, moving)'
  <2>1. newEntries'[Target] = e /\ \A j \in Slots(cap) : j # Target => newEntries'[j] = newEntries[j]
    BY <1>1, <1>2
  <2>2. \A j \in Slots(cap) : newEntries'[j].state = "occupied" =>
             \E i \in Slots(capacity) :
                 i < moving' /\ entries[i].state = "occupied" /\ newEntries'[j] = entries[i]
    <3> SUFFICES ASSUME NEW j \in Slots(cap), newEntries'[j].state = "occupied"
                 PROVE  \E i \in Slots(capacity) :
                     i < moving' /\ entries[i].state = "occupied" /\ newEntries'[j] = entries[i]
      OBVIOUS
    <3>1. CASE j = Target
      BY <1>1, <2>1, <3>1 DEF Slots
    <3>2. CASE j # Target
      <4>1. newEntries'[j] = newEntries[j]
        BY <2>1, <3>2
      <4>2. PICK i \in Slots(capacity) :
              i < moving /\ entries[i].state = "occupied" /\ newEntries[j] = entries[i]
        BY <1>3, <4>1 DEF MovedExactly
      <4> QED
        BY <1>1, <4>1, <4>2 DEF Slots
    <3> QED
      BY <3>1, <3>2
  <2>3. \A i \in Slots(capacity) : i < moving' /\ entries[i].state = "occupied" =>
             \E j \in Slots(cap) : newEntries'[j].state = "occupied" /\ newEntries'[j] = entries[i]
    <3> SUFFICES ASSUME NEW i \in Slots(capacity), i < moving', entries[i].state = "occupied"
                 PROVE  \E j \in Slots(cap) :
                            newEntries'[j].state = "occupied" /\ newEntries'[j] = entries[i]
      OBVIOUS
    <3>1. CASE i = moving
      BY <1>1, <1>2, <2>1, <3>1
    <3>2. CASE i # moving
      <4>1. i < moving
        BY <1>1, <3>2 DEF Slots
      <4>2. PICK j \in Slots(cap) : newEntries[j].state = "occupied" /\ newEntries[j] = entries[i]
        BY <1>3, <4>1 DEF MovedExactly
      <4>3. j # Target
        BY <1>1, <4>2
      <4> QED
        BY <2>1, <4>2, <4>3
    <3> QED
      BY <3>1, <3>2
  <2> QED
    BY <1>1, <2>2, <2>3 DEF MovedExactly
<1>9. UniqueIn(entries, capacity)' /\ ReachableIn(entries, capacity)'
  BY <1>1 DEF LInv
<1> QED
  BY <1>1, <1>7, <1>8, <1>9 DEF LInv, PassedOthers, NewTableSound

\* The array that was filled takes the old one's place.
LEMMA LGrowFinish ==
    ASSUME IInv, LInv, GrowFinish PROVE LInv'
<1>1. /\ entries' = newEntries /\ capacity' = 2 * capacity /\ pc = "grow" /\ pc' = "probe"
      /\ seen' = 0 /\ grave' = NoSlot
  BY DEF GrowFinish, IInv, Passed, GraveSound, TypeOK
<1>2. UniqueIn(entries, capacity)' /\ ReachableIn(entries, capacity)'
  BY <1>1 DEF LInv, NewTableSound
<1> QED
  BY <1>1, <1>2 DEF LInv, PassedOthers, NewTableSound

LEMMA LProbeStep ==
    ASSUME IInv, LInv, ProbeStep PROVE LInv'
<1>1. /\ pc = "probe" /\ pc' = pc /\ seen' = seen + 1 /\ call' = call /\ seen \in Nat
      /\ UNCHANGED <<entries, capacity>> /\ ~Holds(entries, Here, call.key)
      /\ grave' \in {grave, Here}
  BY DEF ProbeStep, ProbeOccupied, ProbeTombstone, Matches, Holds, IInv, TypeOK, tableVars
<1>2. UniqueIn(entries, capacity)' /\ ReachableIn(entries, capacity)'
  BY <1>1 DEF LInv
<1>3. \A m \in 0 .. seen : ~Holds(entries, ProbeSlot(call.key, m, capacity), call.key)
  BY <1>1 DEF LInv, PassedOthers, Here
<1>4. grave' # NoSlot => \E m \in 0 .. seen : grave' = ProbeSlot(call.key, m, capacity)
  BY <1>1 DEF LInv, PassedOthers, Here
<1>5. PassedOthers'
  BY <1>1, <1>3, <1>4 DEF PassedOthers, Holds
<1> QED
  BY <1>1, <1>2, <1>5 DEF LInv, NewTableSound

\* What the other steps do to the table: no slot loses its key but one that
\* becomes a tombstone.
LEMMA LKept ==
    ASSUME IInv, LInv, pc' = "idle", capacity' = capacity,
           \A i \in Slots(capacity) :
              \/ entries'[i].state = entries[i].state /\ entries'[i].key = entries[i].key
              \/ entries'[i].state = "tombstone"
    PROVE  LInv'
<1>1. UniqueIn(entries, capacity)'
  BY DEF LInv, UniqueIn, Holds
<1>2. /\ capacity \in Nat /\ capacity > 0
      /\ \A i \in Slots(capacity) : entries[i].state = "occupied" => entries[i].key \in Key
  BY EntryShape DEF IInv, TypeOK
<1>3. ASSUME NEW k \in Key, NEW n \in Slots(capacity), UsedUpTo(entries, k, n, capacity)
      PROVE  UsedUpTo(entries', k, n, capacity)
  <2> SUFFICES ASSUME NEW m \in 0 .. n - 1
               PROVE  entries'[ProbeSlot(k, m, capacity)].state # "empty"
    BY DEF UsedUpTo
  <2>1. ProbeSlot(k, m, capacity) \in Slots(capacity)
    <3>1. m \in Slots(capacity)
      BY <1>2 DEF Slots
    <3> QED
      BY <1>2, <3>1, ProbeInside
  <2> QED
    BY <1>3, <2>1 DEF UsedUpTo
<1>4. ReachableIn(entries, capacity)'
  <2> SUFFICES ASSUME NEW i \in Slots(capacity), entries'[i].state = "occupied"
               PROVE  \E n \in Slots(capacity) :
                          /\ ProbeSlot(entries'[i].key, n, capacity) = i
                          /\ UsedUpTo(entries', entries'[i].key, n, capacity)
    BY DEF ReachableIn
  <2>1. entries[i].state = "occupied" /\ entries'[i].key = entries[i].key
    OBVIOUS
  <2>2. PICK n \in Slots(capacity) : /\ ProbeSlot(entries[i].key, n, capacity) = i
                                     /\ UsedUpTo(entries, entries[i].key, n, capacity)
    BY <2>1 DEF LInv, ReachableIn
  <2> QED
    BY <1>2, <1>3, <2>1, <2>2
<1> QED
  BY <1>1, <1>4 DEF LInv, PassedOthers, NewTableSound

LEMMA LInsertUpdate == ASSUME IInv, LInv, InsertUpdate PROVE LInv'
<1>1. /\ entries \in [Slots(capacity) -> Entry] /\ Here \in Slots(capacity) /\ Matches
      /\ entries' = [entries EXCEPT ![Here].value = call.value]
      /\ capacity' = capacity /\ pc' = "idle"
  BY ProbeBounded DEF InsertUpdate, Return, IInv, TypeOK
<1>2. entries[Here] \in [state : {"occupied"}, key : Key, value : Value]
  BY <1>1 DEF Entry, EmptyEntry, TombstoneEntry, Matches
<1>3. /\ entries'[Here].state = entries[Here].state /\ entries'[Here].key = entries[Here].key
      /\ \A i \in Slots(capacity) : i # Here => entries'[i] = entries[i]
  <2>1. entries'[Here] = [entries[Here] EXCEPT !.value = call.value]
    BY <1>1
  <2> QED
    BY <1>1, <1>2, <2>1
<1> QED
  BY <1>1, <1>3, LKept

LEMMA LDeleteHit == ASSUME IInv, LInv, DeleteHit PROVE LInv'
<1>1. /\ entries \in [Slots(capacity) -> Entry] /\ Here \in Slots(capacity)
      /\ entries' = [entries EXCEPT ![Here] = TombstoneEntry]
      /\ capacity' = capacity /\ pc' = "idle"
  BY ProbeBounded DEF DeleteHit, Return, IInv, TypeOK
<1> QED
  BY <1>1, LKept, EntryTypes

LEMMA LAnswer == ASSUME IInv, LInv, FindHit \/ FindMiss \/ DeleteMiss PROVE LInv'
BY LKept DEF FindHit, FindMiss, DeleteMiss, Return, tableVars

\* The key of an insertion that comes to a slot never used is not stored.
LEMMA KeyAbsent ==
    ASSUME IInv, LInv, pc = "probe", entries[Here].state = "empty"
    PROVE  \A i \in Slots(capacity) : ~Holds(entries, i, call.key)
<1>1. capacity \in Nat /\ seen \in Slots(capacity)
  BY ProbeBounded DEF IInv, TypeOK, Slots
<1> QED
  BY <1>1, AbsentAfterProbe DEF LInv, PassedOthers, Here

\* A new entry goes to the slot the probe came to, or to the first tombstone it
\* passed: lookups find it there, and it is the only one of its key.
LEMMA LInsertNew == ASSUME IInv, LInv, InsertNew PROVE LInv'
<1> DEFINE e == OccupiedEntry(call.key, call.value)
<1>1. /\ pc = "probe" /\ pc' = "idle" /\ capacity' = capacity /\ capacity \in Nat
      /\ entries \in [Slots(capacity) -> Entry] /\ entries[Here].state = "empty"
      /\ entries' = [entries EXCEPT ![Vacant] = e]
      /\ e.state = "occupied" /\ e.key = call.key
  BY DEF InsertNew, Return, IInv, TypeOK, OccupiedEntry
<1>2. seen \in Slots(capacity) /\ Here \in Slots(capacity) /\ call.key \in Key
  BY <1>1, ProbeBounded DEF IInv, TypeOK, Slots
<1>3. \A i \in Slots(capacity) : ~Holds(entries, i, call.key)
  BY <1>1, KeyAbsent
<1>4. UsedUpTo(entries, call.key, seen, capacity)
  BY <1>1 DEF IInv, Passed, UsedUpTo
<1>5. PICK n \in Slots(capacity) :
         ProbeSlot(call.key, n, capacity) = Vacant /\ UsedUpTo(entries, call.key, n, capacity)
  <2>1. CASE grave = NoSlot
    BY <1>2, <1>4, <2>1 DEF Vacant, Here
  <2>2. CASE grave # NoSlot
    <3>1. PICK m \in 0 .. seen - 1 : grave = ProbeSlot(call.key, m, capacity)
      BY <1>1, <2>2 DEF LInv, PassedOthers
    <3>2. m \in Slots(capacity)
      <4>1. capacity \in Nat
        BY <1>1
      <4> QED
        BY <1>2, <3>1, <4>1 DEF Slots
    <3>3. \A q \in 0 .. m - 1 : q \in 0 .. seen - 1
      BY <1>2, <3>1 DEF Slots
    <3>4. UsedUpTo(entries, call.key, m, capacity)
      BY <1>4, <3>3 DEF UsedUpTo
    <3> QED
      BY <2>2, <3>1, <3>2, <3>4 DEF Vacant
  <2> QED
    BY <2>1, <2>2
<1>6. Vacant \in Slots(capacity)
  BY <1>2 DEF Vacant, IInv, TypeOK
<1>7. \A i \in Slots(capacity) : entries[i].state = "occupied" => entries[i].key \in Key
  BY <1>1, EntryShape
<1>8. UniqueIn(entries', capacity) /\ ReachableIn(entries', capacity)
  <2>1. DOMAIN entries = Slots(capacity)
    BY <1>1
  <2>2. UniqueIn(entries, capacity) /\ ReachableIn(entries, capacity)
    BY DEF LInv
  <2> HIDE DEF e
  <2> QED
    BY <1>1, <1>2, <1>3, <1>5, <1>6, <1>7, <2>1, <2>2, StoreKeepsSound
<1> QED
  BY <1>1, <1>8 DEF LInv, PassedOthers, NewTableSound

LEMMA LStutter == ASSUME LInv, UNCHANGED vars PROVE LInv'
BY DEF LInv, UniqueIn, ReachableIn, UsedUpTo, Holds, PassedOthers, NewTableSound, MovedExactly,
       vars, tableVars, growVars, callVars

LEMMA LNext == IInv /\ LInv /\ [Next]_vars => LInv'
<1> SUFFICES ASSUME IInv, LInv, [Next]_vars PROVE LInv'
  OBVIOUS
<1>1. CASE BeginInsert \/ BeginFind \/ BeginDelete
  BY <1>1, LBegin DEF BeginInsert, BeginFind, BeginDelete
<1>2. CASE GrowStep
  BY <1>2, LGrowPasses, LGrowPlace, LGrowFinish DEF GrowStep
<1>3. CASE ProbeStep
  BY <1>3, LProbeStep
<1>4. CASE Finish
  BY <1>4, LInsertUpdate, LInsertNew, LDeleteHit, LAnswer DEF Finish
<1>5. CASE UNCHANGED vars
  BY <1>5, LStutter
<1> QED
  BY <1>1, <1>2, <1>3, <1>4, <1>5 DEF Next, CallStep

\* The inductive invariant of what the slots hold: keys stored once, each on the path
\* of its lookups, in the old table and in the one store_grow fills.
THEOREM SlotsInvariant == Spec => []LInv
BY LInvInit, LNext, TableInvariant, PTL DEF Spec

\* A stored key is stored once, and a lookup cannot miss it.
THEOREM LookupsAreSound == Spec => []LookupSound
<1>1. IInv /\ LInv => LookupSound
  BY LInvIsSound DEF IInv
<1> QED
  BY <1>1, TableInvariant, SlotsInvariant, PTL

\* Growth loses no entry and makes none twice.
THEOREM GrowthKeepsEntries == Spec => []GrowKeepsEntries
<1>1. IInv /\ LInv => GrowKeepsEntries
  BY LInvIsSound DEF IInv
<1> QED
  BY <1>1, TableInvariant, SlotsInvariant, PTL

-----------------------------------------------------------------------------
\* d is the map an array of slots stands for: a key that is stored has the value
\* of its slot, any other has none.
Reads(d, arr, cap) ==
    /\ d = [k \in Key |-> d[k]]
    /\ \A k \in Key, i \in Slots(cap) : Holds(arr, i, k) => d[k] = arr[i].value
    /\ \A k \in Key : (\A i \in Slots(cap) : ~Holds(arr, i, k)) => d[k] = Nothing

LEMMA MapReads ==
    ASSUME NEW arr, NEW cap, UniqueIn(arr, cap), NEW d, NEW occupied,
           occupied = {i \in Slots(cap) : arr[i].state = "occupied"},
           d = [k \in Key |-> IF \E i \in occupied : arr[i].key = k
                              THEN arr[CHOOSE i \in occupied : arr[i].key = k].value
                              ELSE Nothing]
    PROVE  Reads(d, arr, cap)
<1>1. ASSUME NEW k \in Key, NEW i \in Slots(cap), Holds(arr, i, k)
      PROVE  d[k] = arr[i].value
  <2> DEFINE c == CHOOSE j \in occupied : arr[j].key = k
  <2>1. i \in occupied /\ arr[i].key = k
    BY <1>1 DEF Holds
  <2>2. c \in occupied /\ arr[c].key = k
    BY <2>1
  <2>3. c = i
    BY <2>1, <2>2 DEF UniqueIn, Holds
  <2>4. d[k] = arr[c].value
    BY <2>1
  <2> QED
    BY <2>3, <2>4
<1>2. ASSUME NEW k \in Key, \A i \in Slots(cap) : ~Holds(arr, i, k)
      PROVE  d[k] = Nothing
  BY <1>2 DEF Holds
<1>3. d = [k \in Key |-> d[k]]
  OBVIOUS
<1> QED
  BY <1>1, <1>2, <1>3 DEF Reads

LEMMA DictReads == ASSUME UniqueIn(entries, capacity) PROVE Reads(Dict, entries, capacity)
BY MapReads DEF Dict, Occupied

LEMMA DictReadsNext ==
    ASSUME UniqueIn(entries', capacity') PROVE Reads(Dict', entries', capacity')
BY MapReads DEF Dict, Occupied

\* Two arrays with the same entries stand for the same map.
LEMMA SameMap ==
    ASSUME NEW d1, NEW a1, NEW c1, Reads(d1, a1, c1),
           NEW d2, NEW a2, NEW c2, Reads(d2, a2, c2),
           \A k \in Key, i \in Slots(c1) : Holds(a1, i, k) =>
               \E j \in Slots(c2) : Holds(a2, j, k) /\ a2[j].value = a1[i].value,
           \A k \in Key, j \in Slots(c2) : Holds(a2, j, k) =>
               \E i \in Slots(c1) : Holds(a1, i, k)
    PROVE  d1 = d2
<1>1. ASSUME NEW k \in Key PROVE d1[k] = d2[k]
  <2>1. CASE \E i \in Slots(c1) : Holds(a1, i, k)
    <3>1. PICK i \in Slots(c1) : Holds(a1, i, k)
      BY <2>1
    <3>2. PICK j \in Slots(c2) : Holds(a2, j, k) /\ a2[j].value = a1[i].value
      BY <3>1
    <3> QED
      BY <3>1, <3>2 DEF Reads
  <2>2. CASE \A i \in Slots(c1) : ~Holds(a1, i, k)
    <3>1. \A j \in Slots(c2) : ~Holds(a2, j, k)
      BY <2>2
    <3> QED
      BY <2>2, <3>1 DEF Reads
  <2> QED
    BY <2>1, <2>2
<1>2. d1 = [k \in Key |-> d1[k]] /\ d2 = [k \in Key |-> d2[k]]
  BY DEF Reads
<1> QED
  BY <1>1, <1>2

-----------------------------------------------------------------------------
\* Steps of a call that is not over are steps of no map.
LEMMA MapBegin ==
    ASSUME IInv, NEW op \in {"insert", "find", "delete"},
           NEW k \in Key, NEW v, IF op = "insert" THEN v \in Value ELSE v = Nothing,
           Begin(op, k, v)
    PROVE  Map!Next
<1>1. Dict' = Dict /\ ret' = ret
  BY DEF Begin, tableVars, Dict, Occupied
<1>2. call = Map!NoRequest
  BY DEF Begin, IInv, TypeOK, NoCall, Map!NoRequest
<1>3. call' \in Map!Request
  BY DEF Begin, Map!Request
<1> QED
  BY <1>1, <1>2, <1>3 DEF Map!Next, Map!Invoke

LEMMA MapStutters ==
    ASSUME IInv, LInv, GrowSkip \/ GrowProbe \/ GrowPlace \/ ProbeStep \/ UNCHANGED vars
    PROVE  UNCHANGED Map!mapVars
BY DEF GrowSkip, GrowProbe, GrowPlace, ProbeStep, ProbeOccupied, ProbeTombstone, vars, tableVars,
       callVars, growVars, Dict, Occupied, Map!mapVars

\* Growth is invisible.
LEMMA MapGrowFinish ==
    ASSUME IInv, LInv, LInv', GrowFinish PROVE UNCHANGED Map!mapVars
<1>1. /\ entries' = newEntries /\ capacity' = 2 * capacity /\ capacity \in Nat
      /\ UNCHANGED <<call, ret>>
      /\ MovedExactly(newEntries, entries, capacity, capacity)
  BY DEF GrowFinish, IInv, TypeOK, LInv, NewTableSound
<1>2. Reads(Dict, entries, capacity) /\ Reads(Dict', newEntries, 2 * capacity)
  BY <1>1, DictReads, DictReadsNext DEF LInv
<1>3. \A i \in Slots(capacity) : i < capacity
  BY <1>1 DEF Slots
<1>4. \A k \in Key, i \in Slots(capacity) : Holds(entries, i, k) =>
         \E j \in Slots(2 * capacity) : /\ Holds(newEntries, j, k)
                                        /\ newEntries[j].value = entries[i].value
  BY <1>1, <1>3 DEF MovedExactly, Holds
<1>5. \A k \in Key, j \in Slots(2 * capacity) : Holds(newEntries, j, k) =>
         \E i \in Slots(capacity) : Holds(entries, i, k)
  BY <1>1 DEF MovedExactly, Holds
<1>6. Dict = Dict'
  BY <1>2, <1>4, <1>5, SameMap
<1> QED
  BY <1>1, <1>6 DEF Map!mapVars

\* What a call that is over has returned, and what has become of the map.
LEMMA MapFind ==
    ASSUME IInv, LInv, FindHit \/ FindMiss PROVE Map!Next
<1>1. /\ pc = "probe" /\ call.op = "find" /\ Here \in Slots(capacity) /\ call.key \in Key
      /\ Dict' = Dict /\ call' = NoCall
  BY ProbeBounded DEF FindHit, FindMiss, Return, tableVars, Dict, Occupied
<1>2. Reads(Dict, entries, capacity)
  BY DictReads DEF LInv
<1>3. ret' = Dict[call.key]
  <2>1. CASE FindHit
    BY <1>1, <1>2, <2>1 DEF FindHit, Return, Matches, Reads, Holds
  <2>2. CASE FindMiss
    BY <1>1, <1>2, <2>2, KeyAbsent DEF FindMiss, Return, Reads
  <2> QED
    BY <2>1, <2>2
<1> QED
  BY <1>1, <1>3 DEF Map!Next, Map!Find, Map!Return, Map!NoRequest, NoCall

LEMMA MapDelete ==
    ASSUME IInv, LInv, LInv', DeleteHit \/ DeleteMiss PROVE Map!Next
<1>1. /\ pc = "probe" /\ call.op = "delete" /\ Here \in Slots(capacity) /\ call.key \in Key
      /\ call' = NoCall /\ capacity' = capacity /\ entries \in [Slots(capacity) -> Entry]
  BY ProbeBounded DEF DeleteHit, DeleteMiss, Return, tableVars, IInv, TypeOK
<1>2. Reads(Dict, entries, capacity) /\ Reads(Dict', entries', capacity)
  BY <1>1, DictReads, DictReadsNext DEF LInv
<1>3. CASE DeleteHit
  <2>1. Holds(entries, Here, call.key) /\ entries[Here].value \in Value
    BY <1>1, <1>3, EntryShape DEF DeleteHit, Matches, Holds
  <2>2. Dict[call.key] # Nothing
    BY <1>1, <1>2, <2>1, NothingAssumption DEF Reads
  <2>3. entries'[Here] = TombstoneEntry
        /\ \A i \in Slots(capacity) : i # Here => entries'[i] = entries[i]
    BY <1>1, <1>3 DEF DeleteHit
  <2>4. ASSUME NEW i \in Slots(capacity), Holds(entries', i, call.key) PROVE FALSE
    <3>1. CASE i = Here
      BY <2>3, <2>4, <3>1, EntryTypes DEF Holds
    <3>2. CASE i # Here
      <4>1. Holds(entries, i, call.key)
        BY <2>3, <2>4, <3>2 DEF Holds
      <4>2. UniqueIn(entries, capacity)
        BY DEF LInv
      <4>3. i = Here
        BY <1>1, <2>1, <4>1, <4>2 DEF UniqueIn, Holds
      <4> QED
        BY <3>2, <4>3
    <3> QED
      BY <3>1, <3>2
  <2>5. Dict' = [Dict EXCEPT ![call.key] = Nothing]
    <3>1. ASSUME NEW k \in Key
          PROVE  Dict'[k] = [Dict EXCEPT ![call.key] = Nothing][k]
      <4>1. CASE k = call.key
        BY <1>1, <1>2, <2>4, <4>1 DEF Reads
      <4>2. CASE k # call.key
        <5>1. \A i \in Slots(capacity) : Holds(entries', i, k) <=> Holds(entries, i, k)
          BY <2>1, <2>3, <4>2, EntryTypes DEF Holds
        <5>2. \A i \in Slots(capacity) : Holds(entries, i, k) => entries'[i].value = entries[i].value
          BY <2>1, <2>3, <4>2 DEF Holds
        <5>3. Dict'[k] = Dict[k]
          BY <1>2, <5>1, <5>2 DEF Reads
        <5> QED
          BY <1>2, <4>2, <5>3 DEF Reads
      <4> QED
        BY <4>1, <4>2
    <3>2. Dict' = [k \in Key |-> Dict'[k]] /\ Dict = [k \in Key |-> Dict[k]]
      BY <1>2 DEF Reads
    <3> QED
      BY <3>1, <3>2
  <2> QED
    BY <1>1, <1>3, <2>2, <2>5
       DEF DeleteHit, Return, Map!Next, Map!Delete, Map!Return, Map!NoRequest, NoCall
<1>4. CASE DeleteMiss
  <2>1. Dict[call.key] = Nothing
    BY <1>1, <1>2, <1>4, KeyAbsent DEF DeleteMiss, Reads
  <2>2. Dict' = Dict /\ ret' = FALSE
    BY <1>4 DEF DeleteMiss, Return, tableVars, Dict, Occupied
  <2>3. Dict' = [Dict EXCEPT ![call.key] = Nothing]
    <3>1. Dict = [k \in Key |-> Dict[k]]
      BY <1>2 DEF Reads
    <3> QED
      BY <2>1, <2>2, <3>1
  <2> QED
    BY <1>1, <2>1, <2>2, <2>3 DEF Map!Next, Map!Delete, Map!Return, Map!NoRequest, NoCall
<1> QED
  BY <1>3, <1>4

\* An insertion that finds its key replaces the value ...
LEMMA MapInsertUpdate ==
    ASSUME IInv, LInv, LInv', InsertUpdate PROVE Map!Next
<1>1. /\ pc = "probe" /\ call.op = "insert" /\ Here \in Slots(capacity) /\ call.key \in Key
      /\ call' = NoCall /\ capacity' = capacity /\ entries \in [Slots(capacity) -> Entry]
      /\ ret' = TRUE /\ Holds(entries, Here, call.key)
  BY ProbeBounded DEF InsertUpdate, Inserting, Matches, Return, Holds, IInv, TypeOK
<1>2. Reads(Dict, entries, capacity) /\ Reads(Dict', entries', capacity)
  BY <1>1, DictReads, DictReadsNext DEF LInv
<1>3. /\ entries'[Here] = [entries[Here] EXCEPT !.value = call.value]
      /\ \A i \in Slots(capacity) : i # Here => entries'[i] = entries[i]
  BY <1>1 DEF InsertUpdate
<1>4. /\ Holds(entries', Here, call.key) /\ entries'[Here].value = call.value
      /\ \A k : Holds(entries', Here, k) <=> Holds(entries, Here, k)
  <2>1. entries[Here] = [state |-> "occupied", key |-> entries[Here].key,
                         value |-> entries[Here].value]
    BY <1>1, EntryTypes DEF Entry, Holds
  <2> QED
    BY <1>1, <1>3, <2>1 DEF Holds
<1>5. ASSUME NEW k \in Key PROVE Dict'[k] = [Dict EXCEPT ![call.key] = call.value][k]
  <2>1. CASE k = call.key
    BY <1>1, <1>2, <1>4, <2>1 DEF Reads
  <2>2. CASE k # call.key
    <3>1. \A i \in Slots(capacity) : Holds(entries', i, k) <=> Holds(entries, i, k)
      BY <1>3, <1>4 DEF Holds
    <3>2. \A i \in Slots(capacity) : Holds(entries, i, k) => entries'[i].value = entries[i].value
      BY <1>1, <1>3, <2>2 DEF Holds
    <3>3. Dict'[k] = Dict[k]
      BY <1>2, <3>1, <3>2 DEF Reads
    <3> QED
      BY <1>2, <2>2, <3>3 DEF Reads
  <2> QED
    BY <2>1, <2>2
<1>6. Dict' = [Dict EXCEPT ![call.key] = call.value]
  <2>1. Dict' = [k \in Key |-> Dict'[k]] /\ Dict = [k \in Key |-> Dict[k]]
    BY <1>2 DEF Reads
  <2> QED
    BY <1>5, <2>1
<1> QED
  BY <1>1, <1>6 DEF Map!Next, Map!Insert, Map!Return, Map!NoRequest, NoCall

\* ... and one that does not finds no entry of it anywhere and adds one.
LEMMA MapInsertNew ==
    ASSUME IInv, LInv, LInv', InsertNew PROVE Map!Next
<1>1. /\ pc = "probe" /\ call.op = "insert" /\ Here \in Slots(capacity) /\ call.key \in Key
      /\ call' = NoCall /\ capacity' = capacity /\ entries \in [Slots(capacity) -> Entry]
      /\ ret' = TRUE /\ Vacant \in Slots(capacity) /\ entries[Here].state = "empty"
      /\ entries' = [entries EXCEPT ![Vacant] = OccupiedEntry(call.key, call.value)]
  BY ProbeBounded DEF InsertNew, Inserting, Return, Vacant, IInv, TypeOK
<1>2. Reads(Dict, entries, capacity) /\ Reads(Dict', entries', capacity)
  BY <1>1, DictReads, DictReadsNext DEF LInv
<1>3. /\ entries'[Vacant] = OccupiedEntry(call.key, call.value)
      /\ \A i \in Slots(capacity) : i # Vacant => entries'[i] = entries[i]
  BY <1>1
<1>4. entries[Vacant].state # "occupied"
  BY <1>1 DEF Vacant, IInv, GraveSound
<1>5. ASSUME NEW k \in Key PROVE Dict'[k] = [Dict EXCEPT ![call.key] = call.value][k]
  <2>1. CASE k = call.key
    BY <1>1, <1>2, <1>3, <2>1 DEF Reads, Holds, OccupiedEntry
  <2>2. CASE k # call.key
    <3>1. \A i \in Slots(capacity) : Holds(entries', i, k) <=> Holds(entries, i, k)
      BY <1>3, <1>4, <2>2 DEF Holds, OccupiedEntry
    <3>2. \A i \in Slots(capacity) : Holds(entries, i, k) => entries'[i].value = entries[i].value
      BY <1>3, <1>4 DEF Holds
    <3>3. Dict'[k] = Dict[k]
      BY <1>2, <3>1, <3>2 DEF Reads
    <3> QED
      BY <1>2, <2>2, <3>3 DEF Reads
  <2> QED
    BY <2>1, <2>2
<1>6. Dict' = [Dict EXCEPT ![call.key] = call.value]
  <2>1. Dict' = [k \in Key |-> Dict'[k]] /\ Dict = [k \in Key |-> Dict[k]]
    BY <1>2 DEF Reads
  <2> QED
    BY <1>5, <2>1
<1> QED
  BY <1>1, <1>6 DEF Map!Next, Map!Insert, Map!Return, Map!NoRequest, NoCall

LEMMA MapInit == Init => Map!Init
<1> SUFFICES ASSUME Init PROVE Map!Init
  OBVIOUS
<1>1. Occupied = {}
  BY EntryTypes DEF Init, Occupied, EmptyArray
<1>2. Dict = [k \in Key |-> Nothing]
  BY <1>1 DEF Dict
<1> QED
  BY <1>2 DEF Init, Map!Init, NoCall, Map!NoRequest

LEMMA MapNext == IInv /\ LInv /\ LInv' /\ [Next]_vars => [Map!Next]_(Map!mapVars)
<1> SUFFICES ASSUME IInv, LInv, LInv', [Next]_vars PROVE Map!Next \/ UNCHANGED Map!mapVars
  OBVIOUS
<1>1. CASE BeginInsert \/ BeginFind \/ BeginDelete
  BY <1>1, MapBegin DEF BeginInsert, BeginFind, BeginDelete
<1>2. CASE GrowSkip \/ GrowProbe \/ GrowPlace \/ ProbeStep \/ UNCHANGED vars
  BY <1>2, MapStutters
<1>3. CASE GrowFinish
  BY <1>3, MapGrowFinish
<1>4. CASE Finish
  BY <1>4, MapInsertUpdate, MapInsertNew, MapFind, MapDelete DEF Finish
<1> QED
  BY <1>1, <1>2, <1>3, <1>4 DEF Next, CallStep, GrowStep

\* The table implements KVMap: every call of store.h has the result and the effect
\* it has on a map from keys to values, whatever the hash function, the collisions,
\* the tombstones and the growth of the table.
THEOREM TableIsAMap == Spec => ImplementsMap
<1>1. Init => Map!Init
  BY MapInit
<1>2. IInv /\ LInv /\ LInv' /\ [Next]_vars => [Map!Next]_(Map!mapVars)
  BY MapNext
<1> QED
  BY <1>1, <1>2, TableInvariant, SlotsInvariant, PTL DEF Spec, ImplementsMap, Map!Spec
-----------------------------------------------------------------------------
\* CacheBench.  A command to be executed, and what the table knows of it.
Commands == [op : {"insert"}, key : Key, record : Record]
                \cup [op : {"find", "delete"}, key : Key, record : {Nothing}]

UnderWay ==
    /\ phase \in {"execute", "run"} => /\ cmd \in Commands
                                       /\ cmd.record # Nothing => keyPage[cmd.record] = "mapped"
    /\ phase \in {"read", "execute", "destroy", "exited"} => pc = "idle"
    /\ phase = "run" /\ pc # "idle" =>
           call = [op |-> cmd.op, key |-> cmd.key, value |-> cmd.record]

\* Both pages of what the table borrowed are poisoned, but for those of the record a
\* command that has returned has just stored.
Dangles(r) == /\ r \in Record
              /\ keyPage[r] = "poisoned" \/ (phase = "run" /\ pc = "idle" /\ r = cmd.record)

Borrowed ==
    /\ valuePage = keyPage
    /\ \A i \in Occupied : Dangles(keyOwner[entries[i].key]) /\ Dangles(entries[i].value)

\* Growth comes no further than the first entry it meets.
Shape ==
    /\ TableNeverChangesShape
    /\ pc = "grow" => /\ Loaded /\ seen = 0
                      /\ \A i \in Slots(capacity) : i < moving => i \notin Occupied

\* A record that was created is stored before the next line is read.
Decided ==
    /\ Stored /\ Occupied = {} =>
           /\ phase \in {"execute", "run"} /\ cmd.record # Nothing
           /\ phase = "run" => pc # "idle"
    /\ phase = "destroy" => \A i \in Slots(capacity) : i < cursor => i \notin Occupied
    /\ phase = "exited" => Occupied = {}
    /\ phase = "faulted" => Occupied # {}

BenchInv == /\ IInv /\ LInv
            /\ BenchTypeOK /\ UnderWay /\ Borrowed /\ Shape /\ Decided

\* Whatever reads a stored string while a call is under way is a fault, and there is
\* no other fault.
LEMMA StringsUnreadable ==
    ASSUME BenchInv, phase = "run", pc # "idle"
    PROVE  /\ pc = "probe" => ~(Matches /\ Readable)
           /\ ~(RehashesKey /\ Readable)
           /\ ~Readable => Occupied # {}
<1>1. /\ \A i \in Occupied : /\ keyPage[keyOwner[entries[i].key]] = "poisoned"
                             /\ valuePage[entries[i].value] = "poisoned"
      /\ IInv
  BY DEF BenchInv, Borrowed, Dangles
<1>2. ASSUME pc = "probe" PROVE Here \in Slots(capacity)
  BY <1>1, <1>2, ProbeBounded
<1>3. ASSUME pc = "probe", Matches, Readable PROVE FALSE
  <2>1. Here \in Occupied /\ entries[Here].key = call.key
    BY <1>2, <1>3 DEF Matches, Occupied
  <2>2. ~RehashesKey
    BY <1>3 DEF RehashesKey, Growing
  <2>3. KeyRead = {entries[Here].key}
    BY <1>3, <2>1, <2>2 DEF KeyRead, ComparesKey, Matches
  <2> QED
    BY <1>1, <1>3, <2>1, <2>3 DEF Readable
<1>4. ASSUME RehashesKey PROVE moving \in Occupied /\ KeyRead = {entries[moving].key}
  <2>1. moving \in Slots(capacity)
    BY <1>1, <1>4 DEF RehashesKey, Growing, Slots, IInv, TypeOK
  <2> QED
    BY <1>4, <2>1 DEF KeyRead, RehashesKey, Occupied
<1>5. ASSUME RehashesKey, Readable PROVE FALSE
  BY <1>1, <1>4, <1>5 DEF Readable
<1>6. ASSUME ~Readable PROVE Occupied # {}
  <2>1. KeyRead # {} \/ ValueRead # {}
    BY <1>6 DEF Readable
  <2>2. CASE RehashesKey
    BY <1>4, <2>2
  <2>3. CASE ComparesKey
    BY <1>2, <2>3 DEF ComparesKey, Occupied
  <2>4. CASE pc = "probe" /\ Matches
    BY <1>2, <2>4 DEF Matches, Occupied
  <2> QED
    BY <2>1, <2>2, <2>3, <2>4 DEF KeyRead, ValueRead
<1> QED
  BY <1>3, <1>5, <1>6

\* The steps of the table that are left: it fills slots never used, and that is all.
LEMMA RunIs ==
    ASSUME BenchInv, Run
    PROVE  GrowSkip \/ ProbeOccupied \/ ProbeTombstone \/ InsertNew \/ FindMiss \/ DeleteMiss
<1>1. phase = "run" /\ pc # "idle" /\ Readable /\ CallStep
  BY DEF Run
<1>2. IInv /\ Shape
  BY DEF BenchInv
<1>3. ~GrowProbe /\ ~GrowPlace
  BY <1>1, <1>2, StringsUnreadable DEF GrowProbe, GrowPlace, Growing, RehashesKey, Shape
<1>4. ~GrowFinish
  <2> SUFFICES ASSUME GrowFinish PROVE FALSE
    OBVIOUS
  <2>1. moving = capacity /\ pc = "grow" /\ capacity \in Nat /\ size \in Nat /\ tombstones = 0
        /\ size = Cardinality(Occupied) /\ capacity >= 4
    BY <1>2 DEF GrowFinish, IInv, TypeOK, CountersExact, Shape, TableNeverChangesShape
  <2>2. Occupied = {}
    BY <1>2, <2>1 DEF Shape, Occupied, Slots
  <2>3. size = 0
    BY <2>1, <2>2, FS_EmptySet
  <2> QED
    BY <1>2, <2>1, <2>3 DEF Shape, Loaded
<1>5. ~InsertUpdate /\ ~FindHit /\ ~DeleteHit
  BY <1>1, StringsUnreadable DEF InsertUpdate, FindHit, DeleteHit
<1> QED
  BY <1>1, <1>3, <1>4, <1>5 DEF CallStep, GrowStep, ProbeStep, Finish

\* store_destroy frees nothing: the first entry it comes to is dangling.
LEMMA NothingFreed ==
    ASSUME BenchInv, DestroyEntry
    PROVE  phase' = "faulted" /\ UNCHANGED <<vars, memory, cmd, lines, cursor>> /\ fault' = "page_strfree"
           /\ lastLine' = lastLine /\ Occupied # {}
<1>1. /\ phase = "destroy" /\ cursor < capacity /\ cursor \in 0 .. capacity /\ capacity \in Nat
      /\ entries[cursor].state = "occupied"
  BY DEF DestroyEntry, Destroying, BenchInv, BenchTypeOK, IInv, TypeOK
<1>2. cursor \in Occupied
  BY <1>1 DEF Occupied, Slots
<1>3. ~Freeable
  BY <1>1, <1>2 DEF Freeable, BenchInv, Borrowed, Dangles
<1> QED
  BY <1>2, <1>3 DEF DestroyEntry, vars, tableVars, growVars, callVars, memory

\* What main does to the table is what a caller of store.h may do.
LEMMA StepsOfStore == BenchInv /\ [BenchNext]_benchVars => [Next]_vars
<1> SUFFICES ASSUME BenchInv, [BenchNext]_benchVars PROVE [Next]_vars
  OBVIOUS
<1>1. CASE Execute
  <2>1. Begin(cmd.op, cmd.key, cmd.record) /\ cmd \in Commands
    BY <1>1 DEF Execute, BenchInv, UnderWay
  <2>2. CASE cmd.op = "insert"
    BY <2>1, <2>2 DEF Commands, Record, Next, BeginInsert
  <2>3. CASE cmd.op = "find"
    BY <2>1, <2>3 DEF Commands, Next, BeginFind
  <2>4. CASE cmd.op = "delete"
    BY <2>1, <2>4 DEF Commands, Next, BeginDelete
  <2> QED
    BY <2>1, <2>2, <2>3, <2>4 DEF Commands
<1>2. CASE Run
  BY <1>2 DEF Run, Next
<1>3. CASE DestroyEntry
  BY <1>3, NothingFreed
<1>4. CASE ~(Execute \/ Run \/ DestroyEntry)
  BY <1>4 DEF BenchNext, Advance, Ended, benchVars, ReadAdd, ReadLookup, ReadOther, EndOfFile,
              BadLine, RunFault, Dispose, DestroySkip, DestroyEnd
<1> QED
  BY <1>1, <1>2, <1>3, <1>4

LEMMA InvBenchNext == BenchInv /\ [BenchNext]_benchVars => IInv' /\ LInv'
BY StepsOfStore, InvNext, LNext DEF BenchInv

LEMMA BenchInvInit == BenchInit => BenchInv
<1> SUFFICES ASSUME BenchInit PROVE BenchInv
  OBVIOUS
<1>1. Init /\ IInv /\ LInv
  BY InvInit, LInvInit DEF BenchInit
<1>2. Occupied = {} /\ ~Stored
  BY <1>1 DEF BenchInit, Init, Occupied, EmptyArray, EmptyEntry, Stored, Unused
<1>3. BenchTypeOK /\ UnderWay /\ Borrowed /\ Decided
  BY <1>1, <1>2, CommandsAssumption
  DEF BenchInit, Init, IInv, BenchTypeOK, TypeOK, UnderWay, Borrowed, Decided, PageState
<1>4. Shape
  BY <1>1, CapacityAssumption DEF BenchInit, Init, Shape, TableNeverChangesShape
<1> QED
  BY <1>1, <1>3, <1>4 DEF BenchInv

\* What a step of main that leaves the table alone has to keep.
Main == BenchTypeOK /\ UnderWay /\ Borrowed /\ Decided

LEMMA SameTable ==
    ASSUME BenchInv, UNCHANGED vars
    PROVE  /\ Occupied' = Occupied /\ Shape' /\ TypeOK'
           /\ UNCHANGED <<capacity, entries, pc, call, seen, moving>>
<1>1. UNCHANGED <<capacity, entries, size, tombstones, pc, call, seen, moving>>
  BY DEF vars, tableVars, growVars, callVars
<1>2. IInv'
  BY InvStutter DEF BenchInv
<1>3. Occupied' = Occupied /\ Loaded' = Loaded /\ TypeOK'
  BY <1>1, <1>2 DEF Occupied, Loaded, IInv
<1>4. TableNeverChangesShape'
  BY <1>1 DEF BenchInv, Shape, TableNeverChangesShape
<1>5. Shape'
  BY <1>1, <1>3, <1>4 DEF BenchInv, Shape
<1> QED
  BY <1>1, <1>3, <1>5

LEMMA LineRead == ASSUME BenchTypeOK, ReadLine PROVE lines' \in 0 .. MaxCommands
<1>1. lines \in 0 .. MaxCommands /\ lines < MaxCommands /\ lines' = lines + 1
  BY DEF ReadLine, BenchTypeOK
<1> QED
  BY <1>1, CommandsAssumption

LEMMA ReadKeeps ==
    ASSUME BenchInv, \/ \E k \in Key : ReadAdd(k) \/ ReadLookup("find", k) \/ ReadLookup("delete", k)
                     \/ ReadOther
    PROVE  Main' /\ Shape'
<1>1. UNCHANGED vars /\ phase = "read" /\ lines' \in 0 .. MaxCommands /\ UNCHANGED <<keyOwner, cursor, fault, lastLine>>
  BY LineRead DEF ReadAdd, ReadLookup, ReadOther, ReadLine, memory, BenchInv
<1>2. Shape' /\ TypeOK' /\ Occupied' = Occupied /\ entries' = entries /\ pc' = pc /\ capacity' = capacity
  BY <1>1, SameTable
<1>3. pc = "idle" /\ (Stored => Occupied # {}) /\ valuePage = keyPage
      /\ keyPage \in [Record -> PageState] /\ keyOwner \in [Key -> Record \cup {Nothing}]
      /\ cursor \in 0 .. capacity
      /\ \A i \in Occupied : /\ keyOwner[entries[i].key] \in Record /\ entries[i].value \in Record
                             /\ keyPage[keyOwner[entries[i].key]] = "poisoned"
                             /\ keyPage[entries[i].value] = "poisoned"
  BY <1>1 DEF BenchInv, BenchTypeOK, UnderWay, Borrowed, Dangles, Decided
<1>4. CASE \E k \in Key : ReadAdd(k)
  <2>1. PICK k \in Key : ReadAdd(k)
    BY <1>4
  <2>2. PICK r \in Record : r = NextRecord /\ keyPage[r] = "none"
    BY <2>1 DEF ReadAdd, NextRecord, Unused
  <2>3. /\ keyPage' = [keyPage EXCEPT ![r] = "mapped"]
        /\ valuePage' = [valuePage EXCEPT ![r] = "mapped"]
        /\ cmd' = [op |-> "insert", key |-> k, record |-> r] /\ phase' = "execute"
    BY <2>1, <2>2 DEF ReadAdd
  <2>4. keyPage' \in [Record -> PageState] /\ keyPage'[r] = "mapped" /\ valuePage' = keyPage'
    BY <1>3, <2>3 DEF PageState
  <2>5. Borrowed'
    BY <1>1, <1>2, <1>3, <2>2, <2>3, <2>4 DEF Borrowed, Dangles
  <2>6. BenchTypeOK'
    BY <1>1, <1>2, <1>3, <2>3, <2>4 DEF BenchInv, BenchTypeOK
  <2>7. cmd' \in Commands /\ r # Nothing
    BY <2>3, NothingAssumption DEF Commands, Record
  <2>8. UnderWay' /\ Decided'
    BY <1>2, <1>3, <2>3, <2>4, <2>7 DEF UnderWay, Commands, Decided
  <2> QED
    BY <1>2, <2>5, <2>6, <2>8 DEF Main
<1>5. CASE \E k \in Key : ReadLookup("find", k) \/ ReadLookup("delete", k)
  <2>1. PICK k \in Key, op \in {"find", "delete"} : ReadLookup(op, k)
    BY <1>5
  <2>2. UNCHANGED <<keyPage, valuePage>> /\ phase' = "execute"
        /\ cmd' = [op |-> op, key |-> k, record |-> Nothing]
    BY <2>1 DEF ReadLookup, memory
  <2>3. cmd' \in Commands /\ cmd'.record = Nothing
    BY <2>2 DEF Commands
  <2>4. Borrowed' /\ BenchTypeOK'
    BY <1>1, <1>2, <1>3, <2>2 DEF Borrowed, Dangles, BenchInv, BenchTypeOK
  <2>5. UnderWay' /\ Decided'
    BY <1>1, <1>2, <1>3, <2>2, <2>3 DEF UnderWay, Decided, Stored, Unused
  <2> QED
    BY <1>2, <2>4, <2>5 DEF Main
<1>6. CASE ReadOther
  <2>1. UNCHANGED <<keyPage, valuePage, phase, cmd>>
    BY <1>6 DEF ReadOther, memory
  <2> QED
    BY <1>1, <1>2, <1>3, <2>1
    DEF Main, Borrowed, Dangles, BenchInv, BenchTypeOK, UnderWay, Decided, Stored, Unused
<1> QED
  BY <1>4, <1>5, <1>6

LEMMA EndReadingKeeps ==
    ASSUME BenchInv, EndOfFile \/ BadLine
    PROVE  Main' /\ Shape'
<1>1. /\ UNCHANGED vars /\ phase = "read" /\ phase' = "destroy" /\ cursor' = 0
      /\ lines' \in 0 .. MaxCommands /\ UNCHANGED <<keyPage, valuePage, keyOwner, cmd, fault>>
      /\ lastLine' \in {"end of file", "bad"}
  <2>1. lines \in 0 .. MaxCommands
    BY DEF BenchInv, BenchTypeOK
  <2>2. BenchTypeOK
    BY DEF BenchInv
  <2>3. CASE EndOfFile
    BY <2>1, <2>3 DEF EndOfFile, memory
  <2>4. CASE BadLine
    BY <2>2, <2>4, LineRead DEF BadLine, ReadLine, memory
  <2> QED
    BY <2>3, <2>4
<1>2. Shape' /\ TypeOK' /\ Occupied' = Occupied /\ entries' = entries /\ pc' = pc /\ capacity' = capacity
  BY <1>1, SameTable
<1>3. capacity \in Nat
  BY DEF BenchInv, IInv, TypeOK
<1>4. BenchTypeOK'
  <2>1. cursor' = 0 /\ capacity' \in Nat
    BY <1>1, <1>2, <1>3
  <2>2. cursor' \in 0 .. capacity'
    BY <2>1
  <2> QED
    BY <1>1, <1>2, <2>2 DEF BenchInv, BenchTypeOK
<1>5. Borrowed' /\ UnderWay'
  BY <1>1, <1>2 DEF BenchInv, Borrowed, Dangles, UnderWay
<1>6. Decided'
  <2>1. \A i \in Slots(capacity) : ~(i < 0)
    BY <1>3 DEF Slots
  <2> QED
    BY <1>1, <1>2, <2>1 DEF BenchInv, Decided, Stored, Unused
<1> QED
  BY <1>2, <1>4, <1>5, <1>6 DEF Main

LEMMA ExecuteKeeps ==
    ASSUME BenchInv, Execute
    PROVE  Main' /\ Shape'
<1>1. /\ phase = "execute" /\ phase' = "run" /\ Begin(cmd.op, cmd.key, cmd.record)
      /\ UNCHANGED <<keyPage, valuePage, keyOwner, cmd, lines, cursor, fault, lastLine>>
  BY DEF Execute, memory
<1>2. /\ UNCHANGED <<capacity, entries, size, tombstones>> /\ seen' = 0 /\ pc' \in {"grow", "probe"}
      /\ call' = [op |-> cmd.op, key |-> cmd.key, value |-> cmd.record]
      /\ pc' = "grow" => Loaded /\ moving' = 0
  BY <1>1 DEF Begin, tableVars
<1>3. TypeOK' /\ Occupied' = Occupied /\ Loaded' = Loaded
  <2>1. IInv'
    BY InvBenchNext DEF BenchNext, Advance
  <2> QED
    BY <1>2, <2>1 DEF IInv, Occupied, Loaded
<1>4. Shape'
  BY <1>2, <1>3 DEF Shape, TableNeverChangesShape, BenchInv, Slots
<1>5. BenchTypeOK' /\ Borrowed'
  BY <1>1, <1>2, <1>3 DEF BenchInv, BenchTypeOK, Borrowed, Dangles
<1>6. UnderWay' /\ Decided'
  BY <1>1, <1>2, <1>3 DEF BenchInv, UnderWay, Decided, Stored, Unused
<1> QED
  BY <1>4, <1>5, <1>6 DEF Main

\* An entry more, in a slot never used: the one thing a command does to the table.
LEMMA StoreKeeps ==
    ASSUME BenchInv, Run, InsertNew
    PROVE  Main' /\ Shape'
<1>1. /\ phase = "run" /\ pc = "probe" /\ IInv /\ LInv
      /\ UNCHANGED <<phase, cmd, lines, cursor, fault, lastLine>>
  BY DEF Run, InsertNew, BenchInv
<1>2. /\ call = [op |-> cmd.op, key |-> cmd.key, value |-> cmd.record] /\ cmd \in Commands
      /\ call.op = "insert" /\ (cmd.record # Nothing => keyPage[cmd.record] = "mapped")
  BY <1>1 DEF BenchInv, UnderWay, InsertNew, Inserting
<1>3. cmd.record \in Record /\ cmd.key \in Key /\ keyPage[cmd.record] = "mapped"
  BY <1>2, NothingAssumption DEF Commands, Record
<1>4. /\ Here \in Slots(capacity) /\ entries \in [Slots(capacity) -> Entry]
      /\ size \in Nat /\ tombstones = 0 /\ capacity \in Nat /\ capacity = InitialCapacity
      /\ 10 * size <= 6 * capacity
  <2>1. ~Loaded /\ tombstones = 0
    BY <1>1, <1>2 DEF IInv, RoomToInsert, Inserting, BenchInv, Shape, TableNeverChangesShape
  <2>2. size \in Nat /\ capacity \in Nat
    BY <1>1 DEF IInv, TypeOK
  <2> QED
    BY <1>1, <2>1, <2>2, ProbeBounded
    DEF IInv, TypeOK, Loaded, BenchInv, Shape, TableNeverChangesShape
<1>5. \A i \in Slots(capacity) : entries[i].state # "tombstone"
  <2>1. IsFiniteSet(Tombstones)
    BY <1>4, SlotsFinite, FS_Subset DEF Tombstones
  <2>2. Tombstones = {}
    BY <1>1, <1>4, <2>1, FS_EmptySet DEF IInv, CountersExact
  <2> QED
    BY <2>2 DEF Tombstones
<1>6. Vacant = Here
  <2>1. grave = NoSlot \/ grave \in Slots(capacity)
    BY <1>1 DEF IInv, TypeOK
  <2> QED
    BY <1>1, <1>5, <2>1 DEF IInv, GraveSound, Vacant
<1>7. /\ entries' = [entries EXCEPT ![Here] = OccupiedEntry(cmd.key, cmd.record)]
      /\ size' = size + 1 /\ tombstones' = 0 /\ pc' = "idle" /\ capacity' = capacity
  BY <1>2, <1>4, <1>5, <1>6 DEF InsertNew, Return
<1>8. /\ keyOwner' = [keyOwner EXCEPT ![cmd.key] = cmd.record]
      /\ UNCHANGED <<keyPage, valuePage>>
  <2>1. size' > size /\ ~(size' < size)
    BY <1>4, <1>7
  <2> QED
    BY <1>2, <2>1 DEF Run
<1>9. /\ entries'[Here] = OccupiedEntry(cmd.key, cmd.record)
      /\ \A i \in Slots(capacity) : i # Here => entries'[i] = entries[i]
      /\ Occupied' = Occupied \cup {Here}
  BY <1>4, <1>7 DEF Occupied, OccupiedEntry
<1>10. IInv'
  BY InvBenchNext DEF BenchNext, Advance
<1>11. Shape'
  BY <1>4, <1>7 DEF Shape, TableNeverChangesShape
<1>12. Borrowed'
  <2>1. /\ valuePage = keyPage /\ keyOwner \in [Key -> Record \cup {Nothing}]
        /\ \A i \in Occupied : /\ Dangles(keyOwner[entries[i].key]) /\ Dangles(entries[i].value)
    BY DEF BenchInv, Borrowed, BenchTypeOK
  <2>2. \A r : Dangles(r) => Dangles(r)'
    BY <1>1, <1>8 DEF Dangles
  <2>3. Dangles(cmd.record)'
    BY <1>1, <1>3, <1>7 DEF Dangles
  <2>4. ASSUME NEW i \in Occupied' PROVE Dangles(keyOwner[entries[i].key])' /\ Dangles(entries[i].value)'
    <3>1. CASE i = Here
      <4>1. entries'[i].key = cmd.key /\ entries'[i].value = cmd.record
        BY <1>9, <3>1 DEF OccupiedEntry
      <4>2. keyOwner'[cmd.key] = cmd.record
        BY <1>3, <1>8, <2>1
      <4>3. (keyOwner[entries[i].key])' = cmd.record /\ (entries[i].value)' = cmd.record
        BY <4>1, <4>2
      <4> QED
        BY <1>1, <2>3, <4>3 DEF Dangles
    <3>2. CASE i # Here
      <4>1. i \in Occupied /\ entries'[i] = entries[i] /\ entries[i].key \in Key
        BY <1>4, <1>9, <2>4, <3>2, EntryShape DEF Occupied
      <4>2. keyOwner'[entries[i].key] \in {cmd.record, keyOwner[entries[i].key]}
        BY <1>8, <2>1, <4>1
      <4>3. Dangles(keyOwner[entries[i].key]) /\ Dangles(entries[i].value)
        BY <2>1, <4>1
      <4>4. (keyOwner[entries[i].key])' \in {cmd.record, keyOwner[entries[i].key]}
            /\ (entries[i].value)' = entries[i].value
        BY <4>1, <4>2
      <4> QED
        BY <1>1, <1>8, <2>2, <2>3, <4>3, <4>4 DEF Dangles
    <3> QED
      BY <3>1, <3>2
  <2> QED
    BY <1>8, <2>1, <2>4 DEF Borrowed
<1>13. BenchTypeOK'
  <2>1. keyOwner' \in [Key -> Record \cup {Nothing}]
    BY <1>3, <1>8 DEF BenchInv, BenchTypeOK
  <2> QED
    BY <1>1, <1>7, <1>8, <1>10, <2>1 DEF BenchInv, BenchTypeOK, IInv
<1>14. UnderWay' /\ Decided'
  BY <1>1, <1>2, <1>3, <1>7, <1>8, <1>9 DEF UnderWay, Decided
<1> QED
  BY <1>11, <1>12, <1>13, <1>14 DEF Main

\* A probe that goes on or answers "not stored", and growth up to the first entry.
LEMMA ProbeKeeps ==
    ASSUME BenchInv, Run, GrowSkip \/ ProbeOccupied \/ ProbeTombstone \/ FindMiss \/ DeleteMiss
    PROVE  Main' /\ Shape'
<1>1. /\ phase = "run" /\ pc # "idle" /\ UNCHANGED <<capacity, entries, size, tombstones>>
      /\ UNCHANGED <<phase, cmd, lines, cursor, fault, lastLine>>
      /\ (pc' = pc /\ call' = call) \/ (pc' = "idle" /\ call.op # "insert")
  BY DEF Run, GrowSkip, ProbeOccupied, ProbeTombstone, FindMiss, DeleteMiss, Return, tableVars, callVars
<1>2. TypeOK' /\ TypeOK
  BY InvBenchNext DEF BenchNext, Advance, BenchInv, IInv
<1>3. UNCHANGED <<keyPage, valuePage, keyOwner>>
  <2>1. ~(size' > size) /\ ~(size' < size)
    BY <1>1, <1>2 DEF TypeOK
  <2> QED
    BY <2>1 DEF Run
<1>4. Occupied' = Occupied /\ Loaded' = Loaded
  BY <1>1 DEF Occupied, Loaded
<1>5. Shape'
  <2>1. TableNeverChangesShape'
    BY <1>1 DEF BenchInv, Shape, TableNeverChangesShape
  <2>2. ASSUME pc' = "grow"
        PROVE  Loaded' /\ seen' = 0 /\ \A i \in Slots(capacity) : i < moving' => i \notin Occupied
    <3>1. GrowSkip /\ pc = "grow"
      BY <1>1, <2>2 DEF ProbeOccupied, ProbeTombstone, FindMiss, DeleteMiss, Return
    <3>2. /\ moving' = moving + 1 /\ seen' = seen /\ moving \in 0 .. capacity /\ capacity \in Nat
          /\ entries[moving].state # "occupied"
      BY <1>2, <3>1 DEF GrowSkip, callVars, TypeOK
    <3>3. ASSUME NEW i \in Slots(capacity), i < moving' PROVE i < moving \/ i = moving
      BY <3>2, <3>3 DEF Slots
    <3> QED
      BY <1>4, <3>1, <3>2, <3>3 DEF BenchInv, Shape, Occupied
  <2> QED
    BY <1>1, <1>4, <2>1, <2>2 DEF Shape
<1>6. BenchTypeOK' /\ Borrowed'
  BY <1>1, <1>2, <1>3, <1>4 DEF BenchInv, BenchTypeOK, Borrowed, Dangles
<1>7. UnderWay'
  BY <1>1, <1>3 DEF BenchInv, UnderWay
<1>8. Decided'
  <2>1. ASSUME pc' = "idle" PROVE cmd.record = Nothing
    BY <1>1, <2>1 DEF BenchInv, UnderWay, Commands
  <2> QED
    BY <1>1, <1>3, <1>4, <2>1 DEF BenchInv, Decided, Stored, Unused
<1> QED
  BY <1>5, <1>6, <1>7, <1>8 DEF Main

LEMMA FaultKeeps ==
    ASSUME BenchInv, RunFault \/ DestroyEntry
    PROVE  Main' /\ Shape'
<1>1. /\ phase' = "faulted" /\ UNCHANGED <<vars, memory, cmd, lines, cursor, lastLine>>
      /\ fault' \in {"store_grow", "store_find", "find_slot", "page_strfree"} /\ Occupied # {}
      /\ ~(phase = "run" /\ pc = "idle")
  <2>1. CASE RunFault
    BY <2>1, StringsUnreadable DEF RunFault
  <2>2. CASE DestroyEntry
    BY <2>2, NothingFreed DEF DestroyEntry, Destroying
  <2> QED
    BY <2>1, <2>2
<1>2. Shape' /\ TypeOK' /\ Occupied' = Occupied /\ entries' = entries /\ capacity' = capacity
  BY <1>1, SameTable
<1>3. BenchTypeOK' /\ Borrowed'
  BY <1>1, <1>2 DEF BenchInv, BenchTypeOK, Borrowed, Dangles, memory
<1>4. UnderWay' /\ Decided'
  BY <1>1, <1>2 DEF UnderWay, Decided
<1> QED
  BY <1>2, <1>3, <1>4 DEF Main

\* command_dispose poisons what the command has just stored.
LEMMA DisposeKeeps ==
    ASSUME BenchInv, Dispose
    PROVE  Main' /\ Shape'
<1>1. /\ UNCHANGED <<vars, keyOwner, lines, cursor, fault, lastLine>>
      /\ phase = "run" /\ pc = "idle" /\ phase' = "read"
  BY DEF Dispose
<1>2. Shape' /\ TypeOK' /\ Occupied' = Occupied /\ entries' = entries /\ pc' = pc /\ capacity' = capacity
  BY <1>1, SameTable
<1>3. /\ valuePage = keyPage /\ keyPage \in [Record -> PageState] /\ cmd \in Commands
      /\ \A i \in Occupied : Dangles(keyOwner[entries[i].key]) /\ Dangles(entries[i].value)
  BY <1>1 DEF BenchInv, Borrowed, BenchTypeOK, UnderWay
<1>4. /\ valuePage' = keyPage' /\ keyPage' \in [Record -> PageState]
      /\ \A r \in Record : r = cmd.record \/ keyPage[r] = "poisoned" => keyPage'[r] = "poisoned"
      /\ \A r \in Record : keyPage'[r] = "none" <=> keyPage[r] = "none"
  <2>1. CASE cmd.record = Nothing
    BY <1>3, <2>1, NothingAssumption DEF Dispose, Record
  <2>2. CASE cmd.record # Nothing
    <3>1. /\ keyPage' = [keyPage EXCEPT ![cmd.record] = "poisoned"]
          /\ valuePage' = [valuePage EXCEPT ![cmd.record] = "poisoned"]
          /\ cmd.record \in Record /\ keyPage[cmd.record] = "mapped"
      BY <1>1, <1>3, <2>2 DEF Dispose, Commands, BenchInv, UnderWay
    <3> QED
      BY <1>3, <3>1 DEF PageState
  <2> QED
    BY <2>1, <2>2
<1>5. Borrowed'
  BY <1>1, <1>2, <1>3, <1>4 DEF Borrowed, Dangles
<1>6. BenchTypeOK'
  BY <1>1, <1>2, <1>4 DEF BenchInv, BenchTypeOK
<1>7. Stored' = Stored
  BY <1>4 DEF Stored, Unused
<1>8. UnderWay' /\ Decided'
  BY <1>1, <1>2, <1>7 DEF BenchInv, UnderWay, Decided
<1> QED
  BY <1>2, <1>5, <1>6, <1>8 DEF Main

LEMMA DestroyKeeps ==
    ASSUME BenchInv, DestroySkip \/ DestroyEnd
    PROVE  Main' /\ Shape'
<1>1. UNCHANGED <<vars, keyPage, valuePage, keyOwner, cmd, lines, fault, lastLine>> /\ phase = "destroy"
  BY DEF DestroySkip, DestroyEnd, Destroying, memory
<1>2. Shape' /\ TypeOK' /\ Occupied' = Occupied /\ entries' = entries /\ pc' = pc /\ capacity' = capacity
  BY <1>1, SameTable
<1>3. capacity \in Nat /\ cursor \in 0 .. capacity
  BY DEF BenchInv, IInv, TypeOK, BenchTypeOK
<1>4. CASE DestroySkip
  <2>1. /\ cursor < capacity /\ cursor' = cursor + 1 /\ phase' = phase
        /\ entries[cursor].state # "occupied"
    BY <1>4 DEF DestroySkip, Destroying
  <2>2. ASSUME NEW i \in Slots(capacity), i < cursor' PROVE i < cursor \/ i = cursor
    BY <1>3, <2>1, <2>2 DEF Slots
  <2>3. BenchTypeOK'
    <3>1. cursor' \in 0 .. capacity'
      BY <1>2, <1>3, <2>1
    <3> QED
      BY <1>1, <1>2, <2>1, <3>1 DEF BenchInv, BenchTypeOK
  <2>4. Borrowed' /\ UnderWay'
    BY <1>1, <1>2, <2>1 DEF BenchInv, Borrowed, Dangles, UnderWay
  <2>5. Decided'
    BY <1>1, <1>2, <2>1, <2>2 DEF BenchInv, Decided, Stored, Unused, Occupied
  <2> QED
    BY <1>2, <2>3, <2>4, <2>5 DEF Main
<1>5. CASE DestroyEnd
  <2>1. cursor = capacity /\ cursor' = cursor /\ phase' = "exited"
    BY <1>5 DEF DestroyEnd
  <2>2. Occupied = {}
    BY <1>1, <1>3, <2>1 DEF BenchInv, Decided, Occupied, Slots
  <2>3. BenchTypeOK'
    BY <1>1, <1>2, <1>3, <2>1 DEF BenchInv, BenchTypeOK
  <2>4. Borrowed' /\ UnderWay'
    BY <1>1, <1>2, <2>1 DEF BenchInv, Borrowed, Dangles, UnderWay
  <2>5. Decided'
    BY <1>1, <1>2, <2>1, <2>2 DEF BenchInv, Decided, Stored, Unused
  <2> QED
    BY <1>2, <2>3, <2>4, <2>5 DEF Main
<1> QED
  BY <1>4, <1>5

LEMMA BenchInvNext == BenchInv /\ [BenchNext]_benchVars => BenchInv'
<1> SUFFICES ASSUME BenchInv, [BenchNext]_benchVars PROVE BenchInv'
  OBVIOUS
<1>1. IInv' /\ LInv'
  BY InvBenchNext
<1>2. CASE \/ \E k \in Key : ReadAdd(k) \/ ReadLookup("find", k) \/ ReadLookup("delete", k)
           \/ ReadOther
  BY <1>1, <1>2, ReadKeeps DEF BenchInv, Main
<1>3. CASE EndOfFile \/ BadLine
  BY <1>1, <1>3, EndReadingKeeps DEF BenchInv, Main
<1>4. CASE Execute
  BY <1>1, <1>4, ExecuteKeeps DEF BenchInv, Main
<1>5. CASE Run
  BY <1>1, <1>5, RunIs, StoreKeeps, ProbeKeeps DEF BenchInv, Main
<1>6. CASE RunFault \/ DestroyEntry
  BY <1>1, <1>6, FaultKeeps DEF BenchInv, Main
<1>7. CASE Dispose
  BY <1>1, <1>7, DisposeKeeps DEF BenchInv, Main
<1>8. CASE DestroySkip \/ DestroyEnd
  BY <1>1, <1>8, DestroyKeeps DEF BenchInv, Main
<1>9. CASE UNCHANGED benchVars
  <2>1. UNCHANGED vars /\ UNCHANGED <<keyPage, valuePage, keyOwner, phase, cmd, lines, cursor, fault, lastLine>>
    BY <1>9 DEF benchVars, memory, control
  <2>2. Shape' /\ TypeOK' /\ Occupied' = Occupied /\ UNCHANGED <<capacity, entries, pc, call>>
    BY <2>1, SameTable
  <2> QED
    BY <1>1, <2>1, <2>2 DEF BenchInv, BenchTypeOK, UnderWay, Borrowed, Dangles, Decided, Stored, Unused
<1> QED
  BY <1>2, <1>3, <1>4, <1>5, <1>6, <1>7, <1>8, <1>9 DEF BenchNext, Advance, Ended

LEMMA BenchInvariant == BenchSpec => []BenchInv
BY BenchInvInit, BenchInvNext, PTL DEF BenchSpec

\* What cachebench does to its table is a behaviour of CacheStore, whose caller
\* keeps every stored string readable: the result of store_find, the counters and the
\* order of the slots are as sound in the program as the proofs above say.
THEOREM BenchUsesStore == BenchSpec => Init /\ [][Next]_vars
<1>1. BenchInit => Init
  BY DEF BenchInit
<1> QED
  BY <1>1, StepsOfStore, BenchInvariant, PTL DEF BenchSpec

\* Between two commands both strings of every stored entry are inaccessible pages:
\* command_dispose has destroyed the record store_insert borrowed them from, whatever
\* commands came before.
THEOREM StringsArePoisoned == BenchSpec => []StoredStringsPoisoned
<1>1. BenchInv => StoredStringsPoisoned
  BY DEF BenchInv, Borrowed, Dangles, StoredStringsPoisoned
<1> QED
  BY <1>1, BenchInvariant, PTL

\* No command changes the shape of the table: store_grow faults at the first entry it
\* would move, store_delete at the key it compares, so that the capacity stays that of
\* store_create, no slot is deleted and at most one entry is above the load factor.
THEOREM ShapeIsKept == BenchSpec => []TableNeverChangesShape
<1>1. BenchInv => TableNeverChangesShape
  BY DEF BenchInv, Shape
<1> QED
  BY <1>1, BenchInvariant, PTL

\* main returns only if it has read no ADD, the process is killed only if it has: what
\* OutcomeOfLinesRead says will happen, as what cannot happen otherwise.
THEOREM OutcomeIsDecided ==
    BenchSpec => []((phase = "exited" => ~Stored) /\ (phase = "faulted" => Stored))
<1>1. ASSUME BenchInv, phase = "exited" PROVE ~Stored
  BY <1>1 DEF BenchInv, Decided
<1>2. ASSUME BenchInv, phase = "faulted" PROVE Stored
  <2>1. PICK i : i \in Occupied
    BY <1>2 DEF BenchInv, Decided
  <2>2. entries[i].value \in Record /\ keyPage[entries[i].value] = "poisoned"
    BY <1>2, <2>1 DEF BenchInv, Borrowed, Dangles
  <2> QED
    BY <2>2 DEF Stored, Unused
<1>3. BenchInv => (phase = "exited" => ~Stored) /\ (phase = "faulted" => Stored)
  BY <1>1, <1>2
<1> QED
  BY <1>3, BenchInvariant, PTL

\* A call on a key that is stored does not return: no step takes store_find,
\* store_insert or store_delete from its probe to its result.
THEOREM StoredKeyNeverReturns ==
    BenchSpec => [][(pc = "probe" /\ \E i \in Occupied : entries[i].key = call.key)
                        => pc' = "probe"]_benchVars
<1> DEFINE KeyStored == pc = "probe" /\ \E i \in Occupied : entries[i].key = call.key
<1>1. ASSUME BenchInv, [BenchNext]_benchVars, KeyStored PROVE pc' = "probe"
  <2>1. entries[Here].state # "empty"
    BY <1>1, KeyAbsent DEF BenchInv, Occupied, Holds
  <2>2. CASE Run
    BY <1>1, <2>1, <2>2, RunIs
    DEF GrowSkip, Growing, ProbeOccupied, ProbeTombstone, InsertNew, FindMiss, DeleteMiss
  <2>3. CASE Execute
    BY <1>1, <2>3 DEF Execute, Begin
  <2>4. CASE DestroyEntry
    BY <1>1, <2>4, NothingFreed DEF vars, callVars
  <2>5. CASE ~(Run \/ Execute \/ DestroyEntry)
    BY <1>1, <2>5
    DEF BenchNext, Advance, Ended, benchVars, vars, callVars, ReadAdd, ReadLookup, ReadOther,
        EndOfFile, BadLine, RunFault, Dispose, DestroySkip, DestroyEnd
  <2> QED
    BY <2>2, <2>3, <2>4, <2>5
<1>2. BenchInv /\ [BenchNext]_benchVars => [KeyStored => pc' = "probe"]_benchVars
  BY <1>1
<1> QED
  BY <1>2, BenchInvariant, PTL DEF BenchSpec
=============================================================================
