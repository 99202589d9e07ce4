--------------------------- MODULE TilePackProofs ---------------------------
(***************************************************************************)
(* Proofs about TilePack for every size of word, slot and page: a report   *)
(* is printed only of a table that was allocated whole, the index of the   *)
(* signature loop never wraps round, the slots stored describe the grid,   *)
(* one for each place, with offsets that ascend, every checkpoint of the   *)
(* plan is met, and no field is wider than its word.                       *)
(***************************************************************************)
EXTENDS TilePack, TLAPS, FiniteSetTheorems

\* What is known of the table while it is filled: the memory mapped for it is
\* less than StoreSize - 1 slots larger than what was asked for, and the slots
\* stored so far are inside it.
Counters == /\ tiles \in Nat /\ at \in Nat /\ stored \in Nat /\ usable \in Nat
            /\ phase \in {"parse", "plan", "create", "encode", "sign",
                          "exited", "died", "faulted"}
            /\ spec \in [Field -> Word \cup {None}]

Allocated ==
    phase = "encode" => usable < SlotSize * (Narrow(tiles) + StoreSize - 1)

Encoded ==
    /\ phase \in {"parse", "plan", "create"} => stored = 0
    /\ phase = "encode" => /\ stored = at /\ at <= tiles
                           /\ SlotSize * at <= usable

IInv == Counters /\ Allocated /\ Encoded /\ OnlyWholeTablesReported

-----------------------------------------------------------------------------
\* round_up adds less than one unit.
LEMMA RoundUpBound ==
    ASSUME NEW n \in Nat, NEW unit \in Nat \ {0}
    PROVE  /\ RoundUp(n, unit) \in Nat
           /\ n <= RoundUp(n, unit) /\ RoundUp(n, unit) < n + unit
<1>1. n % unit \in 0 .. unit - 1
  OBVIOUS
<1> QED
  BY <1>1 DEF RoundUp

\* Narrowing keeps a count that fits and takes at least StoreSize from one
\* that does not, unless nothing is left of it and one slot is allocated.
LEMMA NarrowBound ==
    ASSUME NEW n \in Nat
    PROVE  /\ Narrow(n) \in Nat \ {0}
           /\ Narrow(n) <= StoreSize
           /\ n >= StoreSize => Narrow(n) + StoreSize - 1 <= n
<1> USE SizeAssumption
<1>1. n % StoreSize \in 0 .. StoreSize - 1
  OBVIOUS
<1>2. n >= StoreSize => (n % StoreSize) + StoreSize <= n
  BY Z3
<1> QED
  BY <1>1, <1>2 DEF Narrow

\* Comparing sizes in bytes compares counts of slots.
LEMMA SlotsCompare ==
    ASSUME NEW m \in Nat, NEW n \in Nat, SlotSize * m < SlotSize * n
    PROVE  m < n
<1>1. SUFFICES ASSUME n <= m PROVE FALSE
  OBVIOUS
<1>2. SlotSize * n <= SlotSize * m
  BY <1>1, SizeAssumption
<1> QED
  BY <1>2, SizeAssumption

-----------------------------------------------------------------------------
\* One step of the signature loop stays inside a word.
LEMMA SampleGrows == IInv /\ Sample => at' \in Nat /\ at' > at
<1> SUFFICES ASSUME IInv, Sample PROVE at' \in Nat /\ at' > at
  OBVIOUS
<1> USE SizeAssumption
<1>1. tiles \in Nat /\ at \in Nat /\ at < tiles /\ tiles < StoreSize
  BY DEF IInv, Counters, OnlyWholeTablesReported, Sample
<1>2. Step \in Nat /\ Step >= 1 /\ Step <= tiles
  <2>1. tiles \div Samples \in Nat
    BY <1>1
  <2>2. tiles \div Samples <= tiles
    BY <1>1
  <2> QED
    BY <1>1, <2>1, <2>2 DEF Step
<1>3. at + Step \in 0 .. WordSize - 1
  BY <1>1, <1>2
<1>4. (at + Step) % WordSize = at + Step
  BY <1>3
<1> QED
  BY <1>1, <1>2, <1>4 DEF Sample

LEMMA InitIInv == Init => IInv
BY SizeAssumption DEF Init, IInv, Counters, Allocated, Encoded, OnlyWholeTablesReported

LEMMA NextIInv == IInv /\ [Next]_vars => IInv'
<1> SUFFICES ASSUME IInv, [Next]_vars PROVE IInv'
  OBVIOUS
<1> USE SizeAssumption
<1> USE DEF IInv, Counters, Allocated, Encoded, OnlyWholeTablesReported
<1>1. ASSUME NEW f \in Field, NEW v \in Values[f], ParseField(f, v) PROVE IInv'
  BY <1>1, ValuesAssumption DEF ParseField
<1>2. CASE ParseFatal
  BY <1>2 DEF ParseFatal, Die, plan
<1>3. CASE ParseEnd
  <2>1. Grid \in Nat
    BY <1>3, NoneAssumption DEF ParseEnd, Complete, Seen, Grid, Word, Field
  <2> QED
    BY <1>3, <2>1 DEF ParseEnd
<1>4. CASE ParseRejects
  BY <1>4 DEF ParseRejects, Die, plan
<1>5. CASE Plan
  BY <1>5 DEF Plan
<1>6. CASE CreateTable
  <2>1. Narrow(tiles) \in Nat \ {0}
    BY NarrowBound
  <2>2. /\ usable' \in Nat
        /\ usable' < Narrow(tiles) * SlotSize + PageSize
    <3>1. Narrow(tiles) * SlotSize \in Nat
      BY <2>1
    <3> QED
      BY <3>1, <1>6, RoundUpBound DEF CreateTable
  <2>3. usable' < SlotSize * (Narrow(tiles) + StoreSize - 1)
    <3>1. SlotSize * (Narrow(tiles) + StoreSize - 1)
             = Narrow(tiles) * SlotSize + SlotSize * StoreSize - SlotSize
      BY <2>1
    <3>2. Narrow(tiles) * SlotSize \in Nat /\ SlotSize * StoreSize \in Nat
      BY <2>1
    <3> HIDE DEF Narrow
    <3> QED
      BY <2>1, <2>2, <3>1, <3>2
  <2>4. Narrow(tiles)' = Narrow(tiles)
    BY <1>6 DEF CreateTable, plan, Narrow
  <2>5. /\ phase' = "encode" /\ at' = 0 /\ stored' = stored /\ tiles' = tiles /\ spec' = spec
        /\ stored = 0
    BY <1>6 DEF CreateTable, plan
  <2> QED
    BY <2>2, <2>3, <2>4, <2>5
<1>7. CASE EncodeTile
  BY <1>7 DEF EncodeTile, InMemory, plan, Narrow
<1>8. CASE EncodeFatal
  BY <1>8 DEF EncodeFatal, Die, plan
<1>9. CASE EncodeFault
  BY <1>9 DEF EncodeFault, plan
<1>10. CASE EncodeDone
  <2>1. at = tiles /\ stored = tiles /\ SlotSize * tiles <= usable
    BY <1>10 DEF EncodeDone
  <2>2. Narrow(tiles) \in Nat \ {0}
    BY NarrowBound
  <2>3. tiles < Narrow(tiles) + StoreSize - 1
    <3>1. SlotSize * tiles < SlotSize * (Narrow(tiles) + StoreSize - 1)
      BY <1>10, <2>1, <2>2 DEF EncodeDone
    <3> QED
      BY <3>1, <2>2, SlotsCompare
  <2>4. tiles < StoreSize
    BY <2>2, <2>3, NarrowBound
  <2> QED
    BY <1>10, <2>1, <2>4 DEF EncodeDone, plan
<1>11. CASE Sample
  BY <1>11, SampleGrows DEF Sample, plan
<1>12. CASE Report
  BY <1>12 DEF Report, plan
<1>13. CASE UNCHANGED vars
  BY <1>13 DEF vars, plan, Narrow
<1> QED
  BY <1>1, <1>2, <1>3, <1>4, <1>5, <1>6, <1>7, <1>8, <1>9, <1>10, <1>11, <1>12, <1>13
  DEF Next, Advance, Ended

\* The invariant the other theorems of this module rest on.
THEOREM TableInvariant == Spec => []IInv
BY InitIInv, NextIInv, PTL DEF Spec

\* table.c, arena.c and encoder.c together: whatever the sizes, no report is
\* printed of a table whose count was cut.
THEOREM ReportsWholeTables == Spec => []OnlyWholeTablesReported
<1>1. IInv => OnlyWholeTablesReported
  BY DEF IInv
<1> QED
  BY <1>1, TableInvariant, PTL

-----------------------------------------------------------------------------
\* table_checksum: i += step never wraps round.
THEOREM SignatureEnds == Spec => SignatureGoesForward
<1>1. IInv /\ [Next]_vars => [phase = "sign" /\ phase' = "sign" => at' > at]_vars
  <2> SUFFICES ASSUME IInv, Next, phase = "sign", phase' = "sign" PROVE at' > at
    OBVIOUS
  <2>1. CASE Sample
    BY <2>1, SampleGrows
  <2>2. CASE ~Sample
    BY <2>2 DEF Next, Advance, Ended, ParseField, ParseFatal, Die, ParseEnd, ParseRejects,
                Plan, CreateTable, EncodeTile, EncodeFatal, EncodeFault, EncodeDone, Report
  <2> QED
    BY <2>1, <2>2
<1> QED
  BY <1>1, TableInvariant, PTL DEF Spec, SignatureGoesForward

-----------------------------------------------------------------------------
\* The fields the program goes on with once the file has been read.
SpecKnown == /\ Complete /\ Valid
             /\ tiles = Grid /\ tiles \in Word

Planned == phase \notin {"parse", "died"} => SpecKnown

\* Each slot stored is the one planner_make_slot makes of its index, and its
\* index is inside the grid and not far behind the end of the table.
Filled ==
    \/ slots = <<>> /\ stored = 0
    \/ /\ SpecKnown /\ phase # "parse"
       /\ DOMAIN slots = 0 .. stored - 1
       /\ stored <= tiles /\ stored <= 2 * StoreSize
       /\ \A i \in DOMAIN slots : slots[i] = Slot(i)

Unstored == phase \in {"parse", "plan", "create"} => slots = <<>>

SInv == Planned /\ Filled /\ Unstored

\* Division with remainder, and what follows from it for places in a grid.
LEMMA DivMod ==
    ASSUME NEW n \in Nat, NEW w \in Nat \ {0}
    PROVE  n = w * (n \div w) + (n % w) /\ n % w \in 0 .. w - 1 /\ n \div w \in Nat
OBVIOUS

LEMMA RowInGrid ==
    ASSUME NEW n \in Nat, NEW w \in Nat \ {0}, NEW h \in Nat, n < w * h
    PROVE  n \div w < h
<1> DEFINE q == n \div w
<1>1. q \in Nat /\ n >= w * q
  BY DivMod
<1>2. SUFFICES ASSUME q >= h PROVE FALSE
  BY <1>1
<1> HIDE DEF q
<1>3. w * q >= w * h
  BY <1>1, <1>2
<1> QED
  BY <1>1, <1>3

LEMMA OnePlace ==
    ASSUME NEW n \in Nat, NEW m \in Nat, NEW w \in Nat \ {0},
           n % w = m % w, n \div w = m \div w
    PROVE  n = m
BY DivMod

\* The offset of a slot lies in its own unit of the file; no sum wraps round.
LEMMA OffsetInUnit ==
    ASSUME NEW i \in Nat, i < 2 * StoreSize, NEW seed \in Word, i \in Word
    PROVE  LET offset == (i * OffsetUnit + (Mix(seed, i) % OffsetUnit)) % WordSize
           IN  /\ offset \in Nat
               /\ i * OffsetUnit <= offset /\ offset < (i + 1) * OffsetUnit
<1> USE SizeAssumption
<1> DEFINE low == Mix(seed, i) % OffsetUnit
           start == i * OffsetUnit
<1>1. Mix(seed, i) \in Nat
  BY MixAssumption DEF Word
<1>2. low \in 0 .. OffsetUnit - 1
  BY <1>1, DivMod
<1>3. start \in Nat /\ (i + 1) * OffsetUnit = start + OffsetUnit
  OBVIOUS
<1>4. start + OffsetUnit <= WordSize
  <2>1. (i + 1) * OffsetUnit <= (2 * StoreSize) * OffsetUnit
    OBVIOUS
  <2>2. (2 * StoreSize) * OffsetUnit = 2 * OffsetUnit * StoreSize
    OBVIOUS
  <2> QED
    BY <1>3, <2>1, <2>2
<1> HIDE DEF low, start
<1>5. start + low \in 0 .. WordSize - 1
  BY <1>2, <1>3, <1>4
<1>6. (start + low) % WordSize = start + low
  BY <1>5
<1>7. /\ (start + low) % WordSize \in Nat
      /\ start <= (start + low) % WordSize
      /\ (start + low) % WordSize < start + OffsetUnit
  BY <1>2, <1>3, <1>5, <1>6
<1> QED
  BY <1>3, <1>7 DEF low, start

\* Units do not overlap.
LEMMA UnitsAscend ==
    ASSUME NEW i \in Nat, NEW j \in Nat, i < j
    PROVE  (i + 1) * OffsetUnit <= j * OffsetUnit
BY SizeAssumption

-----------------------------------------------------------------------------
\* A slot that is in memory is not far behind the end of the table.
LEMMA StoredNearTable ==
    ASSUME IInv, phase = "encode", InMemory(at)
    PROVE  at + 1 <= 2 * StoreSize
<1> USE SizeAssumption
<1>1. /\ tiles \in Nat /\ at \in Nat /\ SlotSize * (at + 1) <= usable /\ usable \in Nat
      /\ usable < SlotSize * (Narrow(tiles) + StoreSize - 1)
  BY DEF IInv, Counters, Allocated, InMemory
<1>2. Narrow(tiles) \in Nat \ {0} /\ Narrow(tiles) <= StoreSize
  BY <1>1, NarrowBound
<1>3. SlotSize * (at + 1) < SlotSize * (Narrow(tiles) + StoreSize - 1)
  BY <1>1, <1>2
<1>4. at + 1 < Narrow(tiles) + StoreSize - 1
  BY <1>1, <1>2, <1>3, SlotsCompare
<1> QED
  BY <1>1, <1>2, <1>4

\* The steps that leave the fields, the slots and their number alone.
LEMMA SInvKept ==
    ASSUME SInv, spec' = spec, tiles' = tiles, slots' = slots, stored' = stored,
           phase # "parse", phase' # "parse",
           phase = "died" => phase' = "died",
           phase' \in {"plan", "create"} => phase \in {"plan", "create"}
    PROVE  SInv'
<1>1. Planned'
  BY DEF SInv, Planned, SpecKnown, Complete, Seen, Valid, Grid
<1>2. Filled'
  BY DEF SInv, Filled, SpecKnown, Complete, Seen, Valid, Grid, Slot, Payload
<1>3. Unstored'
  BY DEF SInv, Unstored
<1> QED
  BY <1>1, <1>2, <1>3 DEF SInv

\* table_set of the next slot.
LEMMA SInvEncodeTile == IInv /\ SInv /\ EncodeTile => SInv'
<1> SUFFICES ASSUME IInv, SInv, EncodeTile PROVE SInv'
  OBVIOUS
<1>1. /\ phase = "encode" /\ phase' = "encode" /\ at \in Nat /\ stored = at /\ at < tiles
      /\ stored' = at + 1 /\ spec' = spec /\ tiles' = tiles
      /\ slots' = [j \in 0 .. at |-> IF j = at THEN Slot(at) ELSE slots[j]]
  BY DEF EncodeTile, IInv, Counters, Encoded, plan, TableSet
<1>2. SpecKnown /\ SpecKnown'
  BY <1>1 DEF SInv, Planned, SpecKnown, Complete, Seen, Valid, Grid
<1>3. at + 1 <= 2 * StoreSize
  BY <1>1, StoredNearTable DEF EncodeTile
<1>4. DOMAIN slots' = 0 .. stored' - 1
  BY <1>1
<1>5. ASSUME NEW i \in 0 .. at PROVE slots'[i] = Slot(i)
  <2>1. CASE i = at
    BY <1>1, <2>1
  <2>2. CASE i # at
    <3>1. i \in 0 .. stored - 1 /\ slots'[i] = slots[i]
      BY <1>1, <2>2
    <3> QED
      BY <1>1, <2>2, <3>1 DEF SInv, Filled
  <2> QED
    BY <2>1, <2>2
<1>6. ASSUME NEW i PROVE Slot(i)' = Slot(i)
  BY <1>1 DEF Slot, Payload, Jitter
<1>7. Filled'
  <2>1. stored' <= tiles' /\ stored' <= 2 * StoreSize
    BY <1>1, <1>3, SizeAssumption DEF IInv, Counters
  <2>2. \A i \in DOMAIN slots' : slots'[i] = Slot(i)'
    BY <1>1, <1>4, <1>5, <1>6
  <2> QED
    BY <1>1, <1>2, <1>4, <2>1, <2>2 DEF Filled
<1> QED
  BY <1>1, <1>2, <1>7 DEF SInv, Planned, Unstored

LEMMA InitSInv == Init => SInv
BY DEF Init, SInv, Planned, Filled, Unstored

LEMMA NextSInv == IInv /\ SInv /\ [Next]_vars => SInv'
<1> SUFFICES ASSUME IInv, SInv, [Next]_vars PROVE SInv'
  OBVIOUS
<1> USE DEF plan
<1>0. phase = "parse" => slots = <<>> /\ stored = 0
  BY DEF SInv, Filled, Unstored
<1>1. ASSUME NEW f \in Field, NEW v \in Values[f], ParseField(f, v) PROVE SInv'
  BY <1>0, <1>1 DEF ParseField, SInv, Planned, Filled, Unstored
<1>2. CASE ParseFatal \/ ParseRejects
  BY <1>0, <1>2 DEF ParseFatal, ParseRejects, Die, SInv, Planned, Filled, Unstored
<1>3. CASE ParseEnd
  <2>1. /\ spec' = spec /\ slots' = <<>> /\ stored' = 0 /\ phase' = "plan" /\ tiles' = Grid
        /\ Complete /\ Valid /\ Fits(Grid)
    BY <1>0, <1>3 DEF ParseEnd
  <2>2. Grid \in Word
    <3>1. spec["GRID_WIDTH"] \in Nat /\ spec["GRID_HEIGHT"] \in Nat
      BY <2>1 DEF IInv, Counters, Complete, Seen, Word, Field
    <3> QED
      BY <2>1, <3>1, SizeAssumption DEF Grid, Fits, Word
  <2> QED
    BY <2>1, <2>2 DEF SInv, Planned, SpecKnown, Complete, Seen, Valid, Grid, Filled, Unstored
<1>4. CASE Plan
  BY <1>4, SInvKept DEF Plan
<1>5. CASE CreateTable
  BY <1>5, SInvKept DEF CreateTable
<1>6. CASE EncodeTile
  BY <1>6, SInvEncodeTile
<1>7. CASE EncodeFatal
  BY <1>7, SInvKept DEF EncodeFatal, Die
<1>8. CASE EncodeFault
  BY <1>8, SInvKept DEF EncodeFault
<1>9. CASE EncodeDone
  BY <1>9, SInvKept DEF EncodeDone
<1>10. CASE Sample
  BY <1>10, SInvKept DEF Sample
<1>11. CASE Report
  BY <1>11, SInvKept DEF Report
<1>12. CASE UNCHANGED vars
  BY <1>12 DEF vars, SInv, Planned, SpecKnown, Complete, Seen, Valid, Grid, Filled, Unstored,
               Slot, Payload
<1> QED
  BY <1>1, <1>2, <1>3, <1>4, <1>5, <1>6, <1>7, <1>8, <1>9, <1>10, <1>11, <1>12
  DEF Next, Advance, Ended

-----------------------------------------------------------------------------
\* What the fields and two indices are when slots have been stored.
LEMMA SlotsKnown ==
    ASSUME IInv, SInv, NEW i \in DOMAIN slots
    PROVE  /\ spec["GRID_WIDTH"] \in Nat \ {0} /\ spec["GRID_HEIGHT"] \in Nat
           /\ spec["SEED"] \in Word
           /\ spec["TILE_WIDTH"] \in Nat /\ spec["TILE_HEIGHT"] \in Nat
           /\ spec["LAYERS"] \in Nat
           /\ i \in Nat /\ i \in Word /\ i < 2 * StoreSize
           /\ i < spec["GRID_WIDTH"] * spec["GRID_HEIGHT"]
           /\ slots[i] = Slot(i)
<1>1. /\ SpecKnown /\ i \in 0 .. stored - 1 /\ stored <= tiles /\ stored <= 2 * StoreSize
      /\ slots[i] = Slot(i) /\ stored \in Nat /\ tiles \in Nat
  <2>1. slots # <<>>
    OBVIOUS
  <2> QED
    BY <2>1 DEF SInv, Filled, IInv, Counters
<1>2. \A f \in Field : spec[f] \in Word
  BY <1>1 DEF SpecKnown, Complete, Seen, IInv, Counters
<1>3. Word \subseteq Nat
  BY SizeAssumption DEF Word
<1>4. spec["GRID_WIDTH"] # 0
  BY <1>1 DEF SpecKnown, Valid
<1>5. i \in Word /\ i < Grid
  BY <1>1, SizeAssumption DEF SpecKnown, Word
<1>6. \A f \in {"GRID_WIDTH", "GRID_HEIGHT", "TILE_WIDTH", "TILE_HEIGHT", "LAYERS", "SEED"} :
         spec[f] \in Word /\ spec[f] \in Nat
  BY <1>2, <1>3 DEF Field
<1>7. i < 2 * StoreSize
  BY <1>1, SizeAssumption
<1> QED
  BY <1>1, <1>3, <1>4, <1>5, <1>6, <1>7 DEF Grid

LEMMA PlacesSound == IInv /\ SInv => PlacesDistinct
<1> SUFFICES ASSUME IInv, SInv, NEW i \in DOMAIN slots, NEW j \in DOMAIN slots
             PROVE  /\ slots[i].x < spec["GRID_WIDTH"] /\ slots[i].y < spec["GRID_HEIGHT"]
                    /\ slots[i].x = slots[j].x /\ slots[i].y = slots[j].y => i = j
  BY DEF PlacesDistinct
<1> DEFINE w == spec["GRID_WIDTH"]
           h == spec["GRID_HEIGHT"]
<1>1. /\ w \in Nat \ {0} /\ h \in Nat /\ i \in Nat /\ j \in Nat /\ i < w * h
  BY SlotsKnown
<1>2. slots[i] = Slot(i) /\ slots[j] = Slot(j)
  BY SlotsKnown
<1>3. /\ slots[i].x = i % w /\ slots[i].y = i \div w
      /\ slots[j].x = j % w /\ slots[j].y = j \div w
  BY <1>2 DEF Slot
<1> HIDE DEF w, h
<1>4. i % w < w /\ i \div w < h
  BY <1>1, DivMod, RowInGrid
<1>5. i % w = j % w /\ i \div w = j \div w => i = j
  BY <1>1, OnePlace
<1> QED
  BY <1>1, <1>3, <1>4, <1>5 DEF w, h

LEMMA OffsetsSound == IInv /\ SInv => OffsetsAscend
<1> SUFFICES ASSUME IInv, SInv, NEW i \in DOMAIN slots, NEW j \in DOMAIN slots, i < j
             PROVE  slots[i].offset < slots[j].offset
  BY DEF OffsetsAscend
<1>1. /\ i \in Nat /\ i \in Word /\ i < 2 * StoreSize /\ spec["SEED"] \in Word
      /\ j \in Nat /\ j \in Word /\ j < 2 * StoreSize
  BY SlotsKnown
<1>2. /\ slots[i].offset \in Nat /\ slots[i].offset < (i + 1) * OffsetUnit
  BY <1>1, SlotsKnown, OffsetInUnit DEF Slot
<1>3. /\ slots[j].offset \in Nat /\ j * OffsetUnit <= slots[j].offset
  BY <1>1, SlotsKnown, OffsetInUnit DEF Slot
<1>4. (i + 1) * OffsetUnit <= j * OffsetUnit
  BY <1>1, UnitsAscend
<1>5. (i + 1) * OffsetUnit \in Nat /\ j * OffsetUnit \in Nat
  BY <1>1, SizeAssumption
<1> QED
  BY <1>2, <1>3, <1>4, <1>5

LEMMA PayloadSound == IInv /\ SInv => PayloadCovered
<1> SUFFICES ASSUME IInv, SInv, NEW i \in DOMAIN slots, Payload + Jitter(i) < WordSize
             PROVE  slots[i].count \in Payload .. WordSize - 1
  BY DEF PayloadCovered
<1>1. Payload \in Nat
  <2>1. /\ spec["TILE_WIDTH"] \in Nat /\ spec["TILE_HEIGHT"] \in Nat /\ spec["LAYERS"] \in Nat
    BY SlotsKnown
  <2>2. spec["TILE_WIDTH"] * spec["TILE_HEIGHT"] \in Nat
    BY <2>1
  <2> QED
    BY <2>1, <2>2 DEF Payload
<1>2. Jitter(i) \in Nat
  <2>1. i \in Nat
    BY SlotsKnown
  <2>2. i % JitterPeriod \in Nat
    BY <2>1, SizeAssumption
  <2> QED
    BY <2>2, SizeAssumption DEF Jitter
<1>3. slots[i].count = (Payload + Jitter(i)) % WordSize
  BY SlotsKnown DEF Slot
<1> HIDE DEF Payload, Jitter
<1>4. Payload + Jitter(i) \in 0 .. WordSize - 1
  BY <1>1, <1>2, SizeAssumption
<1>5. (Payload + Jitter(i)) % WordSize = Payload + Jitter(i)
  BY <1>4, SizeAssumption
<1> QED
  BY <1>1, <1>2, <1>3, <1>4, <1>5, SizeAssumption

\* planner_make_slot and encoder_store_plan: whatever the grid, the seed and
\* the widths, the slots stored are one for each place, their offsets ascend,
\* and no byte count is short of a payload it could be added to.
THEOREM SlotsDescribeGrid == Spec => []SlotsSound
<1>1. IInv /\ SInv => SlotsSound
  BY PlacesSound, OffsetsSound, PayloadSound DEF SlotsSound
<1> QED
  BY <1>1, InitSInv, NextSInv, TableInvariant, PTL DEF Spec

-----------------------------------------------------------------------------
\* The checkpoints planner_build places, and those among the tiles stored.
Plotted == [i \in 1 .. spec["CHECKPOINTS"] |-> Checkpoint(i)]
Met     == {i \in 0 .. stored - 1 : IsCheckpoint(i)}

CInv ==
    /\ at \in Word /\ tiles \in Word
    /\ phase \in {"parse", "plan"} => checkpoints = <<>>
    /\ phase \in {"create", "encode", "sign", "exited"} => checkpoints = Plotted
    /\ checkpoints = <<>> \/ (SpecKnown /\ checkpoints = Plotted)
    /\ hits = Cardinality(Met)

LEMMA MetFinite ==
    ASSUME stored \in Nat
    PROVE  IsFiniteSet(Met) /\ Cardinality(Met) \in Nat /\ Cardinality(Met) <= stored
<1>1. IsFiniteSet(0 .. stored - 1) /\ Cardinality(0 .. stored - 1) = stored
  <2>1. 0 \in Int /\ stored - 1 \in Int
    OBVIOUS
  <2> QED
    BY <2>1, FS_Interval
<1>2. Met \in SUBSET (0 .. stored - 1)
  BY DEF Met
<1> QED
  BY <1>1, <1>2, FS_Subset, FS_CardinalityType

\* The steps that plan nothing and store nothing.
LEMMA CInvKept ==
    ASSUME CInv, spec' = spec, tiles' = tiles, checkpoints' = checkpoints,
           stored' = stored, hits' = hits, at' \in Word,
           phase' \notin {"parse", "plan"},
           phase' \in {"create", "encode", "sign", "exited"} =>
               phase \in {"create", "encode", "sign", "exited"}
    PROVE  CInv'
<1>1. Plotted' = Plotted /\ Met' = Met
  BY DEF Plotted, Checkpoint, Spacing, Met, IsCheckpoint
<1>2. SpecKnown' = SpecKnown
  BY DEF SpecKnown, Complete, Seen, Valid, Grid
<1> QED
  BY <1>1, <1>2 DEF CInv

\* A tile stored on a checkpoint counts as a hit.
LEMMA CInvEncodeTile == IInv /\ SInv /\ CInv /\ EncodeTile => CInv'
<1> SUFFICES ASSUME IInv, SInv, CInv, EncodeTile PROVE CInv'
  OBVIOUS
<1>1. /\ phase = "encode" /\ phase' = "encode" /\ at \in Nat /\ stored = at /\ at < tiles
      /\ stored' = at + 1 /\ at' = at + 1 /\ UNCHANGED <<spec, tiles, checkpoints>>
      /\ hits' = IF IsCheckpoint(at) THEN hits + 1 ELSE hits
  BY DEF EncodeTile, IInv, Counters, Encoded, plan
<1>2. Plotted' = Plotted /\ \A i : IsCheckpoint(i)' = IsCheckpoint(i)
  BY <1>1 DEF Plotted, Checkpoint, Spacing, IsCheckpoint
<1>3. SpecKnown' = SpecKnown
  BY <1>1 DEF SpecKnown, Complete, Seen, Valid, Grid
<1>4. Met' = IF IsCheckpoint(at) THEN Met \cup {at} ELSE Met
  <2>1. 0 .. stored' - 1 = (0 .. stored - 1) \cup {at}
    BY <1>1
  <2> QED
    BY <2>1, <1>2 DEF Met
<1>5. IsFiniteSet(Met) /\ at \notin Met
  BY <1>1, MetFinite DEF Met
<1>6. hits' = Cardinality(Met')
  <2>1. hits = Cardinality(Met)
    BY DEF CInv
  <2> QED
    BY <2>1, <1>1, <1>4, <1>5, FS_AddElement
<1>7. at' \in Word
  BY <1>1, SizeAssumption DEF CInv, Word
<1> QED
  BY <1>1, <1>2, <1>3, <1>6, <1>7 DEF CInv

LEMMA InitCInv == Init => CInv
<1> SUFFICES ASSUME Init PROVE CInv
  OBVIOUS
<1>1. Met = {} /\ hits = 0
  BY DEF Init, Met
<1> QED
  BY <1>1, FS_EmptySet, SizeAssumption DEF Init, CInv, Word

LEMMA NextCInv == IInv /\ SInv /\ CInv /\ [Next]_vars => CInv'
<1> SUFFICES ASSUME IInv, SInv, CInv, [Next]_vars PROVE CInv'
  OBVIOUS
<1> USE DEF plan
<1>0. /\ at \in Word /\ tiles \in Word /\ 0 \in Word
      /\ phase \in {"parse", "plan"} => checkpoints = <<>>
  BY SizeAssumption DEF CInv, Word
<1>1. ASSUME phase = "parse", phase' \in {"parse", "died"} \/ (phase' = "plan" /\ tiles' \in Word),
             UNCHANGED <<checkpoints, at, stored, hits>>, phase' = "plan" \/ tiles' = tiles
      PROVE  CInv'
  <2>1. checkpoints = <<>> /\ hits = Cardinality(Met) /\ Met' = Met /\ tiles' \in Word
    BY <1>0, <1>1 DEF CInv, Met, IsCheckpoint
  <2> QED
    BY <2>1, <1>0, <1>1 DEF CInv
<1>2. ASSUME NEW f \in Field, NEW v \in Values[f], ParseField(f, v) PROVE CInv'
  BY <1>1, <1>2 DEF ParseField
<1>3. CASE ParseFatal \/ ParseRejects
  BY <1>1, <1>3 DEF ParseFatal, ParseRejects, Die
<1>4. CASE ParseEnd
  <2>1. tiles' \in Word
    <3>1. SInv'
      BY NextSInv
    <3> QED
      BY <3>1, <1>4 DEF SInv, Planned, SpecKnown, ParseEnd
  <2> QED
    BY <2>1, <1>1, <1>4 DEF ParseEnd
<1>5. CASE Plan
  <2>1. /\ checkpoints' = Plotted /\ phase = "plan" /\ phase' = "create"
        /\ UNCHANGED <<spec, tiles, stored, hits, at>>
    BY <1>5 DEF Plan, Plotted
  <2>2. Plotted' = Plotted
    BY <2>1 DEF Plotted, Checkpoint, Spacing
  <2>3. stored = 0
    BY <2>1 DEF IInv, Encoded
  <2>4. Met = {} /\ Met' = {}
    BY <2>1, <2>3 DEF Met
  <2>5. SpecKnown /\ SpecKnown'
    BY <2>1 DEF SInv, Planned, SpecKnown, Complete, Seen, Valid, Grid
  <2> QED
    BY <2>1, <2>2, <2>4, <2>5 DEF CInv
<1>6. CASE CreateTable
  BY <1>0, <1>6, CInvKept DEF CreateTable
<1>7. CASE EncodeTile
  BY <1>7, CInvEncodeTile
<1>8. CASE EncodeFatal
  BY <1>0, <1>8, CInvKept DEF EncodeFatal, Die
<1>9. CASE EncodeFault
  BY <1>0, <1>9, CInvKept DEF EncodeFault
<1>10. CASE EncodeDone
  BY <1>0, <1>10, CInvKept DEF EncodeDone
<1>11. CASE Sample
  <2>1. at' \in Word
    <3>1. at + Step \in Nat
      <4>1. tiles \in Nat /\ at \in Nat /\ tiles \div Samples \in Nat
        BY SizeAssumption DEF IInv, Counters
      <4> QED
        BY <4>1 DEF Step
    <3> QED
      BY <3>1, <1>11, SizeAssumption DEF Sample, Word
  <2> QED
    BY <2>1, <1>11, CInvKept DEF Sample
<1>12. CASE Report
  BY <1>0, <1>12, CInvKept DEF Report
<1>13. CASE UNCHANGED vars
  BY <1>13 DEF vars, CInv, Plotted, Checkpoint, Spacing, Met, IsCheckpoint,
               SpecKnown, Complete, Seen, Valid, Grid
<1> QED
  BY <1>2, <1>3, <1>4, <1>5, <1>6, <1>7, <1>8, <1>9, <1>10, <1>11, <1>12, <1>13
  DEF Next, Advance, Ended

\* The three inductive invariants together: of the table, of its slots, and of the
\* checkpoints drawn into and met by the plan (planner.c, encoder.c).
THEOREM CheckpointsInvariant == Spec => [](IInv /\ SInv /\ CInv)
<1>1. Init => IInv /\ SInv /\ CInv
  BY InitIInv, InitSInv, InitCInv
<1>2. (IInv /\ SInv /\ CInv) /\ [Next]_vars => (IInv /\ SInv /\ CInv)'
  BY NextIInv, NextSInv, NextCInv
<1> QED
  BY <1>1, <1>2, PTL DEF Spec

\* Numbers a to b that f takes no value of twice: as many as the values.
LEMMA ValuesCounted ==
    ASSUME NEW n \in Nat, NEW f, NEW S,
           \A i \in 1 .. n : f[i] \in S,
           \A i, j \in 1 .. n : f[i] = f[j] => i = j,
           \A x \in S : \E i \in 1 .. n : f[i] = x
    PROVE  Cardinality(S) = n
<1> DEFINE g == [i \in 1 .. n |-> f[i]]
<1>1. g \in Bijection(1 .. n, S)
  BY DEF Bijection, Injection, Surjection, IsInjective
<1>2. ExistsBijection(1 .. n, S)
  BY <1>1 DEF ExistsBijection
<1> QED
  BY <1>2, FS_CountingElements

\* Even distances that leave room for one more stay inside.
LEMMA DistancesFit ==
    ASSUME NEW t \in Nat, NEW c \in Nat \ {0}, t > c
    PROVE  /\ t \div (c + 1) \in Nat \ {0}
           /\ \A i \in 1 .. c : (t \div (c + 1)) * i < t
<1> DEFINE s == t \div (c + 1)
<1>1. s \in Nat /\ t = (c + 1) * s + (t % (c + 1)) /\ t % (c + 1) \in 0 .. c
  <2>1. c + 1 \in Nat \ {0} /\ (c + 1) - 1 = c
    OBVIOUS
  <2>2. s \in Nat /\ t = (c + 1) * s + (t % (c + 1)) /\ t % (c + 1) \in 0 .. (c + 1) - 1
    BY <2>1, DivMod, Zenon
  <2> QED
    BY <2>1, <2>2
<1> HIDE DEF s
<1>2. s # 0
  BY <1>1
<1>3. ASSUME NEW i \in 1 .. c PROVE s * i < t
  <2>1. s * i <= s * c
    BY <1>1
  <2>2. (c + 1) * s = s * c + s /\ s * c \in Nat
    BY <1>1
  <2>3. (c + 1) * s <= t
    <3>1. (c + 1) * s \in Nat
      BY <1>1
    <3> QED
      BY <3>1, <1>1
  <2>4. s * i \in Nat
    BY <1>1
  <2> QED
    BY <1>1, <1>2, <2>1, <2>2, <2>3, <2>4
<1> QED
  BY <1>1, <1>2, <1>3 DEF s

\* Once all tiles are stored, the checkpoints met are all there are.
LEMMA AllMet == IInv /\ SInv /\ CInv => CheckpointsMet
<1> SUFFICES ASSUME IInv, SInv, CInv, phase \in {"sign", "exited"}
             PROVE  hits = IF tiles > spec["CHECKPOINTS"] THEN spec["CHECKPOINTS"]
                           ELSE IF tiles = 1 THEN 1 ELSE tiles - 1
  BY DEF CheckpointsMet
<1> DEFINE c == spec["CHECKPOINTS"]
<1>1. /\ stored = tiles /\ SpecKnown /\ checkpoints = Plotted /\ hits = Cardinality(Met)
  BY DEF IInv, OnlyWholeTablesReported, SInv, Planned, CInv
<1>2. c \in Nat \ {0} /\ tiles \in Nat \ {0}
  <2>1. c \in 1 .. MaxCheckpoints /\ MaxCheckpoints \in Nat
    BY <1>1, SizeAssumption DEF SpecKnown, Valid
  <2>2. spec["GRID_WIDTH"] \in Nat \ {0} /\ spec["GRID_HEIGHT"] \in Nat \ {0}
    BY <1>1, SizeAssumption DEF SpecKnown, Valid, Complete, Seen, IInv, Counters, Word, Field
  <2>3. tiles = spec["GRID_WIDTH"] * spec["GRID_HEIGHT"]
    BY <1>1 DEF SpecKnown, Grid
  <2> QED
    BY <2>1, <2>2, <2>3
<1>3. Met = {i \in 0 .. tiles - 1 : \E k \in 1 .. c : Checkpoint(k) = i}
  BY <1>1 DEF Met, IsCheckpoint, Plotted
<1> HIDE DEF c
<1>4. CASE tiles > c
  <2> DEFINE s == tiles \div (c + 1)
             f == [k \in 1 .. c |-> s * k]
  <2>1. s \in Nat \ {0} /\ \A k \in 1 .. c : s * k < tiles
    BY <1>2, <1>4, DistancesFit
  <2>2. Spacing = s
    BY <2>1 DEF Spacing, c
  <2> HIDE DEF s
  <2>3. \A k \in 1 .. c : s * k \in Nat /\ f[k] = s * k /\ Checkpoint(k) = f[k]
    BY <1>2, <2>1, <2>2 DEF Checkpoint
  <2>4. \A k \in 1 .. c : f[k] \in Met
    BY <1>2, <1>3, <2>1, <2>3
  <2>5. \A k, m \in 1 .. c : f[k] = f[m] => k = m
    <3>1. \A k, m \in 1 .. c : s * k = s * m => k = m
      BY <2>1, <1>2
    <3> QED
      BY <3>1, <2>3
  <2>6. \A i \in Met : \E k \in 1 .. c : f[k] = i
    BY <1>3, <2>3
  <2>7. Cardinality(Met) = c
    <3> HIDE DEF f
    <3> QED
      BY <1>2, <2>4, <2>5, <2>6, ValuesCounted
  <2> QED
    BY <1>1, <1>4, <2>7 DEF c
<1>5. CASE tiles <= c
  <2>1. Spacing = 1
    <3>1. tiles \div (c + 1) = 0
      BY <1>2, <1>5
    <3> QED
      BY <3>1 DEF Spacing, c
  <2>2. \A k \in 1 .. c : Checkpoint(k) = IF k >= tiles THEN tiles - 1 ELSE k
    BY <1>2, <2>1 DEF Checkpoint
  <2>3. CASE tiles = 1
    <3>1. Met = 0 .. 0
      <4>1. \A k \in 1 .. c : Checkpoint(k) = 0
        BY <1>2, <2>2, <2>3
      <4>2. 1 \in 1 .. c
        BY <1>2
      <4> QED
        BY <4>1, <4>2, <1>3, <2>3
    <3>2. Cardinality(0 .. 0) = 1
      <4>1. 0 .. 0 = {0}
        OBVIOUS
      <4> QED
        BY <4>1, FS_Singleton
    <3> QED
      BY <1>1, <1>5, <2>3, <3>1, <3>2, <1>2 DEF c
  <2>4. CASE tiles # 1
    <3>1. Met = 1 .. tiles - 1
      <4>1. \A k \in 1 .. c : Checkpoint(k) \in 1 .. tiles - 1
        BY <1>2, <2>2, <2>4
      <4>2. \A i \in 1 .. tiles - 1 : i \in 1 .. c /\ Checkpoint(i) = i
        BY <1>2, <1>5, <2>2
      <4> QED
        BY <4>1, <4>2, <1>2, <1>3
    <3>2. Cardinality(1 .. tiles - 1) = tiles - 1
      <4>1. 1 \in Int /\ tiles - 1 \in Int /\ tiles - 1 >= 0
        BY <1>2
      <4> QED
        BY <4>1, <1>2, <2>4, FS_Interval
    <3> QED
      BY <1>1, <1>2, <1>5, <2>4, <3>1, <3>2 DEF c
  <2> QED
    BY <2>3, <2>4
<1> QED
  BY <1>2, <1>4, <1>5

\* planner_build and encoder_store_plan: whatever the grid, every checkpoint that can
\* have a tile of its own is met once.
THEOREM CheckpointsAreMet == Spec => []CheckpointsMet
BY AllMet, CheckpointsInvariant, PTL

-----------------------------------------------------------------------------
LEMMA QuotientSmaller ==
    ASSUME NEW n \in Nat, NEW w \in Nat \ {0}
    PROVE  n \div w \in Nat /\ n \div w <= n
<1> DEFINE q == n \div w
<1>1. q \in Nat /\ n = w * q + (n % w) /\ n % w \in Nat
  BY DivMod
<1> HIDE DEF q
<1>2. w * q \in Nat /\ q <= w * q
  BY <1>1
<1> QED
  BY <1>1, <1>2 DEF q

\* Remainders and quotients of words are words; the index behind a tile is one.
LEMMA SlotTyped ==
    ASSUME IInv, SInv, CInv, NEW i \in DOMAIN slots
    PROVE  slots[i] \in [id : Word, x : Word, y : Word, layer : Word, offset : Word, count : Word]
<1> DEFINE w == spec["GRID_WIDTH"]
           h == spec["GRID_HEIGHT"]
           l == spec["LAYERS"]
<1>1. /\ w \in Nat \ {0} /\ h \in Nat /\ spec["SEED"] \in Word
      /\ spec["TILE_WIDTH"] \in Nat /\ spec["TILE_HEIGHT"] \in Nat
      /\ i \in Nat /\ i \in Word /\ i < w * h /\ slots[i] = Slot(i)
  BY SlotsKnown
<1>2. SpecKnown /\ i + 1 <= tiles
  <2>1. slots # <<>>
    OBVIOUS
  <2>2. SpecKnown /\ i \in 0 .. stored - 1 /\ stored <= tiles
    BY <2>1 DEF SInv, Filled
  <2> QED
    BY <2>2, <1>1 DEF IInv, Counters
<1>3. l \in Nat \ {0} /\ l <= MaxLayers /\ MaxLayers \in Word
  BY <1>2, SizeAssumption DEF SpecKnown, Valid
<1>4. i + 1 \in Word
  BY <1>1, <1>2, SizeAssumption DEF CInv, Word
<1>5. i % w \in Word
  <2>1. i % w \in 0 .. w - 1 /\ w \in Word
    <3>1. w \in Word
      BY <1>2 DEF SpecKnown, Complete, Seen, IInv, Counters, Field
    <3> QED
      BY <3>1, <1>1, DivMod
  <2> QED
    BY <2>1, <1>1, SizeAssumption DEF Word
<1>6. i \div w \in Word
  <2>1. i \div w \in Nat /\ i \div w <= i
    BY <1>1, QuotientSmaller
  <2> QED
    BY <2>1, <1>1, SizeAssumption DEF Word
<1>7. Mix(spec["SEED"], i) % l \in Word
  <2>1. Mix(spec["SEED"], i) \in Nat
    BY <1>1, MixAssumption, SizeAssumption DEF Word
  <2>2. Mix(spec["SEED"], i) % l \in 0 .. l - 1
    BY <2>1, <1>3, DivMod
  <2> QED
    BY <2>2, <1>3, SizeAssumption DEF Word
<1>8. WordSize \in Nat \ {0} /\ Word = 0 .. WordSize - 1
  BY SizeAssumption DEF Word
<1>9. \A n \in Nat : n % WordSize \in Word
  BY <1>8
<1>10. Mix(spec["SEED"], i) % OffsetUnit \in Nat
  <2>1. Mix(spec["SEED"], i) \in Nat
    BY <1>1, MixAssumption, SizeAssumption DEF Word
  <2> QED
    BY <2>1, SizeAssumption
<1>11. i * OffsetUnit + (Mix(spec["SEED"], i) % OffsetUnit) \in Nat
  <2>1. i * OffsetUnit \in Nat
    BY <1>1, SizeAssumption
  <2> QED
    BY <2>1, <1>10
<1>12. Payload + Jitter(i) \in Nat
  <2>1. Payload \in Nat
    <3>1. spec["TILE_WIDTH"] * spec["TILE_HEIGHT"] \in Nat
      BY <1>1
    <3> QED
      BY <3>1, <1>3 DEF Payload
  <2>2. Jitter(i) \in Nat
    <3>1. i % JitterPeriod \in Nat
      BY <1>1, SizeAssumption
    <3> QED
      BY <3>1, SizeAssumption DEF Jitter
  <2> HIDE DEF Payload, Jitter
  <2> QED
    BY <2>1, <2>2
<1> HIDE DEF w, h, l
<1>13. (i * OffsetUnit + (Mix(spec["SEED"], i) % OffsetUnit)) % WordSize \in Word
  BY <1>9, <1>11
<1>14. (Payload + Jitter(i)) % WordSize \in Word
  BY <1>9, <1>12
<1> QED
  BY <1>1, <1>4, <1>5, <1>6, <1>7, <1>13, <1>14 DEF Slot, w, l

LEMMA Typed == IInv /\ SInv /\ CInv => TypeOK
<1> SUFFICES ASSUME IInv, SInv, CInv PROVE TypeOK
  OBVIOUS
<1>1. WordSize \in Nat /\ tiles \in Word /\ at \in Word /\ stored \in Nat
  BY SizeAssumption DEF CInv, IInv, Counters
<1>2. stored \in Word
  BY <1>1 DEF SInv, Filled, Word
<1>3. hits \in Word
  BY <1>1, <1>2, MetFinite DEF CInv, Word
<1>4. DOMAIN slots \subseteq Word
  BY <1>1, SlotsKnown
<1>5. checkpoints = <<>> \/ (SpecKnown /\ checkpoints = Plotted)
  BY DEF CInv
<1>6. DOMAIN checkpoints \subseteq Word /\ \A i \in DOMAIN checkpoints : checkpoints[i] \in Word
  <2>1. CASE checkpoints = <<>>
    BY <2>1
  <2>2. CASE SpecKnown /\ checkpoints = Plotted
    <3> DEFINE c == spec["CHECKPOINTS"]
    <3>1. c \in Nat /\ c <= MaxCheckpoints /\ MaxCheckpoints \in 0 .. WordSize - 2
      BY <2>2, SizeAssumption DEF SpecKnown, Valid
    <3>2. tiles # 0
      <4>1. spec["GRID_WIDTH"] \in Nat \ {0} /\ spec["GRID_HEIGHT"] \in Nat \ {0}
        BY <2>2, SizeAssumption DEF SpecKnown, Valid, Complete, Seen, IInv, Counters, Word, Field
      <4>2. tiles = spec["GRID_WIDTH"] * spec["GRID_HEIGHT"]
        BY <2>2 DEF SpecKnown, Grid
      <4> QED
        BY <4>1, <4>2
    <3>3. Spacing \in Nat
      <4>1. c + 1 \in Nat \ {0} /\ tiles \in Nat
        BY <1>1, <3>1 DEF Word
      <4>2. tiles \div (c + 1) \in Nat
        BY <4>1
      <4> QED
        BY <4>2 DEF Spacing
    <3>4. ASSUME NEW i \in 1 .. c PROVE Checkpoint(i) \in Word
      <4>1. Spacing * i \in Nat
        BY <3>1, <3>3
      <4> HIDE DEF Spacing
      <4> QED
        BY <4>1, <1>1, <3>2 DEF Checkpoint, Word
    <3>5. DOMAIN Plotted = 1 .. c /\ \A i \in 1 .. c : Plotted[i] = Checkpoint(i)
      BY DEF Plotted
    <3>6. 1 .. c \subseteq Word
      BY <1>1, <3>1 DEF Word
    <3> QED
      BY <2>2, <3>4, <3>5, <3>6
  <2> QED
    BY <1>5, <2>1, <2>2
<1>7. \A i \in DOMAIN slots :
          slots[i] \in [id : Word, x : Word, y : Word, layer : Word, offset : Word, count : Word]
  BY SlotTyped
<1> QED
  BY <1>1, <1>2, <1>3, <1>4, <1>6, <1>7 DEF TypeOK, IInv, Counters

\* Every field of tilepack stays inside its width: no index, count or hit outgrows the
\* word it is kept in.
THEOREM FieldsFitWords == Spec => []TypeOK
BY Typed, CheckpointsInvariant, PTL
=============================================================================
