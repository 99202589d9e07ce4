------------------------------ MODULE TilePack ------------------------------
(***************************************************************************)
(* benchmark7, the program tilepack: parser.c reads the fields of an atlas,*)
(* planner.c places checkpoints, table.c allocates a table of tile slots   *)
(* in front of a guard page (arena.c), encoder.c stores every tile and     *)
(* report.c samples the table for a signature.                             *)
(*                                                                         *)
(* A uint32_t has WordSize values.  The count the table is allocated from  *)
(* is cut to a uint16_t, of StoreSize values (narrow_count_for_storage);   *)
(* every check later on is against the count that was declared.            *)
(***************************************************************************)
EXTENDS Integers

CONSTANTS
    Values,         \* what the file may say for each field
    WordSize, StoreSize,
    SlotSize,       \* sizeof(TileSlot)
    PageSize,
    OffsetUnit,     \* bytes between two slots' offsets, at least
    JitterPeriod, JitterUnit,   \* what is added to the size of a tile
    Mix(_, _),      \* mix_index of a seed and an index
    MaxLayers, MaxCheckpoints,
    Samples,        \* slots table_checksum means to sample
    None            \* a field not seen

Field == {"NAME", "END", "SEED", "TILE_WIDTH", "TILE_HEIGHT", "GRID_WIDTH",
          "GRID_HEIGHT", "LAYERS", "CHECKPOINTS"}

Word == 0 .. WordSize - 1

ASSUME SizeAssumption ==
    /\ WordSize \in Nat /\ StoreSize \in Nat \ {0} /\ 2 * StoreSize <= WordSize
    /\ SlotSize \in Nat \ {0} /\ PageSize \in Nat \ {0} /\ Samples \in Nat \ {0}
    /\ OffsetUnit \in Nat \ {0} /\ 2 * OffsetUnit * StoreSize <= WordSize
    /\ JitterPeriod \in Nat \ {0} /\ JitterUnit \in Nat
    \* a page is a small part of the largest table
    /\ PageSize + SlotSize <= SlotSize * StoreSize
    /\ MaxLayers \in Word /\ MaxCheckpoints \in 0 .. WordSize - 2
ASSUME MixAssumption == \A seed, i \in Word : Mix(seed, i) \in Word
ASSUME ValuesAssumption == Values \in [Field -> SUBSET Word]
ASSUME NoneAssumption == None \notin Word

VARIABLES
    spec,           \* AtlasSpec, and SeenFields: None when not seen
    tiles,          \* total_tiles, tile_count and declared_slots
    checkpoints,    \* TilePlan.checkpoints
    usable,         \* bytes mapped read-write for the table
    slots,          \* TileTable.slots: what was stored, by index
    phase, at,      \* where the program is, the index of its loop
    stored, hits    \* EncodeStats

plan  == <<spec, tiles, checkpoints>>
vars  == <<plan, usable, slots, phase, at, stored, hits>>

Init == /\ spec = [f \in Field |-> None]
        /\ tiles = 0 /\ checkpoints = <<>>
        /\ usable = 0 /\ slots = <<>>
        /\ phase = "parse" /\ at = 0 /\ stored = 0 /\ hits = 0

-----------------------------------------------------------------------------
\* Seeded fault: a product is not checked.
Fits_Unchecked(n) == TRUE

\* Whether checked_mul_u32 returns.
Fits(n) == n < WordSize

Seen(f) == spec[f] # None

\* parse_line: a field not seen before.  END does not end the file.
ParseField(f, v) ==
    /\ phase = "parse" /\ ~Seen(f)
    /\ spec' = [spec EXCEPT ![f] = v]
    /\ UNCHANGED <<tiles, checkpoints, usable, slots, phase, at, stored, hits>>

Die == phase' = "died" /\ UNCHANGED <<plan, usable, slots, at, stored, hits>>

\* A second value for a field, an unknown field, no number, no value.
ParseFatal == phase = "parse" /\ Die

\* require_fields and validate_spec, at the end of the file.
Complete == \A f \in Field : Seen(f)
Valid    == /\ spec["TILE_WIDTH"] # 0 /\ spec["TILE_HEIGHT"] # 0
            /\ spec["GRID_WIDTH"] # 0 /\ spec["GRID_HEIGHT"] # 0
            /\ spec["LAYERS"] \in 1 .. MaxLayers
            /\ spec["CHECKPOINTS"] \in 1 .. MaxCheckpoints

Grid == spec["GRID_WIDTH"] * spec["GRID_HEIGHT"]

ParseEnd ==
    /\ phase = "parse" /\ Complete /\ Valid /\ Fits(Grid)
    /\ tiles' = Grid
    /\ phase' = "plan"
    /\ UNCHANGED <<spec, checkpoints, usable, slots, at, stored, hits>>

ParseRejects == phase = "parse" /\ ~(Complete /\ Valid /\ Fits(Grid)) /\ Die

-----------------------------------------------------------------------------
\* planner_build: checkpoints at even distances, the last tile at most.
Spacing == LET s == tiles \div (spec["CHECKPOINTS"] + 1) IN IF s = 0 THEN 1 ELSE s

\* Seeded fault: the first checkpoint is at the first tile.
Checkpoint_FromZero(i) ==
    IF Spacing * (i - 1) >= tiles THEN tiles - 1 ELSE Spacing * (i - 1)

Checkpoint(i) == IF Spacing * i >= tiles THEN tiles - 1 ELSE Spacing * i

Plan ==
    /\ phase = "plan"
    /\ checkpoints' = [i \in 1 .. spec["CHECKPOINTS"] |-> Checkpoint(i)]
    /\ phase' = "create"
    /\ UNCHANGED <<spec, tiles, usable, slots, at, stored, hits>>

\* Seeded fault: the count is kept whole, the guard of one slot stays.
Narrow_Whole(n) == IF n = 0 THEN 1 ELSE n

\* narrow_count_for_storage, and the one slot there always is.
Narrow(n) == LET cut == n % StoreSize IN IF cut = 0 THEN 1 ELSE cut

\* round_up, for guarded_alloc.
RoundUp(n, unit) == IF n % unit = 0 THEN n ELSE n + (unit - (n % unit))

CreateTable ==
    /\ phase = "create"
    /\ usable' = RoundUp(Narrow(tiles) * SlotSize, PageSize)
    /\ phase' = "encode" /\ at' = 0
    /\ UNCHANGED <<plan, slots, stored, hits>>

-----------------------------------------------------------------------------
\* tile_payload_size: the products are checked, the sum is not.
Payload == spec["TILE_WIDTH"] * spec["TILE_HEIGHT"] * spec["LAYERS"]
Jitter(i) == (i % JitterPeriod) * JitterUnit

TileFits == Fits(spec["TILE_WIDTH"] * spec["TILE_HEIGHT"]) /\ Fits(Payload)

\* Seeded fault: rows and columns are counted by the height of the grid.
Slot_ByHeight(i) ==
    [id |-> i + 1, x |-> i % spec["GRID_HEIGHT"], y |-> i \div spec["GRID_HEIGHT"],
     layer  |-> Mix(spec["SEED"], i) % spec["LAYERS"],
     offset |-> (i * OffsetUnit + (Mix(spec["SEED"], i) % OffsetUnit)) % WordSize,
     count  |-> (Payload + Jitter(i)) % WordSize]

\* planner_make_slot.
Slot(i) ==
    [id |-> i + 1, x |-> i % spec["GRID_WIDTH"], y |-> i \div spec["GRID_WIDTH"],
     layer  |-> Mix(spec["SEED"], i) % spec["LAYERS"],
     offset |-> (i * OffsetUnit + (Mix(spec["SEED"], i) % OffsetUnit)) % WordSize,
     count  |-> (Payload + Jitter(i)) % WordSize]

IsCheckpoint(i) == \E c \in DOMAIN checkpoints : checkpoints[c] = i

InMemory(i) == SlotSize * (i + 1) <= usable

\* table_set, which has compared the index with the declared count.
TableSet(i, slot) == slots' = [j \in 0 .. i |-> IF j = i THEN slot ELSE slots[j]]

\* Seeded fault: the guard page is readable and writable.
EncodeTile_NoGuard ==
    /\ phase = "encode" /\ at < tiles /\ TileFits
    /\ TableSet(at, Slot(at))
    /\ hits' = IF IsCheckpoint(at) THEN hits + 1 ELSE hits
    /\ stored' = stored + 1 /\ at' = at + 1
    /\ UNCHANGED <<plan, usable, phase>>

\* encoder_store_plan: the slot is copied into the table, however many slots
\* that has.
EncodeTile ==
    /\ phase = "encode" /\ at < tiles /\ TileFits /\ InMemory(at)
    /\ TableSet(at, Slot(at))
    /\ hits' = IF IsCheckpoint(at) THEN hits + 1 ELSE hits
    /\ stored' = stored + 1 /\ at' = at + 1
    /\ UNCHANGED <<plan, usable, phase>>

EncodeFatal == phase = "encode" /\ at < tiles /\ ~TileFits /\ Die

\* The copy reaches the guard page.
EncodeFault ==
    /\ phase = "encode" /\ at < tiles /\ TileFits /\ ~InMemory(at)
    /\ phase' = "faulted"
    /\ UNCHANGED <<plan, usable, slots, at, stored, hits>>

EncodeDone ==
    /\ phase = "encode" /\ at >= tiles
    /\ phase' = "sign" /\ at' = 0
    /\ UNCHANGED <<plan, usable, slots, stored, hits>>

-----------------------------------------------------------------------------
\* table_checksum: i += step, in the width of i.
Step == LET s == tiles \div Samples IN IF s = 0 THEN 1 ELSE s

Sample ==
    /\ phase = "sign" /\ at < tiles
    /\ at' = (at + Step) % WordSize
    /\ UNCHANGED <<plan, usable, slots, phase, stored, hits>>

\* report_summary multiplies the size of a tile again and prints; the products
\* fit, or there would be no table.  table_destroy and free_atlas_spec end main.
Report ==
    /\ phase = "sign" /\ at >= tiles /\ TileFits
    /\ phase' = "exited"
    /\ UNCHANGED <<plan, usable, slots, at, stored, hits>>

Advance ==
    \/ \E f \in Field : \E v \in Values[f] : ParseField(f, v)
    \/ ParseFatal \/ ParseEnd \/ ParseRejects
    \/ Plan \/ CreateTable
    \/ EncodeTile \/ EncodeFatal \/ EncodeFault \/ EncodeDone
    \/ Sample \/ Report

Ended == phase \in {"exited", "died", "faulted"} /\ UNCHANGED vars

Next == Advance \/ Ended

Spec == Init /\ [][Next]_vars

-----------------------------------------------------------------------------
TypeOK ==
    /\ spec \in [Field -> Word \cup {None}]
    /\ tiles \in Word /\ at \in Word
    /\ DOMAIN checkpoints \subseteq Word
    /\ \A i \in DOMAIN checkpoints : checkpoints[i] \in Word
    /\ DOMAIN slots \subseteq Word
    /\ \A i \in DOMAIN slots :
          slots[i] \in [id : Word, x : Word, y : Word, layer : Word, offset : Word, count : Word]
    /\ usable \in Nat /\ stored \in Word /\ hits \in Word
    /\ phase \in {"parse", "plan", "create", "encode", "sign", "exited", "died", "faulted"}

\* Only tables whose count survives the narrowing are ever encoded to the end:
\* rounding up to a page never makes room for one that was cut, so no report
\* is printed of a table that overran, and every slot sampled was stored.
OnlyWholeTablesReported ==
    phase \in {"sign", "exited"} =>
        /\ tiles < StoreSize
        /\ stored = tiles
        /\ SlotSize * tiles <= usable

\* Every planned checkpoint is met once while encoding, and when there are
\* more checkpoints than tiles to put them on, all tiles but the first are.
CheckpointsMet ==
    phase \in {"sign", "exited"} =>
        hits = IF tiles > spec["CHECKPOINTS"] THEN spec["CHECKPOINTS"]
               ELSE IF tiles = 1 THEN 1 ELSE tiles - 1

\* What was stored describes the grid, also in a table that was cut and is
\* about to fault: one slot for each place, in the order of the offsets, so
\* that no two tiles share one.
PlacesDistinct ==
    \A i, j \in DOMAIN slots :
        /\ slots[i].x < spec["GRID_WIDTH"] /\ slots[i].y < spec["GRID_HEIGHT"]
        /\ slots[i].x = slots[j].x /\ slots[i].y = slots[j].y => i = j

OffsetsAscend ==
    \A i, j \in DOMAIN slots : i < j => slots[i].offset < slots[j].offset

\* And a slot holds the bytes of a tile that the report prints, unless the sum
\* that is not checked passes the end of a word.
PayloadCovered ==
    \A i \in DOMAIN slots :
        Payload + Jitter(i) < WordSize => slots[i].count \in Payload .. WordSize - 1

SlotsSound == PlacesDistinct /\ OffsetsAscend /\ PayloadCovered

\* The index of the signature loop only grows, no slot is sampled twice: it
\* would wrap round for counts near the top of a word, but such tables have
\* faulted before.
SignatureGoesForward ==
    [][phase = "sign" /\ phase' = "sign" => at' > at]_vars
=============================================================================
