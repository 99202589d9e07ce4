# The eight benchmark programs, specified

The repository holds eight small C programs, `benchmark1` to `benchmark8`. Each
reads one text file, works through it in a single thread and prints a report;
each contains one deliberate memory error whose symptom is far from its cause.
This directory says what each program does, error included: what it promises
before the error bites, from which moment on it is lost, and what stays true
afterwards.

The models do not repair anything. A read through a dangling pointer, a write
past an allocation or a call through the wrong type is a step to `faulted` (a
signal, where the build can only fault), or a choice between `faulted` and
`undefined` (where another build, or another layout, might go on). Nothing is
said of what comes after `undefined`. `died` and `status 1` are the exits of the
programs' own checks.

## Inventory

| program | state it keeps | operations | what is hard |
|---|---|---|---|
| **1 cachebench** `main.c parser.c record.c store.c util.c` | open addressing table: capacity, entries, size, tombstones; page strings of records | ADD, FIND, DEL, DUMP; growth inside ADD; `store_destroy` | probing loops without a bound, tombstones, counters kept by hand, growth in the middle of a call; strings borrowed by the table and made inaccessible by `command_dispose` |
| **2 sliceidx** `textbuf.c index.c database.c main.c util.c` | growing text buffer; index of key pointers and value offsets; a growing line buffer | read a line; ADD, GET, FILL | pointers into a buffer `realloc` moves; `size_t` sums that wrap round; doubling at its limit, with room for a NUL |
| **3 framewalk** `main.c parser.c catalog.c analyzer.c util.c` | cursor, document, catalog, what of the heap is allocated | load, parse, build, analyze, free | the cursor advances by the decoded length: payloads are read again as records; a parent looked up and not found; a record that fails half way |
| **4 stackroute** `parser.c route.c planner.c main.c util.c` | header frame, draft, route, heap blocks | parse header and body, seal, analyze, free | a copy that overwrites the fields behind the label; an index nobody checks; ownership of arrays on every error path |
| **5 eventmesh** `input.c rules.c plugin.c dispatcher.c` | configuration, rule book, context, subscriptions, counters | load, create the context, register, dispatch | lines in any order, of which some replace and some add; a handler stored through a union and called through another type; delivery order over two loops |
| **6 metapack** `router.c table.c parser.c format.c` | row, template book, packet | ROW, FIELD, TEMPLATE, EMIT | names defined twice; one answer for "no more tokens" and "token too long"; an emission that fails in the middle; a number passed where `va_arg` reads a pointer |
| **7 tilepack** `parser.c planner.c table.c encoder.c arena.c report.c` | fields of the atlas, plan, guarded table and its slots | parse, plan, allocate, encode, sign | a count cut to 16 bits while every check uses the full one; loop index close to its width |
| **8 listmux** `ilist.c task.c scheduler.c report.c parser.c` | three intrusive circular lists, states, counts | TASK, READY, NOTE, RUN, DUMP, final report | a note that overwrites the links of its own task; three records of one fact (links, state, count); walks that end only at the head |

The programs share no code and no state. Inside a program the parts interact by
plain calls; the only callbacks are those of eventmesh. There are no threads and
nothing is persisted. What is concurrent-like in them is the order of commands,
which the command file chooses freely, and what is failure-like is every call of
`die`, every `STATUS_ERR` and every fault.

What makes each correct, as far as it is correct:

* cachebench's table is a map; its counters are exact, a slot is always free,
  every call returns. With the strings the program really gives it, every entry
  is dangling as soon as its ADD is over.
* sliceidx is a map as long as it answers; the buffer is never overrun by a
  command that completes; keys older than the last move never answer.
* framewalk's document is the records of the file, provided no payload holds an
  escape; a node that is no record can only come out of the rest of an escaped
  payload. It ends, and what it leaves allocated is one key at most.
* stackroute's route is the file; the report is right; each block is freed once.
* eventmesh's context is what the file says whatever the order of its lines, and
  every message reaches every matching subscription in order.
* metapack prints whole rows or nothing, and one row always in the same way.
* tilepack reports only tables that were allocated whole, whose slots describe the
  grid without a gap.
* listmux's lists are three queues; with damaged links, list membership, states
  and counts still agree wherever a link is left to follow.

`PROJECT.json` lists these parts under `components`, and under `hazards` each
place in the code where one of these can go wrong.

## Modules

| module | models | checked by |
|---|---|---|
| `KVMap` | abstract map: what `store.h` promises, and `database.h` without deletion | refined by `CacheStore`, `SliceIdx` |
| `CacheStore` | `benchmark1/store.c`, one probe or one moved entry per step, with a caller that keeps strings readable | `CacheStore.cfg` |
| `CacheBench` | `benchmark1/main.c`, `parser.c`, `record.c`, `util.c`; extends `CacheStore`: commands, page strings, `store_destroy` | `CacheBench.cfg` |
| `CacheProofs` | theorems about the two | the prover |
| `TaskQueues` | abstract scheduler: three FIFO queues, the oldest task of the highest priority is next | refined by `ListMux` |
| `ListMux`, `ListMuxProofs` | benchmark8 with its links, states, counts and notes | `ListMux.cfg`, `ListMuxNotes.cfg`, `ListMuxReport.cfg`, the prover |
| `SliceIdx`, `SliceIdxProofs` | benchmark2: line buffer, text buffer, index, database | `SliceIdx.cfg`, the prover |
| `StackRoute`, `StackRouteProofs` | benchmark4 from file to report | `StackRoute.cfg`, `StackRouteParent.cfg`, the prover |
| `TilePack`, `TilePackProofs` | benchmark7 from file to signature | `TilePack.cfg`, the prover |
| `FrameWalk`, `FrameWalkProofs` | benchmark3 from file to analysis, and what it frees | `FrameWalk.cfg`, the prover |
| `EventMesh`, `EventMeshProofs` | benchmark5 from configuration to the last message | `EventMesh.cfg`, the prover |
| `MetaPack`, `MetaPackProofs` | benchmark6, command by command, EMIT column by column | `MetaPack.cfg`, the prover |

`MC<module>` holds the values of the constants for the model checker, when they
are more than a set of model values. An operator whose name is that of a
definition, an underscore and a word (`DeleteHit_NoTombstone`) is not part of
the specification: it is the definition with a plausible slip put in, named in
`PROJECT.json` beside the property that notices it.

### State and code

* **CacheStore.** `capacity entries size tombstones` are the fields of `Store`;
  `newEntries moving` the locals of `store_grow`; `call seen grave` the arguments
  of the call and the locals of `find_slot`. `Begin` is a call's prologue with
  the load factor test, `Grow*` the loop of `store_grow` and `reinsert_entry`,
  `Probe*` an iteration that goes on, `Insert* Find* Delete*` the iteration that
  returns. `grave` is only set where the code sets it: `find_slot` keeps the
  first tombstone, `store_find` has a loop of its own and keeps none.
* **CacheBench.** A record owns two pages; a page is `mapped`, `poisoned`
  (`mprotect(PROT_NONE)` in `command_dispose`) or `unmapped`. `keyOwner` says
  whose key page an entry points into: an update replaces the value pointer and
  keeps the key pointer. `Run` is a step of the table that reads only mapped
  pages, `RunFault` the same step when it does not. A line that does not parse
  ends the loop like the end of the file, with `ok` still true: `BadLine` and
  `EndOfFile` differ in `lastLine` only, which no code keeps.
* **ListMux.** `prev next` are the links of heads and tasks. A note reaches
  `queue_link.prev` with byte 29 and `queue_link.next` with byte 37, which the
  layout of `struct Task` decides (24 bytes of note, 4 of padding); a pointer
  with some bytes overwritten is `Stray`, with its top bytes too `Garbage`.
  `list_remove` writes `prev->next` first, then `next->prev`, and looks at the
  count last; then `list_push_back` looks whether the node is still linked.
  `MoveStops` has the four ways a move does not come to its end, `Movable` is that
  none of them is taken. `list_validate` has no caller and is not modelled.
* **SliceIdx.** `base` counts the moves of the buffer, so that a key pointer is a
  base and an offset and dangles when its base is not the present one. `Wrap` is
  `size_t` arithmetic, `Required` the sum that may wrap round, `GrowCapacity` the
  doubling loop and its last resort. `realloc` may grow in place or move.
  `read_line` is taken byte by byte (`GetByte`, `LastLine`, `LineTooLong`); its
  buffer keeps its size from one line to the next. A line has at least the bytes
  of the key and the value it names.
* **StackRoute.** `parent declared mode` are the fields behind the label in
  `HeaderFrame`; `CopiedByte` says what a byte of the frame may be after the copy:
  old, a byte of the name, its NUL, or a heap byte. `ParentToken` is what the text
  behind `parent=` comes to: a word, or NO_PARENT for what is no number or too
  large for one. `heap draftArrays
  routeArrays` are the blocks and who points to them; `Free` aborts on a block
  that is not allocated.
* **TilePack.** `Narrow` is `narrow_count_for_storage`, `RoundUp` the pages of
  `guarded_alloc`, `InMemory` whether a slot ends before the guard page. `Slot` is
  what the encoder writes for a tile: place, offset, bytes.
* **FrameWalk.** A file is a sequence of cells, a literal or a record's head
  being one cell; all lengths are in cells, so that the relation between
  declared and decoded length is that of the code. Both decoding and search for
  the next record are as written. `live` counts the blocks of the heap: the file,
  two for every node and every catalog item, and the arrays they are in
  (`Blocks`); `Out` frees what the label `out` of `main` frees. A `LateHead` is a head
  that goes wrong behind its key, when the key has been copied already.
* **EventMesh.** Lines of all kinds come in any order (`LoadProfile`, `LoadRule`,
  `LoadSubscribe`, `LoadMessage`); a second profile line replaces the first, mode
  included, a second rule is added. `CreateContext` copies name, mode and rules.
  `profileLines` is kept by no code. `Register` pairs a subscription with the one profile there is;
  `CallAudit` and `CallFilter` are the two callbacks. A filter takes the first
  eight bytes of the message for its profile pointer: the message's sequence and
  the length of its payload, which is never 0, so the address is between 4 GiB
  and 640 GiB and is not mapped in a 64 bit build.
* **MetaPack.** A TEMPLATE line is a sequence of tokens; `EndOfColumns` is where the
  loop over them ends, for whichever reason, and `Refused` says which of them is an
  error. `Cut` is `copy_text`. `First` is both `row_find` and `template_book_find`; `EmitNumber`
  is the column that hands a number to `packet_add` as a string.

## What the runs show

With two workers each run takes about two minutes at most.

| run | question | bounds, and why they are enough |
|---|---|---|
| `CacheStore` | Is the table a map through collisions, tombstones and growth, are its counters exact, do its loops end? | 4 keys (two of equal hash, one sharing their home slot only at capacity 4, one at the slot where probes wrap round), 2 values, capacities 4 and 8; the full reachable graph of calls of any length. Growth happens, from tables with and without tombstones; no call may grow beyond 8 |
| `CacheBench` | Which command files does cachebench survive? | 4 keys, 4 records, 6 lines: the fourth ADD is the one that grows the table, and comes with two lines to spare |
| `ListMux` | With notes that fit, is it three FIFO queues scheduled by priority? | 4 tasks, 2 priorities (ties on either side of a task of higher priority), 10 commands: four tasks created, readied, run and reported with commands left |
| `ListMuxNotes` | With notes that overwrite links, what stays true, and does every walk end? | 3 tasks, 8 commands and the five lengths at which the outcome changes |
| `ListMuxReport` | Does the program only fault in the report? | as `ListMuxNotes`; it does not (see findings) |
| `SliceIdx` | Is the buffer sound and the index a map, and what becomes of a key when the buffer moves? | a `size_t` of 6 bits, buffer from 8 to 32 bytes: fits, grows, is refused and wraps round with FILL counts 15, 40, 63; a line buffer of 2 bytes that doubles twice, lines of up to 7; 5 commands |
| `StackRoute` | Are route, report and memory right for any file, and which declared lengths keep the header? | bytes of 4 values; lengths inside the label, at its end, at each field's first byte, and the 44 bytes of `trigger.txt`; parents that are a node, a number one too large for a word, no number; 3 ids, 4 lines: the node array doubles once, costs overflow a word |
| `StackRouteParent` | Does the planner always get a parent the parser has validated, as it says? | names that fit; it does not (see findings) |
| `TilePack` | Are only whole tables reported, do their slots describe the grid, is each checkpoint met, does the signature loop go forward? | a word of 64 values, a stored count of 16: grids of 1 to 63 tiles and an overflowing one, with 15, 16 and 63 among them; 0 to 6 checkpoints |
| `FrameWalk` | What does the cursor make of a file, when does the analysis die, what is freed? | every file that is a record and 4 more cells, an escaped payload and 4 more, a header line and 4 more, any 3 cells: a payload that hides a record which swallows the next fits |
| `EventMesh` | Is the context what the file says, is every matching pair delivered in order, and is a filtered message fatal? | 2 profiles, 2 topics and `*`, 2 rules, 5 lines of which 3 may subscribe and 2 be messages: profile lines and rules that come twice or last, a filter before, between and behind audits, on the first and on the second message |
| `MetaPack` | Are packets whole rows, always the same for one row and template, and is their end settled when they begin? | 2 names and a long one that is cut to one of them, 2 texts, 2 numbers (one a mapped address), six TEMPLATE lines: a token too long first, in the middle and before a malformed one, two that a row of one string answers differently; 6 commands: a field or a template defined twice and emitted before and after |

Bounds that are guards of the models: `MaxCapacity` (no insertion is begun that
would grow further), `MaxCommands`, `MaxLines`, `MaxSpecs`, `MaxMessages` (length
of the input), `Record` (as many ADD lines). `AllocLimit` stands for the point
where `realloc` fails.

`CHECK_DEADLOCK` is on everywhere: a program that has ended stutters by `Ended`.

## Properties

The comment before each definition says what it states. The ones that carry the
most:

* `ImplementsMap` (`CacheStore`): the table implements `KVMap` under
  `dict <- Dict`, `Dict` being the map its slots stand for. `LookupSound` is the
  reason: keys are unique, and no slot that was never used lies between a key's
  home and its slot. `EveryCallReturns` is about the loops.
* `StoredStringsPoisoned`, `TableNeverChangesShape`, `OutcomeOfLinesRead`,
  `StoredKeyCallFaults` (`CacheBench`): the table of the real program never grows,
  because growing would read a key, and never loses an entry, because finding it
  would; a file with one ADD in front of its first bad line ends in a fault, in
  `store_destroy` at the latest, and any other ends in success, what the bad line
  hides included.
* `ImplementsQueues` (`ListMux`): links, states and priorities implement
  `TaskQueues`, the queues being the chains from head to head.
* `LinksAgree`, `CountsExact`, `ListChecksStaySilent`, `ReportComplete` (`ListMux`
  with notes that damage links): the neighbours of a task that is moved repair
  nothing they should not; the checks on a task's way from list to list
  (`list_remove`'s two, `list_push_back`'s one, the guard of `scheduler_run`) never
  notice the damage; and a report that is printed to its end is complete.
* `BufferSound`, `ImplementsMap`, `MovedKeyNeverAnswers` (`SliceIdx`): a value is
  found by offset wherever the buffer is; a key is lost by its first move, to GET
  and to another ADD alike, and the key of an ADD whose value moves the buffer is
  lost before it is in the index.
  `LineBufferSound`: a line of any length leaves room for its NUL, and only one of
  `LINE_LIMIT` bytes is refused.
* `HeaderKept`, `ParsedExactly`, `ReportExact`, `HeapSound` (`StackRoute`): as long as
  the name stays in the label, parent and count are what the header line says.
* `OnlyWholeTablesReported`, `SignatureGoesForward` (`TilePack`): rounding up to
  a page never makes up for the narrowing, so the program cannot print a report
  of a table it overran; and the index of the signature loop, which would wrap
  round for a count near the top of its width, is only reached with small ones.
  `SlotsSound`: one slot for each place of the grid, offsets that ascend, and byte
  counts that cover the payload wherever their sum fits a word.
* `RecordsAccounted` (`FrameWalk`): the first node that is no record comes out of
  the undecoded rest of the payload before it; a record is missed only when such a
  node swallowed it. `ExitsWithOnlyAKey`: it ends, and what it does not free is the key of
  the record at which it failed, at most.
* `DeliveredExact`, `ContextExact` (`EventMesh`): the second is about lines that
  replace and lines that add, in any order.
* `SameRowSamePacket`, `PrintsWholeRows`, `EmitSettled` (`MetaPack`): a packet answers
  a whole TEMPLATE line, cut only by a token too long; the place of the first
  number among the columns, relative to the first missing field, decides between
  a fault and an error.

### Findings

* `ListMuxReport`: README.md says benchmark8 faults "during scheduler report
  traversal"; `list_remove` already faults when a damaged task changes queues.
* `StackRouteParent`: `planner.c` says it "assumes the parser already validated
  parent_index"; no parser code compares it with the number of nodes, so a file
  with `parent=` past its nodes is enough, without any overwritten frame.

## Fairness

Every program is one thread and every input file ends, so that a program which
can take a step takes one. `CacheStore` assumes it only of a call under way
(`WF_vars(CallStep)`): nothing forces a caller to call. `CacheBench`, `ListMux`,
`SliceIdx` and `FrameWalk` assume it of the whole program (`WF_vars(Advance)`), `EventMesh` of what
follows the configuration (`WF_vars(Run)`). No fairness is asked of any single
choice: which line comes next, whether `realloc` moves. The other modules state
only safety and assume nothing.

## What is proved

Every theorem holds for all values of the constants that meet the named
assumptions of its module: any number of keys, tasks or nodes, files of any length,
words of any width. Every safety invariant and every action property the runs check is
proved, and so are the three refinements: of `KVMap` by `CacheStore` and `SliceIdx`,
and of `TaskQueues` by `ListMux`. Of five liveness properties the safety half is
proved too: what can never happen if they are to hold.

**CacheProofs.** For any keys, values, hash function and initial capacity of
at least 4: `TableInvariant`, `TypeCorrect`, `CountersAreExact`, `ProbesCanStop`,
`NoProbeGoesRound`. `CountersExact` is not inductive alone. The inductive
invariant `IInv` adds
  * `RoomToInsert`: an insertion probes only a table that is not loaded, which is
    what leaves a free slot after it;
  * `GraveSound`: the slot remembered in `grave` is a tombstone, so that reusing
    it takes one from that counter and adds one to the other;
  * `GrowCounts`: the array being filled holds as many entries as were moved and
    no tombstone, so that resetting that counter when growth ends is right;
  * `Passed`: the slots a probe has passed are in use, so that, by
    `ProbeVisitsAll` and `SlotLeft`, it cannot have passed them all
    (`ProbeBounded`, `GrowBounded`): this is why `for (;;)` ends.

There is one lemma per action, `InvNext` puts them together.

`LookupsAreSound`, `GrowthKeepsEntries` rest on a second invariant, `LInv`
(`SlotsInvariant`): keys are unique, and no slot on the way from a key's home to
its slot was never used (`ReachableIn`); a probe has passed no slot that holds its
key, and its `grave` is one of those it has passed (`PassedOthers`), so that an
insertion into `grave` neither makes a second entry nor leaves a gap before it; and
the array being filled is itself such a table, its keys unique, with the entries
moved so far and no other (`NewTableSound`). `TableIsAMap` (`ImplementsMap`) follows
action by action: every beginning of a call is an `Invoke`, every step that ends one
the step of `KVMap` it answers with, and all others leave the map and its request
alone. The lemma it turns on is `MapReads`: what `Dict` says of a key is in the one
slot that holds it.

In `CacheBench` the strings of a stored entry are unreadable from the moment its
command is disposed of (`StringsArePoisoned`). The program is the table of `CacheStore`
with a caller of its own: every step of it is one of `CacheStore` or leaves the
table alone (`BenchUsesStore`), so `IInv` and `LInv` hold of it as they are. To
them `BenchInv` adds
  * `UnderWay`: the call is the one of the command being carried out, and while it
    is, the pages of that command's record are mapped;
  * `Borrowed`: the strings of a stored entry lie in poisoned pages, but for those of
    the record a command has just stored and not disposed of yet;
  * `Shape`: `TableNeverChangesShape`, and a growth under way has met no entry yet;
  * `Decided`: once an ADD was read, the table is empty only until its insertion is
    over; `store_destroy` has met no entry before the one it is at; the program exits
    only with an empty table, and is killed only with one that is not.

A compare of two keys reads the stored one, and so does moving an entry: no step that
does either completes (`StringsUnreadable`). What completes of a call is a probe past a
slot that holds another hash, and its end at a slot that was never used, where
an insertion stores and the others answer that the key is not there (`RunIs`).
This is why the table cannot grow or get a tombstone (`ShapeIsKept`), and why the
end of the program tells what lines it has read (`OutcomeIsDecided`, the safety half of
`OutcomeOfLinesRead`). `StoredKeyNeverReturns` is that of `StoredKeyCallFaults`.

**SliceIdxProofs.** `LinesFit` (`LineBufferSound`), for any first size and limit that
are a whole number of doublings apart: the line buffer always is (`OnTheWay`), so
that it is doubled to the limit and never past it. `BufferIsSound` (`BufferSound`)
rests on `BInv`: values begin where `values` says and end before `len` (`Kept`,
the NUL included), entries of the index point to them (`Indexed`), and so do the
slices `database_add` holds between its calls (`Sliced`). The sum of sizes wraps
round for no key and no value (`SizesFit`), and whichever way `grow_capacity` ends
it gives no less than it was asked for (`GrownEnough`); a FILL may wrap round, and
then it is `FillOverruns`.
`AnswersAreAMap` (`ImplementsMap`): as long as the program answers it is a map, the
dangling compares of `index_find` included, since a step that meets one ends in
`faulted` or `undefined`, which is no answer. `MovedKeyIsLost`, the safety half of
`MovedKeyNeverAnswers`, of GET, of ADD and of an ADD's own key: entries keep their
pointer (`EntriesStay`), none is of later than now (`NoneLater`) and the buffer's
moves only count up, so that no move brings a key back; and the search comes to the
key's own entry before it could answer (`MovedIsCompared`).

**ListMuxProofs.** `ListsHoldTogether` (`LinksAgree`), `CountsFollowStates`
(`CountsExact`), `ChecksNeverFire` (`ListChecksStaySilent`), `ReportsAreComplete`
(`ReportComplete`), with notes that overwrite links. None of these is inductive:
what an overwritten link would have been is nowhere in the state. `LInv` says that
it exists (`Links`): two functions `tn`, `tp`, inverse to each other and closed
under the queues, of which `next` and `prev` are a copy except where they are
`Stray` or `Garbage`, a task not created being linked nowhere (`Unlinked`); and a
rank of each task, ascending along `tn`, so that a chain from a head comes back to
the head. A note changes the copy and not the
functions. A move changes both, and the functions the same way whatever it reads,
because the code writes `prev->next` and `next->prev` only through links that
survived; through one that did not, it does not return.

`ListsAreQueues` (`ImplementsQueues`), for notes of at most 28 bytes, which is what
fits in front of the links, and finitely many tasks. The refinement mapping is a
walk: `Chain(q)` is what one meets from the head of q along `next`. `QInv` says that
head and chain are a ring in both directions (`Ring`), and that the chain lists the
tasks in state q once each (`Lists`). A ring from the head is the walk, because a
first place at which they part would be one too late (`ChainIsRing`, by
`LeastNumber`). What is left is about rings: `list_push_back` appends to one
(`PushRing`), `list_remove` takes a task out of one, whatever its place (`CutRing`),
and neither touches another (`RingsApart`, `RingKept`). Each handler then maps to
the step of `TaskQueues` it is (`TaskMaps`, `ReadyMaps`, `RunMaps`, `ChooseMaps`,
`FinishMaps`, `ReportMaps`). Two loops need to know how far they are: `choose_ready` has chosen the
oldest of highest priority of those it has passed (`Choosing`), and `print_list` has
printed the chain up to where it is (`Showing`).

**StackRouteProofs.** `BlocksFreedOnce`: `HeapSound` for every file. The inductive
invariant `Allocated` says at each place of the program exactly which blocks are
allocated and who points to them. `RouteIsTheFile` (`ParsedExactly`): the n-th node
is the n-th NODE line, because the lines of a kind up to a given one are counted by
the ones appended (`ToldMore`). `FieldsAreKept` (`HeaderKept`), for bytes of any
number of values: a word is the sum of its bytes (`QuotientAndRest`, `PlaceValues`),
so that a field none of whose bytes was reached by the copy is what it was.
`ReportIsExact` (`ReportExact`): where the planner is in its loops, what it has added
up is the sum so far (`RInv`), reduced modulo the width of a word at each addition
or once at the end (`RestIsUnique`).

**TilePackProofs.** `ReportsWholeTables` and `SignatureEnds`, for any field width,
slot and page size, given that a stored count has at most half the values of a
word, and that a page and a slot together are no larger than the largest table
(`SizeAssumption`; the build has 2^32, 2^16, pages of 4 KiB). The argument: what
is mapped is less than a page larger than what was asked for (`RoundUpBound`), so
it holds less than `StoreSize - 1` slots more than the narrowed count; a count
that was cut lost at least `StoreSize` (`NarrowBound`); so the guard page comes
first (`SlotsCompare`).

`SlotsDescribeGrid`: `SlotsSound` for every grid, seed and width; a sum of byte
counts may overflow the word, and is the only thing that may keep a slot from
covering its payload. `CheckpointsAreMet`: `hits` counts the tiles stored at a
checkpoint (`CInv`), and checkpoints no closer than a tile apart are different tiles.
`FieldsFitWords` (`TypeOK`): with the other two, the products and sums of the planner
stay below the width of the field they are kept in.

**EventMeshProofs.** `ContextIsTheFile`: `ContextExact` for any names, rules and bounds.
The invariant says at each place of the program what profile, mode and rules are
in terms of the lines read, and that nothing is loaded once the context exists.
`CountersAreThePairs` (`DeliveredExact`): the two loops of `dispatcher_run` have been
through the pairs before the one they are at, `delivered` counts those of them that
match, and none was a filter (`DInv`). So the program gets through its messages only
if none was for a filter, and is killed only if one was (`FilterDecides`, the safety
half of `FilteredMessageFaults`).

**FrameWalkProofs.** `AnalysisFollowsDocument`: `AnalysisExact` for any files, heads and
cells, whatever the cursor made of them. The catalog is a copy of the document
(`Copied`), and the analysis has met no orphan before the node it is at
(`NoneBefore`); so it dies at the first one and succeeds only without one.
`OnlyAKeyIsLeft` is the memory part of `ExitsWithOnlyAKey`: `Heap` says at each place
how many blocks are allocated for the file, the document and the catalog, and that
the parser's error path adds at most the one key.

`PlainFilesAreRead` (`PlainFileExact`) and `RecordsAreAccounted` (`RecordsAccounted`):
a decoded payload is no longer than the declared one (`DecodedShorter`); the
records of the file are a chain of places, each the first head behind the payload of
the one before (`RecordsChain`); and the nodes found are such a chain with decoded
lengths for declared ones (`WInv`). The two part only behind a node whose payload
held an escape, and the cursor, being the one behind, finds nothing but what the
rest of that payload holds until it meets a place of the chain again.

**MetaPackProofs.** `EmissionIsSettled` (`EmitSettled`) and `RowHasOnePacket`
(`SameRowSamePacket`), for any names, cuts, tokens and number of lines. For the first,
`SoFar`: the columns behind the values of the packet were all supplied, none of
them with a number; and a template's columns are numbered from 1 wherever its line
was cut, because a line of tokens has a first one that ends it (`LeastNumber`,
`ColumnsNumbered`). For the second, `Still`: a packet printed from the present row
holds what the first field of each name holds now, which adding a field or a
template under a name already taken does not change (`AppendKeepsFirst`).
`PacketsAreWhole` (`PrintsWholeRows`): each template is what was kept of the line
it was written with (`WInv`), and where that line was cut is its first token too
long (`EndIsFirstBad`).

**Recursive functions.** That `Doubled`, `CostUpTo`, `DecodedLength` and
`RecordStarts` are what their equations say is itself proved, since the prover does
not know that a function with such an equation exists: if not, there would be a
least length (or a last place of the file) up to which there is none, and the one
for the length before extends to it (`PowersExist`, `SumsExist`, `DecodesExist`,
`StartsExist`, by way of a least-number lemma in each module). The walk of listmux
is unique for the same reason, and exists because its ring is one.

**Only model-checked.**

* Liveness: fairness and ENABLED are beyond the prover. The theorems above leave
  of `StoredKeyCallFaults`, `OutcomeOfLinesRead`, `MovedKeyNeverAnswers`,
  `ExitsWithOnlyAKey` and `FilteredMessageFaults` that the program goes on until it
  gets there, and so does `NoProbeGoesRound` of `EveryCallReturns`. `ProgramEnds`
  (`ListMux`) has the runs only.
* The two runs that find a violation: they refute what the repository says.

## What is not modelled, and why

* Wording, formatting, tracing, DUMP and statistics: they change no state.
* Tokenising and the parsing of numbers, but for the tokens of metapack's
  TEMPLATE line and the parent of stackroute's header: a line is the command it
  stands for or a line that does not parse, which every program is free to meet at
  any place. In listmux this includes a NUL byte in the middle of a line.
* The lines `fgets` makes of one longer than its buffer, in stackroute and
  eventmesh: the rest of such a line is one more line, of any content, which the
  models allow at any place anyway.
* Allocation failure: the wrappers end the process. In `SliceIdx` `realloc` may
  fail, because the size asked for comes from the file.
* benchmark8: notes of more than 108 bytes, which leave the task's block;
  benchmark4: declared lengths of more than 56, which leave the frame. What lies
  behind is the allocator's or the compiler's.
* benchmark7: the contents of a slot, and so the value of the signature.
* benchmark3: the bytes inside a head, and so a payload that ends in the middle of
  one; the score; the printed path.
* benchmark5: what a filter does with the rules: it does not get that far.
* benchmark4: the comparison of `declared_nodes` with the nodes read: there is none.
* benchmark6: labels, separators and growth of the packet's buffer.
* The string and number helpers of the `util.c` files, beyond the places named above
  where what they return decides what happens.

## Plan

Done, in this order, the program with the most behaviour first: cachebench
(`KVMap`, `CacheStore`, `CacheBench`), listmux (`TaskQueues`, `ListMux`), sliceidx,
stackroute, tilepack, framewalk, eventmesh, metapack; then what the first models
left out (line buffer, slots, heap of framewalk, rules and context, tokens of
TEMPLATE lines, the parent token); proofs of the invariants, the action properties and the
refinements, and of the safety halves of most liveness properties.

Next:

* State what the filter of eventmesh is meant to do as an abstract dispatcher, and
  compare.
* Model the packet of metapack down to its growth.
