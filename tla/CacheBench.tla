----------------------------- MODULE CacheBench -----------------------------
(***************************************************************************)
(* benchmark1, the program cachebench: main.c reads a command, executes it *)
(* against the table of store.c and disposes of it.  A record created by   *)
(* parser.c owns one page string for its key and one for its value;        *)
(* store_insert keeps pointers into both; command_dispose makes both pages *)
(* inaccessible; store_delete and store_destroy want to unmap them.        *)
(*                                                                         *)
(* The table is CacheStore's, whose values are the records and whose       *)
(* capacity is 4 at first; its steps are guarded by what the code reads:   *)
(* a step that touches an inaccessible or unmapped page is a SIGSEGV.      *)
(***************************************************************************)
EXTENDS CacheStore

CONSTANT MaxCommands   \* bound: lines in the command file
ASSUME CommandsAssumption == MaxCommands \in Nat

VARIABLES
    keyPage, valuePage,             \* page strings of each record
    keyOwner,                       \* whose key page the entry of a key points into
    phase, cmd, lines,              \* main: where it is, the command, counters
    cursor,                         \* store_destroy: the entry it has come to
    fault,                          \* the function a SIGSEGV hit, or "none"
    lastLine                        \* history: what made the loop of main stop

memory    == <<keyPage, valuePage, keyOwner>>
control   == <<phase, cmd, lines, cursor, fault, lastLine>>
benchVars == <<vars, memory, control>>

\* The records the parser creates; bound: as many ADD lines.
Record == Value

PageState == {"none", "mapped", "poisoned", "unmapped"}
NoCommand == [op |-> "none", key |-> Nothing, record |-> Nothing]

BenchInit ==
    /\ Init
    /\ keyPage = [r \in Record |-> "none"]
    /\ valuePage = [r \in Record |-> "none"]
    /\ keyOwner = [k \in Key |-> Nothing]
    /\ phase = "read" /\ cmd = NoCommand
    /\ lines = 0 /\ cursor = 0
    /\ fault = "none" /\ lastLine = "none"

-----------------------------------------------------------------------------
\* parser_read_command.  An ADD line makes a record, and with it two pages.
ReadLine == phase = "read" /\ lines < MaxCommands /\ lines' = lines + 1

Unused(r)  == keyPage[r] = "none"
NextRecord == CHOOSE r \in Record : Unused(r)

ReadAdd(k) ==
    /\ ReadLine
    /\ \E r \in Record : Unused(r)
    /\ keyPage' = [keyPage EXCEPT ![NextRecord] = "mapped"]
    /\ valuePage' = [valuePage EXCEPT ![NextRecord] = "mapped"]
    /\ cmd' = [op |-> "insert", key |-> k, record |-> NextRecord]
    /\ phase' = "execute"
    /\ UNCHANGED <<vars, keyOwner, cursor, fault, lastLine>>

\* FIND and DEL carry a key of their own, freed when the command is disposed of.
ReadLookup(op, k) ==
    /\ ReadLine
    /\ cmd' = [op |-> op, key |-> k, record |-> Nothing]
    /\ phase' = "execute"
    /\ UNCHANGED <<vars, memory, cursor, fault, lastLine>>

\* DUMP prints pointers and counters; HELP, comments and blank lines do nothing.
ReadOther ==
    /\ ReadLine
    /\ UNCHANGED <<vars, memory, phase, cmd, cursor, fault, lastLine>>

\* parser_read_command answers false at the end of the file ...
EndOfFile ==
    /\ phase = "read"
    /\ phase' = "destroy" /\ cursor' = 0 /\ lastLine' = "end of file"
    /\ UNCHANGED <<vars, memory, cmd, lines, fault>>

\* Seeded fault: a line that does not parse is passed over.
BadLine_Skip ==
    /\ ReadLine
    /\ lastLine' = "bad"
    /\ UNCHANGED <<vars, memory, phase, cmd, cursor, fault>>

\* ... and for a line that does not parse (an ADD among them makes no record):
\* the same break with ok still true, and the rest of the file is never read.
BadLine ==
    /\ ReadLine
    /\ phase' = "destroy" /\ cursor' = 0 /\ lastLine' = "bad"
    /\ UNCHANGED <<vars, memory, cmd, fault>>

-----------------------------------------------------------------------------
\* execute_command enters the table ...
Execute ==
    /\ phase = "execute"
    /\ Begin(cmd.op, cmd.key, cmd.record)
    /\ phase' = "run"
    /\ UNCHANGED <<memory, cmd, lines, cursor, fault, lastLine>>

\* ... whose next step reads the key of an entry: store_grow rehashes it,
\* entry_key_equals compares it once hashes agree (keys of equal hash have
\* equal length here).
RehashesKey == Growing /\ entries[moving].state = "occupied" /\ seen = 0
ComparesKey == /\ pc = "probe"
               /\ entries[Here].state = "occupied"
               /\ Hash[entries[Here].key] = Hash[call.key]

KeyRead == IF RehashesKey THEN {entries[moving].key}
           ELSE IF ComparesKey THEN {entries[Here].key} ELSE {}

\* The value pages a step touches: store_delete frees, execute_find prints.
ValueRead == IF pc = "probe" /\ Matches /\ call.op \in {"find", "delete"}
             THEN {entries[Here].value} ELSE {}

Readable == /\ \A k \in KeyRead : keyPage[keyOwner[k]] = "mapped"
            /\ \A r \in ValueRead : valuePage[r] = "mapped"

\* A new entry borrows the key page of the command's record; an update of an
\* existing entry leaves the key pointer as it was.
Run ==
    /\ phase = "run" /\ pc # "idle"
    /\ Readable
    /\ CallStep
    /\ IF size' > size
       THEN keyOwner' = [keyOwner EXCEPT ![call.key] = cmd.record]
       ELSE UNCHANGED keyOwner
    /\ IF size' < size      \* store_delete unmaps both pages
       THEN /\ keyPage' = [keyPage EXCEPT ![keyOwner[call.key]] = "unmapped"]
            /\ valuePage' = [valuePage EXCEPT ![entries[Here].value] = "unmapped"]
       ELSE UNCHANGED <<keyPage, valuePage>>
    /\ UNCHANGED <<phase, cmd, lines, cursor, fault, lastLine>>

RunFault ==
    /\ phase = "run" /\ pc # "idle"
    /\ ~Readable
    /\ fault' = IF pc = "grow" THEN "store_grow"
                ELSE IF call.op = "find" THEN "store_find" ELSE "find_slot"
    /\ phase' = "faulted"
    /\ UNCHANGED <<vars, memory, cmd, lines, cursor, lastLine>>

\* Seeded fault: the record is freed without making its value inaccessible.
Dispose_KeepValue ==
    /\ phase = "run" /\ pc = "idle"
    /\ keyPage' = IF cmd.record = Nothing THEN keyPage
                  ELSE [keyPage EXCEPT ![cmd.record] = "poisoned"]
    /\ phase' = "read" /\ cmd' = NoCommand
    /\ UNCHANGED <<vars, valuePage, keyOwner, lines, cursor, fault, lastLine>>

\* Seeded fault: command_dispose forgets the record and its two pages.
Dispose_KeepRecord ==
    /\ phase = "run" /\ pc = "idle"
    /\ phase' = "read" /\ cmd' = NoCommand
    /\ UNCHANGED <<vars, memory, lines, cursor, fault, lastLine>>

\* command_dispose: record_destroy poisons both page strings of the record.
Dispose ==
    /\ phase = "run" /\ pc = "idle"
    /\ IF cmd.record = Nothing
       THEN UNCHANGED <<keyPage, valuePage>>
       ELSE /\ keyPage' = [keyPage EXCEPT ![cmd.record] = "poisoned"]
            /\ valuePage' = [valuePage EXCEPT ![cmd.record] = "poisoned"]
    /\ phase' = "read" /\ cmd' = NoCommand
    /\ UNCHANGED <<vars, keyOwner, lines, cursor, fault, lastLine>>

-----------------------------------------------------------------------------
\* store_destroy, entry by entry.
Destroying == phase = "destroy" /\ cursor < capacity

DestroySkip ==
    /\ Destroying
    /\ entries[cursor].state # "occupied"
    /\ cursor' = cursor + 1
    /\ UNCHANGED <<vars, memory, phase, cmd, lines, fault, lastLine>>

\* page_strfree reads the header of the page before it unmaps it.
Freeable == /\ keyPage[keyOwner[entries[cursor].key]] = "mapped"
            /\ valuePage[entries[cursor].value] = "mapped"

DestroyEntry ==
    /\ Destroying
    /\ entries[cursor].state = "occupied"
    /\ IF Freeable
       THEN /\ keyPage' = [keyPage EXCEPT ![keyOwner[entries[cursor].key]] = "unmapped"]
            /\ valuePage' = [valuePage EXCEPT ![entries[cursor].value] = "unmapped"]
            /\ entries' = [entries EXCEPT ![cursor] = EmptyEntry]
            /\ cursor' = cursor + 1
            /\ UNCHANGED <<phase, fault, lastLine>>
       ELSE /\ fault' = "page_strfree" /\ phase' = "faulted"
            /\ UNCHANGED <<keyPage, valuePage, entries, cursor>>
    /\ UNCHANGED <<capacity, size, tombstones, newEntries, moving, pc, call, seen, grave, ret,
                   keyOwner, cmd, lines, lastLine>>

DestroyEnd ==
    /\ phase = "destroy" /\ cursor = capacity
    /\ phase' = "exited"
    /\ UNCHANGED <<vars, memory, cmd, lines, cursor, fault, lastLine>>

-----------------------------------------------------------------------------
Advance == \/ \E k \in Key : ReadAdd(k)
           \/ \E k \in Key : ReadLookup("find", k)
           \/ \E k \in Key : ReadLookup("delete", k)
           \/ ReadOther \/ EndOfFile \/ BadLine
           \/ Execute \/ Run \/ RunFault \/ Dispose
           \/ DestroySkip \/ DestroyEntry \/ DestroyEnd

\* The process is gone.  "exited": main returns EXIT_SUCCESS, ok being true whatever ended its loop.
Ended == phase \in {"exited", "faulted"} /\ UNCHANGED benchVars

BenchNext == Advance \/ Ended

\* One thread, and a command file that ends: the program goes on.
BenchSpec == BenchInit /\ [][BenchNext]_benchVars /\ WF_benchVars(Advance)

-----------------------------------------------------------------------------
BenchTypeOK ==
    /\ TypeOK
    /\ keyPage \in [Record -> PageState] /\ valuePage \in [Record -> PageState]
    /\ keyOwner \in [Key -> Record \cup {Nothing}]
    /\ phase \in {"read", "execute", "run", "destroy", "exited", "faulted"}
    /\ lines \in 0 .. MaxCommands
    /\ cursor \in 0 .. capacity
    /\ fault \in {"none", "store_grow", "store_find", "find_slot", "page_strfree"}
    /\ lastLine \in {"none", "end of file", "bad"}

\* Between two commands every pointer of the table is dangling: it borrowed
\* the strings of a record that command_dispose has made inaccessible.
StoredStringsPoisoned ==
    phase \in {"read", "destroy"} =>
        \A i \in Occupied : /\ keyPage[keyOwner[entries[i].key]] = "poisoned"
                        /\ valuePage[entries[i].value] = "poisoned"

\* So nothing that would look at a stored string ever completes: the table
\* never grows, loses no entry and keeps the four slots of store_create(4), into
\* which one entry more goes than the load factor allows.
TableNeverChangesShape ==
    capacity = InitialCapacity /\ tombstones = 0 /\ 10 * (size - 1) <= 6 * capacity

\* What became of the file follows from the lines in front of the first that
\* does not parse: with an ADD among them (one beyond the load factor at the latest grows the
\* table, store_destroy frees what is left) the process dies; without one it
\* ends in success, and so it does when a bad line hides the rest of the file.
Stored == \E r \in Record : ~Unused(r)

OutcomeOfLinesRead ==
    /\ Stored ~> phase = "faulted"
    /\ (lastLine # "none" /\ ~Stored) ~> phase = "exited"

\* A call on a key that is stored (a FIND, a DEL, a second ADD) does not
\* return: comparing keys already reads an inaccessible page.
StoredKeyCallFaults ==
    (phase = "run" /\ pc = "probe" /\ \E i \in Occupied : entries[i].key = call.key)
        ~> phase = "faulted"
=============================================================================
