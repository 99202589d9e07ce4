------------------------------ MODULE SliceIdx ------------------------------
(***************************************************************************)
(* benchmark2, the program sliceidx: keys and values are appended to one   *)
(* text buffer that grows by realloc (textbuf.c); the index keeps, per key,*)
(* a pointer to the key's bytes and the offset of the value (index.c);     *)
(* database.c executes ADD, GET, FILL, DUMP, STATS and EXIT.  The lines    *)
(* come through a second buffer that grows, read_line's (util.c).          *)
(*                                                                         *)
(* `base' counts the moves of the buffer: a key pointer taken under an     *)
(* older base is dangling.  Reading through it kills the process, unless   *)
(* its old place has been mapped again meanwhile, when anything may be     *)
(* read ("undefined": nothing is said of what comes after).                *)
(***************************************************************************)
EXTENDS Integers, FiniteSets, Sequences

CONSTANTS
    Key, Value,
    KeySize, ValueSize,   \* strlen of each
    Hash,                 \* hash_bytes of the keys
    FillCounts,           \* counts the FILL commands ask for
    InitialCap,           \* TEXTBUF_INITIAL_CAP
    SizeBits, SizeMax,    \* width of size_t, SIZE_MAX
    AllocLimit,           \* realloc fails beyond this many bytes
    LineInitial, LineLimit, \* first size of the line buffer, LINE_LIMIT
    Blanks,               \* bytes of a command besides its key and value
    MaxCommands,          \* bound: lines of the file
    Nothing

\* What doubling k times multiplies by.
Doubled[k \in Nat] == IF k = 0 THEN 1 ELSE 2 * Doubled[k - 1]

ASSUME NothingAssumption == Nothing \notin Key \cup Value

ASSUME SizeAssumption ==
    /\ KeySize \in [Key -> Nat] /\ ValueSize \in [Value -> Nat]
    /\ FillCounts \subseteq 0 .. SizeMax
    /\ SizeBits \in Nat /\ SizeMax \in Nat /\ SizeMax = Doubled[SizeBits] - 1
    /\ MaxCommands \in Nat
    /\ InitialCap \in Nat \ {0} /\ AllocLimit \in Nat /\ InitialCap <= AllocLimit
    \* no single key or value comes near to wrapping size_t round
    /\ \A k \in Key : AllocLimit + KeySize[k] < SizeMax
    /\ \A v \in Value : AllocLimit + ValueSize[v] < SizeMax

\* util.c has 256 and 4096: no size on the way is an odd one out.
ASSUME LineAssumption ==
    /\ LineInitial \in Nat \ {0, 1} /\ LineLimit \in Nat /\ Blanks \in Nat
    /\ \E k \in 0 .. LineLimit : LineLimit = LineInitial * Doubled[k]

VARIABLES
    lineLen, lineCap, eof,     \* read_line: bytes of the line, size of its buffer
    len, cap, base,            \* TextBuf
    values,                    \* values[off]: the value whose bytes start at off
    index,                     \* Index.entries, in order of insertion
    phase,                     \* where the program is
    cmd,                       \* the command under way
    keySlice, valueSlice,      \* database_add's locals
    commands, ret

reader  == <<lineLen, lineCap, eof>>
buffer  == <<len, cap, base, values>>
control == <<phase, cmd, keySlice, valueSlice, commands, ret>>
vars    == <<reader, buffer, index, control>>

NoSlice   == [base |-> 0, off |-> 0, len |-> 0]
NoCommand == [key |-> Nothing, value |-> Nothing]

Init == /\ lineLen = 0 /\ lineCap = LineInitial /\ eof = FALSE
        /\ len = 0 /\ cap = InitialCap /\ base = 0
        /\ values = <<>> /\ index = <<>>
        /\ phase = "read" /\ cmd = NoCommand
        /\ keySlice = NoSlice /\ valueSlice = NoSlice
        /\ commands = 0 /\ ret = Nothing

-----------------------------------------------------------------------------
\* size_t arithmetic.
Wrap(n) == n % (SizeMax + 1)

\* Seeded fault: no room is asked for the terminating NUL.
Required_NoNul(n) == Wrap(len + n)

\* Bytes needed once n more and a terminating NUL are appended.
Required(n) == Wrap(len + n + 1)

\* grow_capacity: double until it suffices; near SIZE_MAX take what is asked.
GrowCapacity(current, required) ==
    LET enough == {c \in {current * Doubled[k] : k \in 0 .. SizeBits} :
                       c >= required /\ c \div 2 <= SizeMax \div 2}
    IN  IF enough = {} THEN required
        ELSE CHOOSE c \in enough : \A d \in enough : c <= d

\* textbuf_reserve, when it returns: the buffer suffices, or realloc made it
\* larger, where it was or elsewhere.
Reserve(required) ==
    IF required <= cap
    THEN UNCHANGED <<cap, base>>
    ELSE /\ GrowCapacity(cap, required) <= AllocLimit
         /\ cap' = GrowCapacity(cap, required)
         /\ base' \in {base, base + 1}

\* realloc returned NULL: "text buffer could not grow".
ReserveDies(required) == required > cap /\ GrowCapacity(cap, required) > AllocLimit

Stop(how) == phase' = how /\ UNCHANGED <<buffer, index, cmd, keySlice, valueSlice, ret>>

-----------------------------------------------------------------------------
\* read_line takes a byte when the buffer has room for it and for a NUL
\* behind it, and else doubles the buffer first.
Reading == phase = "read" /\ ~eof /\ (lineLen = 0 => commands < MaxCommands)

\* Seeded fault: no room is kept for the NUL.
LineFull_NoNul == lineLen + 1 > lineCap

LineFull == lineLen + 1 >= lineCap

GetByte(newline) ==
    /\ Reading
    /\ LineFull => lineCap < LineLimit
    /\ lineLen' = lineLen + 1
    /\ lineCap' = IF LineFull THEN 2 * lineCap ELSE lineCap
    /\ phase' = IF newline THEN "parse" ELSE "read"
    /\ UNCHANGED <<eof, buffer, index, cmd, keySlice, valueSlice, commands, ret>>

LineTooLong ==
    /\ Reading /\ LineFull /\ lineCap >= LineLimit
    /\ Stop("line too long") /\ UNCHANGED <<reader, commands>>

\* A last line without a newline is a line.
LastLine ==
    /\ Reading /\ lineLen > 0
    /\ eof' = TRUE /\ phase' = "parse"
    /\ UNCHANGED <<lineLen, lineCap, buffer, index, cmd, keySlice, valueSlice, commands, ret>>

\* End of file: read_line returns false.
EndOfFile == /\ phase = "read" /\ lineLen = 0
             /\ Stop("exited") /\ UNCHANGED <<reader, commands>>

-----------------------------------------------------------------------------
\* run_file: what the line asks for, with at least n bytes of key and value.
Command(n) ==
    /\ phase = "parse" /\ Blanks + n <= lineLen
    /\ commands' = commands + 1
    /\ lineLen' = 0 /\ UNCHANGED <<lineCap, eof>>

ReadAdd(k, v) == /\ Command(KeySize[k] + ValueSize[v]) /\ phase' = "add key"
                 /\ cmd' = [key |-> k, value |-> v]
                 /\ UNCHANGED <<buffer, index, keySlice, valueSlice, ret>>

ReadGet(k) == /\ Command(KeySize[k]) /\ phase' = "get"
              /\ cmd' = [key |-> k, value |-> Nothing]
              /\ UNCHANGED <<buffer, index, keySlice, valueSlice, ret>>

\* DUMP, STATS, comments and blank lines only print.
ReadOther == Command(0) /\ Stop("read")

\* EXIT ends the loop: keep_running is false.
ReadExit == Command(0) /\ Stop("exited")

\* A line that does not parse, a value of 512 bytes among them, ends the program.
ParseError == Command(0) /\ Stop("died")

-----------------------------------------------------------------------------
\* database_add: the key is appended, then the value; the slice of the key
\* was taken before the second append.
AddKey ==
    /\ phase = "add key"
    /\ Reserve(Required(KeySize[cmd.key]))
    /\ len' = len + KeySize[cmd.key] + 1
    /\ keySlice' = [base |-> base', off |-> len, len |-> KeySize[cmd.key]]
    /\ phase' = "add value"
    /\ UNCHANGED <<reader, values, index, cmd, valueSlice, commands, ret>>

AddValue ==
    /\ phase = "add value"
    /\ Reserve(Required(ValueSize[cmd.value]))
    /\ len' = len + ValueSize[cmd.value] + 1
    /\ values' = [o \in DOMAIN values \cup {len} |->
                     IF o = len THEN cmd.value ELSE values[o]]
    /\ valueSlice' = [base |-> base', off |-> len, len |-> ValueSize[cmd.value]]
    /\ phase' = "put"
    /\ UNCHANGED <<reader, index, cmd, keySlice, commands, ret>>

AddDies ==
    /\ \/ phase = "add key" /\ ReserveDies(Required(KeySize[cmd.key]))
       \/ phase = "add value" /\ ReserveDies(Required(ValueSize[cmd.value]))
    /\ Stop("died") /\ UNCHANGED <<reader, commands>>

-----------------------------------------------------------------------------
\* index_find: entries of the same hash and length are compared in order, until the key
\* itself is met.
Candidates(k) == {i \in DOMAIN index : /\ Hash[index[i].key] = Hash[k]
                                         /\ KeySize[index[i].key] = KeySize[k]}
Compared(k)   == {i \in Candidates(k) :
                      \A j \in Candidates(k) : j < i => index[j].key # k}
Found(k)      == {i \in Compared(k) : index[i].key = k}

Dangling(b) == b # base

\* Seeded fault: equal hash and length are taken for the same key.
PutDangles_Unread == Dangling(keySlice.base)

\* index_put hashes its key first, then compares: both through pointers.
PutDangles == Dangling(keySlice.base)
                  \/ \E i \in Compared(cmd.key) : Dangling(index[i].base)

GetDangles == \E i \in Compared(cmd.key) : Dangling(index[i].base)

Finish(r) == /\ phase' = "read" /\ ret' = r
             /\ cmd' = NoCommand /\ keySlice' = NoSlice /\ valueSlice' = NoSlice
             /\ UNCHANGED <<reader, buffer, commands>>

\* Seeded fault: an existing entry keeps its old offset.
PutUpdate_KeepOffset ==
    /\ phase = "put" /\ ~PutDangles
    /\ \E i \in Found(cmd.key) : index' = [index EXCEPT ![i].len = valueSlice.len]
    /\ Finish(TRUE)

\* An existing entry gets the new value and keeps its first key pointer.
PutUpdate ==
    /\ phase = "put" /\ ~PutDangles
    /\ \E i \in Found(cmd.key) :
          index' = [index EXCEPT ![i].off = valueSlice.off, ![i].len = valueSlice.len]
    /\ Finish(TRUE)

PutInsert ==
    /\ phase = "put" /\ ~PutDangles
    /\ Found(cmd.key) = {}
    /\ index' = Append(index, [key |-> cmd.key, base |-> keySlice.base,
                               off |-> valueSlice.off, len |-> valueSlice.len])
    /\ Finish(TRUE)

\* textbuf_at dies on a slice outside the bytes used.
InRange(e) == e.off <= len /\ e.len <= len - e.off

\* database_get reads the value at its offset, from wherever the buffer is now.
GetHit ==
    /\ phase = "get" /\ ~GetDangles
    /\ \E i \in Found(cmd.key) :
          IF InRange(index[i])
          THEN Finish(IF index[i].off \in DOMAIN values THEN values[index[i].off] ELSE Nothing)
               /\ UNCHANGED index
          ELSE Stop("died") /\ UNCHANGED <<reader, commands>>

GetMiss ==
    /\ phase = "get" /\ ~GetDangles
    /\ Found(cmd.key) = {}
    /\ Finish(Nothing) /\ UNCHANGED index

ReadDangling ==
    /\ \/ phase = "put" /\ PutDangles
       \/ phase = "get" /\ GetDangles
    /\ \E how \in {"faulted", "undefined"} : Stop(how)
    /\ UNCHANGED <<reader, commands>>

-----------------------------------------------------------------------------
\* FILL: the sum of sizes may wrap round, which makes it small enough for any
\* buffer; the count memset is given does not.
Fill(n) ==
    /\ Command(0) /\ phase' = "read"
    /\ Reserve(Required(n))
    /\ len + n + 1 <= cap'
    /\ len' = len + n + 1
    /\ UNCHANGED <<values, index, cmd, keySlice, valueSlice, ret>>

FillOverruns(n) ==
    /\ Command(0)
    /\ Required(n) <= cap /\ len + n + 1 > cap
    /\ Stop("faulted")

FillDies(n) == Command(0) /\ ReserveDies(Required(n)) /\ Stop("died")

-----------------------------------------------------------------------------
Advance ==
    \/ \E newline \in BOOLEAN : GetByte(newline)
    \/ LineTooLong \/ LastLine \/ EndOfFile
    \/ \E k \in Key : ReadGet(k) \/ \E v \in Value : ReadAdd(k, v)
    \/ ReadOther \/ ReadExit \/ ParseError
    \/ AddKey \/ AddValue \/ AddDies
    \/ PutUpdate \/ PutInsert \/ GetHit \/ GetMiss \/ ReadDangling
    \/ \E n \in FillCounts : Fill(n) \/ FillOverruns(n) \/ FillDies(n)

Ended == phase \in {"exited", "line too long", "died", "faulted", "undefined"} /\ UNCHANGED vars

Next == Advance \/ Ended

\* One thread, and a command file that ends.
Spec == Init /\ [][Next]_vars /\ WF_vars(Advance)

-----------------------------------------------------------------------------
Slice == [base : Nat, off : Nat, len : Nat]

TypeOK ==
    /\ len \in Nat /\ cap \in Nat /\ base \in Nat
    /\ DOMAIN values \subseteq Nat /\ \A o \in DOMAIN values : values[o] \in Value
    /\ index \in Seq([key : Key, base : Nat, off : Nat, len : Nat])
    /\ lineLen \in Nat /\ lineCap \in Nat /\ eof \in BOOLEAN
    /\ phase \in {"read", "parse", "add key", "add value", "put", "get",
                  "exited", "line too long", "died", "faulted", "undefined"}
    /\ cmd \in [key : Key \cup {Nothing}, value : Value \cup {Nothing}]
    /\ keySlice \in Slice /\ valueSlice \in Slice
    /\ commands \in 0 .. MaxCommands
    /\ ret \in Value \cup BOOLEAN \cup {Nothing}

\* Whatever command completes leaves the bytes used inside the allocation,
\* across growth and after FILL counts near SIZE_MAX; every value slice the
\* index holds stays inside the bytes used: textbuf_at never has to refuse one.
BufferSound ==
    /\ TypeOK
    /\ len <= cap /\ cap <= AllocLimit
    /\ \A i \in DOMAIN index : /\ InRange(index[i])
                               /\ index[i].off \in DOMAIN values
                               /\ index[i].len = ValueSize[values[index[i].off]]
    /\ \A i, j \in DOMAIN index : index[i].key = index[j].key => i = j

\* However the line buffer has grown, over this line and the ones before,
\* there is room for the NUL that read_line puts behind the last byte; and
\* nothing shorter than LINE_LIMIT bytes, the newline among them, is refused.
LineBufferSound ==
    /\ lineLen < lineCap /\ lineCap <= LineLimit
    /\ phase = "line too long" => lineLen = LineLimit - 1

\* The map ADD and GET keep: the value whose bytes are at the entry's offset.
Dict == [k \in Key |->
            IF \E i \in DOMAIN index : index[i].key = k
            THEN values[index[CHOOSE i \in DOMAIN index : index[i].key = k].off]
            ELSE Nothing]

Request == [op    |-> IF cmd.key = Nothing THEN "none"
                      ELSE IF cmd.value = Nothing THEN "find" ELSE "insert",
            key   |-> cmd.key, value |-> cmd.value]

Map == INSTANCE KVMap WITH dict <- Dict, req <- Request, ret <- ret

\* While it lives the program is a map: a GET that answers, answers with the
\* value added last, however often the buffer has moved ("the value is
\* stored by offset, so it survives relocation").
ImplementsMap == Map!Spec

\* The key has an entry, taken before the last move of the buffer.
Moved(k) == \E i \in DOMAIN index : index[i].key = k /\ Dangling(index[i].base)

\* The lookup about to be made: of a moved key by GET or ADD, or by ADD of a key
\* that moved while its value was appended.
Lost == \/ phase \in {"get", "put"} /\ Moved(cmd.key)
        \/ phase = "put" /\ Dangling(keySlice.base)

\* A key added before the last move of the buffer is lost to the program: a GET of
\* it, and another ADD unless memory for its bytes is refused first, end in a read
\* through the dangling pointer.  So does a first ADD whose value moves the buffer
\* away from the key just appended (index_hash, index_find, index_put).
MovedKeyNeverAnswers ==
    /\ Lost ~> phase \in {"faulted", "undefined"}
    /\ phase = "add key" /\ Moved(cmd.key) ~> phase \in {"faulted", "undefined", "died"}
=============================================================================
