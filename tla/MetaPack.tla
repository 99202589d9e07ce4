------------------------------ MODULE MetaPack ------------------------------
(***************************************************************************)
(* benchmark6, the program metapack: commands build a row of typed fields  *)
(* and a book of templates (router.c, table.c, parser.c), and EMIT prints  *)
(* a packet with the fields a template asks for (format.c).                *)
(*                                                                         *)
(* A line is what fgets returns: at most 511 bytes, so that the rest of a  *)
(* longer one is the next line.  split_token has one answer, false, for    *)
(* "no more tokens" and for "a token longer than the buffer": a TEMPLATE   *)
(* line ends silently at a column of 192 bytes or more.  A column may name *)
(* a field with up to 191 bytes, of which copy_text keeps 63; the name of  *)
(* a FIELD line must fit in 63.                                            *)
(*                                                                         *)
(* append_field_value hands a number to packet_add as if it were a string: *)
(* strlen reads at an address below 4 GiB.  That kills the process unless  *)
(* the build has something mapped there ("undefined": nothing is said of   *)
(* what comes after).                                                      *)
(***************************************************************************)
EXTENDS Integers, Sequences

CONSTANTS
    Name,           \* names of fields and of templates, of 63 bytes at most
    LongName,       \* longer names, which only a column can ask for
    Cut,            \* copy_text: a name to its first 63 bytes
    Text, Number,   \* values of string and of uint fields
    Mapped,         \* numbers that are mapped addresses in this build
    TooLong,        \* a token that does not fit in MAX_TEXT bytes
    Malformed,      \* a token that is no field:label:kind
    ColumnLists,    \* what TEMPLATE lines list: sequences of tokens
    None,           \* no row, no template
    MaxCommands     \* bound: lines of the file

Kind   == {"string", "uint", "flag"}
Field  == [name : Name, kind : {"string"}, value : Text]
              \cup [name : Name, kind : {"uint"}, value : Number]
              \cup [name : Name, kind : {"flag"}, value : BOOLEAN]
Column == [field : Name, kind : Kind]
Token  == [field : Name \cup LongName, kind : Kind] \cup {TooLong, Malformed}

ASSUME CutAssumption == /\ Cut \in [Name \cup LongName -> Name]
                        /\ \A n \in Name : Cut[n] = n
ASSUME TokenAssumption == ColumnLists \subseteq Seq(Token)
ASSUME MappedAssumption == Mapped \subseteq Number
ASSUME NoneAssumption == None \notin Name /\ None \notin Seq(Field)

VARIABLES
    row,        \* Router.row.fields; None while have_row is false
    book,       \* Router.book
    phase,      \* where the program is
    tmpl, packet,       \* emit_template: the template, the values so far
    lines,      \* lines read
    rows,       \* history: rows begun
    written,    \* history: the tokens of the line of each template in the book
    output      \* history: packets printed, with row and template

state == <<row, book>>
emission == <<tmpl, packet>>
history  == <<rows, written, output>>
vars  == <<state, phase, emission, lines, history>>

Init == /\ row = None /\ book = <<>>
        /\ phase = "read" /\ tmpl = None /\ packet = <<>>
        /\ lines = 0 /\ rows = 0 /\ written = <<>> /\ output = <<>>

-----------------------------------------------------------------------------
\* run_file: the next line.
Line == phase = "read" /\ lines < MaxCommands /\ lines' = lines + 1

Fail == phase' = "status 1" /\ UNCHANGED <<state, emission, history>>

\* A line that does not parse.
ParseError == Line /\ Fail

\* DUMP, blank lines, comments, and a verb of more than 63 characters.
NoCommand == Line /\ UNCHANGED <<state, phase, emission, history>>

\* CMD_ROW: a row that was begun before is thrown away, printed or not.
BeginRow ==
    /\ Line
    /\ row' = <<>> /\ rows' = rows + 1
    /\ UNCHANGED <<book, phase, emission, written, output>>

\* CMD_FIELD_STRING, _UINT, _FLAG: a second field of a name is added as well.
AddField(f) ==
    /\ Line /\ row # None
    /\ row' = Append(row, f)
    /\ UNCHANGED <<book, phase, emission, history>>

FieldBeforeRow == Line /\ row = None /\ Fail

\* Seeded fault: a column that is too long is passed over.
Columns_Skip(list) ==
    LET Kept(token) == token \notin {TooLong, Malformed}
        kept == SelectSeq(list, Kept)
    IN  [i \in DOMAIN kept |-> [field |-> Cut[kept[i].field], kind |-> kept[i].kind]]

\* parse_template_command: where its loop over the columns ends.
EndOfColumns(list) ==
    CHOOSE i \in 1..Len(list) + 1 :
        /\ i <= Len(list) => list[i] \in {TooLong, Malformed}
        /\ \A j \in 1..i - 1 : list[j] \notin {TooLong, Malformed}

\* "bad TEMPLATE column spec", "TEMPLATE requires at least one column".
Refused(list) ==
    LET last == EndOfColumns(list)
    IN  last = 1 \/ (last <= Len(list) /\ list[last] = Malformed)

\* parse_column_spec of each token before that end.
Columns(list) ==
    [i \in 1..EndOfColumns(list) - 1 |->
        [field |-> Cut[list[i].field], kind |-> list[i].kind]]

\* CMD_TEMPLATE: a second template of a name is added as well.
StoreTemplate(n, list) ==
    /\ Line /\ ~Refused(list)
    /\ book' = Append(book, [name |-> n, columns |-> Columns(list)])
    /\ written' = Append(written, list)
    /\ UNCHANGED <<row, phase, emission, rows, output>>

RefuseTemplate(list) == Line /\ Refused(list) /\ Fail

-----------------------------------------------------------------------------
\* Seeded fault: the last item of a name is taken.
First_Last(items, n) ==
    LET places == {i \in DOMAIN items : items[i].name = n}
    IN  IF places = {} THEN None
        ELSE items[CHOOSE i \in places : \A j \in places : i >= j]

\* template_book_find and row_find: the first item of a name, or NULL.
First(items, n) ==
    LET places == {i \in DOMAIN items : items[i].name = n}
    IN  IF places = {} THEN None
        ELSE items[CHOOSE i \in places : \A j \in places : i <= j]

Found(items, n) == \E i \in DOMAIN items : items[i].name = n

\* Seeded fault: the newest template of the name is taken.
EmitBegin_Last(n) ==
    /\ Line /\ Found(book, n) /\ row # None
    /\ tmpl' = First_Last(book, n) /\ packet' = <<>>
    /\ phase' = "emit"
    /\ UNCHANGED <<state, history>>

\* CMD_EMIT: emit_template writes its first tokens into a new packet.
EmitBegin(n) ==
    /\ Line /\ Found(book, n) /\ row # None
    /\ tmpl' = First(book, n) /\ packet' = <<>>
    /\ phase' = "emit"
    /\ UNCHANGED <<state, history>>

EmitRefused(n) == Line /\ ~(Found(book, n) /\ row # None) /\ Fail

\* The column the loop has come to, and the field it asks for.
Emitting  == phase = "emit" /\ Len(packet) < Len(tmpl.columns)
Wanted    == tmpl.columns[Len(packet) + 1]
Available == Found(row, Wanted.field) /\ First(row, Wanted.field).kind = Wanted.kind

\* A string or a flag of the kind the column declares.
EmitColumn ==
    /\ Emitting /\ Available /\ Wanted.kind # "uint"
    /\ packet' = Append(packet, First(row, Wanted.field).value)
    /\ UNCHANGED <<state, phase, tmpl, lines, history>>

\* Seeded fault: a number is printed like a string or a flag.
EmitNumber_Prints ==
    /\ Emitting /\ Available /\ Wanted.kind = "uint"
    /\ packet' = Append(packet, First(row, Wanted.field).value)
    /\ UNCHANGED <<state, phase, tmpl, lines, history>>

\* A number goes through the string path.
EmitNumber ==
    /\ Emitting /\ Available /\ Wanted.kind = "uint"
    /\ phase' = IF First(row, Wanted.field).value \in Mapped
                THEN "undefined" ELSE "faulted"
    /\ UNCHANGED <<state, emission, lines, history>>

\* A field that is missing or of another kind: the packet is thrown away.
EmitFails ==
    /\ Emitting /\ ~Available
    /\ phase' = "status 1" /\ tmpl' = None /\ packet' = <<>>
    /\ UNCHANGED <<state, lines, history>>

\* packet_print; the row and the template stay.
EmitEnd ==
    /\ phase = "emit" /\ Len(packet) = Len(tmpl.columns)
    /\ output' = Append(output, [row |-> rows, template |-> tmpl.name, packet |-> packet])
    /\ phase' = "read" /\ tmpl' = None /\ packet' = <<>>
    /\ UNCHANGED <<state, lines, rows, written>>

EndOfFile == /\ phase = "read" /\ phase' = "status 0"
             /\ UNCHANGED <<state, emission, lines, history>>

-----------------------------------------------------------------------------
Advance ==
    \/ ParseError \/ NoCommand
    \/ BeginRow \/ FieldBeforeRow \/ \E f \in Field : AddField(f)
    \/ \E n \in Name, list \in ColumnLists : StoreTemplate(n, list)
    \/ \E list \in ColumnLists : RefuseTemplate(list)
    \/ \E n \in Name : EmitBegin(n) \/ EmitRefused(n)
    \/ EmitColumn \/ EmitNumber \/ EmitFails \/ EmitEnd
    \/ EndOfFile

Ended == phase \in {"status 0", "status 1", "faulted", "undefined"} /\ UNCHANGED vars

Next == Advance \/ Ended

Spec == Init /\ [][Next]_vars

-----------------------------------------------------------------------------
\* What is printed answers a whole TEMPLATE line of that name: a value of the
\* declared kind for each of its columns, in the order written, taken from the
\* row as it is at that moment, and never a number.  Only a column too long
\* cuts the line short, and then nothing behind it is printed; only a name
\* too long is answered by a field of another name, that of its first bytes.
\* A packet that could not be completed is not printed in part.
ValueOf(c) == {row[i].value : i \in {i \in DOMAIN row :
                  row[i].name = Cut[c.field] /\ row[i].kind = c.kind}}

Answers(packet_, list) ==
    /\ 1 <= Len(packet_) /\ Len(packet_) <= Len(list)
    /\ Len(packet_) < Len(list) => list[Len(packet_) + 1] = TooLong
    /\ \A i \in DOMAIN packet_ :
          /\ list[i] \notin {TooLong, Malformed}
          /\ list[i].kind # "uint"
          /\ packet_[i] \in ValueOf(list[i])

PrintsWholeRows ==
    [][output' # output =>
          LET last == output'[Len(output')]
          IN  \E i \in DOMAIN book : /\ book[i].name = last.template
                                    /\ Answers(last.packet, written[i])]_vars

\* However many fields and templates are added under names already taken, all
\* packets of one row through one template's name are the same.
SameRowSamePacket ==
    \A i, j \in DOMAIN output :
        output[i].row = output[j].row /\ output[i].template = output[j].template
            => output[i].packet = output[j].packet

\* How an EMIT ends is settled when it begins.  If the columns before it have
\* their fields, the first number among the columns ends the program, in whatever
\* place it stands; else the first column without its field does, with status
\* 1; and only with neither is the packet printed.
Supplied(i) == /\ Found(row, tmpl.columns[i].field)
               /\ First(row, tmpl.columns[i].field).kind = tmpl.columns[i].kind

ReachesNumber ==
    \E i \in DOMAIN tmpl.columns : /\ tmpl.columns[i].kind = "uint"
                                   /\ \A j \in 1 .. i : Supplied(j)

EmitSettled ==
    [][phase = "emit" /\ phase' # "emit" =>
          IF ReachesNumber THEN phase' \in {"faulted", "undefined"}
          ELSE IF \A i \in DOMAIN tmpl.columns : Supplied(i) THEN phase' = "read"
          ELSE phase' = "status 1"]_vars
=============================================================================
