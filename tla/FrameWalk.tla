----------------------------- MODULE FrameWalk -----------------------------
(***************************************************************************)
(* benchmark3, the program framewalk: parser.c walks a cursor over a file  *)
(* of records, catalog.c copies what was parsed, analyzer.c looks up the   *)
(* parent of every node.  The payload of a record is percent decoded, and  *)
(* the cursor goes on behind as many bytes as the decoded payload has.     *)
(*                                                                         *)
(* A file is a sequence of cells: the literal "NODE ", the rest of a       *)
(* record's head (up to and with "data="), and single bytes.  A cell is    *)
(* one place for the cursor, whatever its length in bytes: raw and decoded *)
(* lengths are counted in cells, and so are those a head declares.         *)
(***************************************************************************)
EXTENDS Integers, Sequences

CONSTANTS
    Files,       \* the files the program may be given
    Node,        \* "NODE "
    Magic,       \* "B3FRAME 1"
    Newline, Percent, Hex,   \* bytes: end of line, '%', a hexadecimal digit
    Heads,       \* heads that parse: [id, parent, declared]
    LateHead     \* a head whose key is read before it turns out malformed

Cell == {Node, Magic, Newline, Percent, Hex, LateHead} \cup Heads

ASSUME FileAssumption == Files \subseteq Seq(Cell)
ASSUME HeadAssumption ==
    \A h \in Heads : h.id \in Nat /\ h.parent \in Nat /\ h.declared \in Nat

VARIABLES
    file,        \* the ByteBuffer
    pos,         \* Cursor: the cell it is at
    doc,         \* ParsedDoc.nodes
    catalog,     \* Catalog.items
    live,        \* how many blocks of the heap are allocated
    status,      \* the status of main
    phase, at    \* where the program is, the index of its loop

vars == <<file, pos, doc, catalog, live, status, phase, at>>

Init == /\ file \in Files
        /\ pos = 1
        /\ doc = <<>> /\ catalog = <<>> /\ live = 0
        /\ status = 1
        /\ phase = "load" /\ at = 1

\* util_load_file: the file is read whole into one block, or main is over: an
\* error of the file system, or a short read, leaves no block behind.
LoadFile ==
    /\ phase = "load"
    /\ live' = 1 /\ phase' = "header"
    /\ UNCHANGED <<file, pos, doc, catalog, status, at>>

LoadFails ==
    /\ phase = "load"
    /\ phase' = "ended"
    /\ UNCHANGED <<file, pos, doc, catalog, live, status, at>>

-----------------------------------------------------------------------------
\* The blocks n nodes, or n items of the catalog, are kept in: the key and the
\* payload of each, and the array they are in.
Blocks(n) == IF n = 0 THEN 0 ELSE 2 * n + 1

End == Len(file) + 1

\* The first place of a cell at or behind p, or the end.
NextCell(c, p) ==
    LET places == {q \in p .. Len(file) : file[q] = c}
    IN  IF places = {} THEN End ELSE CHOOSE q \in places : \A r \in places : q <= r

\* consume_header: the magic and the rest of its line, if the file has it.
AfterHeader ==
    IF file = <<>> \/ file[1] # Magic THEN 1
    ELSE IF NextCell(Newline, 1) = End THEN End ELSE NextCell(Newline, 1) + 1

ConsumeHeader ==
    /\ phase = "header"
    /\ pos' = AfterHeader /\ phase' = "parse"
    /\ UNCHANGED <<file, doc, catalog, live, status, at>>

\* Seeded fault: the search begins one byte behind the cursor.
Record_Behind == NextCell(Node, pos + 1)

\* skip_to_next_record
Record == NextCell(Node, pos)

HasHead(q)  == q < Len(file) /\ file[q + 1] \in Heads
HeadOf(q)    == file[q + 1]
Data(q)     == q + 2
DataFits(q) == HeadOf(q).declared <= End - Data(q)

\* decode_percent_span: bytes the n cells from p decode to.
IsEscape(p, i, n) == /\ i + 2 < n /\ file[p + i] = Percent
                     /\ file[p + i + 1] = Hex /\ file[p + i + 2] = Hex

DecodedLength(p, n) ==
    LET from[i \in 0 .. n] ==
            IF i = n THEN 0
            ELSE IF IsEscape(p, i, n) THEN 1 + from[i + 3] ELSE 1 + from[i + 1]
    IN  from[0]

ParsedNode(q) ==
    [id |-> HeadOf(q).id, parent |-> HeadOf(q).parent, start |-> q,
     declared |-> HeadOf(q).declared,
     decoded |-> DecodedLength(Data(q), HeadOf(q).declared)]

\* Seeded fault: the cursor also passes the byte behind the payload.
ParseNode_Over ==
    /\ phase = "parse" /\ Record < End
    /\ HasHead(Record) /\ DataFits(Record)
    /\ doc' = Append(doc, ParsedNode(Record))
    /\ pos' = Data(Record) + ParsedNode(Record).decoded + 1
    /\ live' = live + Blocks(Len(doc')) - Blocks(Len(doc))
    /\ UNCHANGED <<file, catalog, status, phase, at>>

\* parse_node and parsed_doc_push: cur->p = raw + decoded_len.
ParseNode ==
    /\ phase = "parse" /\ Record < End
    /\ HasHead(Record) /\ DataFits(Record)
    /\ doc' = Append(doc, ParsedNode(Record))
    /\ pos' = Data(Record) + ParsedNode(Record).decoded
    /\ live' = live + Blocks(Len(doc')) - Blocks(Len(doc))
    /\ UNCHANGED <<file, catalog, status, phase, at>>

\* The head at q goes as far as the key, and the key has been copied.
KeyRead(q) == q < Len(file) /\ file[q + 1] \in Heads \cup {LateHead}

\* Any error ends the program.  The key of the node that failed is in no
\* document yet, and parse_node does not free it.
ParseFails ==
    /\ phase = "parse" /\ Record < End
    /\ ~(HasHead(Record) /\ DataFits(Record))
    /\ live' = IF KeyRead(Record) THEN live + 1 ELSE live
    /\ phase' = "out"
    /\ UNCHANGED <<file, pos, doc, catalog, status, at>>

ParseDone ==
    /\ phase = "parse" /\ Record = End
    /\ pos' = End /\ phase' = "build"
    /\ UNCHANGED <<file, doc, catalog, live, status, at>>

-----------------------------------------------------------------------------
\* catalog_build_from_doc: a copy of every node, in order.
BuildCatalog ==
    /\ phase = "build"
    /\ catalog' = [i \in DOMAIN doc |-> [id |-> doc[i].id, parent |-> doc[i].parent]]
    /\ live' = live + Blocks(Len(doc))
    /\ phase' = "analyze"
    /\ UNCHANGED <<file, pos, doc, status, at>>

\* Seeded fault: a parent is only looked for among the nodes before.
InCatalog_Before(id) == \E i \in 1 .. at - 1 : catalog[i].id = id

\* catalog_find does not return NULL.
InCatalog(id) == \E i \in DOMAIN catalog : catalog[i].id = id

\* analyzer_run, node by node: a root needs no parent, any other is mixed
\* with what catalog_find returned.
EvaluateNode ==
    /\ phase = "analyze" /\ at <= Len(catalog)
    /\ catalog[at].parent = 0 \/ InCatalog(catalog[at].parent)
    /\ at' = at + 1
    /\ UNCHANGED <<file, pos, doc, catalog, live, status, phase>>

EvaluateFault ==
    /\ phase = "analyze" /\ at <= Len(catalog)
    /\ catalog[at].parent # 0 /\ ~InCatalog(catalog[at].parent)
    /\ phase' = "faulted"
    /\ UNCHANGED <<file, pos, doc, catalog, live, status, at>>

\* The result is printed.
Finish ==
    /\ phase = "analyze" /\ at > Len(catalog)
    /\ status' = 0 /\ phase' = "out"
    /\ UNCHANGED <<file, pos, doc, catalog, live, at>>

\* Seeded fault: only a program that did not fail frees its document.
Out_Succeeded ==
    /\ phase = "out"
    /\ live' = live - Blocks(Len(catalog))
                    - (IF status = 0 THEN Blocks(Len(doc)) ELSE 0) - 1
    /\ phase' = "ended"
    /\ UNCHANGED <<file, pos, doc, catalog, status, at>>

\* The label out of main: catalog_free, parser_free_doc, util_free_buffer.
Out ==
    /\ phase = "out"
    /\ live' = live - Blocks(Len(catalog)) - Blocks(Len(doc)) - 1
    /\ phase' = "ended"
    /\ UNCHANGED <<file, pos, doc, catalog, status, at>>

-----------------------------------------------------------------------------
Advance == \/ LoadFile \/ LoadFails \/ ConsumeHeader
           \/ ParseNode \/ ParseFails \/ ParseDone
           \/ BuildCatalog \/ EvaluateNode \/ EvaluateFault \/ Finish \/ Out

Ended == phase \in {"ended", "faulted"} /\ UNCHANGED vars

Next == Advance \/ Ended

\* The program runs alone and waits for nothing but its file.
Spec == Init /\ [][Next]_vars /\ WF_vars(Advance)

-----------------------------------------------------------------------------
TypeOK ==
    /\ file \in Seq(Cell)
    /\ pos \in 1 .. End
    /\ doc \in Seq([id : Nat, parent : Nat, start : Nat, declared : Nat, decoded : Nat])
    /\ catalog \in Seq([id : Nat, parent : Nat])
    /\ live \in Nat /\ status \in 0 .. 1
    /\ phase \in {"load", "header", "parse", "build", "analyze", "out", "ended", "faulted"}
    /\ at \in Nat

\* The records of the file when every payload is as long as its head says: up
\* to the end, or to the first that is malformed.
RecordStarts ==
    LET from[p \in 1 .. End] ==
            LET q == NextCell(Node, p)
            IN  IF q = End \/ ~HasHead(q) \/ ~DataFits(q) THEN <<>>
                ELSE <<q>> \o from[Data(q) + HeadOf(q).declared]
    IN  from[AfterHeader]

IsRecord(q) == \E i \in DOMAIN RecordStarts : RecordStarts[i] = q

\* The document is complete, or the parser has failed.
Parsed == phase \in {"build", "analyze", "out", "faulted"}

Failed == status = 1 /\ phase \in {"out", "ended"}

\* Where no payload holds an escape, decoded and declared lengths agree: the
\* document is the records of the file, in order, and the program fails
\* exactly where the file does.
PlainFileExact ==
    Parsed /\ (\A i \in DOMAIN doc : doc[i].decoded = doc[i].declared) =>
        [i \in DOMAIN doc |-> doc[i].start] = RecordStarts

Phantom(i) == ~IsRecord(doc[i].start)

\* With escapes, the first node that is no record of the file comes out of the
\* undecoded rest of the payload before it; and a record is missed only when the
\* payload of such a node has swallowed it.
RecordsAccounted ==
    /\ \A i \in DOMAIN doc :
           Phantom(i) /\ (\A j \in 1 .. i - 1 : ~Phantom(j)) =>
               /\ i > 1
               /\ Data(doc[i - 1].start) + doc[i - 1].decoded <= doc[i].start
               /\ doc[i].start < Data(doc[i - 1].start) + doc[i - 1].declared
    /\ Parsed /\ ~Failed =>
           \A k \in DOMAIN RecordStarts :
               \/ \E i \in DOMAIN doc : doc[i].start = RecordStarts[k]
               \/ \E i \in DOMAIN doc :
                      /\ Phantom(i)
                      /\ doc[i].start < RecordStarts[k]
                      /\ RecordStarts[k] < Data(doc[i].start) + doc[i].declared

\* The analysis ends well when every node it went through is a root or has its
\* parent somewhere in the file, before or behind it, and dies otherwise.
Orphan(i) == /\ doc[i].parent # 0
             /\ \A j \in DOMAIN doc : doc[j].id # doc[i].parent

AnalysisExact ==
    /\ status = 0 => \A i \in DOMAIN doc : ~Orphan(i)
    /\ phase = "faulted" => Orphan(at)

\* Whatever the file, the walk and the analysis come to their end, and a program
\* that exits has freed what it allocated, with one exception: the key of the
\* record at which it failed, when the head goes wrong behind it.
ExitsWithOnlyAKey ==
    <>(\/ phase = "faulted"
       \/ phase = "ended" /\ live = 0
       \/ phase = "ended" /\ live = 1 /\ Failed /\ KeyRead(Record))
=============================================================================
