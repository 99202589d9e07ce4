----------------------------- MODULE StackRoute -----------------------------
(***************************************************************************)
(* benchmark4, the program stackroute: parser.c reads a route file into a  *)
(* draft (route.c), the draft is sealed into a route, and planner.c        *)
(* computes a report on it.  The header is assembled in a stack frame      *)
(* whose label is followed by parent_index, declared_nodes and mode; the   *)
(* name is copied into the label with the length the file declares.        *)
(*                                                                         *)
(* Numbers are words of four bytes, little endian, a byte being one of     *)
(* Base values.  The weight of a node is a function of its id here.        *)
(***************************************************************************)
EXTENDS Integers, Sequences, FiniteSets

CONSTANTS
    Base,          \* values of a byte
    NameByte,      \* what the bytes of a name are
    Id,            \* node ids
    Weight,        \* weight and strlen(name) of each node, added up
    Cost,          \* costs of segments
    Headers,       \* headers of route files, as the file says
    InitialCap,    \* nodes the first allocation holds
    MaxLines,      \* bound: lines of the body
    None           \* NULL, and what is not there yet

\* What a byte counts for, by its place in a word, and what comes after the last.
Place == <<1, Base, Base * Base, Base * Base * Base, Base * Base * Base * Base>>

Word     == 0 .. Place[5] - 1
NoParent == Place[5] - 1

LabelSize == 32   \* ROUTE_NAME_MAX + 1
FrameSize == 56   \* sizeof(HeaderFrame)

ASSUME ByteAssumption == Base \in Nat /\ Base > 1 /\ NameByte \in 1 .. Base - 1
ASSUME InputAssumption == /\ Weight \in [Id -> Word] /\ Cost \subseteq Word
                          /\ InitialCap \in Nat \ {0}
\* A longer copy leaves the frame for the saved registers: not modelled.
ASSUME HeaderAssumption ==
    Headers \subseteq [nameLen : 0 .. FrameSize, said : 0 .. FrameSize,
                       parent : [numeric : BOOLEAN, value : Nat], declared : Word]

VARIABLES
    header, lines,           \* the file: its header, the lines of the body read
    parent, declared, mode,  \* HeaderFrame, then Route: the fields after the label
    nodes, cap, segments,    \* Route: ids of the nodes, node_cap, the segments
    draftArrays, routeArrays,\* which arrays the draft and the route point to
    heap,                    \* blocks allocated and not freed
    phase, at, total, detached, score   \* planner: where it is, the report

file   == <<header, lines>>
fields == <<parent, declared, mode>>
route  == <<nodes, cap, segments>>
memory == <<draftArrays, routeArrays, heap>>
report == <<at, total, detached, score>>
vars   == <<file, fields, route, memory, phase, report>>

Init == /\ header = None /\ lines = <<>>
        /\ parent = NoParent /\ declared = 0 /\ mode = "direct"
        /\ nodes = <<>> /\ cap = 0 /\ segments = <<>>
        /\ draftArrays = {} /\ routeArrays = {} /\ heap = {}
        /\ phase = "open"
        /\ at = 0 /\ total = 0 /\ detached = 0 /\ score = 0

-----------------------------------------------------------------------------
\* read_lines: the whole file goes into the line list.
ReadLines == /\ phase = "open"
             /\ heap' = heap \cup {"lines"} /\ phase' = "header"
             /\ UNCHANGED <<file, fields, route, draftArrays, routeArrays, report>>

ReadFails == /\ phase = "open" /\ phase' = "status 1"
             /\ UNCHANGED <<file, fields, route, memory, report>>

-----------------------------------------------------------------------------
\* The bytes of a word, and the words a set of choices of bytes stands for.
ByteOf(w, i) == (w \div Place[i + 1]) % Base
WordOf(b)    == b[0] + Place[2] * b[1] + Place[3] * b[2] + Place[4] * b[3]

\* Seeded fault: the copy ends one byte late.
CopiedByte_OneMore(h, offset, old) ==
    IF offset > h.said THEN {old}
    ELSE IF offset < h.nameLen THEN {NameByte}
    ELSE IF offset = h.nameLen THEN {0}
    ELSE 0 .. Base - 1

\* memcpy(frame.label, name_payload, name_len): what the byte at an offset of
\* the frame may be afterwards.  The payload is followed by its NUL, and that
\* by whatever the heap holds.
CopiedByte(h, offset, old) ==
    IF offset >= h.said THEN {old}
    ELSE IF offset < h.nameLen THEN {NameByte}
    ELSE IF offset = h.nameLen THEN {0}
    ELSE 0 .. Base - 1

\* The word whose first byte is at an offset of the frame.
CopiedWord(h, first, old) ==
    {WordOf(b) : b \in {b \in [0 .. 3 -> 0 .. Base - 1] :
        \A i \in 0 .. 3 : b[i] \in CopiedByte(h, first + i, ByteOf(old, i))}}

\* parse_parent_token: a parent that is absent, "none", no number, or none that
\* fits a word, is NO_PARENT.
ParentToken(h) ==
    IF h.parent.numeric /\ h.parent.value \in Word THEN h.parent.value ELSE NoParent

\* parse_header
ParseHeader(h) ==
    /\ phase = "header"
    /\ header' = h
    /\ parent' \in CopiedWord(h, LabelSize, ParentToken(h))
    /\ declared' \in CopiedWord(h, LabelSize + 4, h.declared)
    /\ mode' = IF h.said <= LabelSize + 8 THEN "file" ELSE "overwritten"
    /\ phase' = "body"
    /\ UNCHANGED <<lines, route, memory, report>>

-----------------------------------------------------------------------------
\* parse_body, line by line.
NodeLine(id)   == [kind |-> "node", id |-> id]
SegLine(to, c) == [kind |-> "seg", to |-> to, cost |-> c]

BodyLine(line) == /\ phase = "body" /\ Len(lines) < MaxLines
                  /\ lines' = Append(lines, line)

IdExists(id) == \E i \in DOMAIN nodes : nodes[i] = id

\* Seeded fault: the array is full and grows, the node is forgotten.
AddNode_Lost(id) ==
    /\ BodyLine(NodeLine(id)) /\ ~IdExists(id)
    /\ IF Len(nodes) = cap
       THEN cap' = (IF cap = 0 THEN InitialCap ELSE 2 * cap) /\ UNCHANGED nodes
       ELSE nodes' = Append(nodes, id) /\ UNCHANGED cap
    /\ draftArrays' = draftArrays \cup {"nodes"} /\ heap' = heap \cup {"nodes"}
    /\ UNCHANGED <<header, fields, segments, routeArrays, phase, report>>

\* route_add_node, ensure_node_cap.
AddNode(id) ==
    /\ BodyLine(NodeLine(id)) /\ ~IdExists(id)
    /\ nodes' = Append(nodes, id)
    /\ cap' = IF Len(nodes) < cap THEN cap ELSE IF cap = 0 THEN InitialCap ELSE 2 * cap
    /\ draftArrays' = draftArrays \cup {"nodes"} /\ heap' = heap \cup {"nodes"}
    /\ UNCHANGED <<header, fields, segments, routeArrays, phase, report>>

\* route_add_segment.  Where it comes from and its label are only printed.
AddSegment(to, c) ==
    /\ BodyLine(SegLine(to, c))
    /\ segments' = Append(segments, [to |-> to, cost |-> c])
    /\ draftArrays' = draftArrays \cup {"segments"} /\ heap' = heap \cup {"segments"}
    /\ UNCHANGED <<header, fields, nodes, cap, routeArrays, phase, report>>

BodyEnd == /\ phase = "body" /\ phase' = "seal"
           /\ UNCHANGED <<file, fields, route, memory, report>>

\* Freeing a block that is not allocated aborts the process.
Free(blocks, next) ==
    IF blocks \subseteq heap
    THEN heap' = heap \ blocks /\ phase' = next
    ELSE phase' = "aborted" /\ UNCHANGED heap

\* parse_header or parse_body gave STATUS_ERR: a bad field, a line that is
\* neither NODE, SEG nor END, a second node of the same id, no END.
ParseFails ==
    /\ phase \in {"header", "body"}
    /\ Free(draftArrays \cup {"lines"}, "status 1")
    /\ draftArrays' = {}
    /\ UNCHANGED <<file, fields, route, routeArrays, report>>

-----------------------------------------------------------------------------
\* Seeded fault: the draft still points to the arrays.
Seal_Shared ==
    /\ phase = "seal"
    /\ routeArrays' = draftArrays
    /\ heap' = heap \cup {"route"}
    /\ phase' = "release"
    /\ UNCHANGED <<file, fields, route, draftArrays, report>>

\* route_draft_seal: the arrays change hands.
Seal ==
    /\ phase = "seal"
    /\ routeArrays' = draftArrays /\ draftArrays' = {}
    /\ heap' = heap \cup {"route"}
    /\ phase' = "release"
    /\ UNCHANGED <<file, fields, route, report>>

\* route_draft_free and line_list_free; main has its route.
Release ==
    /\ phase = "release"
    /\ Free(draftArrays \cup {"lines"}, "cost")
    /\ draftArrays' = {} /\ at' = 1
    /\ UNCHANGED <<file, fields, route, routeArrays, total, detached, score>>

-----------------------------------------------------------------------------
\* Seeded fault: the sum is wider than a word.
AddCost_Wide ==
    /\ phase = "cost" /\ at <= Len(segments)
    /\ total' = total + segments[at].cost
    /\ at' = at + 1
    /\ UNCHANGED <<file, fields, route, memory, phase, detached, score>>

\* planner_analyze: compute_total_cost, one segment after the other ...
AddCost ==
    /\ phase = "cost" /\ at <= Len(segments)
    /\ total' = (total + segments[at].cost) % (NoParent + 1)
    /\ at' = at + 1
    /\ UNCHANGED <<file, fields, route, memory, phase, detached, score>>

CostDone ==
    /\ phase = "cost" /\ at > Len(segments)
    /\ phase' = "detached" /\ at' = 1
    /\ UNCHANGED <<file, fields, route, memory, total, detached, score>>

Inbound(id) == \E j \in DOMAIN segments : segments[j].to = id

\* Seeded fault: the first node is not exempt.
CountDetached_First ==
    /\ phase = "detached" /\ at <= Len(nodes)
    /\ detached' = IF ~Inbound(nodes[at]) THEN detached + 1 ELSE detached
    /\ at' = at + 1
    /\ UNCHANGED <<file, fields, route, memory, phase, total, score>>

\* ... count_detached_nodes, which exempts the first node ...
CountDetached ==
    /\ phase = "detached" /\ at <= Len(nodes)
    /\ detached' = IF ~Inbound(nodes[at]) /\ at # 1 THEN detached + 1 ELSE detached
    /\ at' = at + 1
    /\ UNCHANGED <<file, fields, route, memory, phase, total, score>>

DetachedDone ==
    /\ phase = "detached" /\ at > Len(nodes)
    /\ phase' = "parent"
    /\ UNCHANGED <<file, fields, route, memory, report>>

\* ... and parent_score, with an index nobody has checked.
NoParentScore ==
    /\ phase = "parent" /\ parent = NoParent
    /\ score' = 0 /\ phase' = "done"
    /\ UNCHANGED <<file, fields, route, memory, at, total, detached>>

ParentScore ==
    /\ phase = "parent" /\ parent # NoParent /\ parent < Len(nodes)
    /\ score' = Weight[nodes[parent + 1]]
    /\ phase' = "done"
    /\ UNCHANGED <<file, fields, route, memory, at, total, detached>>

\* Past the nodes the array is uninitialised, past the array there is other
\* memory or none; without nodes the array is NULL.
ParentStray ==
    /\ phase = "parent" /\ parent # NoParent /\ parent >= Len(nodes)
    /\ phase' \in (IF cap = 0 THEN {"faulted"}
                   ELSE IF parent < cap THEN {"undefined"}
                   ELSE {"faulted", "undefined"})
    /\ UNCHANGED <<file, fields, route, memory, report>>

\* main prints the report; route_free.
Exit ==
    /\ phase = "done"
    /\ Free(routeArrays \cup {"route"}, "status 0")
    /\ routeArrays' = {}
    /\ UNCHANGED <<file, fields, route, draftArrays, report>>

-----------------------------------------------------------------------------
Advance ==
    \/ ReadLines \/ ReadFails
    \/ \E h \in Headers : ParseHeader(h)
    \/ \E id \in Id : AddNode(id) \/ \E c \in Cost : AddSegment(id, c)
    \/ BodyEnd \/ ParseFails \/ Seal \/ Release
    \/ AddCost \/ CostDone \/ CountDetached \/ DetachedDone
    \/ NoParentScore \/ ParentScore \/ ParentStray \/ Exit

Over == {"status 0", "status 1", "faulted", "undefined", "aborted"}

Ended == phase \in Over /\ UNCHANGED vars

Next == Advance \/ Ended

Spec == Init /\ [][Next]_vars

-----------------------------------------------------------------------------
Array == {"nodes", "segments"}
Line  == [kind : {"node"}, id : Id] \cup [kind : {"seg"}, to : Id, cost : Cost]

TypeOK ==
    /\ header \in Headers \cup {None} /\ lines \in Seq(Line)
    /\ parent \in Word /\ declared \in Word
    /\ mode \in {"direct", "file", "overwritten"}
    /\ nodes \in Seq(Id) /\ cap \in Nat
    /\ segments \in Seq([to : Id, cost : Cost])
    /\ draftArrays \subseteq Array /\ routeArrays \subseteq Array
    /\ heap \subseteq Array \cup {"lines", "route"}
    /\ phase \in {"open", "header", "body", "seal", "release", "cost", "detached",
                  "parent", "done"} \cup Over
    /\ at \in Nat /\ total \in Word /\ detached \in Nat /\ score \in Word

\* The k-th line of a kind is the k-th of the items, and there are no others.
UpTo(ls, kind, n) == {j \in 1 .. n : ls[j].kind = kind}
ItemOf(line) == IF line.kind = "node" THEN line.id
                ELSE [to |-> line.to, cost |-> line.cost]

Told(ls, kind, items) ==
    /\ Len(items) = Cardinality(UpTo(ls, kind, Len(ls)))
    /\ \A l \in 1 .. Len(ls) :
          ls[l].kind = kind => /\ Cardinality(UpTo(ls, kind, l)) \in 1 .. Len(items)
                               /\ items[Cardinality(UpTo(ls, kind, l))] = ItemOf(ls[l])

\* The route is the file, line by line and in order: a node for each NODE
\* line, no two of one id, a segment for each SEG line, and room for all.
ParsedExactly ==
    /\ Told(lines, "node", nodes)
    /\ Told(lines, "seg", segments)
    /\ \A i, j \in DOMAIN nodes : nodes[i] = nodes[j] => i = j
    /\ Len(nodes) <= cap

\* Every block has one owner that frees it once, on every path: the draft and
\* the route never share an array, the planner never reads a freed one, and a
\* process that returns from main has freed everything.
HeapSound ==
    /\ draftArrays \cup routeArrays \subseteq heap
    /\ draftArrays \cap routeArrays = {}
    /\ phase # "aborted"
    /\ phase \in {"status 0", "status 1"} => heap = {}

\* What the planner is given is what the file says, as long as the declared
\* length stays inside the label, even past the end of the name; and a longer
\* one spares the fields that begin behind its last byte.  A number too large
\* for an index is no other index.
Said == header.parent.value

HeaderKept ==
    header # None =>
        /\ header.said <= LabelSize =>
               IF header.parent.numeric /\ Said < NoParent
               THEN parent = Said ELSE parent = NoParent
        /\ header.said <= LabelSize + 4 => declared = header.declared
        /\ header.said <= LabelSize + 8 => mode = "file"

\* The report, when main prints it: costs add up modulo the width of a word,
\* detached nodes are those no segment leads to, but for the first, and the
\* parent that is scored is a node of the route.
CostUpTo[i \in Nat] == IF i = 0 THEN 0 ELSE CostUpTo[i - 1] + segments[i].cost

ReportExact ==
    phase \in {"done", "status 0"} =>
        /\ total = CostUpTo[Len(segments)] % Place[5]
        /\ detached = Cardinality({i \in 2 .. Len(nodes) : ~Inbound(nodes[i])})
        /\ IF parent = NoParent THEN score = 0
           ELSE parent < Len(nodes) /\ score = Weight[nodes[parent + 1]]

\* planner.c: "planner assumes the parser already validated parent_index".
ParentValidated ==
    phase = "parent" => parent = NoParent \/ parent < Len(nodes)
=============================================================================
