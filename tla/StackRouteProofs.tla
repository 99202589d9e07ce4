-------------------------- MODULE StackRouteProofs --------------------------
(***************************************************************************)
(* For every file, header and bound: each block StackRoute allocates is    *)
(* freed once, and nothing is left when main returns; the route is the     *)
(* file, line by line; a name that fits keeps the fields behind it; and    *)
(* what the report adds up is what the route holds.                        *)
(***************************************************************************)
EXTENDS StackRoute, TLAPS, FiniteSetTheorems, WellFoundedInduction

\* What is allocated at each place of the program, and who points to it.
Allocated ==
    /\ draftArrays \subseteq Array /\ routeArrays \subseteq Array
    /\ phase \in {"open", "status 0", "status 1"} =>
           heap = {} /\ draftArrays = {} /\ routeArrays = {}
    /\ phase \in {"header", "body", "seal"} =>
           heap = draftArrays \cup {"lines"} /\ routeArrays = {}
    /\ phase = "release" =>
           heap = routeArrays \cup {"lines", "route"} /\ draftArrays = {}
    /\ phase \in {"cost", "detached", "parent", "done", "faulted", "undefined"} =>
           heap = routeArrays \cup {"route"} /\ draftArrays = {}
    /\ phase \in {"open", "header", "body", "seal", "release", "cost", "detached",
                  "parent", "done"} \cup (Over \ {"aborted"})

-----------------------------------------------------------------------------
LEMMA InitAllocated == Init => Allocated
BY DEF Init, Allocated, Over

\* The array an added node or segment is in belongs to the draft.
LEMMA AddKeepsAllocated ==
    ASSUME Allocated, NEW id \in Id, AddNode(id) \/ \E c \in Cost : AddSegment(id, c)
    PROVE  Allocated'
<1>1. CASE AddNode(id)
  BY <1>1 DEF AddNode, BodyLine, Allocated, Array, Over
<1>2. ASSUME NEW c \in Cost, AddSegment(id, c) PROVE Allocated'
  BY <1>2 DEF AddSegment, BodyLine, Allocated, Array, Over
<1> QED
  BY <1>1, <1>2

\* The three places that free: the failed parse, the end of the parse, main.
LEMMA FreeKeepsAllocated == Allocated /\ (ParseFails \/ Release \/ Exit) => Allocated'
<1> SUFFICES ASSUME Allocated, ParseFails \/ Release \/ Exit PROVE Allocated'
  OBVIOUS
<1>1. CASE ParseFails
  BY <1>1 DEF ParseFails, Free, Allocated, Array, Over, file, fields, route, report
<1>2. CASE Release
  BY <1>2 DEF Release, Free, Allocated, Array, Over, file, fields, route
<1>3. CASE Exit
  BY <1>3 DEF Exit, Free, Allocated, Array, Over, file, fields, route, report
<1> QED
  BY <1>1, <1>2, <1>3

LEMMA NextAllocated == Allocated /\ [Next]_vars => Allocated'
<1> SUFFICES ASSUME Allocated, [Next]_vars PROVE Allocated'
  OBVIOUS
<1>1. CASE ReadLines \/ ReadFails
  BY <1>1 DEF ReadLines, ReadFails, Allocated, Array, Over, memory
<1>2. ASSUME NEW h \in Headers, ParseHeader(h) PROVE Allocated'
  BY <1>2 DEF ParseHeader, Allocated, Over, memory
<1>3. ASSUME NEW id \in Id, AddNode(id) \/ \E c \in Cost : AddSegment(id, c) PROVE Allocated'
  BY <1>3, AddKeepsAllocated
<1>4. CASE BodyEnd
  BY <1>4 DEF BodyEnd, Allocated, Over, memory
<1>5. CASE ParseFails \/ Release \/ Exit
  BY <1>5, FreeKeepsAllocated
<1>6. CASE Seal
  BY <1>6 DEF Seal, Allocated, Array, Over
<1>7. CASE AddCost \/ CostDone \/ CountDetached \/ DetachedDone
  BY <1>7 DEF AddCost, CostDone, CountDetached, DetachedDone, Allocated, Over, memory
<1>8. CASE NoParentScore \/ ParentScore \/ ParentStray
  BY <1>8 DEF NoParentScore, ParentScore, ParentStray, Allocated, Over, memory
<1>9. CASE UNCHANGED vars
  BY <1>9 DEF vars, memory, Allocated
<1> QED
  BY <1>1, <1>2, <1>3, <1>4, <1>5, <1>6, <1>7, <1>8, <1>9 DEF Next, Advance, Ended

\* route.c, parser.c and main.c: no path leaks a block, frees one twice or
\* leaves the planner with an array the draft has freed.
THEOREM BlocksFreedOnce == Spec => []HeapSound
<1>1. Allocated => HeapSound
  BY DEF Allocated, HeapSound, Array, Over
<1>2. Spec => []Allocated
  BY InitAllocated, NextAllocated, PTL DEF Spec
<1> QED
  BY <1>1, <1>2, PTL

-----------------------------------------------------------------------------
\* What has been parsed, with the types of the sequences it is told in.
Parsed ==
    /\ lines \in Seq(Line) /\ nodes \in Seq(Id) /\ cap \in Nat
    /\ segments \in Seq([to : Id, cost : Cost])
    /\ ParsedExactly

\* The lines of a kind among the first n are finitely many.
LEMMA UpToFinite ==
    ASSUME NEW ls, NEW kind, NEW n \in Nat
    PROVE  IsFiniteSet(UpTo(ls, kind, n)) /\ Cardinality(UpTo(ls, kind, n)) \in Nat
<1>1. IsFiniteSet(1 .. n)
  BY FS_Interval
<1>2. UpTo(ls, kind, n) \subseteq 1 .. n
  BY DEF UpTo
<1> QED
  BY <1>1, <1>2, FS_Subset, FS_CardinalityType

\* A line more is counted among its kind, behind all others, and among no other.
Extended(new, ls, e, kind, m) ==
    /\ m \in Nat /\ Len(new) = m + 1 /\ new \in Seq(Line)
    /\ new[m + 1] = e
    /\ \A l \in 1 .. m : new[l] = ls[l]
    /\ \A n \in 1 .. m : UpTo(new, kind, n) = UpTo(ls, kind, n)
    /\ IF e.kind = kind
       THEN Cardinality(UpTo(new, kind, m + 1)) = Cardinality(UpTo(ls, kind, m)) + 1
       ELSE UpTo(new, kind, m + 1) = UpTo(ls, kind, m)

LEMMA LineAppended ==
    ASSUME NEW ls \in Seq(Line), NEW e \in Line, NEW kind
    PROVE  Extended(Append(ls, e), ls, e, kind, Len(ls))
<1>0. PICK new, m : new = Append(ls, e) /\ m = Len(ls)
  OBVIOUS
<1>1. /\ m \in Nat /\ Len(new) = m + 1 /\ new \in Seq(Line)
      /\ new[m + 1] = e /\ \A l \in 1 .. m : new[l] = ls[l]
  BY <1>0
<1>2. ASSUME NEW n \in 1 .. m PROVE UpTo(new, kind, n) = UpTo(ls, kind, n)
  BY <1>1 DEF UpTo
<1>3. CASE e.kind = kind
  <2>1. UpTo(new, kind, m + 1) = UpTo(ls, kind, m) \cup {m + 1}
    BY <1>1, <1>3 DEF UpTo
  <2>2. m + 1 \notin UpTo(ls, kind, m)
    BY <1>1 DEF UpTo
  <2>3. Cardinality(UpTo(new, kind, m + 1)) = Cardinality(UpTo(ls, kind, m)) + 1
    BY <1>1, <2>1, <2>2, UpToFinite, FS_AddElement
  <2> QED
    BY <1>0, <1>1, <1>2, <1>3, <2>3 DEF Extended
<1>4. CASE e.kind # kind
  <2>1. UpTo(new, kind, m + 1) = UpTo(ls, kind, m)
    BY <1>1, <1>4 DEF UpTo
  <2> QED
    BY <1>0, <1>1, <1>2, <1>4, <2>1 DEF Extended
<1> QED
  BY <1>3, <1>4

\* The items of a kind are those of the lines before the new one, and its own
\* if it is of that kind.
LEMMA ToldOthers ==
    ASSUME NEW ls \in Seq(Line), NEW e \in Line, NEW kind, NEW items,
           Told(ls, kind, items), kind # e.kind
    PROVE  Told(Append(ls, e), kind, items)
<1>0. PICK new, m : new = Append(ls, e) /\ m = Len(ls)
  OBVIOUS
<1>1. /\ m \in Nat /\ Len(new) = m + 1 /\ new[m + 1] = e
      /\ \A l \in 1 .. m : new[l] = ls[l] /\ UpTo(new, kind, l) = UpTo(ls, kind, l)
      /\ UpTo(new, kind, m + 1) = UpTo(ls, kind, m)
  <2>1. Extended(new, ls, e, kind, m)
    BY <1>0, LineAppended
  <2> QED
    BY <2>1 DEF Extended
<1>2. ASSUME NEW l \in 1 .. m + 1, new[l].kind = kind PROVE l \in 1 .. m
  BY <1>1, <1>2
<1> QED
  BY <1>0, <1>1, <1>2 DEF Told

LEMMA ToldMore ==
    ASSUME NEW ls \in Seq(Line), NEW e \in Line, NEW S, NEW items \in Seq(S),
           Told(ls, e.kind, items), ItemOf(e) \in S
    PROVE  Told(Append(ls, e), e.kind, Append(items, ItemOf(e)))
<1>0. PICK new, longer, m, p : /\ new = Append(ls, e) /\ m = Len(ls)
                              /\ longer = Append(items, ItemOf(e)) /\ p = Len(items)
  OBVIOUS
<1> DEFINE count(l) == Cardinality(UpTo(ls, e.kind, l))
           countL(l) == Cardinality(UpTo(new, e.kind, l))
<1>1. /\ m \in Nat /\ Len(new) = m + 1 /\ new[m + 1] = e
      /\ \A l \in 1 .. m : new[l] = ls[l] /\ countL(l) = count(l)
      /\ countL(m + 1) = count(m) + 1
  <2>1. Extended(new, ls, e, e.kind, m)
    BY <1>0, LineAppended
  <2> QED
    BY <2>1 DEF Extended
<1>2. /\ p \in Nat /\ Len(longer) = p + 1 /\ longer[p + 1] = ItemOf(e)
      /\ \A k \in 1 .. p : longer[k] = items[k]
  BY <1>0
<1>3. /\ p = count(m)
      /\ \A l \in 1 .. m : ls[l].kind = e.kind =>
            count(l) \in 1 .. p /\ items[count(l)] = ItemOf(ls[l])
  BY <1>0 DEF Told
<1>4. ASSUME NEW l \in 1 .. m + 1, new[l].kind = e.kind
      PROVE  countL(l) \in 1 .. p + 1 /\ longer[countL(l)] = ItemOf(new[l])
  <2> HIDE DEF count, countL
  <2>1. CASE l = m + 1
    BY <1>1, <1>2, <1>3, <2>1
  <2>2. CASE l \in 1 .. m
    <3>1. count(l) \in 1 .. p /\ items[count(l)] = ItemOf(ls[l])
      BY <1>1, <1>3, <1>4, <2>2
    <3>2. countL(l) = count(l) /\ new[l] = ls[l] /\ longer[count(l)] = items[count(l)]
      BY <1>1, <1>2, <2>2, <3>1
    <3>3. countL(l) \in 1 .. p + 1
      BY <1>2, <3>1, <3>2
    <3> QED
      BY <3>1, <3>2, <3>3
  <2> QED
    BY <1>1, <2>1, <2>2
<1>5. Len(longer) = Cardinality(UpTo(new, e.kind, Len(new)))
  BY <1>1, <1>2, <1>3
<1> QED
  BY <1>0, <1>1, <1>2, <1>4, <1>5 DEF Told

LEMMA ParsedInit == Init => Parsed
<1> SUFFICES ASSUME Init PROVE Parsed
  OBVIOUS
<1>1. lines = <<>> /\ nodes = <<>> /\ segments = <<>> /\ cap = 0
  BY DEF Init
<1>2. UpTo(<<>>, "node", 0) = {} /\ UpTo(<<>>, "seg", 0) = {}
  BY DEF UpTo
<1>3. Cardinality({}) = 0
  BY FS_EmptySet
<1>4. Told(<<>>, "node", <<>>) /\ Told(<<>>, "seg", <<>>)
  BY <1>2, <1>3 DEF Told
<1>5. DOMAIN nodes = {}
  BY <1>1
<1> QED
  BY <1>1, <1>4, <1>5 DEF Parsed, ParsedExactly

\* A NODE line whose id is new is the next node.
LEMMA AddNodeParses == ASSUME Parsed, NEW id \in Id, AddNode(id) PROVE Parsed'
<1> DEFINE e == NodeLine(id)
<1>1. /\ lines' = Append(lines, e) /\ nodes' = Append(nodes, id)
      /\ segments' = segments /\ \A i \in DOMAIN nodes : nodes[i] # id
      /\ cap' = IF Len(nodes) < cap THEN cap ELSE IF cap = 0 THEN InitialCap ELSE 2 * cap
  BY DEF AddNode, BodyLine, IdExists
<1>2. e \in Line /\ e.kind = "node" /\ ItemOf(e) = id
  BY DEF NodeLine, Line, ItemOf
<1>3. /\ lines \in Seq(Line) /\ nodes \in Seq(Id) /\ cap \in Nat
      /\ segments \in Seq([to : Id, cost : Cost])
      /\ Told(lines, "node", nodes) /\ Told(lines, "seg", segments)
      /\ \A i, j \in DOMAIN nodes : nodes[i] = nodes[j] => i = j
      /\ Len(nodes) <= cap
  BY DEF Parsed, ParsedExactly
<1>4. /\ Len(nodes) \in Nat /\ Len(nodes') = Len(nodes) + 1 /\ nodes' \in Seq(Id)
      /\ DOMAIN nodes' = 1 .. Len(nodes) + 1 /\ nodes'[Len(nodes) + 1] = id
      /\ \A i \in 1 .. Len(nodes) : nodes'[i] = nodes[i] /\ i \in DOMAIN nodes
  BY <1>1, <1>3
<1>5. cap' \in Nat /\ Len(nodes) + 1 <= cap'
  BY <1>1, <1>3, <1>4, InputAssumption
<1>6. ASSUME NEW i \in DOMAIN nodes', NEW j \in DOMAIN nodes', nodes'[i] = nodes'[j] PROVE i = j
  BY <1>1, <1>3, <1>4, <1>6
<1>7. Told(lines', "node", nodes')
  <2> HIDE DEF e
  <2> QED
    BY <1>1, <1>2, <1>3, ToldMore
<1>8. Told(lines', "seg", segments')
  <2> HIDE DEF e
  <2> QED
    BY <1>1, <1>2, <1>3, ToldOthers
<1>9. lines' \in Seq(Line)
  BY <1>1, <1>2, <1>3
<1> QED
  BY <1>1, <1>3, <1>4, <1>5, <1>6, <1>7, <1>8, <1>9 DEF Parsed, ParsedExactly

\* A SEG line is the next segment.
LEMMA AddSegmentParses ==
    ASSUME Parsed, NEW to \in Id, NEW c \in Cost, AddSegment(to, c) PROVE Parsed'
<1> DEFINE e == SegLine(to, c)
           s == [to |-> to, cost |-> c]
<1>1. /\ lines' = Append(lines, e) /\ segments' = Append(segments, s)
      /\ UNCHANGED <<nodes, cap>>
  BY DEF AddSegment, BodyLine
<1>2. e \in Line /\ e.kind = "seg" /\ ItemOf(e) = s /\ s \in [to : Id, cost : Cost]
  BY DEF SegLine, Line, ItemOf
<1>3. /\ lines \in Seq(Line) /\ segments \in Seq([to : Id, cost : Cost])
      /\ Told(lines, "node", nodes) /\ Told(lines, "seg", segments)
  BY DEF Parsed, ParsedExactly
<1> HIDE DEF e, s
<1>4. lines' \in Seq(Line) /\ segments' \in Seq([to : Id, cost : Cost])
  BY <1>1, <1>2, <1>3
<1>5. Told(lines', "seg", segments')
  BY <1>1, <1>2, <1>3, ToldMore
<1>6. Told(lines', "node", nodes')
  BY <1>1, <1>2, <1>3, ToldOthers
<1> QED
  BY <1>1, <1>4, <1>5, <1>6 DEF Parsed, ParsedExactly

LEMMA ParsedNext == Parsed /\ [Next]_vars => Parsed'
<1> SUFFICES ASSUME Parsed, [Next]_vars PROVE Parsed'
  OBVIOUS
<1>1. ASSUME NEW id \in Id, AddNode(id) PROVE Parsed'
  BY <1>1, AddNodeParses
<1>2. ASSUME NEW id \in Id, NEW c \in Cost, AddSegment(id, c) PROVE Parsed'
  BY <1>2, AddSegmentParses
<1>3. ASSUME UNCHANGED <<lines, nodes, cap, segments>> PROVE Parsed'
  BY <1>3 DEF Parsed, ParsedExactly
<1>4. ASSUME NEW h \in Headers, ParseHeader(h) PROVE Parsed'
  BY <1>3, <1>4 DEF ParseHeader, route
<1>5. CASE \/ ReadLines \/ ReadFails \/ BodyEnd \/ ParseFails \/ Seal \/ Release
           \/ AddCost \/ CostDone \/ CountDetached \/ DetachedDone
           \/ NoParentScore \/ ParentScore \/ ParentStray \/ Exit \/ UNCHANGED vars
  BY <1>3, <1>5 DEF ReadLines, ReadFails, BodyEnd, ParseFails, Seal, Release, AddCost, CostDone,
         CountDetached, DetachedDone, NoParentScore, ParentScore, ParentStray, Exit,
         vars, file, route
<1> QED
  BY <1>1, <1>2, <1>4, <1>5 DEF Next, Advance, Ended

\* Whatever the lines and however often the array grows, the route has a node
\* for each NODE line and a segment for each SEG line, in their order, no two nodes
\* of one id, and room for all (parse_body, route_add_node, ensure_node_cap).
THEOREM RouteIsTheFile == Spec => []ParsedExactly
<1>1. Parsed => ParsedExactly
  BY DEF Parsed
<1> QED
  BY <1>1, ParsedInit, ParsedNext, PTL DEF Spec

-----------------------------------------------------------------------------
\* Division by the value of a place, where the prover needs help.
LEMMA DivideTwice ==
    ASSUME NEW w \in Nat, NEW b \in Nat \ {0}, NEW c \in Nat \ {0}
    PROVE  w \div (b * c) = (w \div b) \div c
OBVIOUS

LEMMA QuotientAndRest ==
    ASSUME NEW w \in Nat, NEW b \in Nat \ {0}
    PROVE  \E q \in Nat : \E r \in 0 .. b - 1 : q = w \div b /\ r = w % b /\ w = b * q + r
<1>1. PICK q, r : q = w \div b /\ r = w % b
  OBVIOUS
<1>2. w = b * q + r /\ q \in Nat /\ r \in 0 .. b - 1
  BY <1>1
<1> QED
  BY <1>1, <1>2

LEMMA PlaceValues ==
    /\ Place[1] = 1 /\ Place[2] = Base /\ Place[3] = Base * Base
    /\ Place[4] = Base * Base * Base /\ Place[5] = Base * Base * Base * Base
BY DEF Place

LEMMA RestIsUnique ==
    ASSUME NEW w \in Nat, NEW b \in Nat \ {0}, NEW q \in Nat, NEW r \in 0 .. b - 1,
           w = b * q + r
    PROVE  w % b = r
OBVIOUS

LEMMA WordLimit == Place[5] \in Nat \ {0} /\ NoParent \in Nat /\ Word = 0 .. NoParent
<1>1. Base \in Nat /\ Base >= 1
  BY ByteAssumption
<1>2. Base * Base \in Nat /\ Base * Base >= 1
  BY <1>1
<1>3. Base * Base * Base \in Nat /\ Base * Base * Base >= 1
  BY <1>1, <1>2
<1>4. Base * Base * Base * Base \in Nat /\ Base * Base * Base * Base >= 1
  BY <1>1, <1>3
<1>5. Place[5] \in Nat /\ Place[5] >= 1
  BY <1>4, PlaceValues
<1> QED
  BY <1>5 DEF Word, NoParent

\* A word is made of its bytes.
LEMMA BytesMakeWord ==
    ASSUME NEW w \in Word, NEW b, b[0] = ByteOf(w, 0), b[1] = ByteOf(w, 1),
           b[2] = ByteOf(w, 2), b[3] = ByteOf(w, 3)
    PROVE  WordOf(b) = w
<1>1. /\ Base \in Nat \ {0} /\ w \in Nat
      /\ Base * Base \in Nat \ {0} /\ Base * Base * Base \in Nat \ {0}
      /\ w < Base * Base * Base * Base
  BY ByteAssumption DEF Word, Place
<1>2. PICK q1 \in Nat : \E r0 \in 0 .. Base - 1 :
         q1 = w \div Base /\ r0 = w % Base /\ w = Base * q1 + r0
  BY <1>1, QuotientAndRest
<1>3. PICK r0 \in 0 .. Base - 1 :
         q1 = w \div Base /\ r0 = w % Base /\ w = Base * q1 + r0
  BY <1>2
<1>4. PICK q2 \in Nat : \E r1 \in 0 .. Base - 1 :
         q2 = q1 \div Base /\ r1 = q1 % Base /\ q1 = Base * q2 + r1
  BY <1>1, <1>2, QuotientAndRest
<1>5. PICK r1 \in 0 .. Base - 1 :
         q2 = q1 \div Base /\ r1 = q1 % Base /\ q1 = Base * q2 + r1
  BY <1>4
<1>6. PICK q3 \in Nat : \E r2 \in 0 .. Base - 1 :
         q3 = q2 \div Base /\ r2 = q2 % Base /\ q2 = Base * q3 + r2
  BY <1>1, <1>4, QuotientAndRest
<1>7. PICK r2 \in 0 .. Base - 1 :
         q3 = q2 \div Base /\ r2 = q2 % Base /\ q2 = Base * q3 + r2
  BY <1>6
<1>8. w = r0 + Base * r1 + Base * Base * r2 + Base * Base * Base * q3
  <2>1. /\ Base \in Nat /\ q1 \in Nat /\ q2 \in Nat /\ q3 \in Nat
        /\ r0 \in Nat /\ r1 \in Nat /\ r2 \in Nat
        /\ w = Base * q1 + r0 /\ q1 = Base * q2 + r1 /\ q2 = Base * q3 + r2
    BY <1>1, <1>3, <1>5, <1>7
  <2> QED
    BY <2>1
<1>9. w \div (Base * Base) = q2 /\ w \div (Base * Base * Base) = q3
  <2>1. w \div (Base * Base) = q2
    BY <1>1, <1>3, <1>5, DivideTwice
  <2>2. w \div (Base * Base * Base) = q3
    BY <1>1, <1>7, <2>1, DivideTwice
  <2> QED
    BY <2>1, <2>2
<1>10. q3 < Base
  <2>1. Base * Base * Base * q3 <= w
    <3>1. r0 \in Nat /\ Base * r1 \in Nat /\ Base * Base * r2 \in Nat
      BY <1>1
    <3>2. Base * Base * Base * q3 \in Nat
      BY <1>1
    <3> HIDE <1>1
    <3> QED
      BY <1>8, <3>1, <3>2
  <2>2. ASSUME q3 >= Base PROVE FALSE
    <3>1. Base * Base * Base * Base <= Base * Base * Base * q3
      BY <1>1, <2>2
    <3> QED
      BY <1>1, <2>1, <3>1
  <2> QED
    BY <1>1, <2>2
<1>11. b[0] = r0 /\ b[1] = r1 /\ b[2] = r2 /\ b[3] = q3
  <2>1. w \div 1 = w
    BY <1>1
  <2>2. q3 % Base = q3
    BY <1>1, <1>10
  <2>3. /\ b[0] = (w \div 1) % Base /\ b[1] = (w \div Base) % Base
        /\ b[2] = (w \div (Base * Base)) % Base
        /\ b[3] = (w \div (Base * Base * Base)) % Base
    BY PlaceValues DEF ByteOf
  <2> QED
    BY <1>3, <1>5, <1>7, <1>9, <2>1, <2>2, <2>3
<1> QED
  BY <1>8, <1>11, PlaceValues DEF WordOf

\* A word that begins behind the last byte copied keeps its value.
LEMMA BehindTheCopy ==
    ASSUME NEW h \in Headers, NEW first \in Nat, h.said <= first, NEW w \in Word,
           NEW v \in CopiedWord(h, first, w)
    PROVE  v = w
<1>1. PICK b \in [0 .. 3 -> 0 .. Base - 1] :
         v = WordOf(b) /\ \A i \in 0 .. 3 : b[i] \in CopiedByte(h, first + i, ByteOf(w, i))
  BY DEF CopiedWord
<1>2. h.said \in Nat
  BY HeaderAssumption DEF FrameSize
<1>3. \A i \in 0 .. 3 : CopiedByte(h, first + i, ByteOf(w, i)) = {ByteOf(w, i)}
  BY <1>2 DEF CopiedByte
<1>4. b[0] = ByteOf(w, 0) /\ b[1] = ByteOf(w, 1) /\ b[2] = ByteOf(w, 2) /\ b[3] = ByteOf(w, 3)
  BY <1>1, <1>3
<1> QED
  BY <1>1, <1>4, BytesMakeWord

LEMMA HeaderParsed == ASSUME NEW h \in Headers, ParseHeader(h) PROVE HeaderKept'
<1>1. /\ header' = h /\ parent' \in CopiedWord(h, LabelSize, ParentToken(h))
      /\ declared' \in CopiedWord(h, LabelSize + 4, h.declared)
      /\ mode' = IF h.said <= LabelSize + 8 THEN "file" ELSE "overwritten"
  BY DEF ParseHeader
<1>2. /\ h.declared \in Word /\ h.parent.numeric \in BOOLEAN /\ h.parent.value \in Nat
  BY HeaderAssumption
<1>3. NoParent \in Word /\ NoParent \in Nat /\ Word = 0 .. NoParent
  BY WordLimit
<1>4. ParentToken(h) \in Word
  BY <1>3 DEF ParentToken
<1>5. h.said <= LabelSize => parent' = ParentToken(h)
  BY <1>1, <1>4, BehindTheCopy DEF LabelSize
<1>6. ParentToken(h) = IF h.parent.numeric /\ h.parent.value < NoParent
                       THEN h.parent.value ELSE NoParent
  BY <1>2, <1>3 DEF ParentToken
<1>7. h.said <= LabelSize + 4 => declared' = h.declared
  BY <1>1, <1>2, BehindTheCopy DEF LabelSize
<1> QED
  BY <1>1, <1>5, <1>6, <1>7 DEF HeaderKept, Said

LEMMA HeaderNext == HeaderKept /\ [Next]_vars => HeaderKept'
<1> SUFFICES ASSUME HeaderKept, [Next]_vars PROVE HeaderKept'
  OBVIOUS
<1>1. ASSUME NEW h \in Headers, ParseHeader(h) PROVE HeaderKept'
  BY <1>1, HeaderParsed
<1>2. ASSUME UNCHANGED <<header, fields>> PROVE HeaderKept'
  BY <1>2 DEF HeaderKept, Said, fields
<1>3. ASSUME NEW id \in Id, AddNode(id) \/ \E c \in Cost : AddSegment(id, c) PROVE HeaderKept'
  BY <1>2, <1>3 DEF AddNode, AddSegment
<1>4. CASE \/ ReadLines \/ ReadFails \/ BodyEnd \/ ParseFails \/ Seal \/ Release
           \/ AddCost \/ CostDone \/ CountDetached \/ DetachedDone
           \/ NoParentScore \/ ParentScore \/ ParentStray \/ Exit \/ UNCHANGED vars
  BY <1>2, <1>4 DEF ReadLines, ReadFails, BodyEnd, ParseFails, Seal, Release, AddCost, CostDone,
         CountDetached, DetachedDone, NoParentScore, ParentScore, ParentStray, Exit,
         vars, file
<1> QED
  BY <1>1, <1>3, <1>4 DEF Next, Advance, Ended

\* The copy of the name spares parent_index, declared_nodes and mode as long as the
\* declared length ends before them, for bytes of any size (parse_header).
THEOREM FieldsAreKept == Spec => []HeaderKept
<1>1. Init => HeaderKept
  BY DEF Init, HeaderKept
<1> QED
  BY <1>1, HeaderNext, PTL DEF Spec

-----------------------------------------------------------------------------
\* A set of numbers that is not empty has a least one.
LEMMA LeastNumber ==
    ASSUME NEW T, T \subseteq Nat, T # {}
    PROVE  \E i \in T : \A j \in T : i <= j
<1>1. IsWellFoundedOn(OpToRel(<, Nat), Nat)
  BY NatLessThanWellFounded
<1>2. PICK i \in T : \A j \in T : <<j, i>> \notin OpToRel(<, Nat)
  BY <1>1, WFMin
<1>3. \A j \in T : ~(j < i)
  BY <1>2 DEF OpToRel
<1> QED
  BY <1>3

\* The sums of the first costs: g has those up to n.
SumTo(s, g, i) == IF i = 0 THEN 0 ELSE g[i - 1] + s[i].cost
Sums(s, g, n)  == g = [i \in 0 .. n |-> SumTo(s, g, i)]

LEMMA SumsExist == ASSUME NEW s, NEW n \in Nat PROVE \E g : Sums(s, g, n)
<1> DEFINE Bad == {k \in Nat : ~\E g : Sums(s, g, k)}
<1> SUFFICES ASSUME Bad # {} PROVE FALSE
  OBVIOUS
<1>1. PICK k \in Bad : \A j \in Bad : k <= j
  BY LeastNumber
<1>2. CASE k = 0
  <2>1. Sums(s, [i \in 0 .. 0 |-> 0], 0)
    BY DEF Sums, SumTo
  <2> QED
    BY <1>1, <1>2, <2>1
<1>3. CASE k # 0
  <2>1. k \in Nat /\ k - 1 \in Nat /\ k - 1 \notin Bad
    BY <1>1, <1>3
  <2>2. PICK g : Sums(s, g, k - 1)
    BY <2>1
  <2> DEFINE h == [i \in 0 .. k |-> IF i = k THEN g[k - 1] + s[k].cost ELSE g[i]]
  <2>3. ASSUME NEW i \in 0 .. k PROVE h[i] = SumTo(s, h, i)
    <3>1. CASE i = k
      BY <1>3, <2>1, <3>1 DEF SumTo
    <3>2. CASE i # k
      <4>1. i \in 0 .. k - 1 /\ (i # 0 => i - 1 \in 0 .. k - 1)
        BY <2>1, <3>2
      <4>2. g[i] = SumTo(s, g, i)
        BY <2>2, <4>1 DEF Sums
      <4> QED
        BY <2>1, <3>2, <4>1, <4>2 DEF SumTo
    <3> QED
      BY <3>1, <3>2
  <2>4. h = [i \in 0 .. k |-> h[i]]
    OBVIOUS
  <2>5. Sums(s, h, k)
    <3> HIDE DEF h
    <3> QED
      BY <2>3, <2>4 DEF Sums
  <2> QED
    BY <1>1, <2>5
<1> QED
  BY <1>2, <1>3

LEMMA SumsAgree ==
    ASSUME NEW s, NEW n \in Nat, NEW m \in Nat, NEW g, Sums(s, g, n), NEW h, Sums(s, h, m),
           NEW i \in Nat, i <= n, i <= m
    PROVE  g[i] = h[i]
<1> DEFINE Bad == {k \in Nat : k <= n /\ k <= m /\ g[k] # h[k]}
<1> SUFFICES ASSUME Bad # {} PROVE FALSE
  OBVIOUS
<1>1. PICK k \in Bad : \A j \in Bad : k <= j
  BY LeastNumber
<1>2. k \in Nat /\ k <= n /\ k <= m /\ g[k] # h[k] /\ k \in 0 .. n /\ k \in 0 .. m
  BY <1>1
<1>3. g[k] = SumTo(s, g, k) /\ h[k] = SumTo(s, h, k)
  BY <1>2 DEF Sums
<1>4. k # 0
  BY <1>2, <1>3 DEF SumTo
<1>5. g[k - 1] = h[k - 1]
  BY <1>1, <1>2, <1>4
<1> QED
  BY <1>2, <1>3, <1>5 DEF SumTo

\* The function by which CostUpTo is defined exists, and so does what its definition says.
LEMMA CostUpToUnfolds ==
    ASSUME NEW n \in Nat
    PROVE  /\ CostUpTo[0] = 0
           /\ CostUpTo[n + 1] = CostUpTo[n] + segments[n + 1].cost
<1> DEFINE part(k) == CHOOSE g : Sums(segments, g, k)
           f == [k \in Nat |-> part(k)[k]]
<1>1. \A k \in Nat : Sums(segments, part(k), k)
  BY SumsExist
<1>2. ASSUME NEW k \in Nat PROVE f[k] = IF k = 0 THEN 0 ELSE f[k - 1] + segments[k].cost
  <2>1. part(k)[k] = SumTo(segments, part(k), k)
    <3> HIDE DEF part
    <3> QED
      BY <1>1 DEF Sums
  <2>2. CASE k = 0
    BY <2>1, <2>2 DEF SumTo
  <2>3. CASE k # 0
    <3>1. k - 1 \in Nat /\ k - 1 <= k
      BY <2>3
    <3>2. part(k)[k - 1] = part(k - 1)[k - 1]
      <4> HIDE DEF part
      <4> QED
        BY <1>1, <3>1, SumsAgree
    <3> QED
      BY <2>1, <2>3, <3>1, <3>2 DEF SumTo
  <2> QED
    BY <2>2, <2>3
<1>3. f = [k \in Nat |-> IF k = 0 THEN 0 ELSE f[k - 1] + segments[k].cost]
  <2>1. f = [k \in Nat |-> f[k]]
    OBVIOUS
  <2> HIDE DEF f
  <2> QED
    BY <1>2, <2>1
<1>4. CostUpTo = [k \in Nat |-> IF k = 0 THEN 0 ELSE CostUpTo[k - 1] + segments[k].cost]
  <2> HIDE DEF f
  <2> QED
    BY <1>3 DEF CostUpTo
<1> QED
  BY <1>4

LEMMA CostUpToSame == ASSUME segments' = segments PROVE CostUpTo' = CostUpTo
BY DEF CostUpTo

\* Taking the rest before or after an addition is one.
LEMMA RestOfSum ==
    ASSUME NEW a \in Nat, NEW c \in Nat, NEW p \in Nat \ {0}
    PROVE  ((a % p) + c) % p = (a + c) % p
<1>1. PICK q \in Nat : \E r \in 0 .. p - 1 : r = a % p /\ a = p * q + r
  BY QuotientAndRest
<1>2. PICK r \in 0 .. p - 1 : r = a % p /\ a = p * q + r
  BY <1>1
<1>3. PICK q2 \in Nat : \E r2 \in 0 .. p - 1 : r2 = (r + c) % p /\ r + c = p * q2 + r2
  <2>1. r + c \in Nat
    OBVIOUS
  <2> QED
    BY <2>1, QuotientAndRest
<1>4. PICK r2 \in 0 .. p - 1 : r2 = (r + c) % p /\ r + c = p * q2 + r2
  BY <1>3
<1>5. a + c = p * (q + q2) + r2
  <2>1. a = p * q + r /\ r + c = p * q2 + r2 /\ p \in Nat /\ q \in Nat /\ q2 \in Nat
    BY <1>2, <1>4
  <2> QED
    BY <2>1
<1>6. (a + c) % p = r2
  <2>1. a + c \in Nat /\ q + q2 \in Nat
    OBVIOUS
  <2> QED
    BY <1>5, <2>1, RestIsUnique
<1> QED
  BY <1>2, <1>4, <1>6

\* Where the planner is, and what it has added up so far.
DetachedUpTo(n) == {i \in 2 .. n : ~Inbound(nodes[i])}

RInv ==
    /\ phase \in {"open", "header", "body", "seal", "release", "status 1"} =>
           total = 0 /\ detached = 0
    /\ phase = "cost" =>
           /\ at \in 1 .. Len(segments) + 1 /\ CostUpTo[at - 1] \in Nat
           /\ total = CostUpTo[at - 1] % Place[5] /\ detached = 0
    /\ phase \in {"detached", "parent", "done", "status 0"} =>
           total = CostUpTo[Len(segments)] % Place[5]
    /\ phase = "detached" =>
           at \in 1 .. Len(nodes) + 1 /\ detached = Cardinality(DetachedUpTo(at - 1))
    /\ phase \in {"parent", "done", "status 0"} =>
           detached = Cardinality(DetachedUpTo(Len(nodes)))
    /\ phase \in {"done", "status 0"} =>
           IF parent = NoParent THEN score = 0
           ELSE parent < Len(nodes) /\ score = Weight[nodes[parent + 1]]

LEMMA RInit == Init => RInv
BY DEF Init, RInv

\* A step that leaves the route and the report alone, and the phase or its kind.
LEMMA RKept ==
    ASSUME RInv, UNCHANGED <<parent, nodes, segments>>, UNCHANGED <<total, detached, score>>,
           \/ UNCHANGED <<at, phase>>
           \/ phase' \in {"faulted", "undefined", "aborted"}
           \/ /\ phase \in {"open", "header", "body", "seal"}
              /\ phase' \in {"header", "body", "seal", "release", "status 1"}
           \/ phase = "done" /\ phase' = "status 0"
    PROVE  RInv'
BY CostUpToSame DEF RInv, DetachedUpTo, Inbound

LEMMA RRead ==
    ASSUME RInv,
           \/ ReadLines \/ ReadFails \/ BodyEnd \/ ParseFails \/ Seal
           \/ \E h \in Headers : ParseHeader(h)
           \/ \E id \in Id : AddNode(id) \/ \E c \in Cost : AddSegment(id, c)
    PROVE  RInv'
<1>1. /\ phase \in {"open", "header", "body", "seal"} /\ UNCHANGED <<total, detached>>
      /\ phase' \in {"open", "header", "body", "seal", "release", "status 1", "aborted"}
  BY DEF ReadLines, ReadFails, BodyEnd, ParseFails, Free, Seal, ParseHeader, AddNode, AddSegment,
         BodyLine, report
<1> QED
  BY <1>1 DEF RInv

\* The planner begins: no cost, no detached node yet.
LEMMA RRelease == ASSUME RInv, Release PROVE RInv'
<1>1. /\ phase = "release" /\ at' = 1 /\ UNCHANGED <<nodes, segments, total, detached>>
      /\ phase' \in {"cost", "aborted"} /\ total = 0 /\ detached = 0
  BY DEF Release, Free, route, RInv
<1>2. CostUpTo'[0] = 0
  BY <1>1, CostUpToUnfolds, CostUpToSame
<1>3. Place[5] \in Nat \ {0} /\ 0 % Place[5] = 0
  BY WordLimit
<1>4. CASE phase' = "aborted"
  BY <1>4 DEF RInv
<1>5. CASE phase' = "cost"
  BY <1>1, <1>2, <1>3, <1>5 DEF RInv
<1> QED
  BY <1>1, <1>4, <1>5

\* A cost more.
LEMMA RAddCost == ASSUME Parsed, RInv, AddCost PROVE RInv'
<1>1. /\ phase = "cost" /\ phase' = phase /\ at <= Len(segments) /\ at' = at + 1
      /\ total' = (total + segments[at].cost) % (NoParent + 1)
      /\ UNCHANGED <<nodes, segments, detached>>
      /\ at \in 1 .. Len(segments) + 1 /\ CostUpTo[at - 1] \in Nat
      /\ total = CostUpTo[at - 1] % Place[5] /\ detached = 0
  BY DEF AddCost, RInv, route
<1>2. segments[at] \in [to : Id, cost : Cost] /\ Len(segments) \in Nat /\ at \in Nat
  <2>1. segments \in Seq([to : Id, cost : Cost])
    BY DEF Parsed
  <2>2. Len(segments) \in Nat /\ at \in 1 .. Len(segments)
    BY <1>1, <2>1
  <2>3. ASSUME NEW S, segments \in Seq(S) PROVE segments[at] \in S
    BY <2>2, <2>3
  <2>4. segments[at] \in [to : Id, cost : Cost]
    BY <2>1, <2>3
  <2> QED
    BY <2>2, <2>4
<1>3. segments[at].cost \in Nat
  <2>1. segments[at].cost \in Cost /\ Cost \subseteq Word /\ Word \subseteq Nat
    BY <1>2, InputAssumption, WordLimit
  <2> QED
    BY <2>1
<1>4. CostUpTo[at] = CostUpTo[at - 1] + segments[at].cost
  <2>1. at - 1 \in Nat /\ (at - 1) + 1 = at
    BY <1>1, <1>2
  <2> QED
    BY <2>1, CostUpToUnfolds
<1>5. CostUpTo[at] \in Nat /\ total' = CostUpTo[at] % Place[5]
  <2>1. NoParent + 1 = Place[5]
    BY WordLimit DEF NoParent
  <2>2. total' = ((CostUpTo[at - 1] % Place[5]) + segments[at].cost) % Place[5]
    BY <1>1, <2>1
  <2>3. total' = (CostUpTo[at - 1] + segments[at].cost) % Place[5]
    BY <1>1, <1>3, <2>2, WordLimit, RestOfSum
  <2> QED
    BY <1>1, <1>3, <1>4, <2>3
<1>6. CostUpTo' = CostUpTo /\ at' - 1 = at /\ at' \in 1 .. Len(segments) + 1
  BY <1>1, <1>2, CostUpToSame
<1> QED
  BY <1>1, <1>5, <1>6 DEF RInv

LEMMA RCostDone == ASSUME Parsed, RInv, CostDone PROVE RInv'
<1>1. /\ phase = "cost" /\ phase' = "detached" /\ at > Len(segments) /\ at' = 1
      /\ UNCHANGED <<nodes, segments, total, detached>>
      /\ at \in 1 .. Len(segments) + 1
      /\ total = CostUpTo[at - 1] % Place[5] /\ detached = 0
  BY DEF CostDone, RInv, route
<1>2. Len(segments) \in Nat /\ Len(nodes) \in Nat
  BY DEF Parsed
<1>3. at - 1 = Len(segments)
  BY <1>1, <1>2
<1>4. DetachedUpTo(0)' = {} /\ Cardinality({}) = 0
  BY FS_EmptySet DEF DetachedUpTo
<1>5. CostUpTo' = CostUpTo /\ at' - 1 = 0 /\ at' \in 1 .. Len(nodes') + 1
  BY <1>1, <1>2, CostUpToSame
<1> QED
  BY <1>1, <1>3, <1>4, <1>5 DEF RInv

\* A node more, counted if it is detached and not the first.
LEMMA RCountDetached == ASSUME Parsed, RInv, CountDetached PROVE RInv'
<1>1. /\ phase = "detached" /\ phase' = phase /\ at <= Len(nodes) /\ at' = at + 1
      /\ detached' = IF ~Inbound(nodes[at]) /\ at # 1 THEN detached + 1 ELSE detached
      /\ UNCHANGED <<nodes, segments, total>>
      /\ total = CostUpTo[Len(segments)] % Place[5]
      /\ at \in 1 .. Len(nodes) + 1 /\ detached = Cardinality(DetachedUpTo(at - 1))
  BY DEF CountDetached, RInv, route
<1>2. Len(nodes) \in Nat /\ at \in Nat
  BY <1>1 DEF Parsed
<1>3. PICK n \in Nat : n = at /\ n >= 1
  BY <1>1, <1>2
<1>4. Cardinality(DetachedUpTo(n)) = detached'
  <2>1. CASE ~Inbound(nodes[n]) /\ n # 1
    <3>1. DetachedUpTo(n) = DetachedUpTo(n - 1) \cup {n} /\ n \notin DetachedUpTo(n - 1)
      BY <1>3, <2>1 DEF DetachedUpTo
    <3>2. IsFiniteSet(DetachedUpTo(n - 1))
      <4>1. IsFiniteSet(2 .. n - 1)
        BY <1>3, FS_Interval
      <4>2. DetachedUpTo(n - 1) \subseteq 2 .. n - 1
        BY DEF DetachedUpTo
      <4> QED
        BY <4>1, <4>2, FS_Subset
    <3> QED
      BY <1>1, <1>3, <2>1, <3>1, <3>2, FS_AddElement
  <2>2. CASE ~(~Inbound(nodes[n]) /\ n # 1)
    <3>1. DetachedUpTo(n) = DetachedUpTo(n - 1)
      BY <1>3, <2>2 DEF DetachedUpTo
    <3> QED
      BY <1>1, <1>3, <2>2, <3>1
  <2> QED
    BY <2>1, <2>2
<1>5. DetachedUpTo(n)' = DetachedUpTo(n)
  BY <1>1 DEF DetachedUpTo, Inbound
<1>6. CostUpTo' = CostUpTo /\ at' - 1 = n /\ at' \in 1 .. Len(nodes') + 1
  BY <1>1, <1>2, <1>3, CostUpToSame
<1> QED
  BY <1>1, <1>4, <1>5, <1>6 DEF RInv

LEMMA RScore ==
    ASSUME Parsed, RInv, DetachedDone \/ NoParentScore \/ ParentScore \/ ParentStray \/ Exit
    PROVE  RInv'
<1>1. UNCHANGED <<parent, nodes, segments, total, detached>> /\ CostUpTo' = CostUpTo
  BY CostUpToSame DEF DetachedDone, NoParentScore, ParentScore, ParentStray, Exit,
                      fields, route, report
<1>2. \A n : DetachedUpTo(n)' = DetachedUpTo(n)
  BY <1>1 DEF DetachedUpTo, Inbound
<1>3. CASE DetachedDone
  <2>1. /\ phase = "detached" /\ phase' = "parent" /\ at > Len(nodes)
        /\ at \in 1 .. Len(nodes) + 1 /\ Len(nodes) \in Nat
    BY <1>3 DEF DetachedDone, RInv, Parsed
  <2>2. at - 1 = Len(nodes)
    BY <2>1
  <2>3. detached' = Cardinality(DetachedUpTo(Len(nodes))')
    BY <1>1, <1>2, <2>1, <2>2 DEF RInv, DetachedUpTo, Inbound
  <2> QED
    BY <1>1, <2>1, <2>3 DEF RInv
<1>4. CASE NoParentScore \/ ParentScore
  <2>1. detached' = Cardinality(DetachedUpTo(Len(nodes))')
    BY <1>1, <1>4 DEF RInv, NoParentScore, ParentScore, DetachedUpTo, Inbound
  <2>2. /\ phase = "parent" /\ phase' = "done"
        /\ IF parent = NoParent THEN score' = 0
           ELSE parent < Len(nodes) /\ score' = Weight[nodes[parent + 1]]
    BY <1>4 DEF NoParentScore, ParentScore
  <2> QED
    BY <1>1, <2>1, <2>2 DEF RInv
<1>5. CASE ParentStray
  <2>1. phase' \in {"faulted", "undefined"}
    BY <1>5 DEF ParentStray
  <2> QED
    BY <2>1 DEF RInv
<1>6. CASE Exit
  <2>1. phase = "done" /\ phase' \in {"status 0", "aborted"} /\ UNCHANGED <<parent, score>>
    BY <1>6 DEF Exit, Free, fields, report
  <2>2. detached' = Cardinality(DetachedUpTo(Len(nodes))')
    BY <1>1, <2>1 DEF RInv, DetachedUpTo, Inbound
  <2> QED
    BY <1>1, <2>1, <2>2 DEF RInv
<1> QED
  BY <1>3, <1>4, <1>5, <1>6

LEMMA RNext == Parsed /\ RInv /\ [Next]_vars => RInv'
<1> SUFFICES ASSUME Parsed, RInv, [Next]_vars PROVE RInv'
  OBVIOUS
<1>1. CASE UNCHANGED vars
  BY <1>1, RKept DEF vars, fields, route, report
<1>2. CASE \/ ReadLines \/ ReadFails \/ BodyEnd \/ ParseFails \/ Seal
           \/ \E h \in Headers : ParseHeader(h)
           \/ \E id \in Id : AddNode(id) \/ \E c \in Cost : AddSegment(id, c)
  BY <1>2, RRead
<1> QED
  BY <1>1, <1>2, RRelease, RAddCost, RCostDone, RCountDetached, RScore DEF Next, Advance, Ended

\* The report is right for any number of segments, nodes and values of a byte: the
\* costs are added up modulo the width of a word, the detached nodes are
\* those no segment leads to but for the first, and the parent that is scored is
\* a node of the route (planner_analyze).
THEOREM ReportIsExact == Spec => []ReportExact
<1>1. Parsed /\ RInv => ReportExact
  BY DEF RInv, ReportExact, DetachedUpTo
<1>2. Spec => []Parsed
  BY ParsedInit, ParsedNext, PTL DEF Spec
<1>3. Spec => []RInv
  BY <1>2, RInit, RNext, PTL DEF Spec
<1> QED
  BY <1>1, <1>2, <1>3, PTL
=============================================================================
