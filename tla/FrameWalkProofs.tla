-------------------------- MODULE FrameWalkProofs --------------------------
(***************************************************************************)
(* That the analysis of framewalk ends as the parsed records say, and that *)
(* the parsed records are what the escapes of the file make of its own,    *)
(* for any files.                                                          *)
(***************************************************************************)
EXTENDS FrameWalk, TLAPS, WellFoundedInduction, SequenceTheorems

\* The document is a sequence, of whatever records the parser found.
IsDocument == \E S : doc \in Seq(S)

Copied == catalog = [i \in DOMAIN doc |-> [id |-> doc[i].id, parent |-> doc[i].parent]]

\* The analysis has gone through the nodes before `at' and met no orphan.
NoneBefore == \A i \in DOMAIN doc : i < at => ~Orphan(i)

Inv ==
    /\ IsDocument
    /\ phase \in {"load", "header", "parse", "build"} => at = 1 /\ status = 1
    /\ phase = "analyze" =>
           /\ Copied /\ NoneBefore /\ status = 1
           /\ at \in 1 .. Len(doc) + 1
    /\ phase = "faulted" => Orphan(at) /\ status = 1
    /\ status = 0 => \A i \in DOMAIN doc : ~Orphan(i)

\* What is appended to a sequence makes it a sequence.
LEMMA AppendIsDocument ==
    ASSUME NEW e, IsDocument, doc' = Append(doc, e) PROVE IsDocument'
<1>1. PICK S : doc \in Seq(S)
  BY DEF IsDocument
<1>2. doc \in Seq(S \cup {e})
  BY <1>1
<1>3. Append(doc, e) \in Seq(S \cup {e})
  BY <1>2
<1> QED
  BY <1>3 DEF IsDocument

\* The copy has as many items as the document, and catalog_find finds an id in it
\* exactly when a node of the document has it.
LEMMA CopyFinds ==
    ASSUME IsDocument, Copied
    PROVE  /\ DOMAIN doc = 1 .. Len(doc) /\ Len(doc) \in Nat
           /\ DOMAIN catalog = DOMAIN doc /\ Len(catalog) = Len(doc)
           /\ \A i \in DOMAIN doc :
                 Orphan(i) <=> catalog[i].parent # 0 /\ ~InCatalog(catalog[i].parent)
<1>1. DOMAIN doc = 1 .. Len(doc) /\ Len(doc) \in Nat
  BY DEF IsDocument
<1>2. DOMAIN catalog = DOMAIN doc /\ Len(catalog) = Len(doc)
  BY <1>1 DEF Copied
<1>3. \A i \in DOMAIN doc : catalog[i].id = doc[i].id /\ catalog[i].parent = doc[i].parent
  BY DEF Copied
<1>4. \A i \in DOMAIN doc :
         Orphan(i) <=> catalog[i].parent # 0 /\ ~InCatalog(catalog[i].parent)
  BY <1>2, <1>3 DEF Orphan, InCatalog
<1> QED
  BY <1>1, <1>2, <1>4

LEMMA InvInit == Init => Inv
<1> SUFFICES ASSUME Init PROVE Inv
  OBVIOUS
<1>1. doc \in Seq({})
  BY DEF Init
<1> QED
  BY <1>1 DEF Init, Inv, IsDocument

\* Every step of the program keeps the invariant.
LEMMA InvStep == Inv /\ [Next]_vars => Inv'
<1> SUFFICES ASSUME Inv, [Next]_vars PROVE Inv'
  OBVIOUS
<1> USE DEF Inv
<1>1. CASE LoadFile \/ LoadFails \/ ConsumeHeader \/ ParseDone \/ ParseFails
  BY <1>1 DEF LoadFile, LoadFails, ConsumeHeader, ParseDone, ParseFails, IsDocument, Orphan
<1>2. CASE ParseNode
  <2>1. IsDocument'
    BY <1>2, AppendIsDocument DEF ParseNode
  <2>2. phase' = "parse" /\ phase = "parse" /\ at' = at /\ status' = status
    BY <1>2 DEF ParseNode
  <2> QED
    BY <2>1, <2>2
<1>3. CASE BuildCatalog
  <2>1. /\ phase' = "analyze" /\ doc' = doc /\ at' = 1 /\ status' = 1 /\ Copied'
        /\ IsDocument'
    BY <1>3 DEF BuildCatalog, Copied, IsDocument
  <2>2. DOMAIN doc = 1 .. Len(doc) /\ Len(doc) \in Nat
    BY DEF IsDocument
  <2>3. NoneBefore' /\ at' \in 1 .. Len(doc') + 1
    BY <2>1, <2>2 DEF NoneBefore
  <2> QED
    BY <2>1, <2>3
<1>4. CASE EvaluateNode
  <2>1. /\ phase = "analyze" /\ phase' = phase /\ at' = at + 1
        /\ doc' = doc /\ catalog' = catalog /\ status' = status
        /\ at <= Len(catalog)
        /\ catalog[at].parent = 0 \/ InCatalog(catalog[at].parent)
    BY <1>4 DEF EvaluateNode
  <2>2. at \in DOMAIN doc /\ at' \in 1 .. Len(doc') + 1
    BY <2>1, CopyFinds
  <2>3. ~Orphan(at)
    BY <2>1, <2>2, CopyFinds
  <2>4. NoneBefore'
    BY <2>1, <2>2, <2>3, CopyFinds DEF NoneBefore, Orphan
  <2>5. IsDocument' /\ Copied'
    BY <2>1 DEF IsDocument, Copied
  <2> QED
    BY <2>1, <2>2, <2>4, <2>5
<1>5. CASE EvaluateFault
  <2>1. /\ phase = "analyze" /\ phase' = "faulted" /\ at' = at
        /\ doc' = doc /\ status' = status /\ at <= Len(catalog)
        /\ catalog[at].parent # 0 /\ ~InCatalog(catalog[at].parent)
    BY <1>5 DEF EvaluateFault
  <2>2. at \in DOMAIN doc
    BY <2>1, CopyFinds
  <2>3. Orphan(at)
    BY <2>1, <2>2, CopyFinds
  <2> QED
    BY <2>1, <2>3 DEF IsDocument, Orphan
<1>6. CASE Finish
  <2>1. /\ phase = "analyze" /\ phase' = "out" /\ at' = at
        /\ doc' = doc /\ status' = 0 /\ at > Len(catalog)
    BY <1>6 DEF Finish
  <2>2. \A i \in DOMAIN doc : ~Orphan(i)
    BY <2>1, CopyFinds DEF NoneBefore
  <2> QED
    BY <2>1, <2>2 DEF IsDocument, Orphan
<1>7. CASE Out
  BY <1>7 DEF Out, IsDocument, Orphan
<1>8. CASE Ended \/ UNCHANGED vars
  BY <1>8 DEF Ended, vars, IsDocument, Orphan, Copied, NoneBefore
<1> QED
  BY <1>1, <1>2, <1>3, <1>4, <1>5, <1>6, <1>7, <1>8 DEF Next, Advance

\* A parent anywhere in the document is found, and only a node whose parent is
\* nowhere in it makes the program die (analyzer_run, catalog_find).
THEOREM AnalysisFollowsDocument == Spec => []AnalysisExact
<1>1. Inv => AnalysisExact
  BY DEF Inv, AnalysisExact
<1> QED
  BY <1>1, InvInit, InvStep, PTL DEF Spec

\* What is allocated at each place of the program: the file, the blocks of the
\* nodes and of the items there are, and the key of a record that failed.
Lost == IF status = 1 /\ KeyRead(Record) THEN 1 ELSE 0

Heap ==
    /\ phase \in {"load", "header", "parse", "build"} => catalog = <<>>
    /\ phase = "load" => doc = <<>> /\ live = 0
    /\ phase = "header" => doc = <<>>
    /\ phase \in {"header", "parse", "build"} => live = Blocks(Len(doc)) + 1
    /\ phase = "analyze" => live = Blocks(Len(doc)) + Blocks(Len(catalog)) + 1
    /\ phase = "out" =>
           /\ live = Blocks(Len(doc)) + Blocks(Len(catalog)) + 1 + Lost
           /\ catalog = <<>> \/ Len(catalog) = Len(doc)
    /\ phase = "ended" => live = 0 \/ (live = 1 /\ Failed /\ KeyRead(Record))

LEMMA BlocksAre == /\ Blocks(0) = 0
                   /\ \A n \in Nat : Blocks(n) \in Nat
BY DEF Blocks

LEMMA HeapStep == Inv /\ Heap /\ [Next]_vars => Heap'
<1> SUFFICES ASSUME Inv, Heap, [Next]_vars PROVE Heap'
  OBVIOUS
<1>1. Len(doc) \in Nat /\ DOMAIN doc = 1 .. Len(doc)
  BY DEF Inv, IsDocument
<1>2. Len(<<>>) = 0 /\ Blocks(0) = 0 /\ \A n \in Nat : Blocks(n) \in Nat
  BY BlocksAre
<1>3. CASE LoadFile \/ LoadFails \/ ConsumeHeader \/ ParseDone
  BY <1>2, <1>3 DEF LoadFile, LoadFails, ConsumeHeader, ParseDone, Heap
<1>4. CASE ParseNode
  <2>1. /\ phase = "parse" /\ phase' = "parse" /\ catalog' = catalog
        /\ live' = live + Blocks(Len(doc')) - Blocks(Len(doc))
    BY <1>4 DEF ParseNode
  <2>2. PICK S : doc \in Seq(S)
    BY DEF Inv, IsDocument
  <2>3. Len(doc') = Len(doc) + 1
    BY <1>4, <2>2 DEF ParseNode
  <2>4. live' = Blocks(Len(doc')) + 1
    BY <1>1, <1>2, <2>1, <2>3 DEF Heap
  <2> QED
    BY <2>1, <2>4 DEF Heap
<1>5. CASE ParseFails
  <2>1. /\ phase = "parse" /\ phase' = "out" /\ doc' = doc /\ catalog' = catalog
        /\ catalog = <<>> /\ status = 1 /\ status' = 1
        /\ Record' = Record /\ KeyRead(Record)' = KeyRead(Record)
        /\ live' = IF KeyRead(Record) THEN live + 1 ELSE live
    BY <1>5 DEF ParseFails, Inv, Heap, Record, NextCell, End, KeyRead
  <2>2. Lost' = (IF KeyRead(Record) THEN 1 ELSE 0)
    BY <2>1 DEF Lost
  <2>3. live = Blocks(Len(doc)) + 1
    BY <2>1 DEF Heap
  <2>4. live' = Blocks(Len(doc')) + Blocks(Len(catalog')) + 1 + Lost'
    BY <1>1, <1>2, <2>1, <2>2, <2>3
  <2> QED
    BY <2>1, <2>4 DEF Heap
<1>6. CASE BuildCatalog
  <2>1. /\ phase = "build" /\ phase' = "analyze" /\ doc' = doc
        /\ live' = live + Blocks(Len(doc)) /\ Len(catalog') = Len(doc)
    BY <1>1, <1>6 DEF BuildCatalog
  <2> QED
    BY <1>1, <1>2, <2>1 DEF Heap
<1>7. CASE EvaluateNode \/ EvaluateFault
  BY <1>7 DEF EvaluateNode, EvaluateFault, Heap
<1>8. CASE Finish
  <2>1. /\ phase = "analyze" /\ phase' = "out" /\ doc' = doc /\ catalog' = catalog
        /\ live' = live /\ status' = 0
    BY <1>8 DEF Finish
  <2>2. Len(catalog) = Len(doc) /\ Lost' = 0
    BY <2>1, CopyFinds DEF Inv, Lost
  <2> QED
    BY <1>1, <1>2, <2>1, <2>2 DEF Heap
<1>9. CASE Out
  <2>1. /\ phase = "out" /\ phase' = "ended" /\ status' = status
        /\ Record' = Record /\ KeyRead(Record)' = KeyRead(Record)
        /\ live' = live - Blocks(Len(catalog)) - Blocks(Len(doc)) - 1
    BY <1>9 DEF Out, Record, NextCell, End, KeyRead
  <2>2. Len(catalog) \in Nat
    BY <1>1, <1>2, <2>1 DEF Heap
  <2>3. Blocks(Len(doc)) \in Nat /\ Blocks(Len(catalog)) \in Nat /\ Lost \in Nat
    BY <1>1, <1>2, <2>2 DEF Lost
  <2>4. live = Blocks(Len(doc)) + Blocks(Len(catalog)) + 1 + Lost
    BY <2>1 DEF Heap
  <2>5. live' = Lost
    BY <2>1, <2>3, <2>4
  <2> QED
    BY <2>1, <2>5 DEF Heap, Lost, Failed
<1>10. CASE Ended \/ UNCHANGED vars
  <2>1. /\ phase' = phase /\ doc' = doc /\ catalog' = catalog /\ live' = live
        /\ status' = status
    BY <1>10 DEF Ended, vars
  <2>2. KeyRead(Record)' = KeyRead(Record)
    BY <1>10 DEF Ended, vars, Record, NextCell, End, KeyRead
  <2> QED
    BY <2>1, <2>2 DEF Heap, Lost, Failed
<1> QED
  BY <1>3, <1>4, <1>5, <1>6, <1>7, <1>8, <1>9, <1>10 DEF Next, Advance

\* A program that exits has freed the file, the document and the catalog, whichever
\* way it came to the end of main; the one block it may keep is the key of the
\* record at which parse_node failed.
THEOREM OnlyAKeyIsLeft ==
    Spec => [](phase = "ended" => live = 0 \/ (live = 1 /\ Failed /\ KeyRead(Record)))
<1>1. Init => Heap
  BY DEF Init, Heap
<1>2. Heap => (phase = "ended" => live = 0 \/ (live = 1 /\ Failed /\ KeyRead(Record)))
  BY DEF Heap
<1> QED
  BY <1>1, <1>2, InvInit, InvStep, HeapStep, PTL DEF Spec

-----------------------------------------------------------------------------
\* A set of numbers that is not empty has a least one.
LEMMA LeastOf ==
    ASSUME NEW S, S \subseteq Nat, S # {}
    PROVE  \E m \in S : \A i \in S : m <= i
<1>1. IsWellFoundedOn(OpToRel(<, Nat), Nat)
  BY NatLessThanWellFounded
<1>2. PICK m \in S : \A i \in S : <<i, m>> \notin OpToRel(<, Nat)
  BY <1>1, WFMin
<1>3. \A i \in S : ~(i < m)
  BY <1>2 DEF OpToRel
<1> QED
  BY <1>3

\* The search for a cell stops at the first one, or at the end.
LEMMA NextCellIs ==
    ASSUME file \in Seq(Cell), NEW c, NEW p \in 1 .. End
    PROVE  /\ NextCell(c, p) \in p .. End
           /\ NextCell(c, p) # End => file[NextCell(c, p)] = c
           /\ \A r \in p .. Len(file) : file[r] = c => NextCell(c, p) <= r
<1> DEFINE places == {q \in p .. Len(file) : file[q] = c}
<1>1. Len(file) \in Nat /\ End = Len(file) + 1
  BY DEF End
<1>2. CASE places = {}
  <2>1. NextCell(c, p) = End
    BY <1>2 DEF NextCell
  <2>2. \A r \in p .. Len(file) : file[r] # c
    BY <1>2
  <2> QED
    BY <1>1, <2>1, <2>2
<1>3. CASE places # {}
  <2>1. \E q \in places : \A r \in places : q <= r
    <3>1. places \subseteq Nat
      BY <1>1
    <3> HIDE DEF places
    <3> QED
      BY <1>3, <3>1, LeastOf
  <2>2. NextCell(c, p) = CHOOSE q \in places : \A r \in places : q <= r
    BY <1>3 DEF NextCell
  <2>3. NextCell(c, p) \in places /\ \A r \in places : NextCell(c, p) <= r
    <3> HIDE DEF places
    <3> QED
      BY <2>1, <2>2
  <2> QED
    BY <1>1, <2>3
<1> QED
  BY <1>2, <1>3

LEMMA AfterHeaderIs == ASSUME file \in Seq(Cell) PROVE AfterHeader \in 1 .. End
<1>1. Len(file) \in Nat /\ End = Len(file) + 1 /\ 1 \in 1 .. End
  BY DEF End
<1>2. NextCell(Newline, 1) \in 1 .. End
  BY <1>1, NextCellIs
<1> QED
  BY <1>1, <1>2 DEF AfterHeader

\* A record at q is one the parser takes, and where its payload ends.
Valid(q)  == q # End /\ HasHead(q) /\ DataFits(q)
Behind(q) == Data(q) + HeadOf(q).declared

LEMMA BehindIs ==
    ASSUME file \in Seq(Cell), NEW q \in 1 .. End, Valid(q)
    PROVE  /\ Behind(q) \in 1 .. End /\ q + 2 <= Behind(q) /\ q \in Nat
           /\ HeadOf(q).declared \in Nat
<1>1. HeadOf(q).declared \in Nat
  BY HeadAssumption DEF Valid, HasHead, HeadOf
<1>2. Len(file) \in Nat
  OBVIOUS
<1> QED
  BY <1>1, <1>2 DEF Valid, DataFits, Data, Behind, End

-----------------------------------------------------------------------------
\* decode_percent_span: the lengths decoded from each place of a payload of n cells on.
DecodeStep(p, n, g, i) ==
    IF i = n THEN 0
    ELSE IF IsEscape(p, i, n) THEN 1 + g[i + 3] ELSE 1 + g[i + 1]

Decodes(p, n, k, g) == g = [i \in k .. n |-> DecodeStep(p, n, g, i)]

LEMMA DecodesExist ==
    ASSUME NEW p, NEW n \in Nat
    PROVE  \E g : Decodes(p, n, 0, g)
<1> DEFINE Bad == {k \in 0 .. n : ~\E g : Decodes(p, n, n - k, g)}
<1>1. SUFFICES ASSUME Bad # {} PROVE FALSE
  <2>1. n \in 0 .. n /\ n - n = 0
    OBVIOUS
  <2>2. Bad = {} => \E g : Decodes(p, n, n - n, g)
    BY <2>1
  <2> QED
    BY <2>1, <2>2
<1>2. PICK k \in Bad : \A j \in Bad : k <= j
  <2>1. Bad \subseteq Nat
    OBVIOUS
  <2> HIDE DEF Bad
  <2> QED
    BY <1>1, <2>1, LeastOf
<1> DEFINE b == n - k
<1>3. k \in 0 .. n /\ b \in 0 .. n /\ ~\E g : Decodes(p, n, b, g)
  BY <1>2
<1>4. CASE k = 0
  <2> DEFINE h == [i \in n .. n |-> 0]
  <2>1. b = n /\ h[n] = 0 /\ n .. n = {n}
    BY <1>3, <1>4
  <2>2. h = [i \in n .. n |-> DecodeStep(p, n, h, i)]
    BY <2>1 DEF DecodeStep
  <2>3. Decodes(p, n, n, h)
    BY <2>2 DEF Decodes
  <2> QED
    BY <1>3, <2>1, <2>3
<1>5. CASE k # 0
  <2>1. k - 1 \in 0 .. n /\ n - (k - 1) = b + 1 /\ ~(k <= k - 1)
    BY <1>3, <1>5
  <2>2. k - 1 \notin Bad
    <3> HIDE DEF Bad
    <3> QED
      BY <1>2, <2>1
  <2>3. PICK g : Decodes(p, n, b + 1, g)
    BY <2>1, <2>2
  <2> DEFINE h == [i \in b .. n |-> IF i = b THEN DecodeStep(p, n, g, b) ELSE g[i]]
  <2>4. b < n /\ b \in Nat
    BY <1>3, <1>5
  <2>5. \A i \in b + 1 .. n : h[i] = g[i]
    BY <2>4
  <2>6. ASSUME NEW i \in b .. n PROVE DecodeStep(p, n, h, i) = DecodeStep(p, n, g, i)
    <3>1. /\ i # n => i + 1 \in b + 1 .. n
          /\ IsEscape(p, i, n) => i + 3 \in b + 1 .. n
      BY <2>4 DEF IsEscape
    <3> HIDE DEF h
    <3> QED
      BY <3>1, <2>5 DEF DecodeStep
  <2>7. ASSUME NEW i \in b .. n PROVE h[i] = DecodeStep(p, n, h, i)
    <3>1. CASE i = b
      BY <3>1, <2>4, <2>6
    <3>2. CASE i # b
      <4>1. i \in b + 1 .. n
        BY <3>2, <2>4
      <4>2. h[i] = g[i] /\ g[i] = DecodeStep(p, n, g, i)
        BY <4>1, <2>3, <2>5 DEF Decodes
      <4> QED
        BY <4>2, <2>6
    <3> QED
      BY <3>1, <3>2
  <2>8. h = [i \in b .. n |-> h[i]]
    OBVIOUS
  <2>9. Decodes(p, n, b, h)
    <3> HIDE DEF h
    <3> QED
      BY <2>7, <2>8 DEF Decodes
  <2> QED
    BY <1>3, <2>9
<1> QED
  BY <1>4, <1>5

LEMMA DecodesShorter ==
    ASSUME NEW p, NEW n \in Nat, NEW g, Decodes(p, n, 0, g)
    PROVE  \A i \in 0 .. n : g[i] \in 0 .. n - i
<1> DEFINE Bad == {k \in 0 .. n : g[n - k] \notin 0 .. k}
<1>1. SUFFICES ASSUME Bad # {} PROVE FALSE
  <2>1. ASSUME NEW i \in 0 .. n, Bad = {} PROVE g[i] \in 0 .. n - i
    <3>1. n - i \in 0 .. n /\ n - (n - i) = i
      OBVIOUS
    <3> QED
      BY <2>1, <3>1
  <2> QED
    BY <2>1
<1>2. PICK k \in Bad : \A j \in Bad : k <= j
  <2>1. Bad \subseteq Nat
    OBVIOUS
  <2> HIDE DEF Bad
  <2> QED
    BY <1>1, <2>1, LeastOf
<1> DEFINE b == n - k
<1>3. k \in 0 .. n /\ b \in 0 .. n /\ g[b] \notin 0 .. k /\ k = n - b
  BY <1>2
<1>4. ASSUME NEW i \in 0 .. n, i > b PROVE g[i] \in 0 .. n - i
  <2>1. n - i \in 0 .. n /\ n - (n - i) = i /\ ~(k <= n - i)
    BY <1>3, <1>4
  <2>2. n - i \notin Bad
    <3> HIDE DEF Bad
    <3> QED
      BY <1>2, <2>1
  <2> QED
    BY <2>1, <2>2
<1>5. g[b] = DecodeStep(p, n, g, b)
  BY <1>3 DEF Decodes
<1> HIDE DEF b
<1>6. CASE b = n
  BY <1>3, <1>5, <1>6 DEF DecodeStep
<1>7. CASE b # n
  <2>1. g[b + 1] \in 0 .. n - (b + 1)
    BY <1>3, <1>4, <1>7
  <2>2. IsEscape(p, b, n) => g[b + 3] \in 0 .. n - (b + 3) /\ b + 3 <= n
    BY <1>3, <1>4, <1>7 DEF IsEscape
  <2>3. DecodeStep(p, n, g, b) \in 0 .. n - b
    <3>1. CASE IsEscape(p, b, n)
      BY <3>1, <2>2, <1>3, <1>7 DEF DecodeStep
    <3>2. CASE ~IsEscape(p, b, n)
      BY <3>2, <2>1, <1>3, <1>7 DEF DecodeStep
    <3> QED
      BY <3>1, <3>2
  <2> QED
    BY <2>3, <1>3, <1>5
<1> QED
  BY <1>6, <1>7

\* A payload never decodes to more than it was.
LEMMA DecodedShorter ==
    ASSUME NEW p, NEW n \in Nat
    PROVE  DecodedLength(p, n) \in 0 .. n
<1> DEFINE from == CHOOSE g : Decodes(p, n, 0, g)
<1>1. DecodedLength(p, n) = from[0]
  BY DEF DecodedLength, Decodes, DecodeStep
<1>2. Decodes(p, n, 0, from)
  BY DecodesExist
<1> HIDE DEF from
<1>3. from[0] \in 0 .. n - 0
  BY <1>2, DecodesShorter
<1> QED
  BY <1>1, <1>3

-----------------------------------------------------------------------------
\* The records of the file from each place on, as RecordStarts lists them.
StartsStep(g, p) ==
    LET q == NextCell(Node, p)
    IN  IF q = End \/ ~HasHead(q) \/ ~DataFits(q) THEN <<>>
        ELSE <<q>> \o g[Data(q) + HeadOf(q).declared]

Starts(k, g) == g = [p \in k .. End |-> StartsStep(g, p)]

LEMMA NextRecordIs ==
    ASSUME file \in Seq(Cell), NEW p \in 1 .. End, NEW q, q = NextCell(Node, p)
    PROVE  /\ q \in p .. End /\ q \in 1 .. End /\ q \in Nat /\ p \in Nat
           /\ Len(file) \in Nat /\ End = Len(file) + 1
           /\ Valid(q) => /\ file[q] = Node /\ q <= Len(file)
                          /\ Behind(q) \in 1 .. End /\ Behind(q) \in Nat
                          /\ p < Behind(q) /\ q < Behind(q)
<1>1. Len(file) \in Nat /\ End = Len(file) + 1
  BY DEF End
<1>2. q \in p .. End /\ (q # End => file[q] = Node)
  BY NextCellIs
<1>3. q \in 1 .. End
  BY <1>1, <1>2
<1>4. Valid(q) => Behind(q) \in 1 .. End /\ q + 2 <= Behind(q) /\ q # End
  BY <1>3, BehindIs DEF Valid
<1> HIDE DEF End
<1> QED
  BY <1>1, <1>2, <1>3, <1>4

LEMMA StartsStepIs ==
    ASSUME NEW g, NEW p, NEW q, q = NextCell(Node, p)
    PROVE  /\ ~Valid(q) => StartsStep(g, p) = <<>>
           /\ Valid(q) => StartsStep(g, p) = <<q>> \o g[Behind(q)]
  BY DEF StartsStep, Valid, Behind

LEMMA StartsExist == ASSUME file \in Seq(Cell) PROVE \E g : Starts(1, g)
<1>0. Len(file) \in Nat /\ End = Len(file) + 1 /\ End \in Nat \ {0}
  BY DEF End
<1> DEFINE Bad == {k \in 0 .. Len(file) : ~\E g : Starts(End - k, g)}
<1>1. SUFFICES ASSUME Bad # {} PROVE FALSE
  <2>1. Len(file) \in 0 .. Len(file) /\ End - Len(file) = 1
    BY <1>0
  <2>2. Bad = {} => \E g : Starts(End - Len(file), g)
    BY <2>1
  <2> QED
    BY <2>1, <2>2
<1>2. PICK k \in Bad : \A j \in Bad : k <= j
  <2>1. Bad \subseteq Nat
    BY <1>0
  <2> HIDE DEF Bad
  <2> QED
    BY <1>1, <2>1, LeastOf
<1> DEFINE b == End - k
<1>3. k \in 0 .. Len(file) /\ b \in 1 .. End /\ ~\E g : Starts(b, g)
  BY <1>0, <1>2
<1>4. CASE k = 0
  <2> DEFINE h == [p \in End .. End |-> <<>>]
  <2>1. b = End /\ End .. End = {End} /\ h[End] = <<>>
    BY <1>0, <1>3, <1>4
  <2>2. StartsStep(h, End) = <<>>
    <3>1. NextCell(Node, End) \in End .. End
      BY <1>0, <1>3, <2>1, NextCellIs
    <3> QED
      BY <2>1, <3>1 DEF StartsStep
  <2>3. h = [p \in End .. End |-> StartsStep(h, p)]
    <3> HIDE DEF h
    <3>1. h = [p \in End .. End |-> h[p]]
      BY DEF h
    <3> QED
      BY <2>1, <2>2, <3>1
  <2>4. Starts(End, h)
    BY <2>3 DEF Starts
  <2> QED
    BY <1>3, <2>1, <2>4
<1>5. CASE k # 0
  <2>1. k - 1 \in 0 .. Len(file) /\ End - (k - 1) = b + 1 /\ ~(k <= k - 1)
    BY <1>0, <1>3, <1>5
  <2>2. k - 1 \notin Bad
    <3> HIDE DEF Bad
    <3> QED
      BY <1>2, <2>1
  <2>3. PICK g : Starts(b + 1, g)
    BY <2>1, <2>2
  <2> DEFINE h == [p \in b .. End |-> IF p = b THEN StartsStep(g, b) ELSE g[p]]
  <2>4. b < End /\ b \in Nat \ {0}
    BY <1>0, <1>3, <1>5
  <2>5. \A p \in b + 1 .. End : h[p] = g[p]
    BY <1>0, <2>4
  <2>6. ASSUME NEW p \in b .. End PROVE StartsStep(h, p) = StartsStep(g, p)
    <3>1. PICK q : q = NextCell(Node, p)
      OBVIOUS
    <3>2. p \in 1 .. End
      BY <1>0, <2>4
    <3>3. CASE ~Valid(q)
      BY <3>1, <3>3, StartsStepIs
    <3>4. CASE Valid(q)
      <4>1. Behind(q) \in 1 .. End /\ p < Behind(q)
        BY <3>1, <3>2, <3>4, NextRecordIs
      <4>2. Behind(q) \in b + 1 .. End
        BY <1>0, <2>4, <4>1
      <4> HIDE DEF h
      <4> QED
        BY <4>2, <2>5, <3>1, <3>4, StartsStepIs
    <3> QED
      BY <3>3, <3>4
  <2>7. ASSUME NEW p \in b .. End PROVE h[p] = StartsStep(h, p)
    <3>1. CASE p = b
      BY <3>1, <1>0, <2>4, <2>6
    <3>2. CASE p # b
      <4>1. p \in b + 1 .. End
        BY <3>2, <1>0, <2>4
      <4>2. h[p] = g[p] /\ g[p] = StartsStep(g, p)
        BY <4>1, <2>3, <2>5 DEF Starts
      <4> QED
        BY <4>2, <2>6
    <3> QED
      BY <3>1, <3>2
  <2>8. h = [p \in b .. End |-> h[p]]
    OBVIOUS
  <2>9. Starts(b, h)
    <3> HIDE DEF h
    <3> QED
      BY <2>7, <2>8 DEF Starts
  <2> QED
    BY <1>3, <2>9
<1> QED
  BY <1>4, <1>5

\* What such a list is: each of its places holds a record the parser takes, none of
\* them begins within another, and the search from the end of one, or from where the
\* list begins, leads to another or to none that is well formed.
Chain(s, p) ==
    /\ s \in Seq(Nat)
    /\ \A k \in DOMAIN s : /\ Valid(s[k]) /\ file[s[k]] = Node
                           /\ p <= s[k] /\ s[k] <= Len(file)
    /\ \A k, m \in DOMAIN s : k < m => Behind(s[k]) <= s[m]
    /\ \A k \in DOMAIN s : Valid(NextCell(Node, Behind(s[k]))) =>
           \E m \in DOMAIN s : s[m] = NextCell(Node, Behind(s[k]))
    /\ Valid(NextCell(Node, p)) => \E m \in DOMAIN s : s[m] = NextCell(Node, p)

LEMMA ChainGrows ==
    ASSUME file \in Seq(Cell), NEW p \in 1 .. End, NEW q, q = NextCell(Node, p), Valid(q),
           NEW t, Chain(t, Behind(q))
    PROVE  Chain(<<q>> \o t, p)
<1>1. /\ q \in p .. End /\ file[q] = Node /\ q <= Len(file) /\ q < Behind(q)
      /\ Behind(q) \in 1 .. End /\ q \in Nat /\ p \in Nat /\ Len(file) \in Nat
  BY NextRecordIs
<1> DEFINE s == <<q>> \o t
<1>2. /\ t \in Seq(Nat) /\ s \in Seq(Nat) /\ Len(s) = Len(t) + 1 /\ s[1] = q
      /\ \A k \in 1 .. Len(t) : s[k + 1] = t[k]
      /\ DOMAIN s = 1 .. Len(s) /\ DOMAIN t = 1 .. Len(t) /\ Len(t) \in Nat
  BY <1>1 DEF Chain
<1> HIDE DEF s
<1>3. \A k \in DOMAIN s : k = 1 \/ (k - 1 \in DOMAIN t /\ s[k] = t[k - 1] /\ k # 1)
  <2>1. ASSUME NEW k \in DOMAIN s, k # 1 PROVE k - 1 \in DOMAIN t /\ s[k] = t[k - 1]
    <3>1. k - 1 \in 1 .. Len(t) /\ (k - 1) + 1 = k
      BY <1>2, <2>1
    <3> QED
      BY <3>1, <1>2
  <2> QED
    BY <2>1
<1>4. \A k \in DOMAIN t : \E m \in DOMAIN s : s[m] = t[k]
  <2>1. \A k \in DOMAIN t : k + 1 \in DOMAIN s /\ s[k + 1] = t[k]
    BY <1>2
  <2> QED
    BY <2>1
<1>5. ASSUME NEW k \in DOMAIN s
      PROVE  /\ Valid(s[k]) /\ file[s[k]] = Node /\ p <= s[k] /\ s[k] <= Len(file)
             /\ Valid(NextCell(Node, Behind(s[k]))) =>
                    \E m \in DOMAIN s : s[m] = NextCell(Node, Behind(s[k]))
  <2>1. CASE k = 1
    <3>1. s[k] = q
      BY <2>1, <1>2
    <3>2. Valid(NextCell(Node, Behind(q))) =>
              \E m \in DOMAIN t : t[m] = NextCell(Node, Behind(q))
      BY DEF Chain
    <3> QED
      BY <3>1, <3>2, <1>1, <1>4
  <2>2. CASE k # 1
    <3>1. PICK j \in DOMAIN t : s[k] = t[j]
      BY <2>2, <1>3
    <3>2. /\ Valid(t[j]) /\ file[t[j]] = Node /\ Behind(q) <= t[j] /\ t[j] <= Len(file)
          /\ t[j] \in Nat
      BY <1>2 DEF Chain
    <3>3. Valid(NextCell(Node, Behind(t[j]))) =>
              \E m \in DOMAIN t : t[m] = NextCell(Node, Behind(t[j]))
      BY DEF Chain
    <3> QED
      BY <3>1, <3>2, <3>3, <1>1, <1>4
  <2> QED
    BY <2>1, <2>2
<1>6. ASSUME NEW k \in DOMAIN s, NEW m \in DOMAIN s, k < m PROVE Behind(s[k]) <= s[m]
  <2>1. m # 1 /\ m - 1 \in DOMAIN t /\ s[m] = t[m - 1]
    BY <1>2, <1>3, <1>6
  <2>2. CASE k = 1
    BY <2>1, <2>2, <1>2 DEF Chain
  <2>3. CASE k # 1
    <3>1. k - 1 \in DOMAIN t /\ s[k] = t[k - 1] /\ k - 1 < m - 1
      BY <2>1, <2>3, <1>2, <1>3, <1>6
    <3> QED
      BY <3>1, <2>1 DEF Chain
  <2> QED
    BY <2>2, <2>3
<1>7. \E m \in DOMAIN s : s[m] = q
  BY <1>2
<1> QED
  BY <1>2, <1>5, <1>6, <1>7 DEF Chain, s

LEMMA StartsChain ==
    ASSUME file \in Seq(Cell), NEW g, Starts(1, g)
    PROVE  \A p \in 1 .. End : g[p] = StartsStep(g, p) /\ Chain(g[p], p)
<1>0. Len(file) \in Nat /\ End = Len(file) + 1 /\ End \in Nat \ {0}
  BY DEF End
<1>1. \A p \in 1 .. End : g[p] = StartsStep(g, p)
  BY DEF Starts
<1> DEFINE Bad == {k \in 0 .. Len(file) : ~Chain(g[End - k], End - k)}
<1>2. SUFFICES ASSUME Bad # {} PROVE FALSE
  <2>1. ASSUME NEW p \in 1 .. End, Bad = {} PROVE Chain(g[p], p)
    <3>1. End - p \in 0 .. Len(file) /\ End - (End - p) = p
      BY <1>0
    <3>2. Chain(g[End - (End - p)], End - (End - p))
      BY <2>1, <3>1
    <3> QED
      BY <3>1, <3>2
  <2> QED
    BY <1>1, <2>1
<1>3. PICK k \in Bad : \A j \in Bad : k <= j
  <2>1. Bad \subseteq Nat
    BY <1>0
  <2> HIDE DEF Bad
  <2> QED
    BY <1>2, <2>1, LeastOf
<1>4. PICK b \in 1 .. End : b = End - k /\ k \in 0 .. Len(file) /\ ~Chain(g[b], b)
  BY <1>0, <1>3
<1>5. ASSUME NEW p \in 1 .. End, p > b PROVE Chain(g[p], p)
  <2>1. End - p \in 0 .. Len(file) /\ End - (End - p) = p /\ ~(k <= End - p)
    BY <1>0, <1>4, <1>5
  <2>2. End - p \notin Bad
    <3> HIDE DEF Bad
    <3> QED
      BY <1>3, <2>1
  <2>3. Chain(g[End - (End - p)], End - (End - p))
    BY <2>1, <2>2
  <2> QED
    BY <2>1, <2>3
<1>6. PICK q : q = NextCell(Node, b)
  OBVIOUS
<1>7. CASE ~Valid(q)
  <2>1. g[b] = <<>>
    BY <1>1, <1>6, <1>7, StartsStepIs
  <2>2. Chain(<<>>, b)
    BY <1>6, <1>7 DEF Chain
  <2> QED
    BY <1>4, <2>1, <2>2
<1>8. CASE Valid(q)
  <2>1. Behind(q) \in 1 .. End /\ b < Behind(q) /\ g[b] = <<q>> \o g[Behind(q)]
    BY <1>1, <1>6, <1>8, NextRecordIs, StartsStepIs
  <2>2. Chain(g[Behind(q)], Behind(q))
    BY <1>5, <2>1
  <2> QED
    BY <1>4, <1>6, <1>8, <2>1, <2>2, ChainGrows
<1> QED
  BY <1>7, <1>8

\* The list RecordStarts takes from the file is such a chain, from the header on.
LEMMA RecordsChain ==
    ASSUME file \in Seq(Cell)
    PROVE  \E g : /\ RecordStarts = g[AfterHeader]
                 /\ \A p \in 1 .. End : g[p] = StartsStep(g, p) /\ Chain(g[p], p)
<1> DEFINE from == CHOOSE g : Starts(1, g)
<1>1. RecordStarts = from[AfterHeader]
  BY DEF RecordStarts, Starts, StartsStep
<1>2. Starts(1, from)
  BY StartsExist
<1> HIDE DEF from
<1> QED
  BY <1>1, <1>2, StartsChain

-----------------------------------------------------------------------------
\* Where the cursor stands behind the i-th node, and before the first.
Stop(i) == IF i = 0 THEN AfterHeader ELSE Data(doc[i].start) + doc[i].decoded

\* The node is the first the parser found behind the one before it.
NodeFound(i) ==
    /\ doc[i].start = NextCell(Node, Stop(i - 1)) /\ Valid(doc[i].start)
    /\ doc[i].start \in 1 .. End
    /\ doc[i].declared = HeadOf(doc[i].start).declared
    /\ doc[i].decoded \in 0 .. doc[i].declared

\* What the parser would take next.
Ahead == NextCell(Node, Stop(Len(doc)))

WInv ==
    /\ Inv
    /\ file \in Seq(Cell) /\ status \in 0 .. 1
    /\ \A i \in DOMAIN doc : NodeFound(i)
    /\ phase \in {"load", "header"} => doc = <<>>
    /\ phase = "parse" => pos = Stop(Len(doc))
    /\ phase \in {"build", "analyze", "faulted"} => Ahead = End
    /\ phase = "out" => (status = 0 => Ahead = End) /\ ~Valid(Ahead)

LEMMA StopsInFile ==
    ASSUME file \in Seq(Cell), IsDocument, \A i \in DOMAIN doc : NodeFound(i)
    PROVE  /\ \A i \in 0 .. Len(doc) : Stop(i) \in 1 .. End
           /\ DOMAIN doc = 1 .. Len(doc) /\ Len(doc) \in Nat
<1>1. DOMAIN doc = 1 .. Len(doc) /\ Len(doc) \in Nat
  BY DEF IsDocument
<1>2. ASSUME NEW i \in 1 .. Len(doc) PROVE Stop(i) \in 1 .. End
  <2>1. PICK q \in 1 .. End : q = doc[i].start
    BY <1>1 DEF NodeFound
  <2>2. /\ Valid(q) /\ doc[i].decoded \in 0 .. HeadOf(q).declared
        /\ Stop(i) = q + 2 + doc[i].decoded
    BY <1>1, <2>1 DEF NodeFound, Stop, Data
  <2>3. /\ q \in Nat /\ HeadOf(q).declared \in Nat
        /\ q + 2 + HeadOf(q).declared \in 1 .. End /\ End \in Nat
    <3>1. Len(file) + 1 \in Nat
      OBVIOUS
    <3> QED
      BY <2>2, <3>1, BehindIs DEF Behind, Data, End
  <2> HIDE DEF End
  <2> QED
    BY <2>2, <2>3
<1>3. Stop(0) \in 1 .. End
  BY AfterHeaderIs DEF Stop
<1> QED
  BY <1>1, <1>2, <1>3

\* What is read of a file that stays the same stays the same.
LEMMA SameFile ==
    ASSUME file' = file
    PROVE  /\ End' = End /\ AfterHeader' = AfterHeader
           /\ \A c, p : NextCell(c, p)' = NextCell(c, p)
           /\ \A q : Valid(q)' = Valid(q) /\ HeadOf(q)' = HeadOf(q)
<1>1. End' = End
  BY DEF End
<1>2. \A c, p : NextCell(c, p)' = NextCell(c, p)
  BY <1>1 DEF NextCell
<1>3. AfterHeader' = AfterHeader
  BY <1>1, <1>2 DEF AfterHeader
<1>4. \A q : HeadOf(q)' = HeadOf(q)
  BY DEF HeadOf
<1>5. \A q : Valid(q)' = Valid(q)
  BY <1>1, <1>4 DEF Valid, HasHead, DataFits, Data
<1> QED
  BY <1>1, <1>2, <1>3, <1>4, <1>5

\* The nodes already there stay as they are found while the document is kept, or
\* grows at its end.
LEMMA SameNodes ==
    ASSUME file' = file, IsDocument, \A i \in DOMAIN doc : NodeFound(i),
           \A i \in DOMAIN doc : doc'[i] = doc[i]
    PROVE  /\ \A i \in 0 .. Len(doc) : Stop(i)' = Stop(i)
           /\ \A i \in DOMAIN doc : NodeFound(i)'
<1>1. DOMAIN doc = 1 .. Len(doc) /\ Len(doc) \in Nat
  BY DEF IsDocument
<1>2. \A i \in 0 .. Len(doc) : Stop(i)' = Stop(i)
  BY <1>1, SameFile DEF Stop, Data
<1>3. ASSUME NEW i \in DOMAIN doc PROVE NodeFound(i)'
  <2>1. NodeFound(i) /\ doc'[i] = doc[i] /\ i - 1 \in 0 .. Len(doc)
    BY <1>1
  <2>2. Stop(i - 1)' = Stop(i - 1)
    BY <1>2, <2>1
  <2> QED
    BY <2>1, <2>2, SameFile DEF NodeFound
<1> QED
  BY <1>2, <1>3

LEMMA WInvInit == Init => WInv
<1> SUFFICES ASSUME Init PROVE WInv
  OBVIOUS
<1>1. file \in Seq(Cell) /\ doc = <<>> /\ phase = "load" /\ status = 1
  BY FileAssumption DEF Init
<1> QED
  BY <1>1, InvInit DEF WInv

LEMMA WInvStep == WInv /\ [Next]_vars => WInv'
<1> SUFFICES ASSUME WInv, [Next]_vars PROVE WInv'
  OBVIOUS
<1>1. Inv' /\ Inv
  BY InvStep DEF WInv
<1>2. IsDocument /\ file \in Seq(Cell) /\ \A i \in DOMAIN doc : NodeFound(i)
  BY <1>1 DEF WInv, Inv
<1>3. file' = file /\ file' \in Seq(Cell)
  <2>1. file' = file
    BY DEF Next, Advance, LoadFile, LoadFails, ConsumeHeader, ParseNode, ParseFails,
           ParseDone, BuildCatalog, EvaluateNode, EvaluateFault, Finish, Out, Ended, vars
  <2> QED
    BY <1>2, <2>1
<1>4. status' \in 0 .. 1
  BY DEF WInv, Next, Advance, LoadFile, LoadFails, ConsumeHeader, ParseNode, ParseFails,
         ParseDone, BuildCatalog, EvaluateNode, EvaluateFault, Finish, Out, Ended, vars
<1>5. DOMAIN doc = 1 .. Len(doc) /\ Len(doc) \in Nat
  BY <1>2, StopsInFile
<1>6. doc' = doc =>
          /\ \A i \in DOMAIN doc' : NodeFound(i)'
          /\ Stop(Len(doc))' = Stop(Len(doc)) /\ Ahead' = Ahead
          /\ End' = End /\ Valid(Ahead)' = Valid(Ahead)
  <2> SUFFICES ASSUME doc' = doc
               PROVE  /\ \A i \in DOMAIN doc' : NodeFound(i)'
                      /\ Stop(Len(doc))' = Stop(Len(doc)) /\ Ahead' = Ahead
                      /\ End' = End /\ Valid(Ahead)' = Valid(Ahead)
    OBVIOUS
  <2>1. /\ \A i \in 0 .. Len(doc) : Stop(i)' = Stop(i)
        /\ \A i \in DOMAIN doc : NodeFound(i)'
    BY <1>2, <1>3, SameNodes
  <2>2. Len(doc) \in 0 .. Len(doc)
    BY <1>5
  <2>3. Stop(Len(doc))' = Stop(Len(doc))
    BY <2>1, <2>2
  <2>4. Ahead' = Ahead
    BY <2>3, <1>3, SameFile DEF Ahead
  <2> QED
    BY <2>1, <2>3, <2>4, <1>3, SameFile
<1>7. CASE LoadFile \/ LoadFails
  BY <1>1, <1>3, <1>4, <1>6, <1>7 DEF LoadFile, LoadFails, WInv
<1>8. CASE ConsumeHeader
  <2>1. doc = <<>> /\ Len(doc) = 0 /\ pos' = AfterHeader /\ phase' = "parse" /\ doc' = doc
    BY <1>8 DEF ConsumeHeader, WInv
  <2>2. Stop(0) = AfterHeader
    BY DEF Stop
  <2>3. pos' = Stop(Len(doc))'
    BY <1>6, <2>1, <2>2
  <2> QED
    BY <1>1, <1>3, <1>4, <1>6, <2>1, <2>3 DEF WInv
<1>9. CASE ParseNode
  <2>1. PICK q : q = Record
    OBVIOUS
  <2>2. /\ phase = "parse" /\ phase' = "parse" /\ q < End /\ HasHead(q) /\ DataFits(q)
        /\ doc' = Append(doc, ParsedNode(q))
        /\ pos' = Data(q) + ParsedNode(q).decoded
    BY <1>9, <2>1 DEF ParseNode
  <2>3. /\ q = NextCell(Node, Stop(Len(doc))) /\ Stop(Len(doc)) \in 1 .. End
    <3>1. pos = Stop(Len(doc)) /\ Len(doc) \in 0 .. Len(doc)
      BY <1>5, <2>2 DEF WInv
    <3> QED
      BY <1>2, <2>1, <3>1, StopsInFile DEF Record
  <2>4. q \in 1 .. End
    BY <1>2, <2>3, NextRecordIs
  <2>5. Valid(q)
    <3>1. q # End
      BY <2>2, <2>4 DEF End
    <3> QED
      BY <2>2, <3>1 DEF Valid
  <2>6. /\ Len(doc') = Len(doc) + 1 /\ doc'[Len(doc) + 1] = ParsedNode(q)
        /\ \A i \in DOMAIN doc : doc'[i] = doc[i]
        /\ \A i \in DOMAIN doc' : i \in DOMAIN doc \/ i = Len(doc) + 1
    <3>1. PICK S : doc \in Seq(S)
      BY <1>2 DEF IsDocument
    <3> QED
      BY <2>2, <3>1
  <2>7. PICK m, n, e :
            m \in Nat /\ n \in Nat
            /\ m = Len(doc) /\ n = m + 1 /\ e = ParsedNode(q) /\ n - 1 = m /\ n # 0
    <3>1. /\ Len(doc) \in Nat /\ Len(doc) + 1 \in Nat
          /\ (Len(doc) + 1) - 1 = Len(doc) /\ Len(doc) + 1 # 0
      BY <1>5
    <3> QED
      BY <3>1, Zenon
  <2>8. /\ \A i \in DOMAIN doc : NodeFound(i)'
        /\ Stop(m)' = Stop(m) /\ Stop(n - 1)' = Stop(n - 1)
    <3>1. /\ \A i \in 0 .. Len(doc) : Stop(i)' = Stop(i)
          /\ \A i \in DOMAIN doc : NodeFound(i)'
      BY <1>2, <1>3, <2>6, SameNodes
    <3>2. m \in 0 .. Len(doc) /\ n - 1 \in 0 .. Len(doc)
      BY <2>7
    <3> QED
      BY <3>1, <3>2
  <2>9. /\ e.start = q /\ e.declared = HeadOf(q).declared /\ e.decoded \in 0 .. e.declared
    <3>1. HeadOf(q).declared \in Nat
      BY <1>2, <2>4, <2>5, BehindIs
    <3>2. DecodedLength(Data(q), HeadOf(q).declared) \in 0 .. HeadOf(q).declared
      BY <3>1, DecodedShorter
    <3> QED
      BY <2>7, <3>2 DEF ParsedNode
  <2>10. doc'[n] = e /\ Len(doc') = n
    BY <2>6, <2>7
  <2>11. NodeFound(n)'
    <3>1. q = NextCell(Node, Stop(n - 1))
      BY <2>3, <2>7
    <3>2. /\ q = NextCell(Node, Stop(n - 1))'
      BY <3>1, <2>8, <1>3, SameFile
    <3>3. /\ Valid(q)' /\ q \in 1 .. End' /\ e.declared = HeadOf(q)'.declared
      BY <2>4, <2>5, <2>9, <1>3, SameFile
    <3> QED
      BY <2>9, <2>10, <3>2, <3>3 DEF NodeFound
  <2>12. pos' = Stop(Len(doc))'
    <3>1. pos' = q + 2 + e.decoded
      BY <2>2, <2>7 DEF Data
    <3>2. Stop(n)' = q + 2 + e.decoded
      BY <2>7, <2>9, <2>10 DEF Stop, Data
    <3> QED
      BY <3>1, <3>2, <2>10
  <2>13. \A i \in DOMAIN doc' : NodeFound(i)'
    BY <2>6, <2>7, <2>8, <2>11
  <2> QED
    BY <1>1, <1>3, <1>4, <2>2, <2>12, <2>13 DEF WInv
<1>10. CASE ParseFails
  <2>1. /\ phase = "parse" /\ phase' = "out" /\ doc' = doc /\ status' = status
        /\ ~Valid(Record) /\ status = 1
    BY <1>1, <1>10 DEF ParseFails, Valid, Inv
  <2>2. Record = Ahead
    BY <2>1 DEF Record, Ahead, WInv
  <2> QED
    BY <1>1, <1>3, <1>4, <1>6, <2>1, <2>2 DEF WInv
<1>11. CASE ParseDone
  <2>1. /\ phase = "parse" /\ phase' = "build" /\ doc' = doc /\ Record = End
    BY <1>11 DEF ParseDone
  <2>2. Record = Ahead
    BY <2>1 DEF Record, Ahead, WInv
  <2> QED
    BY <1>1, <1>3, <1>4, <1>6, <2>1, <2>2 DEF WInv
<1>12. CASE BuildCatalog \/ EvaluateNode \/ EvaluateFault
  BY <1>1, <1>3, <1>4, <1>6, <1>12 DEF BuildCatalog, EvaluateNode, EvaluateFault, WInv
<1>13. CASE Finish
  <2>1. phase = "analyze" /\ phase' = "out" /\ doc' = doc /\ Ahead = End
    BY <1>13 DEF Finish, WInv
  <2>2. ~Valid(Ahead)
    BY <2>1 DEF Valid
  <2> QED
    BY <1>1, <1>3, <1>4, <1>6, <2>1, <2>2 DEF WInv
<1>14. CASE Out
  BY <1>1, <1>3, <1>4, <1>6, <1>14 DEF Out, WInv
<1>15. CASE Ended \/ UNCHANGED vars
  BY <1>1, <1>3, <1>4, <1>6, <1>15 DEF Ended, vars, WInv
<1> QED
  BY <1>7, <1>8, <1>9, <1>10, <1>11, <1>12, <1>13, <1>14, <1>15 DEF Next, Advance

\* That what was found is in the file as it was read, and where the program is
\* with it, always holds.
THEOREM WalkInvariant == Spec => []WInv
<1> QED
  BY WInvInit, WInvStep, PTL DEF Spec

-----------------------------------------------------------------------------
\* An item goes from the front of one sequence to the end of another.
LEMMA MovesOver ==
    ASSUME NEW f, NEW n \in Nat, NEW t \in Seq(Nat), \A j \in 1 .. n + 1 : f[j] \in Nat
    PROVE  [j \in 1 .. n |-> f[j]] \o (<<f[n + 1]>> \o t)
              = [j \in 1 .. n + 1 |-> f[j]] \o t
<1> DEFINE a == [j \in 1 .. n |-> f[j]]
           b == [j \in 1 .. n + 1 |-> f[j]]
<1>1. /\ a \in Seq(Nat) /\ Len(a) = n /\ \A j \in 1 .. n : a[j] = f[j]
  <2>1. a \in [1 .. n -> Nat]
    OBVIOUS
  <2> QED
    BY <2>1
<1>2. /\ b \in Seq(Nat) /\ Len(b) = n + 1 /\ \A j \in 1 .. n + 1 : b[j] = f[j]
  <2>1. b \in [1 .. n + 1 -> Nat]
    OBVIOUS
  <2> QED
    BY <2>1
<1>3. f[n + 1] \in Nat /\ <<f[n + 1]>> \in Seq(Nat)
  OBVIOUS
<1> HIDE DEF a, b
<1>4. b = Append(a, f[n + 1])
  <2>1. PICK c : c = Append(a, f[n + 1])
    OBVIOUS
  <2>2. c \in Seq(Nat) /\ Len(c) = n + 1 /\ \A j \in 1 .. n + 1 : c[j] = f[j]
    BY <1>1, <1>3, <2>1
  <2>3. b \in [1 .. n + 1 -> Nat] /\ c \in [1 .. n + 1 -> Nat]
    <3>1. b \in [1 .. Len(b) -> Nat] /\ c \in [1 .. Len(c) -> Nat]
      BY <1>2, <2>2, LenProperties
    <3> QED
      BY <1>2, <2>2, <3>1
  <2>4. b = c
    <3>1. PICK D : D = 1 .. n + 1
      OBVIOUS
    <3>2. b \in [D -> Nat] /\ c \in [D -> Nat] /\ \A j \in D : b[j] = c[j]
      BY <1>2, <2>2, <2>3, <3>1
    <3> QED
      BY <3>2
  <2> QED
    BY <2>1, <2>4
<1>5. b = a \o <<f[n + 1]>>
  BY <1>1, <1>3, <1>4, AppendIsConcat
<1>6. b \o t = a \o (<<f[n + 1]>> \o t)
  BY <1>1, <1>3, <1>5, ConcatAssociative
<1> QED
  BY <1>6 DEF a, b

\* Node by node, when no payload holds an escape, the records of the file are those
\* of the document and the records behind them.
LEMMA PlainNodesAreRecords ==
    ASSUME WInv, \A i \in DOMAIN doc : doc[i].decoded = doc[i].declared,
           NEW g, \A p \in 1 .. End : g[p] = StartsStep(g, p) /\ Chain(g[p], p)
    PROVE  \A i \in 0 .. Len(doc) :
               g[AfterHeader] = [j \in 1 .. i |-> doc[j].start] \o g[Stop(i)]
<1>1. /\ IsDocument /\ file \in Seq(Cell) /\ \A i \in DOMAIN doc : NodeFound(i)
      /\ \A i \in 0 .. Len(doc) : Stop(i) \in 1 .. End
      /\ DOMAIN doc = 1 .. Len(doc) /\ Len(doc) \in Nat
  BY StopsInFile DEF WInv, Inv
<1> DEFINE Bad == {i \in 0 .. Len(doc) :
                      g[AfterHeader] # [j \in 1 .. i |-> doc[j].start] \o g[Stop(i)]}
<1>2. SUFFICES ASSUME Bad # {} PROVE FALSE
  OBVIOUS
<1>3. PICK b \in Bad : \A j \in Bad : b <= j
  <2>1. Bad \subseteq Nat
    BY <1>1
  <2> HIDE DEF Bad
  <2> QED
    BY <1>2, <2>1, LeastOf
<1>4. \A i \in 0 .. Len(doc) : g[Stop(i)] \in Seq(Nat)
  BY <1>1 DEF Chain
<1>5. CASE b = 0
  <2>1. Stop(0) = AfterHeader
    BY DEF Stop
  <2>2. [j \in 1 .. 0 |-> doc[j].start] = <<>>
    OBVIOUS
  <2>3. 0 \in 0 .. Len(doc)
    BY <1>1
  <2>4. g[AfterHeader] = <<>> \o g[Stop(0)]
    BY <1>4, <2>1, <2>3
  <2> QED
    BY <1>3, <1>5, <2>2, <2>4
<1>6. CASE b # 0
  <2>1. PICK a \in Nat : b = a + 1 /\ a = b - 1 /\ a \in 0 .. Len(doc) /\ b \in 1 .. Len(doc)
    <3>1. /\ b = (b - 1) + 1 /\ b - 1 \in 0 .. Len(doc) /\ b \in 1 .. Len(doc) /\ b - 1 \in Nat
      BY <1>1, <1>6
    <3> QED
      BY <3>1, Zenon
  <2>2. g[AfterHeader] = [j \in 1 .. a |-> doc[j].start] \o g[Stop(a)]
    <3>1. a \notin Bad
      <4>1. ~(b <= a)
        BY <2>1
      <4> HIDE DEF Bad
      <4> QED
        BY <4>1, <1>3
    <3> QED
      BY <2>1, <3>1
  <2>3. PICK q : q = doc[b].start
    OBVIOUS
  <2>4. q = NextCell(Node, Stop(a)) /\ Valid(q)
    BY <1>1, <2>1, <2>3 DEF NodeFound
  <2>5. Behind(q) = Stop(b)
    BY <1>1, <1>6, <2>1, <2>3 DEF NodeFound, Behind, Stop
  <2>6. g[Stop(a)] = <<q>> \o g[Stop(b)]
    <3>1. StartsStep(g, Stop(a)) = <<q>> \o g[Behind(q)]
      BY <2>4, StartsStepIs
    <3>2. g[Stop(a)] = StartsStep(g, Stop(a))
      BY <1>1, <2>1
    <3> QED
      BY <2>5, <3>1, <3>2
  <2>7. \A j \in 1 .. b : doc[j].start \in Nat
    <3>1. End \in Nat
      BY <1>1 DEF End
    <3>2. \A j \in 1 .. b : j \in DOMAIN doc
      BY <1>1, <2>1
    <3>3. \A j \in 1 .. b : doc[j].start \in 1 .. End
      BY <1>1, <3>2 DEF NodeFound
    <3> HIDE DEF End
    <3> QED
      BY <3>1, <3>3
  <2>8. PICK f : f = [j \in 1 .. b |-> doc[j].start]
    OBVIOUS
  <2>9. /\ \A j \in 1 .. a + 1 : f[j] = doc[j].start /\ f[j] \in Nat
        /\ f[a + 1] = q
    BY <2>1, <2>3, <2>7, <2>8
  <2>10. /\ [j \in 1 .. a |-> doc[j].start] = [j \in 1 .. a |-> f[j]]
         /\ [j \in 1 .. b |-> doc[j].start] = [j \in 1 .. a + 1 |-> f[j]]
    BY <2>1, <2>9
  <2>11. g[Stop(b)] \in Seq(Nat)
    BY <1>4, <2>1
  <2>12. [j \in 1 .. a |-> f[j]] \o (<<f[a + 1]>> \o g[Stop(b)])
            = [j \in 1 .. a + 1 |-> f[j]] \o g[Stop(b)]
    BY <2>9, <2>11, MovesOver
  <2> QED
    BY <1>3, <2>2, <2>6, <2>9, <2>10, <2>12
<1> QED
  BY <1>5, <1>6

LEMMA PlainHolds == WInv => PlainFileExact
<1> SUFFICES ASSUME WInv, Parsed, \A i \in DOMAIN doc : doc[i].decoded = doc[i].declared
             PROVE  [i \in DOMAIN doc |-> doc[i].start] = RecordStarts
  BY DEF PlainFileExact
<1>1. /\ IsDocument /\ file \in Seq(Cell) /\ \A i \in DOMAIN doc : NodeFound(i)
      /\ \A i \in 0 .. Len(doc) : Stop(i) \in 1 .. End
      /\ DOMAIN doc = 1 .. Len(doc) /\ Len(doc) \in Nat
  BY StopsInFile DEF WInv, Inv
<1>2. PICK g : /\ RecordStarts = g[AfterHeader]
               /\ \A p \in 1 .. End : g[p] = StartsStep(g, p) /\ Chain(g[p], p)
  BY <1>1, RecordsChain
<1>3. ~Valid(Ahead)
  BY DEF Parsed, WInv, Valid
<1>4. g[Stop(Len(doc))] = <<>>
  <2>1. Stop(Len(doc)) \in 1 .. End
    BY <1>1
  <2>2. StartsStep(g, Stop(Len(doc))) = <<>>
    BY <1>3, StartsStepIs DEF Ahead
  <2> QED
    BY <1>2, <2>1, <2>2
<1>5. RecordStarts = [j \in 1 .. Len(doc) |-> doc[j].start] \o <<>>
  <2>1. Len(doc) \in 0 .. Len(doc)
    BY <1>1
  <2>2. \A i \in 0 .. Len(doc) :
            g[AfterHeader] = [j \in 1 .. i |-> doc[j].start] \o g[Stop(i)]
    BY <1>2, PlainNodesAreRecords
  <2> QED
    BY <1>2, <1>4, <2>1, <2>2
<1>6. [j \in 1 .. Len(doc) |-> doc[j].start] \in Seq({doc[j].start : j \in 1 .. Len(doc)})
  BY <1>1
<1> QED
  BY <1>1, <1>5, <1>6

\* Without escapes the document is the records of the file (parse_node: cur->p goes
\* on behind the decoded length, which is then the declared one).
THEOREM PlainFilesAreRead == Spec => []PlainFileExact
<1> QED
  BY WInvInit, WInvStep, PlainHolds, PTL DEF Spec

-----------------------------------------------------------------------------
LEMMA AccountedHolds == WInv => RecordsAccounted
<1> SUFFICES ASSUME WInv PROVE RecordsAccounted
  OBVIOUS
<1>1. /\ IsDocument /\ file \in Seq(Cell) /\ \A i \in DOMAIN doc : NodeFound(i)
      /\ \A i \in 0 .. Len(doc) : Stop(i) \in 1 .. End
      /\ DOMAIN doc = 1 .. Len(doc) /\ Len(doc) \in Nat
  BY StopsInFile DEF WInv, Inv
<1>2. PICK rs : rs = RecordStarts
  OBVIOUS
<1>3. /\ Chain(rs, AfterHeader) /\ AfterHeader \in 1 .. End
      /\ \A q : IsRecord(q) <=> \E k \in DOMAIN rs : rs[k] = q
  <2>1. \E g : /\ RecordStarts = g[AfterHeader]
              /\ \A p \in 1 .. End : g[p] = StartsStep(g, p) /\ Chain(g[p], p)
    BY <1>1, RecordsChain
  <2>2. AfterHeader \in 1 .. End
    BY <1>1, AfterHeaderIs
  <2>3. Chain(rs, AfterHeader)
    BY <1>2, <2>1, <2>2
  <2> QED
    BY <1>2, <2>2, <2>3 DEF IsRecord
<1>4. Len(file) \in Nat /\ End = Len(file) + 1 /\ End \in Nat
  BY <1>1 DEF End
\* A node, where it begins and ends, and the cursor before and behind it.
<1>5. ASSUME NEW i \in DOMAIN doc
      PROVE  \E q \in 1 .. End, p \in 1 .. End :
                 /\ q = doc[i].start /\ p = Stop(i - 1) /\ q = NextCell(Node, p)
                 /\ Valid(q) /\ doc[i].declared = HeadOf(q).declared
                 /\ doc[i].declared \in Nat /\ doc[i].decoded \in 0 .. doc[i].declared
                 /\ i \in 1 .. Len(doc)
  <2>1. i \in 1 .. Len(doc) /\ i - 1 \in 0 .. Len(doc)
    BY <1>1
  <2>2. NodeFound(i) /\ Stop(i - 1) \in 1 .. End
    BY <1>1, <2>1
  <2>3. HeadOf(doc[i].start).declared \in Nat
    BY <1>1, <2>2, BehindIs DEF NodeFound
  <2> QED
    BY <2>1, <2>2, <2>3 DEF NodeFound
<1>6. ASSUME NEW i \in DOMAIN doc, Phantom(i), \A j \in 1 .. i - 1 : ~Phantom(j)
      PROVE  /\ i > 1
             /\ Data(doc[i - 1].start) + doc[i - 1].decoded <= doc[i].start
             /\ doc[i].start < Data(doc[i - 1].start) + doc[i - 1].declared
  <2>1. PICK q \in 1 .. End, p \in 1 .. End :
            /\ q = doc[i].start /\ p = Stop(i - 1) /\ q = NextCell(Node, p)
            /\ Valid(q) /\ i \in 1 .. Len(doc)
    BY <1>5
  <2>2. ~\E k \in DOMAIN rs : rs[k] = q
    BY <1>3, <1>6, <2>1 DEF Phantom
  <2>3. p <= q /\ q # End /\ file[q] = Node /\ \A r \in p .. Len(file) : file[r] = Node => q <= r
    <3>1. q \in p .. End
      BY <1>1, <2>1, NextCellIs
    <3>2. q # End
      BY <2>1 DEF Valid
    <3> QED
      BY <1>1, <1>4, <2>1, <3>1, <3>2, NextCellIs
  <2>4. i > 1
    <3>1. CASE i = 1
      <4>1. p = AfterHeader
        BY <2>1, <3>1 DEF Stop
      <4>2. \E m \in DOMAIN rs : rs[m] = q
        BY <1>3, <2>1, <4>1 DEF Chain
      <4> QED
        BY <2>2, <4>2
    <3> QED
      BY <2>1, <3>1
  <2>5. PICK j \in DOMAIN doc : j = i - 1 /\ j # 0 /\ j \in 1 .. i - 1
    <3>1. i - 1 \in DOMAIN doc /\ i - 1 # 0 /\ i - 1 \in 1 .. i - 1
      BY <1>1, <2>1, <2>4
    <3> QED
      BY <3>1, Zenon
  <2>6. PICK u \in 1 .. End :
            /\ u = doc[j].start /\ Valid(u) /\ doc[j].declared = HeadOf(u).declared
    BY <1>5
  <2>7. p = Data(doc[j].start) + doc[j].decoded
    BY <2>1, <2>5 DEF Stop
  <2>8. PICK k \in DOMAIN rs : rs[k] = u
    <3>1. ~Phantom(j)
      BY <1>6, <2>5
    <3> QED
      BY <3>1, <1>3, <2>6 DEF Phantom
  <2>9. PICK b \in 1 .. End : b = Behind(u) /\ p <= b
    <3>1. Behind(u) \in 1 .. End
      BY <1>1, <2>6, BehindIs
    <3>2. doc[j].declared \in Nat /\ doc[j].decoded \in 0 .. doc[j].declared
      BY <1>5
    <3>3. p <= Behind(u)
      BY <1>4, <2>6, <2>7, <3>2 DEF Behind, Data
    <3> QED
      BY <3>1, <3>3
  <2>10. q < b
    <3> SUFFICES ASSUME ~(q < b) PROVE FALSE
      OBVIOUS
    <3>1. PICK n : n = NextCell(Node, b)
      OBVIOUS
    <3>2. /\ n \in b .. End /\ (n # End => file[n] = Node)
          /\ \A r \in b .. Len(file) : file[r] = Node => n <= r
      BY <1>1, <3>1, NextCellIs
    <3>3. n <= q /\ n # End
      <4>1. q \in b .. Len(file)
        BY <1>4, <2>3
      <4>2. n <= q
        BY <2>3, <3>2, <4>1
      <4> QED
        BY <1>4, <3>2, <4>1, <4>2
    <3>4. n \in p .. Len(file)
      BY <1>4, <2>9, <3>2, <3>3
    <3>5. q <= n
      BY <2>3, <3>2, <3>3, <3>4
    <3>6. n = q
      BY <1>4, <3>2, <3>3, <3>5
    <3>7. \E m \in DOMAIN rs : rs[m] = NextCell(Node, Behind(rs[k]))
      BY <1>3, <2>1, <2>8, <2>9, <3>1, <3>6 DEF Chain
    <3> QED
      BY <2>2, <2>8, <2>9, <3>1, <3>6, <3>7
  <2> QED
    BY <2>1, <2>3, <2>4, <2>5, <2>6, <2>7, <2>9, <2>10 DEF Behind
<1>7. ASSUME Parsed, ~Failed, NEW k \in DOMAIN RecordStarts
      PROVE  \/ \E i \in DOMAIN doc : doc[i].start = RecordStarts[k]
             \/ \E i \in DOMAIN doc :
                    /\ Phantom(i)
                    /\ doc[i].start < RecordStarts[k]
                    /\ RecordStarts[k] < Data(doc[i].start) + doc[i].declared
  <2>1. Ahead = End
    BY <1>7 DEF Parsed, Failed, WInv
  <2>2. PICK r \in Nat : /\ r = RecordStarts[k] /\ r = rs[k] /\ Valid(r)
                         /\ file[r] = Node /\ AfterHeader <= r /\ r <= Len(file)
    BY <1>2, <1>3 DEF Chain
  <2>3. r \in 1 .. End
    BY <1>3, <1>4, <2>2
  <2>4. r < Stop(Len(doc))
    <3>1. PICK p \in 1 .. End : p = Stop(Len(doc))
      <4>1. Len(doc) \in 0 .. Len(doc)
        BY <1>1
      <4> QED
        BY <1>1, <4>1
    <3>2. CASE p <= r
      <4>1. r \in p .. Len(file)
        BY <1>4, <2>2, <3>2
      <4>2. NextCell(Node, p) <= r
        BY <1>1, <2>2, <4>1, NextCellIs
      <4>3. NextCell(Node, p) = End
        BY <2>1, <3>1 DEF Ahead
      <4> QED
        BY <1>4, <2>2, <4>2, <4>3
    <3> QED
      BY <1>4, <3>1, <3>2
  <2> DEFINE After == {i \in 0 .. Len(doc) : r < Stop(i)}
  <2>5. PICK i \in After : \A j \in After : i <= j
    <3>1. After \subseteq Nat
      BY <1>1
    <3>2. Len(doc) \in After
      BY <1>1, <2>4
    <3> HIDE DEF After
    <3> QED
      BY <3>1, <3>2, LeastOf
  <2>6. r < Stop(i) /\ i \in 0 .. Len(doc)
    BY <2>5
  <2>7. i # 0
    BY <1>3, <1>4, <2>2, <2>6 DEF Stop
  <2>8. i \in DOMAIN doc /\ i - 1 \in 0 .. Len(doc) /\ ~(i <= i - 1)
    BY <1>1, <2>6, <2>7
  <2>9. PICK q \in 1 .. End, p \in 1 .. End :
            /\ q = doc[i].start /\ p = Stop(i - 1) /\ q = NextCell(Node, p)
            /\ Valid(q) /\ doc[i].declared = HeadOf(q).declared
            /\ doc[i].declared \in Nat /\ doc[i].decoded \in 0 .. doc[i].declared
    BY <1>5, <2>8
  <2>10. p <= r
    <3>1. i - 1 \notin After
      <4> HIDE DEF After
      <4> QED
        BY <2>5, <2>8
    <3> QED
      BY <1>4, <2>2, <2>8, <2>9, <3>1
  <2>11. q <= r
    <3>1. r \in p .. Len(file)
      BY <1>4, <2>2, <2>10
    <3> QED
      BY <1>1, <2>2, <2>9, <3>1, NextCellIs
  <2>12. r < Behind(q) /\ r < Data(q) + doc[i].declared
    <3>1. r < q + 2 + doc[i].decoded
      BY <2>6, <2>7, <2>9 DEF Stop, Data
    <3>2. PICK d, l : d = doc[i].declared /\ l = doc[i].decoded
      OBVIOUS
    <3>3. d \in Nat /\ l \in 0 .. d /\ d = HeadOf(q).declared /\ q \in Nat
      BY <1>4, <2>9, <3>2
    <3>4. r < q + 2 + l
      BY <3>1, <3>2
    <3> HIDE DEF After
    <3>5. r < q + 2 + d
      BY <2>2, <3>3, <3>4
    <3>6. Behind(q) = q + 2 + d /\ Data(q) + doc[i].declared = q + 2 + d
      BY <3>2, <3>3 DEF Behind, Data
    <3> QED
      BY <3>5, <3>6
  <2>13. CASE q = r
    BY <2>2, <2>8, <2>9, <2>13
  <2>14. CASE q < r /\ Phantom(i)
    BY <2>2, <2>8, <2>9, <2>12, <2>14
  <2>15. CASE q < r /\ ~Phantom(i)
    <3>1. PICK j \in DOMAIN rs : rs[j] = q
      BY <1>3, <2>9, <2>15 DEF Phantom
    <3>2. /\ DOMAIN rs = 1 .. Len(rs) /\ k \in DOMAIN rs
          /\ \A m, n \in DOMAIN rs : m < n => Behind(rs[m]) <= rs[n]
      BY <1>2, <1>3, <1>7 DEF Chain
    <3>3. j # k
      BY <2>2, <2>15, <3>1
    <3>4. CASE j < k
      <4>1. Behind(q) <= r
        BY <2>2, <3>1, <3>2, <3>4
      <4>2. Behind(q) \in Nat
        BY <1>1, <1>4, <2>9, BehindIs
      <4> QED
        BY <2>2, <2>12, <4>1, <4>2
    <3>5. CASE k < j
      <4>1. Behind(r) <= q
        BY <2>2, <3>1, <3>2, <3>5
      <4>2. Behind(r) \in Nat /\ r + 2 <= Behind(r)
        BY <1>1, <1>4, <2>2, <2>3, BehindIs
      <4> QED
        BY <1>4, <2>2, <2>15, <4>1, <4>2
    <3> QED
      BY <3>2, <3>3, <3>4, <3>5
  <2> QED
    BY <1>4, <2>2, <2>11, <2>13, <2>14, <2>15
<1> QED
  BY <1>6, <1>7 DEF RecordsAccounted

\* With escapes, a node that is no record of the file begins in the rest of the payload
\* before it that was not decoded, and only such a node can hide a record
\* (parse_node: cur->p goes on behind the decoded length, short of the payload's end).
THEOREM RecordsAreAccounted == Spec => []RecordsAccounted
<1> QED
  BY WInvInit, WInvStep, AccountedHolds, PTL DEF Spec
=============================================================================
