--------------------------- MODULE MetaPackProofs ---------------------------
(***************************************************************************)
(* That the end of an EMIT is settled when it begins, that what it prints  *)
(* answers a whole TEMPLATE line, and that all packets of one row through  *)
(* one template's name are the same, for any names, texts and numbers, any *)
(* lines and any number of them.                                           *)
(***************************************************************************)
EXTENDS MetaPack, WellFoundedInduction, TLAPS

\* A template's columns are numbered from 1, wherever its line was cut.
Numbered(t) == \E n \in Nat : DOMAIN t.columns = 1 .. n /\ Len(t.columns) = n

\* While a packet is built, the columns behind its values have all been
\* supplied, none of them with a number.
SoFar == /\ Numbered(tmpl)
         /\ \E S : packet \in Seq(S)
         /\ Len(packet) <= Len(tmpl.columns)
         /\ \A j \in 1 .. Len(packet) : Supplied(j) /\ tmpl.columns[j].kind # "uint"

Inv == /\ \E S : book \in Seq(S)
       /\ \A i \in DOMAIN book : Numbered(book[i])
       /\ phase = "emit" => SoFar

-----------------------------------------------------------------------------
\* A set of numbers that is not empty has a least one.
LEMMA LeastNumber ==
    ASSUME NEW T, T \subseteq Nat, T # {}
    PROVE  \E i \in T : \A j \in T : i <= j
<1>1. IsWellFoundedOn(OpToRel(<, Nat), Nat)
  BY NatLessThanWellFounded
<1>2. PICK i \in T : \A j \in T : <<j, i>> \notin OpToRel(<, Nat)
  BY <1>1, WFMin
<1>3. \A j \in T : ~(j < i)
  BY <1>2 DEF OpToRel
<1> QED
  BY <1>3

\* The columns of a line are numbered, whatever ended its loop.
LEMMA ColumnsNumbered ==
    ASSUME NEW list \in ColumnLists
    PROVE  EndOfColumns(list) \in 1 .. Len(list) + 1
<1> DEFINE Bad == {TooLong, Malformed}
           T == {i \in 1 .. Len(list) + 1 : i <= Len(list) => list[i] \in Bad}
<1>1. Len(list) \in Nat
  BY TokenAssumption
<1>2. T \subseteq Nat /\ Len(list) + 1 \in T
  BY <1>1
<1>3. PICK i \in T : \A j \in T : i <= j
  BY <1>2, LeastNumber
<1>4. \A j \in 1 .. i - 1 : list[j] \notin Bad
  BY <1>1, <1>3
<1> QED
  BY <1>1, <1>3, <1>4 DEF EndOfColumns

\* What is found under a name is an item of the list.
LEMMA FirstIsItem ==
    ASSUME NEW S, NEW items \in Seq(S), NEW n, Found(items, n)
    PROVE  \E i \in DOMAIN items : First(items, n) = items[i]
<1> DEFINE places == {i \in DOMAIN items : items[i].name = n}
<1>1. places # {} /\ places \subseteq Nat
  BY DEF Found
<1>2. PICK i \in places : \A j \in places : i <= j
  BY <1>1, LeastNumber
<1> QED
  BY <1>1, <1>2 DEF First

-----------------------------------------------------------------------------
LEMMA InvInit == Init => Inv
<1> SUFFICES ASSUME Init PROVE Inv
  OBVIOUS
<1>1. book \in Seq({}) /\ DOMAIN book = {}
  BY DEF Init
<1> QED
  BY <1>1 DEF Init, Inv

\* A step that leaves the book alone and ends outside an EMIT.
LEMMA Outside ==
    ASSUME Inv, book' = book, phase' # "emit" PROVE Inv'
<1>1. \A i \in DOMAIN book : Numbered(book[i])'
  BY DEF Inv, Numbered
<1> QED
  BY <1>1 DEF Inv

LEMMA StoreTemplateKeeps ==
    ASSUME Inv, NEW n \in Name, NEW list \in ColumnLists, StoreTemplate(n, list)
    PROVE  Inv'
<1> DEFINE t == [name |-> n, columns |-> Columns(list)]
<1>1. phase' = "read" /\ book' = Append(book, t)
  BY DEF StoreTemplate, Line
<1>2. PICK S : book \in Seq(S)
  BY DEF Inv
<1>3. Numbered(t)
  <2>1. EndOfColumns(list) - 1 \in Nat
    BY ColumnsNumbered, TokenAssumption
  <2>2. /\ DOMAIN Columns(list) = 1 .. EndOfColumns(list) - 1
        /\ Len(Columns(list)) = EndOfColumns(list) - 1
    BY <2>1 DEF Columns
  <2> QED
    BY <2>1, <2>2 DEF Numbered
<1>4. book' \in Seq(S \cup {t})
  <2>1. book \in Seq(S \cup {t})
    BY <1>2
  <2> QED
    BY <1>1, <2>1
<1>5. \A i \in DOMAIN book' : book'[i] = t \/ (i \in DOMAIN book /\ book'[i] = book[i])
  BY <1>1, <1>2
<1>6. \A i \in DOMAIN book' : Numbered(book'[i])
  BY <1>3, <1>5 DEF Inv
<1> QED
  BY <1>1, <1>4, <1>6 DEF Inv, Numbered

LEMMA EmitBeginKeeps ==
    ASSUME Inv, NEW n \in Name, EmitBegin(n) PROVE Inv'
<1>1. PICK S : book \in Seq(S)
  BY DEF Inv
<1>2. PICK i \in DOMAIN book : First(book, n) = book[i]
  BY <1>1, FirstIsItem DEF EmitBegin
<1>3. Numbered(tmpl')
  BY <1>2 DEF EmitBegin, Inv
<1>4. packet' \in Seq({}) /\ Len(packet') = 0
  BY DEF EmitBegin
<1>5. Len(packet') <= Len(tmpl'.columns)
  BY <1>3, <1>4 DEF Numbered
<1>6. SoFar'
  BY <1>3, <1>4, <1>5 DEF SoFar, Numbered
<1> QED
  BY <1>6 DEF Inv, EmitBegin, state, Numbered

LEMMA EmitColumnKeeps ==
    ASSUME Inv, EmitColumn PROVE Inv'
<1> DEFINE v == First(row, Wanted.field).value
<1>1. phase = "emit" /\ SoFar /\ packet' = Append(packet, v)
  BY DEF EmitColumn, Emitting, Inv
<1>2. PICK S : packet \in Seq(S)
  BY <1>1 DEF SoFar
<1>3. packet' \in Seq(S \cup {v}) /\ Len(packet') = Len(packet) + 1 /\ Len(packet) \in Nat
  <2>1. packet \in Seq(S \cup {v})
    BY <1>2
  <2> QED
    BY <1>1, <1>2, <2>1
<1>4. PICK n \in Nat : DOMAIN tmpl.columns = 1 .. n /\ Len(tmpl.columns) = n
  BY <1>1 DEF SoFar, Numbered
<1>5. Len(packet') <= Len(tmpl.columns)
  BY <1>3, <1>4 DEF EmitColumn, Emitting
<1>6. Supplied(Len(packet) + 1) /\ tmpl.columns[Len(packet) + 1].kind # "uint"
  BY DEF EmitColumn, Available, Wanted, Supplied
<1>7. \A j \in 1 .. Len(packet') : Supplied(j) /\ tmpl.columns[j].kind # "uint"
  BY <1>1, <1>3, <1>6 DEF SoFar
<1>8. tmpl' = tmpl /\ row' = row /\ book' = book /\ phase' = phase
  BY DEF EmitColumn, state
<1>9. SoFar'
  BY <1>1, <1>3, <1>5, <1>7, <1>8 DEF SoFar, Numbered, Supplied
<1> QED
  BY <1>8, <1>9 DEF Inv, Numbered

LEMMA InvNext == Inv /\ [Next]_vars => Inv'
<1> SUFFICES ASSUME Inv, [Next]_vars PROVE Inv'
  OBVIOUS
<1> USE DEF Fail, Line, state, emission, history
<1>1. CASE ParseError
  BY <1>1, Outside DEF ParseError
<1>2. CASE NoCommand
  BY <1>2, Outside DEF NoCommand
<1>3. CASE BeginRow
  BY <1>3, Outside DEF BeginRow
<1>4. CASE FieldBeforeRow
  BY <1>4, Outside DEF FieldBeforeRow
<1>5. ASSUME NEW f \in Field, AddField(f) PROVE Inv'
  BY <1>5, Outside DEF AddField
<1>6. ASSUME NEW n \in Name, NEW list \in ColumnLists, StoreTemplate(n, list) PROVE Inv'
  BY <1>6, StoreTemplateKeeps
<1>7. ASSUME NEW list \in ColumnLists, RefuseTemplate(list) PROVE Inv'
  BY <1>7, Outside DEF RefuseTemplate
<1>8. ASSUME NEW n \in Name, EmitBegin(n) PROVE Inv'
  BY <1>8, EmitBeginKeeps
<1>9. ASSUME NEW n \in Name, EmitRefused(n) PROVE Inv'
  BY <1>9, Outside DEF EmitRefused
<1>10. CASE EmitColumn
  BY <1>10, EmitColumnKeeps
<1>11. CASE EmitNumber
  BY <1>11, Outside DEF EmitNumber
<1>12. CASE EmitFails
  BY <1>12, Outside DEF EmitFails
<1>13. CASE EmitEnd
  BY <1>13, Outside DEF EmitEnd
<1>14. CASE EndOfFile
  BY <1>14, Outside DEF EndOfFile
<1>15. CASE UNCHANGED vars
  BY <1>15 DEF vars, Inv, SoFar, Numbered, Supplied
<1> QED
  BY <1>1, <1>2, <1>3, <1>4, <1>5, <1>6, <1>7, <1>8, <1>9, <1>10, <1>11, <1>12,
     <1>13, <1>14, <1>15 DEF Next, Advance, Ended

-----------------------------------------------------------------------------
\* How the steps that end an EMIT end it.
Settled == phase = "emit" /\ phase' # "emit" =>
    IF ReachesNumber THEN phase' \in {"faulted", "undefined"}
    ELSE IF \A i \in DOMAIN tmpl.columns : Supplied(i) THEN phase' = "read"
    ELSE phase' = "status 1"

LEMMA StepSettles == Inv /\ [Next]_vars => Settled
<1> SUFFICES ASSUME Inv, [Next]_vars, phase = "emit", phase' # "emit" PROVE Settled
  BY DEF Settled
<1>1. PICK n \in Nat : DOMAIN tmpl.columns = 1 .. n /\ Len(tmpl.columns) = n
  BY DEF Inv, SoFar, Numbered
<1>2. Len(packet) \in Nat /\ Len(packet) <= n
  BY <1>1 DEF Inv, SoFar
<1>3. \A j \in 1 .. Len(packet) : Supplied(j) /\ tmpl.columns[j].kind # "uint"
  BY DEF Inv, SoFar
<1>4. EmitNumber \/ EmitFails \/ EmitEnd
  BY DEF Next, Advance, Ended, vars, ParseError, NoCommand, BeginRow, FieldBeforeRow,
         AddField, StoreTemplate, RefuseTemplate, EmitBegin, EmitRefused, Line,
         EmitColumn, EndOfFile
<1>5. CASE EmitNumber
  <2>0. Len(packet) < Len(tmpl.columns)
    BY <1>5 DEF EmitNumber, Emitting
  <2>1. Len(packet) + 1 \in DOMAIN tmpl.columns
    BY <1>1, <1>2, <2>0
  <2>2. Supplied(Len(packet) + 1) /\ tmpl.columns[Len(packet) + 1].kind = "uint"
    BY <1>5 DEF EmitNumber, Available, Wanted, Supplied
  <2>3. \A j \in 1 .. Len(packet) + 1 : Supplied(j)
    BY <1>2, <1>3, <2>2
  <2>4. ReachesNumber
    BY <2>1, <2>2, <2>3 DEF ReachesNumber
  <2> QED
    BY <1>5, <2>4 DEF EmitNumber, Settled
<1>6. CASE EmitFails
  <2>0. Len(packet) < Len(tmpl.columns)
    BY <1>6 DEF EmitFails, Emitting
  <2>1. Len(packet) + 1 \in DOMAIN tmpl.columns
    BY <1>1, <1>2, <2>0
  <2>2. ~Supplied(Len(packet) + 1)
    BY <1>6 DEF EmitFails, Available, Wanted, Supplied
  <2>3. \A i \in DOMAIN tmpl.columns :
           (\A j \in 1 .. i : Supplied(j)) => i \in 1 .. Len(packet)
    BY <1>1, <1>2, <2>2
  <2>4. ~ReachesNumber
    BY <1>3, <2>3 DEF ReachesNumber
  <2> QED
    BY <1>6, <2>1, <2>2, <2>4 DEF EmitFails, Settled
<1>7. CASE EmitEnd
  <2>1. DOMAIN tmpl.columns = 1 .. Len(packet)
    BY <1>1, <1>7 DEF EmitEnd
  <2>2. ~ReachesNumber /\ \A i \in DOMAIN tmpl.columns : Supplied(i)
    BY <1>3, <2>1 DEF ReachesNumber
  <2> QED
    BY <1>7, <2>2 DEF EmitEnd, Settled
<1> QED
  BY <1>4, <1>5, <1>6, <1>7

\* The end of an EMIT is settled when it begins, by the order of the columns and
\* the fields of the row: the first number behind supplied columns is fatal, and
\* a packet is printed only when every column has its field.
THEOREM EmissionIsSettled == Spec => EmitSettled
<1>1. Spec => []Inv
  BY InvInit, InvNext, PTL DEF Spec
<1>2. Inv /\ [Next]_vars => [Settled]_vars
  BY StepSettles
<1>3. [][Settled]_vars => EmitSettled
  BY PTL DEF EmitSettled, Settled
<1> QED
  BY <1>1, <1>2, <1>3, PTL DEF Spec

-----------------------------------------------------------------------------
\* The packet under way, and each packet printed from the present row, hold for
\* every column what the first field of its name holds now.
Value(t, j) == First(row, t.columns[j].field).value

Drawn == /\ Found(book, tmpl.name) /\ tmpl = First(book, tmpl.name)
         /\ \A j \in 1 .. Len(packet) : packet[j] = Value(tmpl, j)

Still(out) ==
    LET t == First(book, out.template)
    IN  /\ Found(book, out.template)
        /\ \A j \in DOMAIN t.columns : Found(row, t.columns[j].field)
        /\ out.packet = [j \in DOMAIN t.columns |-> Value(t, j)]

Printed == /\ \E S : output \in Seq(S)
           /\ rows \in Nat
           /\ \A i \in DOMAIN output :
                 output[i].row \in 0 .. rows /\ (output[i].row = rows => Still(output[i]))

PacketInv == /\ Inv
             /\ row \in Seq(Field) \cup {None}
             /\ phase = "emit" => Drawn
             /\ Printed
             /\ SameRowSamePacket

\* An item added at the end of a list is not found before those of its name.
LEMMA AppendKeepsFirst ==
    ASSUME NEW S, NEW items \in Seq(S), NEW e, NEW n, Found(items, n)
    PROVE  /\ Found(Append(items, e), n)
           /\ First(Append(items, e), n) = First(items, n)
<1> DEFINE longer == Append(items, e)
           places == {i \in DOMAIN items : items[i].name = n}
           placesL == {i \in DOMAIN longer : longer[i].name = n}
<1>1. /\ DOMAIN items = 1 .. Len(items) /\ DOMAIN longer = 1 .. Len(items) + 1
      /\ Len(items) \in Nat
      /\ \A i \in DOMAIN items : longer[i] = items[i]
  <2>1. items \in Seq(S \cup {e})
    OBVIOUS
  <2> QED
    BY <2>1
<1>2. places # {} /\ places \subseteq Nat /\ places \subseteq placesL
  BY <1>1 DEF Found
<1>3. PICK i \in places : \A j \in places : i <= j
  BY <1>2, LeastNumber
<1>4. \A j \in placesL : i <= j
  BY <1>1, <1>3
<1>5. (CHOOSE k \in places : \A j \in places : k <= j) = i
  BY <1>2, <1>3
<1>6. (CHOOSE k \in placesL : \A j \in placesL : k <= j) = i
  <2>1. i \in placesL /\ placesL \subseteq Nat
    BY <1>1, <1>2, <1>3
  <2> QED
    BY <1>4, <2>1
<1>7. First(items, n) = items[i]
  BY <1>2, <1>5 DEF First
<1>8. First(longer, n) = longer[i]
  BY <1>2, <1>6 DEF First
<1> QED
  BY <1>1, <1>2, <1>3, <1>7, <1>8 DEF Found

LEMMA FirstHasName ==
    ASSUME NEW S, NEW items \in Seq(S), NEW n, Found(items, n)
    PROVE  First(items, n).name = n
<1> DEFINE places == {i \in DOMAIN items : items[i].name = n}
<1>1. places # {} /\ places \subseteq Nat
  BY DEF Found
<1>2. PICK i \in places : \A j \in places : i <= j
  BY <1>1, LeastNumber
<1> QED
  BY <1>1, <1>2 DEF First

LEMMA PacketInit == Init => PacketInv
<1> SUFFICES ASSUME Init PROVE PacketInv
  OBVIOUS
<1>1. Inv
  BY InvInit
<1>2. output \in Seq({}) /\ DOMAIN output = {}
  BY DEF Init
<1> QED
  BY <1>1, <1>2 DEF Init, PacketInv, Printed, SameRowSamePacket

\* A step that begins no EMIT and leaves row, book and packets alone.
LEMMA NothingPrinted ==
    ASSUME PacketInv, Inv', UNCHANGED <<row, book, rows, output>>,
           phase' # "emit" \/ UNCHANGED <<phase, emission>>
    PROVE  PacketInv'
<1>1. \A t, j : Value(t, j)' = Value(t, j)
  BY DEF Value
<1>2. \A out : Still(out)' <=> Still(out)
  BY <1>1 DEF Still
<1>3. Printed'
  BY <1>2 DEF PacketInv, Printed
<1>4. SameRowSamePacket'
  BY DEF PacketInv, SameRowSamePacket
<1>5. phase' = "emit" => Drawn'
  BY <1>1 DEF PacketInv, Drawn, emission
<1> QED
  BY <1>3, <1>4, <1>5 DEF PacketInv

LEMMA PacketBeginRow ==
    ASSUME PacketInv, Inv', BeginRow PROVE PacketInv'
<1>1. row' \in Seq(Field) /\ phase' # "emit" /\ rows' = rows + 1 /\ output' = output
  BY DEF BeginRow, Line
<1>2. Printed'
  BY <1>1 DEF PacketInv, Printed
<1>3. SameRowSamePacket'
  BY <1>1 DEF PacketInv, SameRowSamePacket
<1> QED
  BY <1>1, <1>2, <1>3 DEF PacketInv

LEMMA PacketAddField ==
    ASSUME PacketInv, Inv', NEW f \in Field, AddField(f) PROVE PacketInv'
<1>1. /\ row \in Seq(Field) /\ row' = Append(row, f) /\ row' \in Seq(Field)
      /\ phase' # "emit" /\ UNCHANGED <<book, rows, output>>
  BY DEF AddField, Line, history, PacketInv
<1>2. \A n : Found(row, n) => Found(row', n) /\ First(row', n) = First(row, n)
  BY <1>1, AppendKeepsFirst
<1>3. ASSUME NEW i \in DOMAIN output, Still(output[i]) PROVE Still(output[i])'
  <2> DEFINE t == First(book, output[i].template)
  <2>1. \A j \in DOMAIN t.columns :
          /\ Found(row', t.columns[j].field)
          /\ First(row', t.columns[j].field) = First(row, t.columns[j].field)
    BY <1>2, <1>3 DEF Still
  <2> QED
    BY <1>1, <1>3, <2>1 DEF Still, Value
<1>4. Printed'
  BY <1>1, <1>3 DEF PacketInv, Printed
<1>5. SameRowSamePacket'
  BY <1>1 DEF PacketInv, SameRowSamePacket
<1> QED
  BY <1>1, <1>4, <1>5 DEF PacketInv

LEMMA PacketStoreTemplate ==
    ASSUME PacketInv, Inv', NEW n \in Name, NEW list \in ColumnLists, StoreTemplate(n, list)
    PROVE  PacketInv'
<1> DEFINE new == [name |-> n, columns |-> Columns(list)]
<1>1. PICK S : book \in Seq(S)
  BY DEF PacketInv, Inv
<1>2. book' = Append(book, new) /\ phase' # "emit" /\ UNCHANGED <<row, rows, output>>
  BY DEF StoreTemplate, Line
<1>3. \A m : Found(book, m) => Found(book', m) /\ First(book', m) = First(book, m)
  BY <1>1, <1>2, AppendKeepsFirst
<1>4. ASSUME NEW i \in DOMAIN output, Still(output[i]) PROVE Still(output[i])'
  <2>1. First(book', output[i].template) = First(book, output[i].template)
    BY <1>3, <1>4 DEF Still
  <2> QED
    BY <1>2, <1>3, <1>4, <2>1 DEF Still, Value
<1>5. Printed'
  BY <1>2, <1>4 DEF PacketInv, Printed
<1>6. SameRowSamePacket'
  BY <1>2 DEF PacketInv, SameRowSamePacket
<1> QED
  BY <1>2, <1>5, <1>6 DEF PacketInv

\* The template an EMIT works through is the first of its name.
LEMMA PacketEmitBegin ==
    ASSUME PacketInv, Inv', NEW n \in Name, EmitBegin(n) PROVE PacketInv'
<1>1. PICK S : book \in Seq(S)
  BY DEF PacketInv, Inv
<1>2. /\ tmpl' = First(book, n) /\ Found(book, n) /\ packet' = <<>>
      /\ UNCHANGED <<row, book, rows, output>>
  BY DEF EmitBegin, state, history
<1>3. tmpl'.name = n
  BY <1>1, <1>2, FirstHasName
<1>4. Drawn'
  BY <1>2, <1>3 DEF Drawn
<1>5. Printed' /\ SameRowSamePacket'
  BY <1>2 DEF PacketInv, Printed, Still, Value, SameRowSamePacket
<1> QED
  BY <1>2, <1>4, <1>5 DEF PacketInv

LEMMA PacketEmitColumn ==
    ASSUME PacketInv, Inv', EmitColumn PROVE PacketInv'
<1> DEFINE v == Value(tmpl, Len(packet) + 1)
<1>1. PICK S : packet \in Seq(S)
  BY DEF PacketInv, Inv, SoFar, EmitColumn, Emitting
<1>2. /\ packet' = Append(packet, v)
      /\ UNCHANGED <<row, book, rows, output, tmpl, phase>> /\ phase = "emit"
  BY DEF EmitColumn, Emitting, Wanted, Value, state, history
<1>3. Len(packet') = Len(packet) + 1 /\ Len(packet) \in Nat
      /\ packet'[Len(packet) + 1] = v
      /\ \A j \in 1 .. Len(packet) : packet'[j] = packet[j]
  <2>1. packet \in Seq(S \cup {v})
    BY <1>1
  <2> QED
    BY <1>2, <2>1
<1>4. \A j \in 1 .. Len(packet) : packet[j] = Value(tmpl, j)
  BY <1>2 DEF PacketInv, Drawn
<1>5. \A j \in 1 .. Len(packet') : packet'[j] = Value(tmpl, j)
  BY <1>3, <1>4
<1>6. Drawn'
  BY <1>2, <1>5 DEF PacketInv, Drawn, Value
<1>7. Printed' /\ SameRowSamePacket'
  BY <1>2 DEF PacketInv, Printed, Still, Value, SameRowSamePacket
<1> QED
  BY <1>2, <1>6, <1>7 DEF PacketInv

\* What is printed is what any other packet of this row and name was.
LEMMA PacketEmitEnd ==
    ASSUME PacketInv, Inv', EmitEnd PROVE PacketInv'
<1> DEFINE new == [row |-> rows, template |-> tmpl.name, packet |-> packet]
<1>1. /\ phase = "emit" /\ phase' # "emit" /\ Drawn /\ SoFar
      /\ output' = Append(output, new) /\ UNCHANGED <<row, book, rows>>
      /\ Len(packet) = Len(tmpl.columns)
  BY DEF EmitEnd, PacketInv, Inv, state
<1>2. PICK S : output \in Seq(S)
  BY DEF PacketInv, Printed
<1>3. /\ output' \in Seq(S \cup {new})
      /\ \A i \in DOMAIN output' :
            output'[i] = new \/ (i \in DOMAIN output /\ output'[i] = output[i])
  <2>1. output \in Seq(S \cup {new})
    BY <1>2
  <2> QED
    BY <1>1, <2>1
<1>4. Still(new)
  <2>1. DOMAIN tmpl.columns = 1 .. Len(packet)
    BY <1>1 DEF SoFar, Numbered
  <2>2. packet = [j \in 1 .. Len(packet) |-> Value(tmpl, j)]
    <3>1. PICK T : packet \in Seq(T)
      BY <1>1 DEF SoFar
    <3>2. packet = [j \in 1 .. Len(packet) |-> packet[j]]
      BY <3>1
    <3>3. \A j \in 1 .. Len(packet) : packet[j] = Value(tmpl, j)
      BY <1>1 DEF Drawn
    <3> QED
      BY <3>2, <3>3
  <2>3. \A j \in 1 .. Len(packet) : Found(row, tmpl.columns[j].field)
    BY <1>1 DEF SoFar, Supplied
  <2> QED
    BY <1>1, <2>1, <2>2, <2>3 DEF Still, Drawn
<1>5. rows \in Nat /\ new.row \in 0 .. rows
  BY DEF PacketInv, Printed
<1>6. \A i \in DOMAIN output' :
         output'[i].row \in 0 .. rows /\ (output'[i].row = rows => Still(output'[i]))
  BY <1>3, <1>4, <1>5 DEF PacketInv, Printed
<1>7. Printed'
  BY <1>1, <1>3, <1>5, <1>6 DEF Printed, Still, Value
<1>8. SameRowSamePacket'
  <2> SUFFICES ASSUME NEW i \in DOMAIN output', NEW j \in DOMAIN output',
                      output'[i].row = output'[j].row,
                      output'[i].template = output'[j].template
               PROVE  output'[i].packet = output'[j].packet
    BY DEF SameRowSamePacket
  <2>1. CASE output'[i].row = rows
    BY <1>6, <2>1 DEF Still
  <2>2. CASE output'[i].row # rows
    <3>1. /\ i \in DOMAIN output /\ output'[i] = output[i]
          /\ j \in DOMAIN output /\ output'[j] = output[j]
      BY <1>3, <2>2
    <3> QED
      BY <3>1 DEF PacketInv, SameRowSamePacket
  <2> QED
    BY <2>1, <2>2
<1> QED
  BY <1>1, <1>7, <1>8 DEF PacketInv

LEMMA PacketNext == PacketInv /\ [Next]_vars => PacketInv'
<1> SUFFICES ASSUME PacketInv, [Next]_vars PROVE PacketInv'
  OBVIOUS
<1>0. Inv'
  BY InvNext DEF PacketInv
<1> USE DEF Fail, Line, state, emission, history
<1>1. CASE ParseError
  BY <1>0, <1>1, NothingPrinted DEF ParseError
<1>2. CASE NoCommand
  BY <1>0, <1>2, NothingPrinted DEF NoCommand
<1>3. CASE BeginRow
  BY <1>0, <1>3, PacketBeginRow
<1>4. CASE FieldBeforeRow
  BY <1>0, <1>4, NothingPrinted DEF FieldBeforeRow
<1>5. ASSUME NEW f \in Field, AddField(f) PROVE PacketInv'
  BY <1>0, <1>5, PacketAddField
<1>6. ASSUME NEW n \in Name, NEW list \in ColumnLists, StoreTemplate(n, list) PROVE PacketInv'
  BY <1>0, <1>6, PacketStoreTemplate
<1>7. ASSUME NEW list \in ColumnLists, RefuseTemplate(list) PROVE PacketInv'
  BY <1>0, <1>7, NothingPrinted DEF RefuseTemplate
<1>8. ASSUME NEW n \in Name, EmitBegin(n) PROVE PacketInv'
  BY <1>0, <1>8, PacketEmitBegin
<1>9. ASSUME NEW n \in Name, EmitRefused(n) PROVE PacketInv'
  BY <1>0, <1>9, NothingPrinted DEF EmitRefused
<1>10. CASE EmitColumn
  BY <1>0, <1>10, PacketEmitColumn
<1>11. CASE EmitNumber
  BY <1>0, <1>11, NothingPrinted DEF EmitNumber
<1>12. CASE EmitFails
  BY <1>0, <1>12, NothingPrinted DEF EmitFails
<1>13. CASE EmitEnd
  BY <1>0, <1>13, PacketEmitEnd
<1>14. CASE EndOfFile
  BY <1>0, <1>14, NothingPrinted DEF EndOfFile
<1>15. CASE UNCHANGED vars
  BY <1>0, <1>15, NothingPrinted DEF vars
<1> QED
  BY <1>1, <1>2, <1>3, <1>4, <1>5, <1>6, <1>7, <1>8, <1>9, <1>10, <1>11, <1>12,
     <1>13, <1>14, <1>15 DEF Next, Advance, Ended

\* However many fields and templates are added under names already taken, all
\* packets of one row through one template's name are the same: the first item
\* of a name is found, and items are only added at the end.
THEOREM RowHasOnePacket == Spec => []SameRowSamePacket
<1>1. PacketInv => SameRowSamePacket
  BY DEF PacketInv
<1> QED
  BY <1>1, PacketInit, PacketNext, PTL DEF Spec

-----------------------------------------------------------------------------
\* Each template in the book is what was kept of its line, and packets are built
\* from a row.
WInv == /\ written \in Seq(ColumnLists) /\ Len(written) = Len(book)
        /\ \A i \in DOMAIN book : book[i].columns = Columns(written[i]) /\ ~Refused(written[i])
        /\ row # None => row \in Seq(Field)
        /\ phase = "emit" => row # None

\* Where the loop over the columns ends.
LEMMA EndIsFirstBad ==
    ASSUME NEW list \in ColumnLists, NEW e, e = EndOfColumns(list)
    PROVE  /\ e \in 1 .. Len(list) + 1 /\ Len(list) \in Nat
           /\ e <= Len(list) => list[e] \in {TooLong, Malformed}
           /\ \A j \in 1 .. e - 1 : list[j] \notin {TooLong, Malformed}
<1> DEFINE Bad == {TooLong, Malformed}
           T == {i \in 1 .. Len(list) + 1 : i <= Len(list) => list[i] \in Bad}
<1>1. Len(list) \in Nat
  BY TokenAssumption
<1>2. T \subseteq Nat /\ Len(list) + 1 \in T
  BY <1>1
<1>3. PICK i \in T : \A j \in T : i <= j
  BY <1>2, LeastNumber
<1>4. \A j \in 1 .. i - 1 : list[j] \notin Bad
  BY <1>1, <1>3
<1> QED
  BY <1>1, <1>3, <1>4 DEF EndOfColumns

LEMMA WInit == Init => WInv
<1> SUFFICES ASSUME Init PROVE WInv
  OBVIOUS
<1>1. written \in Seq(ColumnLists) /\ Len(written) = Len(book) /\ DOMAIN book = {}
  BY DEF Init
<1> QED
  BY <1>1 DEF Init, WInv

LEMMA WStoreTemplate ==
    ASSUME Inv, WInv, NEW n \in Name, NEW list \in ColumnLists, StoreTemplate(n, list)
    PROVE  WInv'
<1> DEFINE t == [name |-> n, columns |-> Columns(list)]
<1>1. /\ book' = Append(book, t) /\ written' = Append(written, list) /\ ~Refused(list)
      /\ row' = row /\ phase' # "emit"
  BY DEF StoreTemplate, Line
<1>2. PICK S : book \in Seq(S)
  BY DEF Inv
<1>3. book \in Seq(S \cup {t})
  BY <1>2
<1>4. /\ DOMAIN book' = 1 .. Len(book) + 1 /\ DOMAIN book = 1 .. Len(book)
      /\ Len(book) \in Nat /\ Len(book') = Len(book) + 1 /\ book'[Len(book) + 1] = t
      /\ \A i \in 1 .. Len(book) : book'[i] = book[i]
  <2> HIDE DEF t
  <2> QED
    BY <1>1, <1>3
<1>5. /\ written' \in Seq(ColumnLists) /\ Len(written') = Len(book')
      /\ written'[Len(book) + 1] = list
      /\ \A i \in 1 .. Len(book) : written'[i] = written[i]
  BY <1>1, <1>4 DEF WInv
<1>6. ASSUME NEW i \in DOMAIN book'
      PROVE  book'[i].columns = Columns(written'[i]) /\ ~Refused(written'[i])
  <2>1. CASE i = Len(book) + 1
    BY <1>1, <1>4, <1>5, <2>1
  <2>2. CASE i # Len(book) + 1
    <3>1. i \in 1 .. Len(book) /\ i \in DOMAIN book
      BY <1>4, <2>2
    <3> QED
      BY <1>4, <1>5, <3>1 DEF WInv
  <2> QED
    BY <2>1, <2>2
<1> QED
  BY <1>1, <1>5, <1>6 DEF WInv

LEMMA WNext == PacketInv /\ WInv /\ [Next]_vars => WInv'
<1> SUFFICES ASSUME PacketInv, WInv, [Next]_vars PROVE WInv'
  OBVIOUS
<1>1. ASSUME UNCHANGED <<book, written>>, row' # None => row' \in Seq(Field),
             phase' = "emit" => row' # None
      PROVE  WInv'
  BY <1>1 DEF WInv
<1> USE DEF Fail, Line, state, emission, history
<1>2. CASE ParseError \/ NoCommand \/ FieldBeforeRow \/ EndOfFile
  BY <1>1, <1>2 DEF ParseError, NoCommand, FieldBeforeRow, EndOfFile, WInv
<1>3. CASE BeginRow
  BY <1>1, <1>3 DEF BeginRow
<1>4. ASSUME NEW f \in Field, AddField(f) PROVE WInv'
  BY <1>1, <1>4 DEF AddField, WInv
<1>5. ASSUME NEW n \in Name, NEW list \in ColumnLists, StoreTemplate(n, list) PROVE WInv'
  BY <1>5, WStoreTemplate DEF PacketInv
<1>6. ASSUME NEW list \in ColumnLists, RefuseTemplate(list) PROVE WInv'
  BY <1>1, <1>6 DEF RefuseTemplate, WInv
<1>7. ASSUME NEW n \in Name, EmitBegin(n) \/ EmitRefused(n) PROVE WInv'
  BY <1>1, <1>7 DEF EmitBegin, EmitRefused, WInv
<1>8. CASE EmitColumn \/ EmitNumber \/ EmitFails \/ EmitEnd
  BY <1>1, <1>8 DEF EmitColumn, EmitNumber, EmitFails, EmitEnd, Emitting, WInv
<1>9. CASE UNCHANGED vars
  BY <1>1, <1>9 DEF vars, WInv
<1> QED
  BY <1>2, <1>3, <1>4, <1>5, <1>6, <1>7, <1>8, <1>9 DEF Next, Advance, Ended

\* A value taken from the row under the name and the kind of a column.
LEMMA ValueIsInRow ==
    ASSUME row \in Seq(Field), NEW c,
           Found(row, Cut[c.field]), First(row, Cut[c.field]).kind = c.kind
    PROVE  First(row, Cut[c.field]).value \in ValueOf(c)
<1>1. PICK i \in DOMAIN row : First(row, Cut[c.field]) = row[i]
  BY FirstIsItem
<1>2. row[i].name = Cut[c.field]
  BY <1>1, FirstHasName
<1> QED
  BY <1>1, <1>2 DEF ValueOf

\* The packet that is complete answers the line its template was stored from.
LEMMA CompleteAnswers ==
    ASSUME PacketInv, WInv, EmitEnd
    PROVE  \E i \in DOMAIN book : book[i].name = tmpl.name /\ Answers(packet, written[i])
<1>1. /\ phase = "emit" /\ SoFar /\ Drawn /\ row \in Seq(Field)
      /\ Len(packet) = Len(tmpl.columns)
  BY DEF EmitEnd, PacketInv, Inv, WInv
<1>2. PICK S : book \in Seq(S)
  BY DEF PacketInv, Inv
<1>3. PICK i \in DOMAIN book : tmpl = book[i]
  BY <1>1, <1>2, FirstIsItem DEF Drawn
<1> DEFINE list == written[i]
           e == EndOfColumns(list)
<1>4. list \in ColumnLists /\ tmpl.columns = Columns(list) /\ ~Refused(list)
  BY <1>2, <1>3 DEF WInv
<1>5. /\ e \in 1 .. Len(list) + 1 /\ Len(list) \in Nat
      /\ e <= Len(list) => list[e] \in {TooLong, Malformed}
      /\ \A j \in 1 .. e - 1 : list[j] \notin {TooLong, Malformed}
  BY <1>4, EndIsFirstBad
<1>6. /\ Len(packet) = e - 1
      /\ \A j \in 1 .. e - 1 : tmpl.columns[j] = [field |-> Cut[list[j].field],
                                                  kind |-> list[j].kind]
  <2>1. tmpl.columns = [j \in 1 .. e - 1 |-> [field |-> Cut[list[j].field],
                                              kind |-> list[j].kind]]
    BY <1>4 DEF Columns
  <2>2. e - 1 \in Nat
    BY <1>5
  <2> HIDE DEF e, list
  <2> QED
    BY <1>1, <2>1, <2>2
<1>7. e # 1 /\ (e <= Len(list) => list[e] = TooLong)
  BY <1>4, <1>5 DEF Refused
<1>8. DOMAIN packet = 1 .. e - 1
  BY <1>1, <1>6 DEF SoFar
<1>9. ASSUME NEW j \in 1 .. e - 1
      PROVE  list[j].kind # "uint" /\ packet[j] \in ValueOf(list[j])
  <2>1. tmpl.columns[j].kind # "uint" /\ Supplied(j) /\ packet[j] = Value(tmpl, j)
    BY <1>1, <1>6 DEF SoFar, Drawn
  <2>2. tmpl.columns[j].kind = list[j].kind /\ tmpl.columns[j].field = Cut[list[j].field]
    <3>1. tmpl.columns[j] = [field |-> Cut[list[j].field], kind |-> list[j].kind]
      BY <1>6
    <3> HIDE DEF e, list
    <3> QED
      BY <3>1
  <2>3. Found(row, Cut[list[j].field]) /\ First(row, Cut[list[j].field]).kind = list[j].kind
    BY <2>1, <2>2 DEF Supplied
  <2>4. packet[j] = First(row, Cut[list[j].field]).value
    BY <2>1, <2>2 DEF Value
  <2> HIDE DEF e, list
  <2> QED
    BY <1>1, <2>1, <2>2, <2>3, <2>4, ValueIsInRow
<1>10. Answers(packet, list)
  <2> HIDE DEF e, list
  <2>1. 1 <= Len(packet) /\ Len(packet) <= Len(list)
    BY <1>5, <1>6, <1>7
  <2>2. Len(packet) < Len(list) => list[Len(packet) + 1] = TooLong
    BY <1>5, <1>6, <1>7
  <2> QED
    BY <1>5, <1>8, <1>9, <2>1, <2>2 DEF Answers
<1> QED
  BY <1>3, <1>10

Whole == output' # output =>
             LET last == output'[Len(output')]
             IN  \E i \in DOMAIN book : /\ book[i].name = last.template
                                       /\ Answers(last.packet, written[i])

LEMMA StepPrintsWhole == PacketInv /\ WInv /\ [Next]_vars => [Whole]_vars
<1> SUFFICES ASSUME PacketInv, WInv, [Next]_vars, output' # output
             PROVE  LET last == output'[Len(output')]
                    IN  \E i \in DOMAIN book : /\ book[i].name = last.template
                                              /\ Answers(last.packet, written[i])
  BY DEF Whole
<1>1. EmitEnd
  BY DEF Next, Advance, Ended, vars, ParseError, NoCommand, BeginRow, FieldBeforeRow,
         AddField, StoreTemplate, RefuseTemplate, EmitBegin, EmitRefused, Line, Fail,
         EmitColumn, EmitNumber, EmitFails, EndOfFile, history
<1> DEFINE new == [row |-> rows, template |-> tmpl.name, packet |-> packet]
<1>2. output' = Append(output, new)
  BY <1>1 DEF EmitEnd
<1>3. PICK S : output \in Seq(S)
  BY DEF PacketInv, Printed
<1>4. output'[Len(output')] = new
  <2>1. output \in Seq(S \cup {new})
    BY <1>3
  <2> HIDE DEF new
  <2> QED
    BY <1>2, <2>1
<1> QED
  BY <1>1, <1>4, CompleteAnswers

\* A packet is printed whole: for each column of the TEMPLATE line, up to one that is
\* too long, a value of its kind and of its name (cut to 63 bytes) in the row,
\* and never a number (emit_template, packet_print).
THEOREM PacketsAreWhole == Spec => PrintsWholeRows
<1>1. Spec => []PacketInv
  BY PacketInit, PacketNext, PTL DEF Spec
<1>2. Spec => []WInv
  BY <1>1, WInit, WNext, PTL DEF Spec
<1>3. [][Whole]_vars => PrintsWholeRows
  BY PTL DEF PrintsWholeRows, Whole
<1> QED
  BY <1>1, <1>2, <1>3, StepPrintsWhole, PTL DEF Spec
=============================================================================
