--------------------------- MODULE SliceIdxProofs ---------------------------
(***************************************************************************)
(* That the two buffers of sliceidx are never overrun by a command that    *)
(* completes, and that the program is a map as long as it answers, for any *)
(* keys, values, sizes and limits.                                         *)
(***************************************************************************)
EXTENDS SliceIdx, TLAPS, WellFoundedInduction

\* A set of numbers that is not empty has a least one.
LEMMA LeastNumber ==
    ASSUME NEW T, T \subseteq Nat, T # {}
    PROVE  \E i \in T : \A j \in T : i <= j
<1>1. IsWellFoundedOn(OpToRel(<, Nat), Nat)
  BY NatLessThanWellFounded
<1>2. PICK i \in T : \A j \in T : <<j, i>> \notin OpToRel(<, Nat)
  BY <1>1, WFMin
<1>3. \A j \in T : ~(j < i)
  BY <1>2 DEF OpToRel
<1> QED
  BY <1>3

\* The powers up to n.
PowerStep(g, i) == IF i = 0 THEN 1 ELSE 2 * g[i - 1]
Powers(g, n)    == g = [i \in 0 .. n |-> PowerStep(g, i)]

LEMMA PowersExist == ASSUME NEW n \in Nat PROVE \E g : Powers(g, n)
<1> DEFINE Bad == {k \in Nat : ~\E g : Powers(g, k)}
<1> SUFFICES ASSUME Bad # {} PROVE FALSE
  OBVIOUS
<1>1. PICK k \in Bad : \A j \in Bad : k <= j
  BY LeastNumber
<1>2. CASE k = 0
  <2>1. Powers([i \in 0 .. 0 |-> 1], 0)
    BY DEF Powers, PowerStep
  <2> QED
    BY <1>1, <1>2, <2>1
<1>3. CASE k # 0
  <2>1. k \in Nat /\ k - 1 \in Nat /\ k - 1 \notin Bad
    BY <1>1, <1>3
  <2>2. PICK g : Powers(g, k - 1)
    BY <2>1
  <2> DEFINE h == [i \in 0 .. k |-> IF i = k THEN 2 * g[k - 1] ELSE g[i]]
  <2>3. ASSUME NEW i \in 0 .. k PROVE h[i] = PowerStep(h, i)
    <3>1. CASE i = k
      BY <1>3, <2>1, <3>1 DEF PowerStep
    <3>2. CASE i # k
      <4>1. i \in 0 .. k - 1 /\ (i # 0 => i - 1 \in 0 .. k - 1)
        BY <2>1, <3>2
      <4>2. g[i] = PowerStep(g, i)
        BY <2>2, <4>1 DEF Powers
      <4> QED
        BY <2>1, <3>2, <4>1, <4>2 DEF PowerStep
    <3> QED
      BY <3>1, <3>2
  <2>4. h = [i \in 0 .. k |-> h[i]]
    OBVIOUS
  <2>5. Powers(h, k)
    <3> HIDE DEF h
    <3> QED
      BY <2>3, <2>4 DEF Powers
  <2> QED
    BY <1>1, <2>5
<1> QED
  BY <1>2, <1>3

LEMMA PowersAgree ==
    ASSUME NEW n \in Nat, NEW m \in Nat, NEW g, Powers(g, n), NEW h, Powers(h, m),
           NEW i \in Nat, i <= n, i <= m
    PROVE  g[i] = h[i]
<1> DEFINE Bad == {k \in Nat : k <= n /\ k <= m /\ g[k] # h[k]}
<1> SUFFICES ASSUME Bad # {} PROVE FALSE
  OBVIOUS
<1>1. PICK k \in Bad : \A j \in Bad : k <= j
  BY LeastNumber
<1>2. k \in Nat /\ k <= n /\ k <= m /\ g[k] # h[k] /\ k \in 0 .. n /\ k \in 0 .. m
  BY <1>1
<1>3. g[k] = PowerStep(g, k) /\ h[k] = PowerStep(h, k)
  BY <1>2 DEF Powers
<1>4. k # 0
  BY <1>2, <1>3 DEF PowerStep
<1>5. g[k - 1] = h[k - 1]
  BY <1>1, <1>2, <1>4
<1> QED
  BY <1>2, <1>3, <1>5 DEF PowerStep

\* The function by which Doubled is defined exists, and so does what its definition says.
LEMMA DoubledUnfolds ==
    Doubled[0] = 1 /\ \A n \in Nat \ {0} : Doubled[n] = 2 * Doubled[n - 1]
<1> DEFINE part(k) == CHOOSE g : Powers(g, k)
           f == [k \in Nat |-> part(k)[k]]
<1>1. \A k \in Nat : Powers(part(k), k)
  BY PowersExist
<1>2. ASSUME NEW k \in Nat PROVE f[k] = IF k = 0 THEN 1 ELSE 2 * f[k - 1]
  <2>1. part(k)[k] = PowerStep(part(k), k)
    <3> HIDE DEF part
    <3> QED
      BY <1>1 DEF Powers
  <2>2. CASE k = 0
    BY <2>1, <2>2 DEF PowerStep
  <2>3. CASE k # 0
    <3>1. k - 1 \in Nat /\ k - 1 <= k
      BY <2>3
    <3>2. part(k)[k - 1] = part(k - 1)[k - 1]
      <4> HIDE DEF part
      <4> QED
        BY <1>1, <3>1, PowersAgree
    <3> QED
      BY <2>1, <2>3, <3>1, <3>2 DEF PowerStep
  <2> QED
    BY <2>2, <2>3
<1>3. f = [k \in Nat |-> IF k = 0 THEN 1 ELSE 2 * f[k - 1]]
  <2>1. f = [k \in Nat |-> f[k]]
    OBVIOUS
  <2> HIDE DEF f
  <2> QED
    BY <1>2, <2>1
<1>4. Doubled = [k \in Nat |-> IF k = 0 THEN 1 ELSE 2 * Doubled[k - 1]]
  <2> HIDE DEF f
  <2> QED
    BY <1>3 DEF Doubled
<1> QED
  BY <1>4

LEMMA DoubledPositive == \A n \in Nat : Doubled[n] \in Nat \ {0}
<1> DEFINE Bad == {n \in Nat : Doubled[n] \notin Nat \ {0}}
<1> SUFFICES ASSUME Bad # {} PROVE FALSE
  OBVIOUS
<1>1. PICK k \in Bad : \A j \in Bad : k <= j
  BY LeastNumber
<1>2. k # 0
  BY <1>1, DoubledUnfolds
<1>3. k - 1 \in Nat /\ k - 1 \notin Bad
  BY <1>1, <1>2
<1>4. Doubled[k] = 2 * Doubled[k - 1]
  BY <1>1, <1>2, DoubledUnfolds
<1>5. PICK d \in Nat \ {0} : d = Doubled[k - 1]
  BY <1>3
<1> QED
  BY <1>1, <1>4, <1>5

-----------------------------------------------------------------------------
\* read_line: the buffer is a whole number of doublings away from its limit.
OnTheWay(c) == \E k \in Nat : LineLimit = c * Doubled[k]

LInv ==
    /\ lineLen \in Nat /\ lineCap \in Nat /\ lineLen < lineCap /\ 2 <= lineCap
    /\ OnTheWay(lineCap)
    /\ phase = "line too long" => lineLen = LineLimit - 1

\* A buffer short of the limit can be doubled.
LEMMA RoomToDouble ==
    ASSUME NEW c \in Nat, 2 <= c, OnTheWay(c)
    PROVE  /\ c <= LineLimit
           /\ c < LineLimit => OnTheWay(2 * c)
<1>0. PICK k \in Nat : LineLimit = c * Doubled[k]
  BY DEF OnTheWay
<1>1. PICK d \in Nat \ {0} : d = Doubled[k]
  BY DoubledPositive
<1>2. LineLimit = c * d
  BY <1>0, <1>1
<1>3. c <= c * d
  BY <1>1
<1>4. ASSUME c < LineLimit PROVE OnTheWay(2 * c)
  <2>1. k # 0
    BY <1>0, <1>4, DoubledUnfolds
  <2>2. k - 1 \in Nat /\ Doubled[k] = 2 * Doubled[k - 1]
    BY <2>1, DoubledUnfolds
  <2>3. PICK e \in Nat : e = Doubled[k - 1]
    BY <2>2, DoubledPositive
  <2>4. LineLimit = c * (2 * e)
    BY <1>0, <2>2, <2>3
  <2>5. c * (2 * e) = (2 * c) * e
    BY <2>3
  <2> QED
    BY <2>2, <2>3, <2>4, <2>5 DEF OnTheWay
<1> QED
  BY <1>2, <1>3, <1>4

LEMMA LInvInit == Init => LInv
<1> SUFFICES ASSUME Init PROVE LInv
  OBVIOUS
<1>1. PICK k \in 0 .. LineLimit : LineLimit = LineInitial * Doubled[k]
  BY LineAssumption
<1>2. k \in Nat
  BY LineAssumption
<1> QED
  BY <1>1, <1>2, LineAssumption DEF Init, LInv, OnTheWay

LEMMA LInvStep == LInv /\ [Next]_vars => LInv'
<1> SUFFICES ASSUME LInv, [Next]_vars PROVE LInv'
  OBVIOUS
<1>1. ASSUME NEW newline \in BOOLEAN, GetByte(newline) PROVE LInv'
  <2>1. phase' # "line too long"
    BY <1>1 DEF GetByte
  <2>2. lineLen' = lineLen + 1
    BY <1>1 DEF GetByte
  <2>3. lineLen \in Nat /\ lineCap \in Nat /\ lineLen < lineCap /\ 2 <= lineCap
    BY DEF LInv
  <2>4. CASE LineFull
    <3>1. lineCap < LineLimit /\ lineCap' = 2 * lineCap
      BY <1>1, <2>4 DEF GetByte
    <3>2. OnTheWay(lineCap)'
      <4>1. OnTheWay(2 * lineCap)
        BY <2>3, <3>1, RoomToDouble DEF LInv
      <4> QED
        BY <3>1, <4>1 DEF OnTheWay
    <3>3. lineLen' \in Nat /\ lineCap' \in Nat /\ lineLen' < lineCap' /\ 2 <= lineCap'
      BY <2>2, <2>3, <3>1
    <3> QED
      BY <2>1, <3>2, <3>3 DEF LInv
  <2>5. CASE ~LineFull
    <3>1. lineCap' = lineCap /\ lineLen + 1 < lineCap
      BY <1>1, <2>3, <2>5 DEF GetByte, LineFull
    <3>2. OnTheWay(lineCap)'
      BY <3>1 DEF OnTheWay, LInv
    <3>3. lineLen' \in Nat /\ lineCap' \in Nat /\ lineLen' < lineCap' /\ 2 <= lineCap'
      BY <2>2, <2>3, <3>1
    <3> QED
      BY <2>1, <3>2, <3>3 DEF LInv
  <2> QED
    BY <2>4, <2>5
<1>2. CASE LineTooLong
  <2>1. lineLen + 1 >= lineCap /\ lineCap >= LineLimit /\ lineLen' = lineLen /\ lineCap' = lineCap
    BY <1>2 DEF LineTooLong, LineFull, reader
  <2>3. lineCap <= LineLimit
    BY RoomToDouble DEF LInv
  <2>4. lineLen = LineLimit - 1
    <3>1. /\ LineLimit \in Nat /\ lineLen \in Nat /\ lineCap \in Nat /\ lineLen < lineCap
      BY LineAssumption DEF LInv
    <3> QED
      BY <2>1, <2>3, <3>1
  <2>5. OnTheWay(lineCap)'
    BY <2>1 DEF OnTheWay, LInv
  <2> QED
    BY <2>1, <2>4, <2>5 DEF LInv
<1>3. CASE /\ lineCap' = lineCap /\ lineLen' \in {0, lineLen}
           /\ phase' = "line too long" => phase = "line too long" /\ lineLen' = lineLen
  <2>1. OnTheWay(lineCap)'
    BY <1>3 DEF OnTheWay, LInv
  <2>2. lineLen' \in Nat /\ lineCap' \in Nat /\ lineLen' < lineCap' /\ 2 <= lineCap'
    <3>1. lineLen \in Nat /\ lineCap \in Nat /\ lineLen < lineCap /\ 2 <= lineCap
      BY DEF LInv
    <3>2. lineLen' = 0 \/ lineLen' = lineLen
      BY <1>3
    <3>3. lineCap' = lineCap
      BY <1>3
    <3> QED
      BY <3>1, <3>2, <3>3
  <2>3. phase' = "line too long" => lineLen' = LineLimit - 1
    BY <1>3 DEF LInv
  <2> QED
    BY <2>1, <2>2, <2>3 DEF LInv
<1>4. ASSUME Next, ~LineTooLong, \A newline \in BOOLEAN : ~GetByte(newline)
      PROVE  /\ lineCap' = lineCap /\ lineLen' \in {0, lineLen}
             /\ phase' = "line too long" => phase = "line too long" /\ lineLen' = lineLen
  <2>1. CASE LastLine \/ EndOfFile \/ ReadOther \/ ReadExit \/ ParseError
    BY <2>1 DEF LastLine, EndOfFile, ReadOther, ReadExit, ParseError, Command, Stop, reader
  <2>2. CASE \E k \in Key : ReadGet(k) \/ \E v \in Value : ReadAdd(k, v)
    BY <2>2 DEF ReadGet, ReadAdd, Command
  <2>3. CASE AddKey \/ AddValue \/ AddDies
    BY <2>3 DEF AddKey, AddValue, AddDies, Stop, reader
  <2>4. CASE PutUpdate \/ PutInsert \/ GetHit \/ GetMiss \/ ReadDangling
    BY <2>4 DEF PutUpdate, PutInsert, GetHit, GetMiss, ReadDangling, Finish, Stop, reader
  <2>5. CASE \E n \in FillCounts : Fill(n) \/ FillOverruns(n) \/ FillDies(n)
    BY <2>5 DEF Fill, FillOverruns, FillDies, Command, Stop
  <2>6. CASE Ended
    BY <2>6 DEF Ended, vars, reader, control
  <2> QED
    BY <1>4, <2>1, <2>2, <2>3, <2>4, <2>5, <2>6 DEF Next, Advance
<1>5. CASE UNCHANGED vars
  BY <1>5 DEF vars, reader, control, LInv
<1> QED
  BY <1>1, <1>2, <1>3, <1>4, <1>5

\* However the line buffer has been doubled there is room for the NUL, and only a
\* line of LINE_LIMIT bytes is too long (read_line).
THEOREM LinesFit == Spec => []LineBufferSound
<1>1. LInv => LineBufferSound
  <2> SUFFICES ASSUME LInv PROVE LineBufferSound
    OBVIOUS
  <2>2. lineCap <= LineLimit
    BY RoomToDouble DEF LInv
  <2> QED
    BY <2>2 DEF LInv, LineBufferSound
<1> QED
  BY <1>1, LInvInit, LInvStep, PTL DEF Spec

-----------------------------------------------------------------------------
\* The text buffer.
Buffered ==
    /\ len \in Nat /\ cap \in Nat \ {0} /\ base \in Nat
    /\ len <= cap /\ cap <= AllocLimit

\* Where the program is and what command it is at; and, while a line is read, that
\* there is a command to come.
UnderWay ==
    /\ eof \in BOOLEAN
    /\ phase \in {"read", "parse", "add key", "add value", "put", "get",
                  "exited", "line too long", "died", "faulted", "undefined"}
    /\ cmd \in [key : Key \cup {Nothing}, value : Value \cup {Nothing}]
    /\ phase \in {"read", "parse"} => cmd = NoCommand
    /\ phase \in {"add key", "add value", "put"} => cmd \in [key : Key, value : Value]
    /\ phase = "get" => cmd \in [key : Key, value : {Nothing}]

Counted ==
    /\ commands \in 0 .. MaxCommands
    /\ lineLen > 0 => commands < MaxCommands
    /\ phase = "parse" => lineLen > 0

\* grow_capacity gives no less than what it is asked for.
LEMMA GrownEnough ==
    ASSUME NEW c \in Nat \ {0}, NEW r \in Nat
    PROVE  GrowCapacity(c, r) \in Nat /\ r <= GrowCapacity(c, r)
<1> DEFINE enough == {d \in {c * Doubled[k] : k \in 0 .. SizeBits} :
                          d >= r /\ d \div 2 <= SizeMax \div 2}
<1>1. \A d \in enough : d \in Nat /\ d >= r
  <2>1. \A k \in 0 .. SizeBits : k \in Nat
    BY SizeAssumption
  <2>2. \A k \in 0 .. SizeBits : c * Doubled[k] \in Nat
    <3>1. ASSUME NEW k \in Nat PROVE c * Doubled[k] \in Nat
      <4>1. PICK e \in Nat : e = Doubled[k]
        BY DoubledPositive
      <4>2. c * e \in Nat
        OBVIOUS
      <4> QED
        BY <4>1, <4>2
    <3> QED
      BY <2>1, <3>1
  <2> QED
    BY <2>2
<1>2. GrowCapacity(c, r) = IF enough = {} THEN r
                           ELSE CHOOSE d \in enough : \A e \in enough : d <= e
  BY DEF GrowCapacity
<1> HIDE DEF enough
<1>3. CASE enough = {}
  BY <1>2, <1>3
<1>4. CASE enough # {}
  <2>1. \E d \in enough : \A e \in enough : d <= e
    BY <1>1, <1>4, LeastNumber
  <2>2. GrowCapacity(c, r) \in enough
    BY <1>2, <1>4, <2>1
  <2> QED
    BY <1>1, <2>2
<1> QED
  BY <1>3, <1>4

LEMMA Reserved ==
    ASSUME Buffered, NEW r \in Nat, Reserve(r)
    PROVE  cap' \in Nat \ {0} /\ r <= cap' /\ cap' <= AllocLimit /\ base' \in Nat
<1>1. CASE r <= cap
  BY <1>1 DEF Reserve, Buffered
<1>2. CASE ~(r <= cap)
  <2>1. cap' = GrowCapacity(cap, r) /\ cap' <= AllocLimit /\ base' \in {base, base + 1}
    BY <1>2 DEF Reserve
  <2>2. cap' \in Nat /\ r <= cap'
    BY <2>1, GrownEnough DEF Buffered
  <2>3. cap \in Nat /\ base \in Nat
    BY DEF Buffered
  <2>4. base' \in Nat
    BY <2>1, <2>3
  <2> QED
    BY <1>2, <2>1, <2>2, <2>3, <2>4
<1> QED
  BY <1>1, <1>2

LEMMA Wraps ==
    ASSUME NEW n \in Nat
    PROVE  Wrap(n) \in Nat /\ (n <= SizeMax => Wrap(n) = n)
<1>1. PICK m \in Nat \ {0} : m = SizeMax + 1
  BY SizeAssumption
<1>2. n % m \in Nat
  OBVIOUS
<1>3. n < m => n % m = n
  OBVIOUS
<1>4. n <= SizeMax => n < m
  BY <1>1, SizeAssumption
<1> QED
  BY <1>1, <1>2, <1>3, <1>4 DEF Wrap

\* Room for a key or a value is asked for without wrapping round.
LEMMA SizesFit ==
    ASSUME Buffered
    PROVE  /\ \A k \in Key : KeySize[k] \in Nat /\ Required(KeySize[k]) = len + KeySize[k] + 1
           /\ \A v \in Value : ValueSize[v] \in Nat /\ Required(ValueSize[v]) = len + ValueSize[v] + 1
<1>1. ASSUME NEW n \in Nat, AllocLimit + n < SizeMax PROVE Required(n) = len + n + 1
  <2>1. len + n + 1 \in Nat /\ len + n + 1 <= SizeMax
    BY <1>1, SizeAssumption DEF Buffered
  <2> QED
    BY <2>1, Wraps DEF Required
<1>2. /\ \A k \in Key : KeySize[k] \in Nat /\ AllocLimit + KeySize[k] < SizeMax
      /\ \A v \in Value : ValueSize[v] \in Nat /\ AllocLimit + ValueSize[v] < SizeMax
  BY SizeAssumption
<1> QED
  BY <1>1, <1>2

\* What an append leaves of the buffer (textbuf_append, textbuf_fill).
LEMMA Appended ==
    ASSUME Buffered, NEW n \in Nat, NEW r \in Nat, Reserve(r), len + n + 1 <= cap' \/ r = len + n + 1,
           len' = len + n + 1
    PROVE  Buffered' /\ len < len'
<1>1. cap' \in Nat \ {0} /\ r <= cap' /\ cap' <= AllocLimit /\ base' \in Nat
  BY Reserved
<1>2. len \in Nat
  BY DEF Buffered
<1>3. len' \in Nat /\ len' <= cap' /\ len < len'
  BY <1>1, <1>2
<1> QED
  BY <1>1, <1>3 DEF Buffered

LEMMA UnderWayStep == UnderWay /\ [Next]_vars => UnderWay'
<1> SUFFICES ASSUME UnderWay, [Next]_vars PROVE UnderWay'
  OBVIOUS
<1> USE DEF UnderWay
<1>1. ASSUME NEW newline \in BOOLEAN, GetByte(newline) PROVE UnderWay'
  BY <1>1 DEF GetByte, Reading
<1>2. CASE LineTooLong \/ LastLine \/ EndOfFile
  BY <1>2 DEF LineTooLong, LastLine, EndOfFile, Reading, Stop, reader
<1>3. ASSUME NEW k \in Key, ReadGet(k) PROVE UnderWay'
  BY <1>3 DEF ReadGet, Command
<1>4. ASSUME NEW k \in Key, NEW v \in Value, ReadAdd(k, v) PROVE UnderWay'
  BY <1>4 DEF ReadAdd, Command
<1>5. CASE ReadOther \/ ReadExit \/ ParseError
  BY <1>5 DEF ReadOther, ReadExit, ParseError, Command, Stop
<1>6. CASE AddKey \/ AddValue \/ AddDies
  BY <1>6 DEF AddKey, AddValue, AddDies, Stop, reader
<1>7. CASE PutUpdate \/ PutInsert \/ GetMiss \/ ReadDangling \/ GetHit
  <2>1. NoCommand \in [key : Key \cup {Nothing}, value : Value \cup {Nothing}]
    BY DEF NoCommand
  <2>2. \/ phase' = "read" /\ cmd' = NoCommand /\ eof' = eof
        \/ phase' \in {"died", "faulted", "undefined"} /\ cmd' = cmd /\ eof' = eof
    BY <1>7 DEF PutUpdate, PutInsert, GetMiss, ReadDangling, GetHit, Finish, Stop, reader
  <2> QED
    BY <2>1, <2>2
<1>8. ASSUME NEW n \in FillCounts, Fill(n) \/ FillOverruns(n) \/ FillDies(n) PROVE UnderWay'
  BY <1>8 DEF Fill, FillOverruns, FillDies, Command, Stop
<1>9. CASE Ended \/ UNCHANGED vars
  BY <1>9 DEF Ended, vars, reader, control
<1> QED
  BY <1>1, <1>2, <1>3, <1>4, <1>5, <1>6, <1>7, <1>8, <1>9 DEF Next, Advance

LEMMA CountedStep == LInv /\ Counted /\ [Next]_vars => Counted'
<1> SUFFICES ASSUME LInv, Counted, [Next]_vars PROVE Counted'
  OBVIOUS
<1>0. lineLen \in Nat /\ MaxCommands \in Nat /\ commands \in 0 .. MaxCommands
  BY SizeAssumption DEF LInv, Counted
<1>1. ASSUME NEW newline \in BOOLEAN, GetByte(newline) PROVE Counted'
  <2>1. commands < MaxCommands
    BY <1>0, <1>1 DEF GetByte, Reading, Counted
  <2>2. lineLen' = lineLen + 1 /\ commands' = commands
    BY <1>1 DEF GetByte
  <2>3. lineLen' > 0
    BY <1>0, <2>2
  <2> QED
    BY <1>0, <2>1, <2>2, <2>3 DEF Counted
<1>2. ASSUME NEW n, Command(n), phase' # "parse" PROVE Counted'
  <2>1. commands' = commands + 1 /\ lineLen' = 0 /\ commands < MaxCommands
    BY <1>2 DEF Command, Counted
  <2>2. commands' \in 0 .. MaxCommands /\ ~(lineLen' > 0)
    BY <1>0, <2>1
  <2> QED
    BY <1>2, <2>2 DEF Counted
<1>3. ASSUME commands' = commands, lineLen' = lineLen, phase' = "parse" => lineLen > 0
      PROVE  Counted'
  BY <1>3 DEF Counted
<1>4. CASE LastLine
  BY <1>3, <1>4 DEF LastLine
<1>5. CASE LineTooLong \/ EndOfFile
  BY <1>3, <1>5 DEF LineTooLong, EndOfFile, Stop, reader
<1>6. ASSUME NEW k \in Key, ReadGet(k) PROVE Counted'
  BY <1>2, <1>6 DEF ReadGet
<1>7. ASSUME NEW k \in Key, NEW v \in Value, ReadAdd(k, v) PROVE Counted'
  BY <1>2, <1>7 DEF ReadAdd
<1>8. CASE ReadOther \/ ReadExit \/ ParseError
  BY <1>2, <1>8 DEF ReadOther, ReadExit, ParseError, Stop
<1>9. CASE AddKey \/ AddValue \/ AddDies
  BY <1>3, <1>9 DEF AddKey, AddValue, AddDies, Stop, reader
<1>10. CASE PutUpdate \/ PutInsert \/ GetHit \/ GetMiss \/ ReadDangling
  BY <1>3, <1>10 DEF PutUpdate, PutInsert, GetHit, GetMiss, ReadDangling, Finish, Stop, reader
<1>11. ASSUME NEW n \in FillCounts, Fill(n) \/ FillOverruns(n) \/ FillDies(n) PROVE Counted'
  BY <1>2, <1>11 DEF Fill, FillOverruns, FillDies, Stop
<1>12. CASE Ended \/ UNCHANGED vars
  BY <1>3, <1>12 DEF Ended, vars, reader, control, Counted
<1> QED
  BY <1>1, <1>4, <1>5, <1>6, <1>7, <1>8, <1>9, <1>10, <1>11, <1>12 DEF Next, Advance

-----------------------------------------------------------------------------
\* The values in the buffer: each begins where values says, and ends before len.
Kept ==
    /\ DOMAIN values \subseteq Nat
    /\ \A o \in DOMAIN values : values[o] \in Value /\ o + ValueSize[values[o]] < len

Entry == [key : Key, base : Nat, off : Nat, len : Nat]

\* The value at an offset is as long as the slice says.
Points(off, n) == off \in DOMAIN values /\ n = ValueSize[values[off]]

Indexed ==
    /\ index \in Seq(Entry)
    /\ \A i \in DOMAIN index : Points(index[i].off, index[i].len)
    /\ \A i, j \in DOMAIN index : index[i].key = index[j].key => i = j

Sliced ==
    /\ keySlice \in Slice /\ valueSlice \in Slice
    /\ ret \in Value \cup BOOLEAN \cup {Nothing}
    /\ phase = "put" => /\ Points(valueSlice.off, valueSlice.len)
                        /\ values[valueSlice.off] = cmd.value

BInv == LInv /\ Buffered /\ UnderWay /\ Counted /\ Kept /\ Indexed /\ Sliced

LEMMA BInvInit == Init => BInv
<1> SUFFICES ASSUME Init PROVE BInv
  OBVIOUS
<1>1. LInv
  BY LInvInit
<1>2. Buffered
  BY SizeAssumption DEF Init, Buffered
<1>3. UnderWay
  BY DEF Init, UnderWay, NoCommand
<1>4. Counted
  BY SizeAssumption DEF Init, Counted
<1>5. DOMAIN values = {} /\ DOMAIN index = {} /\ index \in Seq(Entry)
  BY DEF Init
<1>6. Kept /\ Indexed
  BY <1>5 DEF Kept, Indexed
<1>7. Sliced
  BY DEF Init, Sliced, NoSlice, Slice
<1> QED
  BY <1>1, <1>2, <1>3, <1>4, <1>6, <1>7 DEF BInv

\* What is in the buffer stays where it is when bytes are appended behind it.
LEMMA KeptLonger ==
    ASSUME Buffered, Kept, Buffered', len < len', values' = values
    PROVE  Kept'
<1>1. \A o \in DOMAIN values : o \in Nat /\ ValueSize[values[o]] \in Nat
  BY SizeAssumption DEF Kept
<1>2. len \in Nat /\ len' \in Nat
  BY DEF Buffered
<1>3. \A o \in DOMAIN values : o + ValueSize[values[o]] < len'
  BY <1>1, <1>2 DEF Kept
<1> QED
  BY <1>3 DEF Kept

\* Steps that touch neither the buffer nor the index.
LEMMA QuietStep ==
    ASSUME Buffered, Kept, Indexed, Sliced,
           UNCHANGED <<buffer, index, keySlice, valueSlice, ret>>, phase' # "put"
    PROVE  Buffered' /\ Kept' /\ Indexed' /\ Sliced'
BY DEF buffer, Buffered, Kept, Indexed, Sliced, Points, Entry, Slice

\* A command that is over and leaves the index as it is.
LEMMA FinishStep ==
    ASSUME Buffered, Kept, Indexed, Sliced, NEW r \in Value \cup BOOLEAN \cup {Nothing},
           Finish(r)
    PROVE  /\ Buffered' /\ Kept' /\ Sliced'
           /\ index' = index => Indexed'
<1>1. UNCHANGED <<len, cap, base, values>> /\ phase' = "read" /\ ret' = r
      /\ keySlice' = NoSlice /\ valueSlice' = NoSlice
  BY DEF Finish, buffer
<1>2. NoSlice \in Slice
  BY DEF NoSlice, Slice
<1> QED
  BY <1>1, <1>2 DEF Buffered, Kept, Indexed, Sliced, Points, Entry

LEMMA FillStep ==
    ASSUME Buffered, Kept, Indexed, Sliced, NEW n \in FillCounts, Fill(n)
    PROVE  Buffered' /\ Kept' /\ Indexed' /\ Sliced'
<1>1. /\ Reserve(Required(n)) /\ len + n + 1 <= cap' /\ len' = len + n + 1
      /\ UNCHANGED <<values, index, keySlice, valueSlice, ret>> /\ phase' = "read"
  BY DEF Fill
<1>2. n \in Nat
  BY SizeAssumption
<1>3. Required(n) \in Nat
  <2>1. len + n + 1 \in Nat
    BY <1>2 DEF Buffered
  <2> QED
    BY <2>1, Wraps DEF Required
<1>4. Buffered' /\ len < len'
  BY <1>1, <1>2, <1>3, Appended
<1>5. Kept'
  BY <1>1, <1>4, KeptLonger
<1> QED
  BY <1>1, <1>4, <1>5 DEF Indexed, Sliced, Points, Entry, Slice

LEMMA AddKeyStep ==
    ASSUME Buffered, UnderWay, Kept, Indexed, Sliced, AddKey
    PROVE  Buffered' /\ Kept' /\ Indexed' /\ Sliced'
<1>1. /\ Reserve(Required(KeySize[cmd.key])) /\ len' = len + KeySize[cmd.key] + 1
      /\ keySlice' = [base |-> base', off |-> len, len |-> KeySize[cmd.key]]
      /\ phase' = "add value" /\ phase = "add key"
      /\ UNCHANGED <<values, index, valueSlice, ret>>
  BY DEF AddKey
<1>2. PICK n \in Nat : /\ n = KeySize[cmd.key] /\ Required(n) = len + n + 1
  BY <1>1, SizesFit DEF UnderWay
<1>3. len + n + 1 \in Nat
  BY DEF Buffered
<1>4. Buffered' /\ len < len'
  BY <1>1, <1>2, <1>3, Appended
<1>5. Kept'
  BY <1>1, <1>4, KeptLonger
<1>6. keySlice' \in Slice
  BY <1>1, <1>2, <1>4 DEF Buffered, Slice
<1> QED
  BY <1>1, <1>4, <1>5, <1>6 DEF Indexed, Sliced, Points, Entry, Slice

LEMMA AddValueStep ==
    ASSUME Buffered, UnderWay, Kept, Indexed, Sliced, AddValue
    PROVE  /\ Buffered' /\ Kept' /\ Indexed' /\ Sliced'
           /\ \A o \in DOMAIN values : o \in DOMAIN values' /\ values'[o] = values[o]
<1>1. /\ Reserve(Required(ValueSize[cmd.value])) /\ len' = len + ValueSize[cmd.value] + 1
      /\ values' = [o \in DOMAIN values \cup {len} |->
                       IF o = len THEN cmd.value ELSE values[o]]
      /\ valueSlice' = [base |-> base', off |-> len, len |-> ValueSize[cmd.value]]
      /\ phase' = "put" /\ phase = "add value"
      /\ UNCHANGED <<index, cmd, keySlice, ret>>
  BY DEF AddValue
<1>2. cmd.value \in Value
  BY <1>1 DEF UnderWay
<1>3. PICK n \in Nat : /\ n = ValueSize[cmd.value] /\ Required(n) = len + n + 1
  BY <1>2, SizesFit
<1>4. len + n + 1 \in Nat
  BY DEF Buffered
<1>5. Buffered' /\ len < len'
  BY <1>1, <1>3, <1>4, Appended
<1>6. len \in Nat /\ len' \in Nat /\ len' = len + n + 1
  BY <1>1, <1>3, <1>5 DEF Buffered
<1>7. /\ DOMAIN values \subseteq Nat
      /\ \A o \in DOMAIN values : /\ values[o] \in Value /\ ValueSize[values[o]] \in Nat
                                  /\ o + ValueSize[values[o]] < len
  BY SizeAssumption DEF Kept
<1>8. \A o \in DOMAIN values : o # len /\ o \in DOMAIN values' /\ values'[o] = values[o]
  <2>1. \A o \in DOMAIN values : o # len
    BY <1>6, <1>7
  <2> QED
    BY <1>1, <2>1
<1>9. DOMAIN values' = DOMAIN values \cup {len} /\ values'[len] = cmd.value
  BY <1>1
<1>10. Kept'
  <2>1. ASSUME NEW o \in DOMAIN values'
        PROVE  o \in Nat /\ values'[o] \in Value /\ o + ValueSize[values'[o]] < len'
    <3>1. CASE o = len
      BY <1>2, <1>3, <1>6, <1>9, <3>1
    <3>2. CASE o # len
      <4>1. o \in DOMAIN values /\ values'[o] = values[o]
        BY <1>8, <1>9, <2>1, <3>2
      <4> QED
        BY <1>6, <1>7, <4>1
    <3> QED
      BY <3>1, <3>2
  <2> QED
    BY <2>1 DEF Kept
<1>11. \A i \in DOMAIN index : Points(index[i].off, index[i].len)'
  BY <1>1, <1>8 DEF Indexed, Points
<1>12. Indexed'
  BY <1>1, <1>11 DEF Indexed, Entry
<1>13. valueSlice' \in Slice
  BY <1>1, <1>3, <1>5, <1>6 DEF Buffered, Slice
<1>14. Points(valueSlice.off, valueSlice.len)' /\ values'[valueSlice'.off] = cmd'.value
  BY <1>1, <1>9 DEF Points
<1> QED
  BY <1>1, <1>5, <1>8, <1>10, <1>12, <1>13, <1>14 DEF Sliced, Slice

-----------------------------------------------------------------------------
\* index_find comes to every entry it has to: a key it does not find is not there.
LEMMA FoundIs ==
    ASSUME Indexed, NEW k
    PROVE  /\ \A i \in Found(k) : i \in DOMAIN index /\ index[i].key = k
           /\ Found(k) = {} => \A i \in DOMAIN index : index[i].key # k
<1>1. \A i \in Found(k) : i \in DOMAIN index /\ index[i].key = k
  BY DEF Found, Compared, Candidates
<1>2. ASSUME NEW i \in DOMAIN index, index[i].key = k PROVE Found(k) # {}
  <2> DEFINE Same == {j \in DOMAIN index : index[j].key = k}
  <2>1. Same \subseteq Nat
    BY DEF Indexed
  <2>2. PICK j \in Same : \A l \in Same : j <= l
    <3>1. i \in Same
      BY <1>2
    <3> HIDE DEF Same
    <3> QED
      BY <2>1, <3>1, LeastNumber
  <2>3. j \in Candidates(k)
    BY <2>2 DEF Candidates
  <2>4. ASSUME NEW l \in Candidates(k), l < j PROVE index[l].key # k
    <3>1. l \in DOMAIN index
      BY DEF Candidates
    <3>2. l \in Nat /\ j \in Nat
      BY <2>1, <3>1 DEF Indexed
    <3> QED
      BY <2>2, <2>4, <3>1, <3>2
  <2>5. j \in Found(k)
    BY <2>2, <2>3, <2>4 DEF Found, Compared
  <2> QED
    BY <2>5
<1> QED
  BY <1>1, <1>2

\* database_add, once the key is known: the entry there was, or a new one.
LEMMA PutUpdateStep ==
    ASSUME Buffered, UnderWay, Kept, Indexed, Sliced, PutUpdate
    PROVE  /\ Buffered' /\ Kept' /\ Indexed' /\ Sliced'
           /\ \E i \in DOMAIN index :
                 /\ index[i].key = cmd.key /\ index'[i].key = cmd.key
                 /\ DOMAIN index' = DOMAIN index /\ index'[i].off = valueSlice.off
                 /\ \A j \in DOMAIN index : j # i => index'[j] = index[j]
<1>1. PICK i \in Found(cmd.key) :
          index' = [index EXCEPT ![i].off = valueSlice.off, ![i].len = valueSlice.len]
  BY DEF PutUpdate
<1>2. Finish(TRUE) /\ phase = "put" /\ values' = values
  BY DEF PutUpdate, Finish, buffer
<1>3. i \in DOMAIN index /\ index[i].key = cmd.key
  BY FoundIs
<1>4. valueSlice.off \in Nat /\ valueSlice.len \in Nat /\ Points(valueSlice.off, valueSlice.len)
  BY <1>2 DEF Sliced, Slice
<1>5. index[i] \in Entry
  BY <1>3 DEF Indexed
<1>6. PICK e : e = [index[i] EXCEPT !.off = valueSlice.off, !.len = valueSlice.len]
  OBVIOUS
<1>7. /\ e \in Entry /\ e.key = index[i].key /\ e.off = valueSlice.off
      /\ e.len = valueSlice.len
  BY <1>4, <1>5, <1>6 DEF Entry
<1>8. index' = [index EXCEPT ![i] = e]
  BY <1>1, <1>3, <1>6
<1>9. /\ index' \in Seq(Entry) /\ DOMAIN index' = DOMAIN index /\ index'[i] = e
      /\ \A j \in DOMAIN index : j # i => index'[j] = index[j]
  BY <1>3, <1>7, <1>8 DEF Indexed
<1>10. \A j \in DOMAIN index' : Points(index[j].off, index[j].len)'
  BY <1>2, <1>4, <1>7, <1>9 DEF Indexed, Points
<1>11. \A j \in DOMAIN index : index'[j].key = index[j].key
  BY <1>7, <1>9
<1>12. Indexed'
  BY <1>9, <1>10, <1>11 DEF Indexed, Entry
<1>13. Buffered' /\ Kept' /\ Sliced'
  BY <1>2, FinishStep
<1> QED
  BY <1>3, <1>7, <1>9, <1>12, <1>13

LEMMA PutInsertStep ==
    ASSUME Buffered, UnderWay, Kept, Indexed, Sliced, PutInsert
    PROVE  /\ Buffered' /\ Kept' /\ Indexed' /\ Sliced'
           /\ \A i \in DOMAIN index : index[i].key # cmd.key
           /\ \E i \in DOMAIN index' :
                 /\ index'[i].key = cmd.key /\ index'[i].off = valueSlice.off
                 /\ i \notin DOMAIN index /\ DOMAIN index' = DOMAIN index \cup {i}
                 /\ \A j \in DOMAIN index : index'[j] = index[j]
<1>1. PICK e : e = [key |-> cmd.key, base |-> keySlice.base,
                    off |-> valueSlice.off, len |-> valueSlice.len]
  OBVIOUS
<1>2. /\ phase = "put" /\ Found(cmd.key) = {} /\ Finish(TRUE) /\ values' = values
      /\ index' = Append(index, e)
  BY <1>1 DEF PutInsert, Finish, buffer
<1>3. \A i \in DOMAIN index : index[i].key # cmd.key
  BY <1>2, FoundIs
<1>4. Points(valueSlice.off, valueSlice.len)
  BY <1>2 DEF Sliced
<1>5. e \in Entry /\ e.key = cmd.key /\ e.off = valueSlice.off /\ e.len = valueSlice.len
  BY <1>1, <1>2 DEF Entry, Sliced, Slice, UnderWay
<1>6. PICK n \in Nat : n = Len(index) + 1
  BY DEF Indexed
<1>7. /\ index' \in Seq(Entry) /\ n \in DOMAIN index' /\ n \notin DOMAIN index
      /\ DOMAIN index' = DOMAIN index \cup {n} /\ index'[n] = e
      /\ \A j \in DOMAIN index : index'[j] = index[j]
  <2>1. index \in Seq(Entry) /\ DOMAIN index = 1 .. Len(index) /\ Len(index) \in Nat
    BY DEF Indexed
  <2>2. index' \in Seq(Entry) /\ Len(index') = Len(index) + 1
    BY <1>2, <1>5, <2>1
  <2>3. DOMAIN index' = 1 .. Len(index) + 1
    BY <2>2
  <2> QED
    BY <1>2, <1>5, <1>6, <2>1, <2>2, <2>3
<1>8. \A j \in DOMAIN index' : Points(index[j].off, index[j].len)'
  BY <1>2, <1>4, <1>5, <1>7 DEF Indexed, Points
<1>9. \A i, j \in DOMAIN index' : index'[i].key = index'[j].key => i = j
  BY <1>3, <1>5, <1>7 DEF Indexed
<1>10. Indexed'
  BY <1>7, <1>8, <1>9 DEF Indexed, Entry
<1>11. Buffered' /\ Kept' /\ Sliced'
  BY <1>2, FinishStep
<1> QED
  BY <1>3, <1>5, <1>7, <1>10, <1>11

\* An entry's slice is inside the bytes used.
LEMMA EntriesInRange ==
    ASSUME Buffered, Kept, Indexed
    PROVE  \A i \in DOMAIN index : InRange(index[i])
<1>1. ASSUME NEW i \in DOMAIN index PROVE InRange(index[i])
  <2>1. PICK o \in DOMAIN values : o = index[i].off /\ index[i].len = ValueSize[values[o]]
    BY DEF Indexed, Points
  <2>2. o \in Nat /\ values[o] \in Value /\ o + ValueSize[values[o]] < len
    BY DEF Kept
  <2>3. PICK n \in Nat : n = ValueSize[values[o]]
    BY <2>2, SizeAssumption
  <2>4. len \in Nat
    BY DEF Buffered
  <2> QED
    BY <2>1, <2>2, <2>3, <2>4 DEF InRange
<1> QED
  BY <1>1

\* database_get: what is answered.
LEMMA GetStep ==
    ASSUME Buffered, UnderWay, Kept, Indexed, Sliced, GetHit \/ GetMiss
    PROVE  /\ Buffered' /\ Kept' /\ Indexed' /\ Sliced'
           /\ phase = "get" /\ index' = index /\ values' = values /\ cmd' = NoCommand
           /\ \/ \E i \in DOMAIN index : /\ index[i].key = cmd.key
                                         /\ ret' = values[index[i].off]
              \/ (\A i \in DOMAIN index : index[i].key # cmd.key) /\ ret' = Nothing
<1>1. CASE GetHit
  <2>1. PICK i \in Found(cmd.key) :
            IF InRange(index[i])
            THEN Finish(IF index[i].off \in DOMAIN values THEN values[index[i].off] ELSE Nothing)
                 /\ UNCHANGED index
            ELSE Stop("died") /\ UNCHANGED <<reader, commands>>
    BY <1>1 DEF GetHit
  <2>2. i \in DOMAIN index /\ index[i].key = cmd.key /\ phase = "get"
    BY <1>1, FoundIs DEF GetHit
  <2>3. InRange(index[i]) /\ index[i].off \in DOMAIN values /\ values[index[i].off] \in Value
    BY <2>2, EntriesInRange DEF Indexed, Points, Kept
  <2>4. Finish(values[index[i].off]) /\ index' = index
    BY <2>1, <2>3
  <2>5. Buffered' /\ Kept' /\ Indexed' /\ Sliced'
    BY <2>3, <2>4, FinishStep
  <2> QED
    BY <2>2, <2>4, <2>5 DEF Finish, buffer
<1>2. CASE GetMiss
  <2>1. Finish(Nothing) /\ index' = index /\ Found(cmd.key) = {} /\ phase = "get"
    BY <1>2 DEF GetMiss
  <2>2. \A i \in DOMAIN index : index[i].key # cmd.key
    BY <2>1, FoundIs
  <2>3. Buffered' /\ Kept' /\ Indexed' /\ Sliced'
    BY <2>1, FinishStep
  <2> QED
    BY <2>1, <2>2, <2>3 DEF Finish, buffer
<1> QED
  BY <1>1, <1>2

\* The steps that only read, or end the program.
Quiet ==
    \/ \E newline \in BOOLEAN : GetByte(newline)
    \/ LineTooLong \/ LastLine \/ EndOfFile
    \/ ReadOther \/ ReadExit \/ ParseError
    \/ AddDies \/ ReadDangling
    \/ \E n \in FillCounts : FillOverruns(n) \/ FillDies(n)
    \/ Ended \/ UNCHANGED vars

Reads == \E k \in Key : ReadGet(k) \/ \E v \in Value : ReadAdd(k, v)

LEMMA QuietIs ==
    ASSUME UnderWay, Quiet
    PROVE  /\ UNCHANGED <<buffer, index, cmd, keySlice, valueSlice, ret>>
           /\ phase' = "put" => phase = "put"
<1>1. CASE \E newline \in BOOLEAN : GetByte(newline)
  BY <1>1 DEF GetByte
<1>2. CASE LineTooLong \/ LastLine \/ EndOfFile \/ ReadOther \/ ReadExit \/ ParseError
  BY <1>2 DEF LineTooLong, LastLine, EndOfFile, ReadOther, ReadExit, ParseError, Stop
<1>3. CASE AddDies \/ ReadDangling
  BY <1>3 DEF AddDies, ReadDangling, Stop
<1>4. CASE \E n \in FillCounts : FillOverruns(n) \/ FillDies(n)
  BY <1>4 DEF FillOverruns, FillDies, Stop
<1>5. CASE Ended \/ UNCHANGED vars
  BY <1>5 DEF Ended, vars, control
<1> QED
  BY <1>1, <1>2, <1>3, <1>4, <1>5 DEF Quiet

LEMMA NextIs ==
    ASSUME [Next]_vars
    PROVE  \/ Quiet \/ Reads \/ \E n \in FillCounts : Fill(n)
           \/ AddKey \/ AddValue \/ PutUpdate \/ PutInsert \/ GetHit \/ GetMiss
BY DEF Next, Advance, Quiet, Reads

LEMMA BInvStep == BInv /\ [Next]_vars => BInv'
<1> SUFFICES ASSUME BInv, [Next]_vars PROVE BInv'
  OBVIOUS
<1>1. Buffered /\ UnderWay /\ Kept /\ Indexed /\ Sliced
  BY DEF BInv
<1>2. LInv' /\ UnderWay' /\ Counted'
  BY LInvStep, UnderWayStep, CountedStep DEF BInv
<1>3. CASE Quiet
  <2>1. /\ UNCHANGED <<buffer, index, cmd, keySlice, valueSlice, ret>>
        /\ phase' = "put" => phase = "put"
    BY <1>1, <1>3, QuietIs
  <2>2. Buffered' /\ Kept' /\ Indexed' /\ Sliced'
    BY <1>1, <2>1 DEF buffer, Buffered, Kept, Indexed, Sliced, Points, Entry, Slice
  <2> QED
    BY <1>2, <2>2 DEF BInv
<1>4. CASE Reads
  <2>1. UNCHANGED <<buffer, index, keySlice, valueSlice, ret>> /\ phase' # "put"
    BY <1>4 DEF Reads, ReadGet, ReadAdd
  <2> QED
    BY <1>1, <1>2, <2>1, QuietStep DEF BInv
<1>5. CASE \E n \in FillCounts : Fill(n)
  BY <1>1, <1>2, <1>5, FillStep DEF BInv
<1>6. CASE AddKey
  BY <1>1, <1>2, <1>6, AddKeyStep DEF BInv
<1>7. CASE AddValue
  BY <1>1, <1>2, <1>7, AddValueStep DEF BInv
<1>8. CASE PutUpdate
  BY <1>1, <1>2, <1>8, PutUpdateStep DEF BInv
<1>9. CASE PutInsert
  BY <1>1, <1>2, <1>9, PutInsertStep DEF BInv
<1>10. CASE GetHit \/ GetMiss
  BY <1>1, <1>2, <1>10, GetStep DEF BInv
<1> QED
  BY <1>3, <1>4, <1>5, <1>6, <1>7, <1>8, <1>9, <1>10, NextIs

\* The inductive invariant of buffer and index: where each value begins and that it
\* ends before len, and what the slices of the index and of database_add point to.
THEOREM BufferInvariant == Spec => []BInv
<1> QED
  BY BInvInit, BInvStep, PTL DEF Spec

\* No command that completes, FILL counts near SIZE_MAX among them, leaves the
\* buffer overrun or a slice outside of it (textbuf_append, textbuf_fill, textbuf_at).
THEOREM BufferIsSound == Spec => []BufferSound
<1>1. BInv => BufferSound
  <2> SUFFICES ASSUME BInv PROVE BufferSound
    OBVIOUS
  <2>1. TypeOK
    BY DEF BInv, LInv, Buffered, UnderWay, Counted, Kept, Indexed, Sliced, Entry, TypeOK
  <2>2. \A i \in DOMAIN index : InRange(index[i])
    BY EntriesInRange DEF BInv
  <2> QED
    BY <2>1, <2>2 DEF BInv, Buffered, Indexed, Points, BufferSound
<1> QED
  BY <1>1, BufferInvariant, PTL

-----------------------------------------------------------------------------
\* The map an index and a buffer stand for.
Answers(d, ix, vs) ==
    /\ d = [k \in Key |-> d[k]]
    /\ \A k \in Key, i \in DOMAIN ix : ix[i].key = k => d[k] = vs[ix[i].off]
    /\ \A k \in Key : (\A i \in DOMAIN ix : ix[i].key # k) => d[k] = Nothing

LEMMA MapAnswers ==
    ASSUME NEW ix, \A i, j \in DOMAIN ix : ix[i].key = ix[j].key => i = j, NEW vs, NEW d,
           d = [k \in Key |-> IF \E i \in DOMAIN ix : ix[i].key = k
                              THEN vs[ix[CHOOSE i \in DOMAIN ix : ix[i].key = k].off]
                              ELSE Nothing]
    PROVE  Answers(d, ix, vs)
<1>1. ASSUME NEW k \in Key, NEW i \in DOMAIN ix, ix[i].key = k
      PROVE  d[k] = vs[ix[i].off]
  <2> DEFINE c == CHOOSE j \in DOMAIN ix : ix[j].key = k
  <2>1. c \in DOMAIN ix /\ ix[c].key = k
    BY <1>1
  <2>2. c = i
    BY <1>1, <2>1
  <2>3. d[k] = vs[ix[c].off]
    BY <1>1
  <2> QED
    BY <2>2, <2>3
<1>2. d = [k \in Key |-> d[k]]
  OBVIOUS
<1>3. \A k \in Key : (\A i \in DOMAIN ix : ix[i].key # k) => d[k] = Nothing
  OBVIOUS
<1> QED
  BY <1>1, <1>2, <1>3 DEF Answers

LEMMA DictAnswers == ASSUME Indexed PROVE Answers(Dict, index, values)
BY MapAnswers DEF Dict, Indexed

LEMMA DictAnswersNext == ASSUME Indexed' PROVE Answers(Dict', index', values')
BY MapAnswers DEF Dict, Indexed

\* Two maps that answer alike are one.
LEMMA SameAnswers ==
    ASSUME NEW d, NEW e, d = [k \in Key |-> d[k]], e = [k \in Key |-> e[k]],
           \A k \in Key : d[k] = e[k]
    PROVE  d = e
OBVIOUS

\* Appending a value hides none of those before it.
LEMMA MapAddValue ==
    ASSUME BInv, AddValue PROVE UNCHANGED Map!mapVars
<1>1. /\ Indexed /\ Indexed' /\ index' = index /\ cmd' = cmd /\ ret' = ret
      /\ \A o \in DOMAIN values : values'[o] = values[o]
  BY AddValueStep DEF BInv, AddValue
<1>2. Answers(Dict, index, values) /\ Answers(Dict', index, values')
  BY <1>1, DictAnswers, DictAnswersNext
<1>3. \A i \in DOMAIN index : values'[index[i].off] = values[index[i].off]
  BY <1>1 DEF Indexed, Points
<1>4. ASSUME NEW k \in Key PROVE Dict'[k] = Dict[k]
  <2>1. CASE \E i \in DOMAIN index : index[i].key = k
    BY <1>2, <1>3, <2>1 DEF Answers
  <2>2. CASE \A i \in DOMAIN index : index[i].key # k
    BY <1>2, <2>2 DEF Answers
  <2> QED
    BY <2>1, <2>2
<1>5. Dict' = Dict
  BY <1>2, <1>4, SameAnswers DEF Answers
<1>6. Request' = Request
  BY <1>1 DEF Request
<1> QED
  BY <1>1, <1>5, <1>6 DEF Map!mapVars

\* What an ADD and a GET are to the map.
LEMMA RequestIs ==
    /\ cmd = NoCommand => Request = Map!NoRequest
    /\ cmd \in [key : Key, value : Value] =>
           Request = [op |-> "insert", key |-> cmd.key, value |-> cmd.value]
    /\ cmd \in [key : Key, value : {Nothing}] =>
           Request = [op |-> "find", key |-> cmd.key, value |-> Nothing]
<1>1. cmd = NoCommand => Request = Map!NoRequest
  BY DEF Request, NoCommand, Map!NoRequest
<1>2. ASSUME cmd \in [key : Key, value : Value]
      PROVE  Request = [op |-> "insert", key |-> cmd.key, value |-> cmd.value]
  <2>1. cmd.key # Nothing /\ cmd.value # Nothing
    BY <1>2, NothingAssumption
  <2> QED
    BY <2>1 DEF Request
<1>3. ASSUME cmd \in [key : Key, value : {Nothing}]
      PROVE  Request = [op |-> "find", key |-> cmd.key, value |-> Nothing]
  <2>1. cmd.key # Nothing /\ cmd.value = Nothing
    BY <1>3, NothingAssumption
  <2> QED
    BY <2>1 DEF Request
<1> QED
  BY <1>1, <1>2, <1>3

LEMMA RequestNext == cmd' = NoCommand => Request' = Map!NoRequest
BY DEF Request, NoCommand, Map!NoRequest

\* An ADD that is over has given its key its value, wherever its bytes are.
LEMMA MapPut ==
    ASSUME BInv, BInv', PutUpdate \/ PutInsert PROVE Map!Next
<1>1. /\ Buffered /\ UnderWay /\ Kept /\ Indexed /\ Indexed' /\ Sliced
  BY DEF BInv
<1>2. /\ phase = "put" /\ cmd' = NoCommand /\ ret' = TRUE /\ values' = values
  BY DEF PutUpdate, PutInsert, Finish, buffer
<1>3. cmd \in [key : Key, value : Value] /\ values[valueSlice.off] = cmd.value
  BY <1>1, <1>2 DEF UnderWay, Sliced
<1>4. Answers(Dict, index, values) /\ Answers(Dict', index', values)
  BY <1>1, <1>2, DictAnswers, DictAnswersNext
<1>5. /\ \E i \in DOMAIN index' : index'[i].key = cmd.key /\ index'[i].off = valueSlice.off
      /\ \A k \in Key : k # cmd.key =>
             /\ \A i \in DOMAIN index : index[i].key = k =>
                   i \in DOMAIN index' /\ index'[i] = index[i]
             /\ (\A i \in DOMAIN index : index[i].key # k) =>
                   \A i \in DOMAIN index' : index'[i].key # k
  <2>1. CASE PutUpdate
    <3>1. PICK i \in DOMAIN index :
              /\ index[i].key = cmd.key /\ index'[i].key = cmd.key
              /\ DOMAIN index' = DOMAIN index /\ index'[i].off = valueSlice.off
              /\ \A j \in DOMAIN index : j # i => index'[j] = index[j]
      BY <1>1, <2>1, PutUpdateStep
    <3> QED
      BY <3>1
  <2>2. CASE PutInsert
    <3>1. PICK i \in DOMAIN index' :
              /\ index'[i].key = cmd.key /\ index'[i].off = valueSlice.off
              /\ i \notin DOMAIN index /\ DOMAIN index' = DOMAIN index \cup {i}
              /\ \A j \in DOMAIN index : index'[j] = index[j]
      BY <1>1, <2>2, PutInsertStep
    <3> QED
      BY <3>1
  <2> QED
    BY <2>1, <2>2
<1>6. ASSUME NEW k \in Key PROVE Dict'[k] = [Dict EXCEPT ![cmd.key] = cmd.value][k]
  <2>0. DOMAIN Dict = Key
    BY <1>4 DEF Answers
  <2>1. CASE k = cmd.key
    <3>1. Dict'[k] = cmd.value
      BY <1>3, <1>4, <1>5, <2>1 DEF Answers
    <3> QED
      BY <2>0, <2>1, <3>1
  <2>2. CASE k # cmd.key
    <3>1. Dict'[k] = Dict[k]
      <4>1. CASE \E i \in DOMAIN index : index[i].key = k
        BY <1>4, <1>5, <2>2, <4>1 DEF Answers
      <4>2. CASE \A i \in DOMAIN index : index[i].key # k
        BY <1>4, <1>5, <2>2, <4>2 DEF Answers
      <4> QED
        BY <4>1, <4>2
    <3> QED
      BY <2>0, <2>2, <3>1
  <2> QED
    BY <2>1, <2>2
<1>7. Dict' = [Dict EXCEPT ![cmd.key] = cmd.value]
  <2>1. PICK e : e = [Dict EXCEPT ![cmd.key] = cmd.value]
    OBVIOUS
  <2>2. e = [k \in Key |-> e[k]]
    <3>1. DOMAIN Dict = Key
      BY <1>4 DEF Answers
    <3> QED
      BY <2>1, <3>1
  <2> QED
    BY <1>4, <1>6, <2>1, <2>2, SameAnswers DEF Answers
<1>8. Request = [op |-> "insert", key |-> cmd.key, value |-> cmd.value]
  BY <1>3, RequestIs
<1>9. Request' = Map!NoRequest
  BY <1>2, RequestNext
<1> QED
  BY <1>2, <1>7, <1>8, <1>9 DEF Map!Next, Map!Insert, Map!Return

\* A GET that is over has answered with the value added last.
LEMMA MapGet ==
    ASSUME BInv, BInv', GetHit \/ GetMiss PROVE Map!Next
<1>1. /\ Buffered /\ UnderWay /\ Kept /\ Indexed /\ Indexed' /\ Sliced
  BY DEF BInv
<1>2. /\ phase = "get" /\ index' = index /\ values' = values /\ cmd' = NoCommand
      /\ \/ \E i \in DOMAIN index : index[i].key = cmd.key /\ ret' = values[index[i].off]
         \/ (\A i \in DOMAIN index : index[i].key # cmd.key) /\ ret' = Nothing
  BY <1>1, GetStep
<1>3. cmd \in [key : Key, value : {Nothing}]
  BY <1>1, <1>2 DEF UnderWay
<1>4. Answers(Dict, index, values)
  BY <1>1, DictAnswers
<1>5. ret' = Dict[cmd.key]
  BY <1>2, <1>3, <1>4 DEF Answers
<1>6. Dict' = Dict
  BY <1>2 DEF Dict
<1>7. Request = [op |-> "find", key |-> cmd.key, value |-> Nothing]
  BY <1>3, RequestIs
<1>8. Request' = Map!NoRequest
  BY <1>2, RequestNext
<1> QED
  BY <1>5, <1>6, <1>7, <1>8 DEF Map!Next, Map!Find, Map!Return

\* A line that asks for an ADD or a GET begins a call.
LEMMA MapInvoke ==
    ASSUME BInv, BInv', Reads PROVE Map!Next
<1>1. /\ phase = "parse" /\ UNCHANGED <<values, index, ret>>
      /\ \/ \E k \in Key : cmd' = [key |-> k, value |-> Nothing]
         \/ \E k \in Key, v \in Value : cmd' = [key |-> k, value |-> v]
  BY DEF Reads, ReadGet, ReadAdd, Command, buffer
<1>2. Request = Map!NoRequest
  BY <1>1, RequestIs DEF BInv, UnderWay
<1>3. Dict' = Dict
  BY <1>1 DEF Dict
<1>4. Request' \in Map!Request
  BY <1>1, NothingAssumption DEF Request, Map!Request
<1> QED
  BY <1>1, <1>2, <1>3, <1>4 DEF Map!Next, Map!Invoke

LEMMA MapStutters ==
    ASSUME BInv, Quiet \/ AddKey \/ \E n \in FillCounts : Fill(n)
    PROVE  UNCHANGED Map!mapVars
<1>1. UNCHANGED <<values, index, cmd, ret>>
  <2>1. CASE Quiet
    BY <2>1, QuietIs DEF BInv, buffer
  <2>2. CASE AddKey
    BY <2>2 DEF AddKey
  <2>3. CASE \E n \in FillCounts : Fill(n)
    BY <2>3 DEF Fill
  <2> QED
    BY <2>1, <2>2, <2>3
<1> QED
  BY <1>1 DEF Map!mapVars, Dict, Request

LEMMA MapInit == Init => Map!Init
<1> SUFFICES ASSUME Init PROVE Map!Init
  OBVIOUS
<1>1. DOMAIN index = {}
  BY DEF Init
<1>2. Dict = [k \in Key |-> Nothing]
  BY <1>1 DEF Dict
<1>3. Request = Map!NoRequest
  BY RequestIs DEF Init
<1> QED
  BY <1>2, <1>3 DEF Init, Map!Init

LEMMA MapNext == BInv /\ BInv' /\ [Next]_vars => [Map!Next]_(Map!mapVars)
<1> SUFFICES ASSUME BInv, BInv', [Next]_vars PROVE Map!Next \/ UNCHANGED Map!mapVars
  OBVIOUS
<1> QED
  BY NextIs, MapAddValue, MapPut, MapGet, MapInvoke, MapStutters

\* As long as it answers, the program is a map: a GET answers with the value added
\* last, wherever the buffer is by then (database_get reads by offset).
THEOREM AnswersAreAMap == Spec => ImplementsMap
<1>1. Init => Map!Init
  BY MapInit
<1>2. BInv /\ BInv' /\ [Next]_vars => [Map!Next]_(Map!mapVars)
  BY MapNext
<1> QED
  BY <1>1, <1>2, BufferInvariant, PTL DEF Spec, ImplementsMap, Map!Spec

-----------------------------------------------------------------------------
\* The buffer does not come back: no entry, nor the slice of the key that is being
\* added, has a base of later than now.
NoneLater ==
    /\ \A i \in DOMAIN index : index[i].base <= base
    /\ keySlice.base <= base

LEMMA BaseGrows ==
    ASSUME BInv, BInv', [Next]_vars PROVE base' \in {base, base + 1}
<1>1. CASE Quiet
  BY <1>1, QuietIs DEF BInv, buffer
<1>2. CASE Reads
  BY <1>2 DEF Reads, ReadGet, ReadAdd, buffer
<1>3. CASE \E n \in FillCounts : Fill(n)
  BY <1>3 DEF Fill, Reserve
<1>4. CASE AddKey \/ AddValue
  BY <1>4 DEF AddKey, AddValue, Reserve
<1>5. CASE PutUpdate \/ PutInsert \/ GetHit \/ GetMiss
  BY <1>5 DEF PutUpdate, PutInsert, GetHit, GetMiss, Finish, Stop, buffer
<1> QED
  BY <1>1, <1>2, <1>3, <1>4, <1>5, NextIs

\* An entry keeps its key and its pointer for good; a new one gets the pointer
\* database_add took.
LEMMA EntriesStay ==
    ASSUME BInv, [Next]_vars
    PROVE  /\ \A i \in DOMAIN index : /\ i \in DOMAIN index'
                                      /\ index'[i].key = index[i].key
                                      /\ index'[i].base = index[i].base
           /\ \A i \in DOMAIN index' : i \in DOMAIN index \/ index'[i].base = keySlice.base
           /\ keySlice'.base \in {0, keySlice.base, base'}
<1>1. index \in Seq(Entry) /\ UnderWay /\ keySlice \in Slice
  BY DEF BInv, Indexed, Sliced
<1>2. CASE Quiet
  BY <1>1, <1>2, QuietIs
<1>3. CASE Reads \/ \E n \in FillCounts : Fill(n)
  BY <1>3 DEF Reads, ReadGet, ReadAdd, Fill
<1>4. CASE AddKey \/ AddValue
  <2>1. index' = index
    BY <1>4 DEF AddKey, AddValue
  <2>2. ASSUME AddKey PROVE keySlice'.base = base'
    <3>1. keySlice' = [base |-> base', off |-> len, len |-> KeySize[cmd.key]]
      BY <2>2 DEF AddKey
    <3> QED
      BY <3>1
  <2>3. AddValue => keySlice' = keySlice
    BY DEF AddValue
  <2> QED
    BY <1>4, <2>1, <2>2, <2>3
<1>5. CASE GetHit \/ GetMiss
  BY <1>5 DEF GetHit, GetMiss, Finish, Stop, NoSlice
<1>6. CASE PutUpdate
  <2>1. PICK i \in Found(cmd.key) :
           index' = [index EXCEPT ![i].off = valueSlice.off, ![i].len = valueSlice.len]
    BY <1>6 DEF PutUpdate
  <2>2. DOMAIN index' = DOMAIN index
        /\ \A j \in DOMAIN index : /\ index[j] \in Entry
                                   /\ j # i => index'[j] = index[j]
    BY <1>1, <2>1
  <2>3. i \in DOMAIN index
    BY DEF Found, Compared, Candidates
  <2>4. index'[i].key = index[i].key /\ index'[i].base = index[i].base
    BY <1>1, <2>1, <2>2, <2>3 DEF Entry
  <2>5. keySlice' = NoSlice
    BY <1>6 DEF PutUpdate, Finish
  <2> QED
    BY <2>2, <2>4, <2>5 DEF NoSlice
<1>7. CASE PutInsert
  <2> DEFINE e == [key |-> cmd.key, base |-> keySlice.base,
                   off |-> valueSlice.off, len |-> valueSlice.len]
  <2>1. index' = Append(index, e) /\ keySlice' = NoSlice
    BY <1>7 DEF PutInsert, Finish
  <2>2. /\ DOMAIN index' = DOMAIN index \cup {Len(index) + 1}
        /\ index'[Len(index) + 1] = e
        /\ \A i \in DOMAIN index : index'[i] = index[i]
    BY <1>1, <2>1
  <2> QED
    BY <2>1, <2>2 DEF NoSlice
<1> QED
  BY <1>2, <1>3, <1>4, <1>5, <1>6, <1>7, NextIs

LEMMA BasesAre ==
    ASSUME BInv PROVE keySlice.base \in Nat /\ \A i \in DOMAIN index : index[i].base \in Nat
<1>1. keySlice \in Slice /\ index \in Seq(Entry)
  BY DEF BInv, Sliced, Indexed
<1>2. \A i \in DOMAIN index : index[i] \in Entry
  BY <1>1
<1> QED
  BY <1>1, <1>2 DEF Slice, Entry

LEMMA NoneLaterStep == BInv /\ BInv' /\ NoneLater /\ [Next]_vars => NoneLater'
<1> SUFFICES ASSUME BInv, BInv', NoneLater, [Next]_vars PROVE NoneLater'
  OBVIOUS
<1>1. base \in Nat /\ base' \in Nat /\ base <= base'
  BY BaseGrows DEF BInv, Buffered
<1>2. keySlice.base \in Nat /\ \A i \in DOMAIN index : index[i].base \in Nat
  BY BasesAre
<1>3. keySlice'.base <= base'
  BY <1>1, <1>2, EntriesStay DEF NoneLater
<1>4. ASSUME NEW i \in DOMAIN index' PROVE index'[i].base <= base'
  BY <1>1, <1>2, EntriesStay DEF NoneLater
<1> QED
  BY <1>3, <1>4 DEF NoneLater

\* A key whose entry dangles has a compare that does: index_find comes to it before
\* it can find the key anywhere else.
LEMMA MovedIsCompared ==
    ASSUME Indexed, NEW k, Moved(k)
    PROVE  \E i \in Compared(k) : Dangling(index[i].base)
<1>1. PICK i \in DOMAIN index : index[i].key = k /\ Dangling(index[i].base)
  BY DEF Moved
<1>2. i \in Candidates(k)
  BY <1>1 DEF Candidates
<1>3. ASSUME NEW j \in Candidates(k), j < i PROVE index[j].key # k
  <2>1. j \in DOMAIN index /\ i \in Nat /\ j \in Nat
    BY <1>1 DEF Candidates, Indexed
  <2> QED
    BY <1>1, <1>3, <2>1 DEF Indexed
<1> QED
  BY <1>1, <1>2, <1>3 DEF Compared

\* The safety half of MovedKeyNeverAnswers: once the buffer has moved away from a key
\* it is lost for good, and no later move brings it back; a GET or an ADD that looks
\* it up, and an ADD whose own key has moved, complete no compare that would answer
\* (index_find, index_put).
THEOREM MovedKeyIsLost ==
    Spec => [][/\ \A k \in Key : Moved(k) => Moved(k)'
               /\ Lost => /\ phase' \in {phase, "faulted", "undefined"}
                          /\ UNCHANGED <<index, values, ret>>]_vars
<1>1. ASSUME BInv, BInv', NoneLater, NEW k \in Key, Moved(k), [Next]_vars PROVE Moved(k)'
  <2>1. PICK i \in DOMAIN index : index[i].key = k /\ index[i].base # base
    BY <1>1 DEF Moved, Dangling
  <2>2. index[i].base \in Nat /\ base \in Nat /\ index[i].base < base
    <3>1. index[i].base \in Nat /\ base \in Nat /\ index[i].base <= base
      BY <1>1, BasesAre DEF BInv, Buffered, NoneLater
    <3> QED
      BY <2>1, <3>1
  <2>3. base' \in Nat /\ base <= base'
    BY <1>1, <2>2, BaseGrows
  <2>4. i \in DOMAIN index' /\ index'[i].key = k /\ index'[i].base # base'
    BY <1>1, <2>1, <2>2, <2>3, EntriesStay
  <2> QED
    BY <2>4 DEF Moved, Dangling
<1>2. ASSUME BInv, Lost, [Next]_vars
      PROVE  /\ phase' \in {phase, "faulted", "undefined"}
             /\ UNCHANGED <<index, values, ret>>
  <2>1. /\ phase \in {"get", "put"}
        /\ phase = "get" => GetDangles
        /\ phase = "put" => PutDangles
    BY <1>2, MovedIsCompared DEF BInv, Lost, GetDangles, PutDangles
  <2>2. CASE ReadDangling
    BY <2>2 DEF ReadDangling, Stop, buffer
  <2>3. CASE Ended \/ UNCHANGED vars
    BY <2>3 DEF Ended, vars, buffer, control
  <2>4. CASE PutUpdate \/ PutInsert \/ GetHit \/ GetMiss
    BY <2>1, <2>4 DEF PutUpdate, PutInsert, GetHit, GetMiss
  <2>5. ~AddKey /\ ~AddValue /\ ~AddDies
    BY <2>1 DEF AddKey, AddValue, AddDies
  <2>6. ~LineTooLong /\ ~LastLine /\ ~EndOfFile /\ \A newline \in BOOLEAN : ~GetByte(newline)
    BY <2>1 DEF LineTooLong, LastLine, EndOfFile, GetByte, Reading
  <2>7. /\ \A k \in Key : ~ReadGet(k) /\ \A v \in Value : ~ReadAdd(k, v)
        /\ ~ReadOther /\ ~ReadExit /\ ~ParseError
        /\ \A n \in FillCounts : ~Fill(n) /\ ~FillOverruns(n) /\ ~FillDies(n)
    BY <2>1 DEF ReadGet, ReadAdd, ReadOther, ReadExit, ParseError, Fill, FillOverruns,
                FillDies, Command
  <2> QED
    BY <1>2, <2>2, <2>3, <2>4, <2>5, <2>6, <2>7 DEF Next, Advance
<1>3. Init => NoneLater
  <2> SUFFICES ASSUME Init PROVE NoneLater
    OBVIOUS
  <2>1. DOMAIN index = {} /\ keySlice.base = 0 /\ base = 0
    BY DEF Init, NoSlice
  <2> QED
    BY <2>1 DEF NoneLater
<1>4. BInv /\ BInv' /\ NoneLater /\ [Next]_vars =>
        /\ \A k \in Key : Moved(k) => Moved(k)'
        /\ Lost => /\ phase' \in {phase, "faulted", "undefined"}
                   /\ UNCHANGED <<index, values, ret>>
  BY <1>1, <1>2
<1> QED
  BY <1>3, <1>4, NoneLaterStep, BufferInvariant, PTL DEF Spec
=============================================================================
