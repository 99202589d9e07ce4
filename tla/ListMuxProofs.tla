--------------------------- MODULE ListMuxProofs ---------------------------
(***************************************************************************)
(* What stays true of listmux's lists when notes overwrite links, for any  *)
(* tasks, priorities, lengths of notes and number of commands; and that    *)
(* the lists are the queues of TaskQueues when every note fits.            *)
(***************************************************************************)
EXTENDS ListMux, TLAPS, FiniteSetTheorems, SequenceTheorems, WellFoundedInduction

InState(q) == {t \in Id : state[t] = q}

\* The links the lists would have, had no note overwritten any: tn and tp are
\* inverse to each other and stay within a queue; the links there are differ from
\* them only where they were overwritten, which no head's link was.  Tasks come
\* in the order of their ranks: b is a rank still free, so the chain from a head
\* comes back to it and not to a task.
Shadow(tn, tp, r, b) ==
    /\ \A n \in InList :
          /\ tn[n] \in InList /\ Where(tn[n]) = Where(n) /\ tp[tn[n]] = n
          /\ tp[n] \in InList /\ Where(tp[n]) = Where(n) /\ tn[tp[n]] = n
          /\ next[n] \in {tn[n]} \cup Damaged /\ prev[n] \in {tp[n]} \cup Damaged
    /\ \A t \in Created : r[t] < b /\ (tn[t] \in Id => r[t] < r[tn[t]])
    /\ \A q \in Queue : next[q] = tn[q] /\ prev[q] = tp[q]

\* A task that was not created is linked nowhere.
Unlinked == \A t \in Id : ~Exists(t) => ~Linked(prev, next, t)

Links == /\ Unlinked
         /\ \E tn, tp \in [Node -> Node], r \in [Id -> Nat], b \in Nat :
                Shadow(tn, tp, r, b)

Counted == \A q \in Queue : /\ IsFiniteSet(InState(q))
                            /\ count[q] = Cardinality(InState(q))

\* scheduler_run: what choose_ready looks at and has chosen is in the ready list,
\* and every turn so far has put a task into the done list.
Running ==
    /\ phase \in {"run", "choose"} => turns <= count["done"]
    /\ phase = "choose" => /\ cur \in Damaged \/ (cur \in InList /\ Where(cur) = "ready")
                           /\ best # None => state[best] = "ready"

Ids(s) == {s[i] : i \in DOMAIN s}

\* print_list has printed all of q, or, at cur, what it has come by on the way
\* from the head: each task once, each behind another or the head.
Listed(q) == Ids(printed[q]) = InState(q) /\ Len(printed[q]) = count[q]

Passed(q) ==
    LET seen == Ids(printed[q])
    IN  /\ seen \subseteq InState(q)
        /\ IsFiniteSet(seen) /\ Cardinality(seen) = Len(printed[q])
        /\ cur \notin seen
        /\ \A s \in seen \cup {cur} : \E n \in seen \cup {q} : next[n] = s
        /\ \A n \in seen \cup {q} : next[n] \in seen \cup {cur}

Printed ==
    /\ phase \in {"parse", "apply", "run", "choose"} =>
           \A q \in Queue : printed[q] = <<>>
    /\ phase = "print waiting" =>
           Passed("waiting") /\ printed["ready"] = <<>> /\ printed["done"] = <<>>
    /\ phase = "print ready" =>
           Listed("waiting") /\ Passed("ready") /\ printed["done"] = <<>>
    /\ phase = "print done" => Listed("waiting") /\ Listed("ready") /\ Passed("done")
    /\ phase = "exited" => \A q \in Queue : Listed(q)

LInv == TypeOK /\ Links /\ Counted /\ Running /\ Printed /\ ListChecksStaySilent

-----------------------------------------------------------------------------
\* A set of numbers that is not empty has a least one.
LEMMA LeastOf ==
    ASSUME NEW S, S \subseteq Nat, S # {}
    PROVE  \E m \in S : \A i \in S : m <= i
<1>1. IsWellFoundedOn(OpToRel(<, Nat), Nat)
  BY NatLessThanWellFounded
<1>2. PICK m \in S : \A i \in S : <<i, m>> \notin OpToRel(<, Nat)
  BY <1>1, WFMin
<1>3. \A i \in S : ~(i < m)
  BY <1>2 DEF OpToRel
<1> QED
  BY <1>3

LEMMA Apart ==
    /\ Id \cap Queue = {} /\ Node = Id \cup Queue /\ None \notin Node
    /\ Damaged \cap Node = {} /\ None \notin Damaged
    /\ Queue = {"waiting", "ready", "done"}
  BY NodeAssumption, PointerAssumption DEF Node, Damaged, Queue

\* Links with an order behind them agree.
LEMMA ShadowAgrees == ASSUME TypeOK, Links PROVE LinksAgree
<1>1. PICK tn, tp \in [Node -> Node], r \in [Id -> Nat], b \in Nat : Shadow(tn, tp, r, b)
  BY DEF Links
<1>2. ASSUME NEW n \in InList
      PROVE  /\ next[n] \in Damaged \/ /\ next[n] \in InList /\ Where(next[n]) = Where(n)
                                       /\ prev[next[n]] \in {n} \cup Damaged
             /\ prev[n] \in Damaged \/ /\ prev[n] \in InList /\ Where(prev[n]) = Where(n)
                                       /\ next[prev[n]] \in {n} \cup Damaged
  BY <1>1, <1>2 DEF Shadow
<1>3. \A q \in Queue : q \in InList /\ next[q] \in Node /\ prev[q] \in Node
  BY <1>1 DEF Shadow, InList, Created, Node
<1> QED
  BY <1>2, <1>3 DEF LinksAgree

\* Where nothing is linked, unlinked or overwritten.
LEMMA LinksKept == ASSUME Links, UNCHANGED <<prev, next, state>> PROVE Links'
<1>1. PICK tn, tp \in [Node -> Node], r \in [Id -> Nat], b \in Nat : Shadow(tn, tp, r, b)
  BY DEF Links
<1>2. Shadow(tn, tp, r, b)'
  BY <1>1 DEF Shadow, InList, Created, Exists, Where
<1>3. Unlinked'
  BY DEF Links, Unlinked, Linked, Exists
<1> QED
  BY <1>2, <1>3 DEF Links

\* CMD_NOTE overwrites links of one task; the order stays what it was.
LEMMA LinksNote ==
    ASSUME TypeOK, Links, NEW t \in Id, NEW len \in NoteLengths, CmdNote(t, len)
    PROVE  Links' /\ prev' \in [Node -> Pointer] /\ next' \in [Node -> Pointer]
<1>1. PICK tn, tp \in [Node -> Node], r \in [Id -> Nat], b \in Nat : Shadow(tn, tp, r, b)
  BY DEF Links
<1>2. /\ \A p : Overwritten(p, len, 29) \in {p} \cup Damaged
      /\ \A p : Overwritten(p, len, 37) \in {p} \cup Damaged
  BY DEF Overwritten, Damaged
<1>3. /\ prev' = [prev EXCEPT ![t] = Overwritten(prev[t], len, 29)]
      /\ next' = [next EXCEPT ![t] = Overwritten(next[t], len, 37)]
      /\ state' = state
  BY DEF CmdNote, tasks
<1>4. /\ \A n \in Node : prev'[n] \in {prev[n]} \cup Damaged
      /\ \A n \in Node : next'[n] \in {next[n]} \cup Damaged
      /\ \A q \in Queue : prev'[q] = prev[q] /\ next'[q] = next[q]
      /\ prev' \in [Node -> Pointer] /\ next' \in [Node -> Pointer]
  <2> HIDE DEF Overwritten
  <2>1. Damaged \subseteq Pointer /\ t \in Node /\ Queue \subseteq Node /\ t \notin Queue
    BY Apart DEF Damaged, Pointer
  <2> QED
    BY <1>2, <1>3, <2>1 DEF TypeOK
<1>5. InList' = InList /\ Created' = Created /\ InList \subseteq Node
      /\ \A n : Where(n)' = Where(n)
  BY <1>3 DEF InList, Created, Exists, Where, Node
<1>6. Shadow(tn, tp, r, b)'
  BY <1>1, <1>4, <1>5 DEF Shadow
<1>7. Unlinked'
  <2>1. Exists(t)
    BY DEF CmdNote
  <2>2. \A n \in Node : n # t => prev'[n] = prev[n] /\ next'[n] = next[n]
    BY <1>3 DEF TypeOK
  <2> QED
    BY <2>1, <2>2, <1>3, Apart DEF Links, Unlinked, Linked, Exists
<1> QED
  BY <1>4, <1>6, <1>7 DEF Links

\* CMD_TASK puts a new task between the last one and the head.
LEMMA LinksTask ==
    ASSUME TypeOK, Links, NEW t \in Id, NEW p \in Priority, CmdTask(t, p)
    PROVE  Links' /\ prev' \in [Node -> Pointer] /\ next' \in [Node -> Pointer]
<1>1. PICK tn, tp \in [Node -> Node], r \in [Id -> Nat], b \in Nat : Shadow(tn, tp, r, b)
  BY DEF Links
<1> DEFINE q == "waiting"
           l == tp[q]
           tn2 == [tn EXCEPT ![l] = t, ![t] = q]
           tp2 == [tp EXCEPT ![t] = l, ![q] = t]
           r2  == [r EXCEPT ![t] = b]
<1>2. /\ q \in Queue /\ q \in InList /\ t \notin Queue /\ t \in Node /\ q \in Node
      /\ state[t] = None /\ t \notin Created /\ t \notin InList /\ InList \subseteq Node
  BY Apart DEF CmdTask, InList, Created, Exists, Node, Queue
<1>3. /\ l \in InList /\ Where(l) = q /\ tn[l] = q /\ prev[q] = l /\ l # t /\ l \in Node
      /\ tp[q] = l
  BY <1>1, <1>2, Apart DEF Shadow, Where
<1>4. /\ prev' = [prev EXCEPT ![t] = l, ![q] = t]
      /\ next' = [next EXCEPT ![l] = t, ![t] = q]
      /\ state' = [state EXCEPT ![t] = q]
  BY <1>3 DEF CmdTask, PushPrev, PushNext
<1>5. /\ tn2 \in [Node -> Node] /\ tp2 \in [Node -> Node]
      /\ r2 \in [Id -> Nat] /\ b + 1 \in Nat
      /\ prev' \in [Node -> Pointer] /\ next' \in [Node -> Pointer]
  <2>1. tn2 \in [Node -> Node] /\ tp2 \in [Node -> Node]
    BY <1>1, <1>2, <1>3
  <2>2. r2 \in [Id -> Nat] /\ b + 1 \in Nat
    BY <1>1
  <2>3. Node \subseteq Pointer
    BY DEF Pointer
  <2> QED
    BY <2>1, <2>2, <2>3, <1>2, <1>3, <1>4 DEF TypeOK
<1>6. \A n \in Node :
          /\ tn2[n] = IF n = t THEN q ELSE IF n = l THEN t ELSE tn[n]
          /\ tp2[n] = IF n = t THEN l ELSE IF n = q THEN t ELSE tp[n]
          /\ next'[n] = IF n = t THEN q ELSE IF n = l THEN t ELSE next[n]
          /\ prev'[n] = IF n = t THEN l ELSE IF n = q THEN t ELSE prev[n]
  BY <1>1, <1>2, <1>3, <1>4 DEF TypeOK
<1>7. /\ \A u \in Id : r2[u] = IF u = t THEN b ELSE r[u]
      /\ \A u \in Id : state'[u] = IF u = t THEN q ELSE state[u]
  BY <1>1, <1>4 DEF TypeOK
<1>8. /\ Created' = Created \cup {t} /\ InList' = InList \cup {t}
      /\ \A n \in InList : Where(n)' = Where(n)
      /\ Where(t)' = q
  BY <1>2, <1>7, Apart DEF Created, InList, Exists, Where
<1>9. Shadow(tn2, tp2, r2, b + 1)'
  <2> HIDE DEF tn2, tp2, r2, l, q
  <2>1. ASSUME NEW n \in InList'
        PROVE  /\ tn2[n] \in InList' /\ Where(tn2[n])' = Where(n)' /\ tp2[tn2[n]] = n
               /\ tp2[n] \in InList' /\ Where(tp2[n])' = Where(n)' /\ tn2[tp2[n]] = n
               /\ next'[n] \in {tn2[n]} \cup Damaged /\ prev'[n] \in {tp2[n]} \cup Damaged
    <3>1. CASE n = t
      BY <3>1, <1>2, <1>3, <1>6, <1>8 DEF Where
    <3>2. CASE n # t
      <4>1. n \in InList /\ n \in Node
        BY <3>2, <1>8, <1>2
      <4>2. /\ tn[n] \in InList /\ Where(tn[n]) = Where(n) /\ tp[tn[n]] = n
            /\ tp[n] \in InList /\ Where(tp[n]) = Where(n) /\ tn[tp[n]] = n
            /\ next[n] \in {tn[n]} \cup Damaged /\ prev[n] \in {tp[n]} \cup Damaged
        BY <4>1, <1>1 DEF Shadow
      <4>3. Where(q) = q
        BY <1>2 DEF Where
      <4>4. /\ tn2[n] = IF n = l THEN t ELSE tn[n]
            /\ tp2[n] = IF n = q THEN t ELSE tp[n]
            /\ next'[n] = IF n = l THEN t ELSE next[n]
            /\ prev'[n] = IF n = q THEN t ELSE prev[n]
            /\ tp2[t] = l /\ tn2[t] = q
        BY <3>2, <4>1, <1>2, <1>6
      <4>5. Where(n)' = Where(n) /\ Where(t)' = q
        BY <4>1, <1>8
      <4>6. /\ tn2[n] \in InList' /\ Where(tn2[n])' = Where(n)' /\ tp2[tn2[n]] = n
            /\ next'[n] \in {tn2[n]} \cup Damaged
        <5>1. CASE n = l
          BY <5>1, <4>2, <4>4, <4>5, <1>3, <1>8
        <5>2. CASE n # l
          <6>1. tn2[n] = tn[n] /\ tn[n] # q /\ tn[n] # t /\ tn[n] \in Node
            BY <5>2, <4>2, <4>4, <1>2, <1>3
          <6>2. tp2[tn[n]] = n
            BY <6>1, <4>2, <1>6
          <6>3. Where(tn[n])' = Where(tn[n])
            BY <4>2, <1>8
          <6> QED
            BY <5>2, <6>1, <6>2, <6>3, <4>2, <4>4, <4>5, <1>8
        <5> QED
          BY <5>1, <5>2
      <4>7. /\ tp2[n] \in InList' /\ Where(tp2[n])' = Where(n)' /\ tn2[tp2[n]] = n
            /\ prev'[n] \in {tp2[n]} \cup Damaged
        <5>1. CASE n = q
          BY <5>1, <4>3, <4>4, <4>5, <1>8
        <5>2. CASE n # q
          <6>1. tp2[n] = tp[n] /\ tp[n] # l /\ tp[n] # t /\ tp[n] \in Node
            BY <5>2, <4>2, <4>4, <1>2, <1>3
          <6>2. tn2[tp[n]] = n
            BY <6>1, <4>2, <1>6
          <6>3. Where(tp[n])' = Where(tp[n])
            BY <4>2, <1>8
          <6> QED
            BY <5>2, <6>1, <6>2, <6>3, <4>2, <4>4, <4>5, <1>8
        <5> QED
          BY <5>1, <5>2
      <4> QED
        BY <4>6, <4>7
    <3> QED
      BY <3>1, <3>2
  <2>2. ASSUME NEW u \in Created'
        PROVE  r2[u] < b + 1 /\ (tn2[u] \in Id => r2[u] < r2[tn2[u]])
    <3>1. CASE u = t
      BY <3>1, <1>1, <1>2, <1>6, <1>7, Apart
    <3>2. CASE u # t
      <4>1. u \in Created /\ u \in Id /\ u \in Node /\ u \in InList
        BY <3>2, <1>8 DEF Created, Node, InList
      <4>2. r[u] < b /\ (tn[u] \in Id => r[u] < r[tn[u]]) /\ tn[u] \in InList
            /\ r[u] \in Nat
        BY <4>1, <1>1 DEF Shadow
      <4> QED
        BY <3>2, <4>1, <4>2, <1>1, <1>2, <1>6, <1>7
    <3> QED
      BY <3>1, <3>2
  <2>3. ASSUME NEW h \in Queue PROVE next'[h] = tn2[h] /\ prev'[h] = tp2[h]
    BY <1>1, <1>2, <1>6, Apart DEF Shadow
  <2> QED
    BY <2>1, <2>2, <2>3 DEF Shadow
<1>10. Unlinked'
  <2>1. ASSUME NEW u \in Id, ~Exists(u)', u # t PROVE ~Linked(prev, next, u)'
    <3>1. ~Exists(u) /\ u \notin InList
      BY <2>1, <1>4, Apart DEF TypeOK, Exists, InList, Created
    <3>2. u \in Node /\ u # q /\ u # l
      BY <3>1, <1>2, <1>3 DEF Node
    <3>3. prev'[u] = prev[u] /\ next'[u] = next[u]
      <4> HIDE DEF q, l
      <4> QED
        BY <2>1, <3>2, <1>4 DEF TypeOK
    <3> QED
      BY <3>1, <3>3 DEF Links, Unlinked, Linked
  <2>2. Exists(t)'
    BY <1>4, <1>2, Apart DEF TypeOK, Exists, Node
  <2> QED
    BY <2>1, <2>2 DEF Unlinked
<1> QED
  BY <1>5, <1>9, <1>10 DEF Links

\* move_to_ready and finish_task: the neighbours of t become neighbours, whatever
\* links of theirs were overwritten, and t comes between the last task and the head.
LEMMA LinksMove ==
    ASSUME TypeOK, Links, NEW t \in Id, NEW from \in Queue, NEW to \in Queue,
           from # to, state[t] = from, Removable(t), Move(t, from, to)
    PROVE  Links' /\ prev' \in [Node -> Pointer] /\ next' \in [Node -> Pointer]
<1>1. PICK tn, tp \in [Node -> Node], r \in [Id -> Nat], b \in Nat : Shadow(tn, tp, r, b)
  BY DEF Links
<1> DEFINE p == tp[t]
           n == tn[t]
           l == tp[to]
           tn2 == [tn EXCEPT ![p] = n, ![l] = t, ![t] = to]
           tp2 == [tp EXCEPT ![n] = p, ![t] = l, ![to] = t]
           r2  == [r EXCEPT ![t] = b]
<1>2. /\ from \in InList /\ to \in InList /\ t \notin Queue /\ t \in Node /\ to \in Node
      /\ t \in Created /\ t \in InList /\ InList \subseteq Node
      /\ Where(t) = from /\ Where(to) = to /\ Where(from) = from /\ to \notin Id
  BY Apart DEF InList, Created, Exists, Node, Queue, Where
<1>3. /\ l \in InList /\ Where(l) = to /\ tn[l] = to /\ prev[to] = l /\ l \in Node
      /\ p \in InList /\ Where(p) = from /\ tn[p] = t /\ p \in Node
      /\ n \in InList /\ Where(n) = from /\ tp[n] = t /\ n \in Node
  BY <1>1, <1>2 DEF Shadow
<1>4. l # t /\ l # p /\ l # n /\ n # to /\ p # to
  BY <1>2, <1>3
<1>5. n # t /\ p # t
  <2>1. n # t
    BY <1>1, <1>2 DEF Shadow
  <2> QED
    BY <2>1, <1>3
<1>6. next[t] = n /\ prev[t] = p
  BY <1>1, <1>2, Apart DEF Shadow, Removable
<1>7. CutPrev(t) = [prev EXCEPT ![n] = p, ![t] = None]
  BY <1>6 DEF CutPrev
<1>8. CutPrev(t)[to] = l
  <2>1. to # t /\ to # n /\ prev[to] = l /\ prev \in [Node -> Pointer] /\ to \in Node
    BY <1>2, <1>3, <1>4 DEF TypeOK
  <2> HIDE DEF p, n, l
  <2> QED
    BY <2>1, <1>7
<1>9. /\ prev' = [prev EXCEPT ![n] = p, ![t] = None, ![t] = l, ![to] = t]
      /\ next' = [next EXCEPT ![p] = n, ![t] = None, ![l] = t, ![t] = to]
      /\ state' = [state EXCEPT ![t] = to]
  <2>1. next' = PushNext(CutNext(t), CutPrev(t), t, to) /\ prev' = PushPrev(CutPrev(t), t, to)
    BY DEF Move
  <2>2. CutNext(t) = [next EXCEPT ![p] = n, ![t] = None]
    BY <1>6 DEF CutNext
  <2>3. next' = [CutNext(t) EXCEPT ![l] = t, ![t] = to]
    BY <2>1, <1>8 DEF PushNext
  <2>4. prev' = [CutPrev(t) EXCEPT ![t] = l, ![to] = t]
    BY <2>1, <1>8 DEF PushPrev
  <2> QED
    BY <2>2, <2>3, <2>4, <1>7 DEF Move
<1>10. /\ tn2 \in [Node -> Node] /\ tp2 \in [Node -> Node]
       /\ r2 \in [Id -> Nat] /\ b + 1 \in Nat
  BY <1>1, <1>2, <1>3
<1>11. prev' \in [Node -> Pointer] /\ next' \in [Node -> Pointer]
  <2>1. Node \subseteq Pointer /\ None \in Pointer
    BY DEF Pointer
  <2> HIDE DEF p, n, l
  <2> QED
    BY <2>1, <1>2, <1>3, <1>9 DEF TypeOK
<1>12. \A x \in Node :
          /\ tn2[x] = IF x = t THEN to ELSE IF x = l THEN t ELSE IF x = p THEN n ELSE tn[x]
          /\ tp2[x] = IF x = to THEN t ELSE IF x = t THEN l ELSE IF x = n THEN p ELSE tp[x]
  BY <1>1, <1>2, <1>3, <1>4, <1>5
<1>13. \A x \in Node :
          /\ next'[x] = IF x = t THEN to ELSE IF x = l THEN t ELSE IF x = p THEN n ELSE next[x]
          /\ prev'[x] = IF x = to THEN t ELSE IF x = t THEN l ELSE IF x = n THEN p ELSE prev[x]
  <2> HIDE DEF p, n, l
  <2> QED
    BY <1>2, <1>3, <1>4, <1>5, <1>9 DEF TypeOK
<1>14. /\ \A u \in Id : r2[u] = IF u = t THEN b ELSE r[u]
       /\ \A u \in Id : state'[u] = IF u = t THEN to ELSE state[u]
  BY <1>1, <1>9 DEF TypeOK
<1>15. Created' = Created /\ InList' = InList
  <2>1. to # None /\ state[t] # None
    BY Apart
  <2>2. \A u \in Id : Exists(u)' <=> Exists(u)
    BY <2>1, <1>14 DEF Exists
  <2> QED
    BY <2>2 DEF Created, InList
<1>16. /\ \A x \in InList : x # t => Where(x)' = Where(x)
       /\ Where(t)' = to
  BY <1>2, <1>14, Apart DEF Created, InList, Where
<1>17. Shadow(tn2, tp2, r2, b + 1)'
  <2> HIDE DEF tn2, tp2, r2, l, p, n
  <2>1. ASSUME NEW x \in InList
        PROVE  /\ tn2[x] \in InList /\ Where(tn2[x])' = Where(x)' /\ tp2[tn2[x]] = x
               /\ tp2[x] \in InList /\ Where(tp2[x])' = Where(x)' /\ tn2[tp2[x]] = x
               /\ next'[x] \in {tn2[x]} \cup Damaged /\ prev'[x] \in {tp2[x]} \cup Damaged
    <3>1. x \in Node
      BY <1>2
    <3>2. /\ tn[x] \in InList /\ Where(tn[x]) = Where(x) /\ tp[tn[x]] = x
          /\ tp[x] \in InList /\ Where(tp[x]) = Where(x) /\ tn[tp[x]] = x
          /\ next[x] \in {tn[x]} \cup Damaged /\ prev[x] \in {tp[x]} \cup Damaged
      BY <1>1 DEF Shadow
    <3>3. Where(l)' = to /\ Where(p)' = from /\ Where(n)' = from /\ Where(to)' = to
      BY <1>2, <1>3, <1>4, <1>5, <1>16
    <3>4. tn2[t] = to /\ tp2[t] = l /\ tp2[to] = t /\ tn2[l] = t /\ tn2[p] = n /\ tp2[n] = p
      BY <1>2, <1>3, <1>4, <1>5, <1>12
    <3>5. tn[t] = n /\ tp[t] = p /\ tp[to] = l
      BY DEF n, p, l
    <3>6. /\ tn2[x] \in InList /\ Where(tn2[x])' = Where(x)' /\ tp2[tn2[x]] = x
          /\ next'[x] \in {tn2[x]} \cup Damaged
      <4>1. CASE x \in {t, l, p}
        BY <4>1, <3>1, <3>3, <3>4, <1>2, <1>3, <1>5, <1>13, <1>16
      <4>2. CASE x \notin {t, l, p}
        <5>1. tn2[x] = tn[x] /\ next'[x] = next[x]
          BY <4>2, <3>1, <1>12, <1>13
        <5>2. tn[x] # t /\ tn[x] # to /\ tn[x] # n /\ tn[x] \in Node
          BY <4>2, <3>2, <3>5, <1>2, <1>3
        <5>3. tp2[tn[x]] = x
          BY <5>2, <3>2, <1>12
        <5>4. Where(tn[x])' = Where(tn[x]) /\ Where(x)' = Where(x)
          BY <4>2, <5>2, <3>2, <1>16
        <5> QED
          BY <5>1, <5>3, <5>4, <3>2
      <4> QED
        BY <4>1, <4>2
    <3>7. /\ tp2[x] \in InList /\ Where(tp2[x])' = Where(x)' /\ tn2[tp2[x]] = x
          /\ prev'[x] \in {tp2[x]} \cup Damaged
      <4>1. CASE x \in {t, to, n}
        BY <4>1, <3>1, <3>3, <3>4, <1>2, <1>3, <1>4, <1>5, <1>13, <1>16
      <4>2. CASE x \notin {t, to, n}
        <5>1. tp2[x] = tp[x] /\ prev'[x] = prev[x]
          BY <4>2, <3>1, <1>12, <1>13
        <5>2. tp[x] # t /\ tp[x] # l /\ tp[x] # p /\ tp[x] \in Node
          BY <4>2, <3>2, <3>5, <1>2, <1>3
        <5>3. tn2[tp[x]] = x
          BY <5>2, <3>2, <1>12
        <5>4. Where(tp[x])' = Where(tp[x]) /\ Where(x)' = Where(x)
          BY <4>2, <5>2, <3>2, <1>16
        <5> QED
          BY <5>1, <5>3, <5>4, <3>2
      <4> QED
        BY <4>1, <4>2
    <3> QED
      BY <3>6, <3>7
  <2>2. ASSUME NEW u \in Created
        PROVE  r2[u] < b + 1 /\ (tn2[u] \in Id => r2[u] < r2[tn2[u]])
    <3>1. /\ \A v \in Created : r[v] < b /\ (tn[v] \in Id => r[v] < r[tn[v]])
          /\ u \in Id /\ u \in Node /\ \A v \in Id : r[v] \in Nat
          /\ \A v \in Id \cap InList : v \in Created
      BY <1>1, Apart DEF Shadow, Created, Node, InList
    <3>2. CASE u = t
      BY <3>2, <3>1, <1>1, <1>2, <1>12, <1>14
    <3>3. CASE u = p /\ u # l /\ u # t
      <4>1. tn2[u] = n /\ r2[u] = r[u] /\ r[p] < r[t] /\ r[u] < b
        BY <3>3, <3>1, <1>2, <1>3, <1>12, <1>14
      <4>2. n \in Id => r2[n] = r[n] /\ r[t] < r[n]
        BY <3>1, <1>2, <1>5, <1>14 DEF n
      <4> QED
        BY <4>1, <4>2, <3>1, <3>3, <1>2
    <3>4. CASE u = l /\ u # t
      BY <3>4, <3>1, <1>1, <1>2, <1>12, <1>14
    <3>5. CASE u \notin {t, l, p}
      <4>1. tn2[u] = tn[u] /\ r2[u] = r[u] /\ r[u] < b /\ (tn[u] \in Id => r[u] < r[tn[u]])
        BY <3>5, <3>1, <1>12, <1>14
      <4>2. tn[u] # t
        BY <3>5, <3>1, <1>1, <1>2, <1>3 DEF Shadow, InList
      <4> QED
        BY <4>1, <4>2, <3>1, <1>1, <1>14
    <3> QED
      BY <3>2, <3>3, <3>4, <3>5
  <2>3. ASSUME NEW h \in Queue PROVE next'[h] = tn2[h] /\ prev'[h] = tp2[h]
    BY <1>1, <1>2, <1>12, <1>13, Apart DEF Shadow
  <2> QED
    BY <2>1, <2>2, <2>3, <1>15 DEF Shadow
<1>18. Unlinked'
  <2>1. ASSUME NEW u \in Id, ~Exists(u)' PROVE ~Linked(prev, next, u)'
    <3>1. ~Exists(u) /\ u \notin InList
      BY <2>1, <1>9, Apart DEF TypeOK, Exists, InList, Created
    <3>2. u \in Node /\ u \notin {n, p, l, t, to}
      BY <3>1, <1>2, <1>3 DEF Node
    <3>3. prev'[u] = prev[u] /\ next'[u] = next[u]
      <4> HIDE DEF n, p, l
      <4> QED
        BY <3>2, <1>9 DEF TypeOK
    <3> QED
      BY <3>1, <3>3 DEF Links, Unlinked, Linked
  <2> QED
    BY <2>1 DEF Unlinked
<1> QED
  BY <1>10, <1>11, <1>17, <1>18 DEF Links

-----------------------------------------------------------------------------
\* The counts follow the states.
LEMMA CountTask ==
    ASSUME TypeOK, Counted, NEW t \in Id, NEW p \in Priority, CmdTask(t, p)
    PROVE  Counted' /\ count' \in [Queue -> Nat]
<1>1. /\ count' = [count EXCEPT !["waiting"] = @ + 1]
      /\ state' = [state EXCEPT ![t] = "waiting"]
      /\ state[t] = None /\ "waiting" \in Queue
      /\ state \in [Id -> Queue \cup {None}] /\ count \in [Queue -> Nat]
  BY DEF CmdTask, Exists, Queue, TypeOK
<1>2. count' \in [Queue -> Nat]
  BY <1>1
<1>3. ASSUME NEW q \in Queue
      PROVE  IsFiniteSet(InState(q)') /\ count'[q] = Cardinality(InState(q)')
  <2>1. IsFiniteSet(InState(q)) /\ count[q] = Cardinality(InState(q))
    BY DEF Counted
  <2>2. CASE q = "waiting"
    <3>1. InState(q)' = InState(q) \cup {t} /\ t \notin InState(q)
      BY <2>2, <1>1, Apart DEF InState
    <3>2. count'[q] = count[q] + 1
      BY <2>2, <1>1
    <3> QED
      BY <2>1, <3>1, <3>2, FS_AddElement
  <2>3. CASE q # "waiting"
    <3>1. InState(q)' = InState(q)
      BY <2>3, <1>1, Apart DEF InState
    <3>2. count'[q] = count[q]
      BY <2>3, <1>1
    <3> QED
      BY <2>1, <3>1, <3>2
  <2> QED
    BY <2>2, <2>3
<1> QED
  BY <1>2, <1>3 DEF Counted

LEMMA CountMove ==
    ASSUME TypeOK, Counted, NEW t \in Id, NEW from \in Queue, NEW to \in Queue,
           from # to, state[t] = from, Move(t, from, to)
    PROVE  /\ Counted' /\ count' \in [Queue -> Nat] /\ state' \in [Id -> Queue \cup {None}]
           /\ count'[to] = count[to] + 1
<1>1. /\ count' = [count EXCEPT ![from] = @ - 1, ![to] = @ + 1]
      /\ state' = [state EXCEPT ![t] = to]
      /\ state \in [Id -> Queue \cup {None}] /\ count \in [Queue -> Nat]
  BY DEF Move, TypeOK
<1>2. /\ count'[from] = count[from] - 1 /\ count'[to] = count[to] + 1
      /\ \A q \in Queue \ {from, to} : count'[q] = count[q]
      /\ \A q \in Queue : count[q] \in Nat
      /\ DOMAIN count' = Queue
  BY <1>1
<1>3. ASSUME NEW q \in Queue
      PROVE  IsFiniteSet(InState(q)') /\ count'[q] = Cardinality(InState(q)')
  <2>1. IsFiniteSet(InState(q)) /\ count[q] = Cardinality(InState(q))
    BY DEF Counted
  <2>2. CASE q = from
    <3>1. InState(q)' = InState(q) \ {t} /\ t \in InState(q)
      BY <2>2, <1>1 DEF InState
    <3> QED
      BY <2>1, <2>2, <3>1, <1>2, FS_RemoveElement
  <2>3. CASE q = to
    <3>1. InState(q)' = InState(q) \cup {t} /\ t \notin InState(q)
      BY <2>3, <1>1 DEF InState
    <3> QED
      BY <2>1, <2>3, <3>1, <1>2, FS_AddElement
  <2>4. CASE q \notin {from, to}
    <3>1. InState(q)' = InState(q)
      BY <2>4, <1>1 DEF InState
    <3> QED
      BY <2>1, <2>4, <3>1, <1>2
  <2> QED
    BY <2>2, <2>3, <2>4
<1>4. count' \in [Queue -> Nat]
  <2>1. \A q \in Queue : count'[q] \in Nat
    BY <1>3, FS_CardinalityType
  <2>2. count' \in [Queue -> Int]
    BY <1>1
  <2> QED
    BY <2>1, <2>2
<1>5. state' \in [Id -> Queue \cup {None}]
  BY <1>1
<1> QED
  BY <1>2, <1>3, <1>4, <1>5 DEF Counted

\* Where the states are kept, so are the counted sets.
LEMMA CountsKept == ASSUME Counted, UNCHANGED <<count, state>> PROVE Counted'
BY DEF Counted, InState

\* list_remove finds a task linked, and its list not empty.
LEMMA NothingToNotice ==
    ASSUME TypeOK, Links, Counted, NEW t \in Id, NEW from \in Queue, state[t] = from
    PROVE  prev[t] # None /\ next[t] # None /\ count[from] # 0
<1>1. t \in InList
  BY Apart DEF InList, Created, Exists
<1>2. prev[t] # None /\ next[t] # None
  <2>1. LinksAgree
    BY ShadowAgrees
  <2>2. InList \subseteq Node
    BY DEF InList, Created, Node
  <2> QED
    BY <1>1, <2>1, <2>2, Apart DEF LinksAgree
<1>3. t \in InState(from) /\ IsFiniteSet(InState(from))
      /\ count[from] = Cardinality(InState(from))
  BY DEF InState, Counted
<1>4. Cardinality(InState(from)) # 0
  BY <1>3, FS_EmptySet
<1> QED
  BY <1>2, <1>3, <1>4

\* Tasks are done no more often than there are tasks.
LEMMA DoneCreated ==
    ASSUME TypeOK, Counted
    PROVE  count["done"] <= Cardinality(Created) /\ Cardinality(Created) \in Nat
<1>1. Created = (InState("waiting") \cup InState("ready")) \cup InState("done")
  BY Apart DEF Created, Exists, InState, TypeOK
<1>2. /\ IsFiniteSet(InState("waiting")) /\ IsFiniteSet(InState("ready"))
      /\ IsFiniteSet(InState("done")) /\ count["done"] = Cardinality(InState("done"))
  BY DEF Counted, Queue
<1>3. IsFiniteSet(Created)
  BY <1>1, <1>2, FS_Union
<1>4. InState("done") \in SUBSET Created
  BY <1>1
<1> QED
  BY <1>2, <1>3, <1>4, FS_Subset, FS_CardinalityType

-----------------------------------------------------------------------------
\* print_list.  At the head's first link nothing has been passed.
LEMMA PassedNone ==
    ASSUME TypeOK, NEW q \in Queue, printed[q] = <<>>, cur' = next[q],
           UNCHANGED <<state, next, printed>>
    PROVE  Passed(q)'
<1>1. Ids(printed[q])' = {}
  BY DEF Ids
<1>2. IsFiniteSet(Ids(printed[q])') /\ Cardinality(Ids(printed[q])') = 0
  BY <1>1, FS_EmptySet
<1> QED
  BY <1>1, <1>2 DEF Passed

LEMMA IdsAppend ==
    ASSUME NEW S, NEW s \in Seq(S), NEW e \in S
    PROVE  Ids(Append(s, e)) = Ids(s) \cup {e}
<1> DEFINE a == Append(s, e)
<1>1. /\ DOMAIN s = 1 .. Len(s) /\ DOMAIN a = 1 .. Len(s) + 1 /\ Len(s) \in Nat
      /\ \A i \in 1 .. Len(s) : a[i] = s[i]
      /\ a[Len(s) + 1] = e
  OBVIOUS
<1> HIDE DEF a
<1>2. \A i \in DOMAIN a : a[i] \in Ids(s) \cup {e}
  <2>1. \A i \in 1 .. Len(s) : a[i] \in Ids(s)
    BY <1>1 DEF Ids
  <2> QED
    BY <2>1, <1>1
<1>3. \A i \in DOMAIN s : s[i] \in Ids(a)
  <2>1. \A i \in DOMAIN s : i \in DOMAIN a /\ a[i] = s[i]
    BY <1>1
  <2> QED
    BY <2>1 DEF Ids
<1>4. e \in Ids(a)
  <2>1. Len(s) + 1 \in DOMAIN a
    BY <1>1
  <2> QED
    BY <2>1, <1>1 DEF Ids
<1> QED
  <2>1. Ids(a) \subseteq Ids(s) \cup {e}
    BY <1>2 DEF Ids
  <2>2. Ids(s) \subseteq Ids(a)
    BY <1>3 DEF Ids
  <2> QED
    BY <2>1, <2>2, <1>4 DEF a

\* Following the next link of a task: no two tasks have the same, so the walk
\* comes to one it has not passed.
LEMMA PassedMore ==
    ASSUME TypeOK, Links, NEW q \in Queue, Passed(q), cur \in Id,
           printed' = [printed EXCEPT ![q] = Append(@, cur)], cur' = next[cur],
           UNCHANGED <<state, next>>
    PROVE  Passed(q)'
<1> DEFINE seen == Ids(printed[q])
           more == seen \cup {cur}
<1>1. /\ seen \subseteq InState(q) /\ IsFiniteSet(seen)
      /\ Cardinality(seen) = Len(printed[q]) /\ cur \notin seen
      /\ \A s \in seen \cup {cur} : \E n \in seen \cup {q} : next[n] = s
      /\ \A n \in seen \cup {q} : next[n] \in seen \cup {cur}
  BY DEF Passed
<1>2. printed[q] \in Seq(Id) /\ printed'[q] = Append(printed[q], cur)
  BY DEF TypeOK
<1>3. Ids(printed[q])' = more /\ Len(printed'[q]) = Len(printed[q]) + 1
  BY <1>2, IdsAppend
<1>4. IsFiniteSet(more) /\ Cardinality(more) = Len(printed'[q])
  BY <1>1, <1>3, FS_AddElement
<1>5. LinksAgree
  BY ShadowAgrees
<1>6. /\ InState(q) \subseteq InList /\ q \in InList
      /\ \A t \in InState(q) : Where(t) = q
      /\ Where(q) = q
  BY Apart DEF InState, InList, Created, Exists, Where
<1>7. cur \in InState(q)
  <2>1. PICK n \in seen \cup {q} : next[n] = cur
    BY <1>1
  <2>2. n \in InList /\ Where(n) = q
    BY <1>1, <1>6
  <2>3. cur \in InList /\ Where(cur) = q
    BY <2>1, <2>2, <1>5, Apart DEF LinksAgree
  <2> QED
    BY <2>3, Apart DEF Where, InState
<1>8. \A m, n \in InList : next[m] = next[n] /\ next[m] \in Node => m = n
  <2>1. PICK tn, tp \in [Node -> Node], r \in [Id -> Nat], b \in Nat : Shadow(tn, tp, r, b)
    BY DEF Links
  <2>2. ASSUME NEW m \in InList, NEW n \in InList, next[m] = next[n], next[m] \in Node
        PROVE  m = n
    <3>1. next[m] = tn[m] /\ next[n] = tn[n] /\ tp[tn[m]] = m /\ tp[tn[n]] = n
      BY <2>1, <2>2, Apart DEF Shadow
    <3> QED
      BY <3>1, <2>2
  <2> QED
    BY <2>2
<1>9. next[cur] \notin more
  <2>1. SUFFICES ASSUME next[cur] \in more PROVE FALSE
    OBVIOUS
  <2>2. PICK n \in seen \cup {q} : next[n] = next[cur]
    BY <2>1, <1>1
  <2>3. n \in InList /\ cur \in InList /\ next[cur] \in Node
    BY <1>1, <1>6, <1>7, <2>1 DEF Node, InState
  <2>4. n = cur
    BY <2>2, <2>3, <1>8
  <2> QED
    BY <2>4, <1>1, Apart
<1>10. \A s \in more \cup {next[cur]} : \E n \in more \cup {q} : next[n] = s
  BY <1>1
<1>11. \A n \in more \cup {q} : next[n] \in more \cup {next[cur]}
  BY <1>1
<1>12. more \subseteq InState(q)
  BY <1>1, <1>7
<1>13. InState(q)' = InState(q)
  BY DEF InState
<1> HIDE DEF more, seen
<1> QED
  BY <1>3, <1>4, <1>9, <1>10, <1>11, <1>12, <1>13 DEF Passed

\* Back at the head, all has been passed: of the tasks that have not the first in
\* the order would come behind one that has, or behind the head.
LEMMA PassedAll ==
    ASSUME TypeOK, Links, Counted, NEW q \in Queue, Passed(q), cur = q
    PROVE  Listed(q)
<1> DEFINE seen == Ids(printed[q])
<1>1. /\ seen \subseteq InState(q)
      /\ Cardinality(seen) = Len(printed[q])
      /\ \A n \in seen \cup {q} : next[n] \in seen \cup {q}
  BY DEF Passed
<1>2. PICK tn, tp \in [Node -> Node], r \in [Id -> Nat], b \in Nat : Shadow(tn, tp, r, b)
  BY DEF Links
<1>3. /\ InState(q) \subseteq InList /\ q \in InList /\ Where(q) = q
      /\ \A t \in InState(q) : Where(t) = q /\ t \in Created /\ t \in Id
      /\ \A n \in InList : Where(n) = q => n = q \/ n \in InState(q)
  BY Apart DEF InState, InList, Created, Exists, Where
<1>4. \A n \in seen \cup {q} : tn[n] \in seen \cup {q}
  <2>1. ASSUME NEW n \in seen \cup {q} PROVE tn[n] = next[n]
    <3>1. next[n] \in Node /\ n \in InList
      BY <1>1, <1>3, Apart DEF InState, Node
    <3> QED
      BY <3>1, <1>2, Apart DEF Shadow
  <2> QED
    BY <2>1, <1>1
<1>5. InState(q) \subseteq seen
  <2>1. SUFFICES ASSUME NEW t0 \in InState(q) \ seen PROVE FALSE
    OBVIOUS
  <2> DEFINE ranks == {r[u] : u \in InState(q) \ seen}
  <2>2. ranks \subseteq Nat /\ ranks # {}
    BY <2>1, <1>3
  <2>3. PICK k \in ranks : \A i \in ranks : k <= i
    BY <2>2, LeastOf
  <2>4. PICK t \in InState(q) \ seen : r[t] = k
    BY <2>3
  <2>5. /\ tp[t] \in InList /\ Where(tp[t]) = q /\ tn[tp[t]] = t
    BY <2>4, <1>2, <1>3 DEF Shadow
  <2>6. tp[t] \notin seen \cup {q}
    <3>1. t \notin seen \cup {q}
      BY <2>4, <1>3, Apart
    <3> QED
      BY <3>1, <2>5, <1>4
  <2>7. tp[t] \in InState(q) \ seen
    BY <2>5, <2>6, <1>3
  <2>8. r[tp[t]] < r[t]
    BY <2>4, <2>5, <2>7, <1>2, <1>3 DEF Shadow
  <2>9. r[tp[t]] \in ranks /\ r[tp[t]] \in Nat /\ k \in Nat
    BY <2>2, <2>3, <2>7
  <2> HIDE DEF ranks
  <2> QED
    BY <2>3, <2>4, <2>8, <2>9
<1>6. count[q] = Cardinality(InState(q))
  BY DEF Counted
<1>7. seen = InState(q)
  BY <1>1, <1>5
<1> QED
  BY <1>1, <1>6, <1>7 DEF Listed

-----------------------------------------------------------------------------
LEMMA LInvInit == Init => LInv
<1> SUFFICES ASSUME Init PROVE LInv
  OBVIOUS
<1>1. TypeOK
  BY CommandsAssumption DEF Init, TypeOK, Pointer, Node
<1>2. Created = {} /\ InList = Queue
  BY DEF Init, Created, Exists, InList
<1>3. Links
  <2> DEFINE id == [n \in Node |-> n]
             zero == [t \in Id |-> 0]
  <2>1. Shadow(id, id, zero, 0)
    BY <1>2, Apart DEF Init, Shadow, Where
  <2>2. id \in [Node -> Node] /\ zero \in [Id -> Nat] /\ 0 \in Nat
    OBVIOUS
  <2>3. Unlinked
    BY Apart DEF Init, Unlinked, Linked, Node
  <2> HIDE DEF id, zero
  <2> QED
    BY <2>1, <2>2, <2>3 DEF Links
<1>4. Counted
  <2>1. \A q \in Queue : InState(q) = {} /\ count[q] = 0
    BY Apart DEF Init, InState
  <2> QED
    BY <2>1, FS_EmptySet DEF Counted
<1> QED
  BY <1>1, <1>3, <1>4 DEF Init, LInv, Running, Printed, ListChecksStaySilent, ListChecks

\* A step that leaves the lists, the states and what was printed alone.
Still == UNCHANGED <<links, tasks, printed>>

LEMMA StillKeeps ==
    ASSUME LInv, Still, TypeOK', Running', ListChecksStaySilent',
           \/ /\ phase \in {"parse", "apply", "run", "choose"}
              /\ phase' \in {"parse", "apply", "run", "choose"}
           \/ phase' \in {"died", "faulted", "undefined"}
           \/ UNCHANGED <<phase, cur>>
    PROVE  LInv'
<1>1. Links' /\ Counted'
  BY LinksKept, CountsKept DEF LInv, Still, links, tasks
<1>2. Printed'
  <2>1. CASE UNCHANGED <<phase, cur>>
    BY <2>1 DEF LInv, Printed, Passed, Listed, InState, Still, links, tasks
  <2>2. CASE phase' # phase \/ cur' # cur
    BY <2>2 DEF LInv, Printed, Still
  <2> QED
    BY <2>1, <2>2
<1> QED
  BY <1>1, <1>2 DEF LInv

\* The program ends, at a check or at a pointer that is none.
LEMMA EndKeeps ==
    ASSUME LInv, UNCHANGED <<links, tasks, loop>>, commands' \in 0 .. MaxCommands,
           phase' \in {"died", "faulted", "undefined"},
           death' \notin ListChecks
    PROVE  LInv'
<1>1. TypeOK' /\ Running' /\ ListChecksStaySilent' /\ Still
  BY DEF LInv, TypeOK, Running, ListChecksStaySilent, Still, links, tasks, loop
<1> QED
  BY <1>1, StillKeeps

\* list_remove leaves the node as list_push_back wants it.
LEMMA CutUnlinks ==
    ASSUME TypeOK, NEW t \in Id PROVE ~Linked(CutPrev(t), CutNext(t), t)
<1>1. t \in Node
  BY DEF Node
<1> QED
  BY <1>1 DEF TypeOK, CutPrev, CutNext, Linked

\* A move stops only at a link that was overwritten.
LEMMA StopsKeep ==
    ASSUME LInv, NEW t \in Id, NEW from \in Queue, state[t] = from,
           NEW place \in {"move_to_ready", "finish_task"}, MoveStops(t, from, place)
    PROVE  LInv'
<1>1. prev[t] # None /\ next[t] # None /\ count[from] # 0
  BY NothingToNotice DEF LInv
<1>2. PICK p : Follow(p, place)
  BY <1>1, CutUnlinks DEF LInv, MoveStops
<1>3. /\ phase' \in {"faulted", "undefined"} /\ death' = place
      /\ UNCHANGED <<links, tasks, loop, commands>>
  BY <1>2 DEF Follow
<1> QED
  BY <1>3, EndKeeps DEF LInv, TypeOK, ListChecks

\* The commands count up to their bound.
LEMMA CommandCounts ==
    ASSUME TypeOK, Command
    PROVE  commands' \in 0 .. MaxCommands /\ phase = "apply"
BY CommandsAssumption DEF TypeOK, Command

LEMMA TaskKeeps ==
    ASSUME LInv, NEW t \in Id, NEW p \in Priority, CmdTask(t, p)
    PROVE  LInv'
<1>1. /\ Links' /\ prev' \in [Node -> Pointer] /\ next' \in [Node -> Pointer]
      /\ Counted' /\ count' \in [Queue -> Nat]
  BY LinksTask, CountTask DEF LInv
<1>2. /\ state' = [state EXCEPT ![t] = "waiting"] /\ priority' = [priority EXCEPT ![t] = p]
      /\ UNCHANGED <<loop, phase, death>> /\ phase = "apply"
      /\ commands' \in 0 .. MaxCommands
  BY CommandCounts DEF LInv, CmdTask
<1>3. TypeOK'
  BY <1>1, <1>2 DEF LInv, TypeOK, loop, Queue
<1>4. Running' /\ Printed' /\ ListChecksStaySilent'
  BY <1>2 DEF LInv, Running, Printed, ListChecksStaySilent, loop
<1> QED
  BY <1>1, <1>3, <1>4 DEF LInv

LEMMA NoteKeeps ==
    ASSUME LInv, NEW t \in Id, NEW len \in NoteLengths, CmdNote(t, len)
    PROVE  LInv'
<1>1. /\ Links' /\ prev' \in [Node -> Pointer] /\ next' \in [Node -> Pointer]
  BY LinksNote DEF LInv
<1>2. /\ UNCHANGED <<count, tasks, loop, phase, death>> /\ phase = "apply"
      /\ commands' \in 0 .. MaxCommands
  BY CommandCounts DEF LInv, CmdNote
<1>3. TypeOK' /\ Counted'
  BY <1>1, <1>2, CountsKept DEF LInv, TypeOK, loop, tasks
<1>4. Running' /\ Printed' /\ ListChecksStaySilent'
  BY <1>2 DEF LInv, Running, Printed, ListChecksStaySilent, loop
<1> QED
  BY <1>1, <1>3, <1>4 DEF LInv

LEMMA ReadyKeeps == ASSUME LInv, NEW t \in Id, CmdReady(t) PROVE LInv'
<1>1. /\ "waiting" \in Queue /\ "ready" \in Queue /\ state[t] = "waiting" /\ Removable(t)
      /\ Move(t, "waiting", "ready")
  BY Apart DEF CmdReady, Movable
<1>2. /\ Links' /\ prev' \in [Node -> Pointer] /\ next' \in [Node -> Pointer]
      /\ Counted' /\ count' \in [Queue -> Nat] /\ state' \in [Id -> Queue \cup {None}]
  BY <1>1, LinksMove, CountMove DEF LInv
<1>3. /\ UNCHANGED <<priority, loop, phase, death>> /\ phase = "apply"
      /\ commands' \in 0 .. MaxCommands
  BY CommandCounts DEF LInv, CmdReady
<1>4. TypeOK'
  BY <1>2, <1>3 DEF LInv, TypeOK, loop
<1>5. Running' /\ Printed' /\ ListChecksStaySilent'
  BY <1>3 DEF LInv, Running, Printed, ListChecksStaySilent, loop
<1> QED
  BY <1>2, <1>4, <1>5 DEF LInv

\* Every turn leaves one more task done, so the guard of the loop lets it pass.
LEMMA FinishKeeps == ASSUME LInv, Finish PROVE LInv'
<1>1. /\ "ready" \in Queue /\ "done" \in Queue /\ best \in Id /\ state[best] = "ready"
      /\ Removable(best) /\ Move(best, "ready", "done") /\ phase = "choose"
  BY Apart DEF Finish, Movable, Chosen, LInv, TypeOK, Running
<1>2. /\ Links' /\ prev' \in [Node -> Pointer] /\ next' \in [Node -> Pointer]
      /\ Counted' /\ count' \in [Queue -> Nat] /\ state' \in [Id -> Queue \cup {None}]
      /\ count'["done"] = count["done"] + 1
  BY <1>1, LinksMove, CountMove DEF LInv
<1>3. /\ turns \in Nat /\ turns <= count["done"] /\ count["done"] \in Nat
      /\ count["done"] <= Cardinality(Created) /\ Cardinality(Created) \in Nat
  BY <1>1, DoneCreated DEF LInv, Running, TypeOK
<1>4. /\ turns' = turns + 1 /\ turns' <= count'["done"] /\ turns' \in Nat
      /\ phase' = "run" /\ death' = death /\ cur' = None /\ best' = None
      /\ UNCHANGED <<priority, printed, commands>>
  <2>1. ~(turns + 1 > Cardinality(Created) + 4)
    BY <1>3
  <2>2. turns' = turns + 1 /\ cur' = None /\ best' = None
        /\ UNCHANGED <<priority, printed, commands>>
    BY DEF Finish
  <2>3. phase' = "run" /\ death' = death
    BY <2>1 DEF Finish
  <2> QED
    BY <2>2, <2>3, <1>2, <1>3
<1>5. TypeOK'
  BY <1>2, <1>4 DEF LInv, TypeOK, Pointer
<1>6. Running' /\ Printed' /\ ListChecksStaySilent'
  BY <1>1, <1>4 DEF LInv, Running, Printed, ListChecksStaySilent
<1> QED
  BY <1>2, <1>5, <1>6 DEF LInv

\* The links of the ready list lead from ready tasks to ready tasks.
LEMMA ChooseKeeps == ASSUME LInv, ChooseStep PROVE LInv'
<1>1. /\ phase = "choose" /\ cur \in Id /\ cur \in InList /\ state[cur] = "ready"
      /\ best # None => state[best] = "ready"
  BY Apart DEF LInv, Running, ChooseStep, Where
<1>2. /\ best' = best \/ best' = cur
      /\ cur' = next[cur]
      /\ UNCHANGED <<links, tasks, turns, printed, control>>
  BY DEF ChooseStep
<1>3. next[cur] \in Damaged \/ (next[cur] \in InList /\ Where(next[cur]) = "ready")
  <2>1. Where(cur) = "ready" /\ LinksAgree
    BY <1>1, ShadowAgrees, Apart DEF LInv, Where
  <2> QED
    BY <2>1, <1>1 DEF LinksAgree
<1>4. TypeOK'
  BY <1>1, <1>2 DEF LInv, TypeOK, links, tasks, control, Node
<1>5. Running'
  <2>1. \A n : Where(n)' = Where(n)
    BY <1>2 DEF Where, tasks
  <2>2. InList' = InList
    BY <1>2 DEF InList, Created, Exists, tasks
  <2> QED
    BY <2>1, <2>2, <1>1, <1>2, <1>3 DEF LInv, Running, links, tasks, control
<1>6. ListChecksStaySilent' /\ Still
  BY <1>2 DEF LInv, ListChecksStaySilent, Still, control
<1> QED
  BY <1>1, <1>2, <1>4, <1>5, <1>6, StillKeeps DEF control

\* What is printed, and about to be, at each list.
LEMMA ReportPlaces ==
    ASSUME LInv, InReport
    PROVE  /\ Printing \in Queue /\ Passed(Printing)
           /\ Printing = "waiting" => printed["ready"] = <<>> /\ printed["done"] = <<>>
           /\ Printing = "ready" => Listed("waiting") /\ printed["done"] = <<>>
           /\ Printing = "done" => Listed("waiting") /\ Listed("ready")
           /\ phase = (IF Printing = "waiting" THEN "print waiting"
                       ELSE IF Printing = "ready" THEN "print ready" ELSE "print done")
BY Apart DEF LInv, Printed, InReport, Printing

LEMMA PrintKeeps == ASSUME LInv, PrintTask PROVE LInv'
<1>0. PICK q \in Queue : q = Printing
  BY ReportPlaces DEF PrintTask
<1>1. /\ InReport /\ cur \in Id /\ cur' = next[cur]
      /\ printed' = [printed EXCEPT ![q] = Append(@, cur)]
      /\ UNCHANGED <<links, tasks, best, turns, control>>
  BY <1>0 DEF PrintTask
<1>2. UNCHANGED <<next, prev, count, state, priority, phase, commands, death, best, turns>>
  BY <1>1 DEF links, tasks, control
<1>3. Passed(q)
  BY <1>0, <1>1, ReportPlaces
<1>4. Passed(q)'
  BY <1>1, <1>2, <1>3, PassedMore DEF LInv
<1>5. \A h \in Queue \ {q} : printed'[h] = printed[h] /\ (Listed(h) => Listed(h)')
  BY <1>1, <1>2 DEF LInv, TypeOK, Listed, InState
<1>6. Printed'
  <2>1. q = Printing /\ phase' = phase
    BY <1>0, <1>2
  <2>2. q = "waiting" => phase' = "print waiting" /\ Passed("waiting")'
                         /\ printed'["ready"] = <<>> /\ printed'["done"] = <<>>
    BY <2>1, <1>1, <1>4, <1>5, ReportPlaces, Apart
  <2>3. q = "ready" => phase' = "print ready" /\ Passed("ready")' /\ Listed("waiting")'
                       /\ printed'["done"] = <<>>
    BY <2>1, <1>1, <1>4, <1>5, ReportPlaces, Apart
  <2>4. q = "done" => phase' = "print done" /\ Passed("done")' /\ Listed("waiting")'
                      /\ Listed("ready")'
    BY <2>1, <1>1, <1>4, <1>5, ReportPlaces, Apart
  <2> QED
    BY <2>2, <2>3, <2>4, Apart DEF Printed
<1>7. TypeOK'
  <2>1. next[cur] \in Pointer
    BY <1>1 DEF LInv, TypeOK, Node
  <2>2. Append(printed[q], cur) \in Seq(Id)
    <3>1. printed[q] \in Seq(Id) /\ cur \in Id
      BY <1>1 DEF LInv, TypeOK
    <3> QED
      BY <3>1
  <2>3. printed' \in [Queue -> Seq(Id)]
    BY <2>2, <1>1 DEF LInv, TypeOK
  <2> QED
    BY <2>1, <2>3, <1>1, <1>2 DEF LInv, TypeOK
<1>8. Running' /\ ListChecksStaySilent' /\ Links' /\ Counted'
  <2>1. Links' /\ Counted'
    BY <1>2, LinksKept, CountsKept DEF LInv
  <2>2. Running'
    BY <1>1, <1>2 DEF Running, InReport
  <2> QED
    BY <1>2, <2>1, <2>2 DEF LInv, ListChecksStaySilent
<1> QED
  BY <1>6, <1>7, <1>8 DEF LInv

\* The head's first link is where the next list begins.
LEMMA NextKeeps == ASSUME LInv, PrintNext PROVE LInv'
<1>1. /\ InReport /\ cur = Printing
      /\ UNCHANGED <<next, prev, count, state, priority, printed, commands, death, best, turns>>
  BY DEF PrintNext, links, tasks
<1>2. /\ Printing = "done" => phase' = "exited" /\ cur' = None
      /\ Printing = "waiting" => phase' = "print ready" /\ cur' = next["ready"]
      /\ Printing = "ready" => phase' = "print done" /\ cur' = next["done"]
  BY DEF PrintNext, After
<1>3. Listed(Printing)
  BY <1>1, ReportPlaces, PassedAll DEF LInv
<1>4. \A h \in Queue : Listed(h) => Listed(h)'
  BY <1>1 DEF Listed, InState
<1>5. Printed'
  <2>1. CASE Printing = "waiting"
    <3>1. printed["ready"] = <<>> /\ printed["done"] = <<>> /\ Listed("waiting")
      BY <2>1, <1>1, <1>3, ReportPlaces
    <3>2. Passed("ready")'
      BY <2>1, <3>1, <1>1, <1>2, Apart, PassedNone DEF LInv
    <3> QED
      BY <2>1, <3>1, <3>2, <1>1, <1>2, <1>4, Apart DEF Printed
  <2>2. CASE Printing = "ready"
    <3>1. printed["done"] = <<>> /\ Listed("waiting") /\ Listed("ready")
      BY <2>2, <1>1, <1>3, ReportPlaces
    <3>2. Passed("done")'
      BY <2>2, <3>1, <1>1, <1>2, Apart, PassedNone DEF LInv
    <3> QED
      BY <2>2, <3>1, <3>2, <1>1, <1>2, <1>4, Apart DEF Printed
  <2>3. CASE Printing = "done"
    <3>1. Listed("waiting") /\ Listed("ready") /\ Listed("done")
      BY <2>3, <1>1, <1>3, ReportPlaces
    <3> QED
      BY <2>3, <3>1, <1>2, <1>4, Apart DEF Printed
  <2> QED
    BY <2>1, <2>2, <2>3, <1>1, ReportPlaces, Apart
<1>6. phase' \in {"print ready", "print done", "exited"} /\ cur' \in Pointer
  <2>1. None \in Pointer /\ next["ready"] \in Pointer /\ next["done"] \in Pointer
    BY Apart DEF LInv, TypeOK, Pointer
  <2> QED
    BY <2>1, <1>1, <1>2, ReportPlaces, Apart
<1>7. TypeOK' /\ Running' /\ ListChecksStaySilent'
  BY <1>1, <1>6 DEF LInv, TypeOK, Running, ListChecksStaySilent
<1> QED
  BY <1>1, <1>5, <1>7, LinksKept, CountsKept DEF LInv

LEMMA ReportBegins == ASSUME LInv, EndOfCommands PROVE LInv'
<1>1. /\ phase = "apply" /\ phase' = "print waiting" /\ cur' = next["waiting"]
      /\ UNCHANGED <<next, prev, count, state, priority, printed, commands, death, best, turns>>
  BY DEF EndOfCommands, links, tasks
<1>2. \A q \in Queue : printed[q] = <<>>
  BY <1>1 DEF LInv, Printed
<1>3. Passed("waiting")' /\ next["waiting"] \in Pointer
  BY <1>1, <1>2, Apart, PassedNone DEF LInv, TypeOK
<1>4. Printed'
  BY <1>1, <1>2, <1>3, Apart DEF Printed
<1>5. TypeOK' /\ Running' /\ ListChecksStaySilent'
  BY <1>1, <1>3 DEF LInv, TypeOK, Running, ListChecksStaySilent
<1> QED
  BY <1>1, <1>4, <1>5, LinksKept, CountsKept DEF LInv

\* Commands that only look, and the steps from one command or turn to the next.
LEMMA QuietKeeps ==
    ASSUME LInv,
           \/ Parse \/ CmdDump \/ CmdRun \/ RunEmpty \/ RunChoose
           \/ \E t \in Id : CmdReadyAgain(t)
    PROVE  LInv'
<1>1. ASSUME UNCHANGED <<links, tasks, printed, death>>, commands' \in 0 .. MaxCommands,
             phase \in {"parse", "apply", "run"}, phase' \in {"apply", "run"},
             UNCHANGED <<cur, best>>, turns' = turns \/ turns' = 0, phase' = "run" => turns' = 0
      PROVE  LInv'
  <2>1. TypeOK' /\ ListChecksStaySilent' /\ Still
    <3>1. turns' \in Nat
      <4>1. turns \in Nat
        BY DEF LInv, TypeOK
      <4> QED
        BY <1>1, <4>1
    <3>2. UNCHANGED <<prev, next, count, state, priority, printed, death, cur, best>>
      BY <1>1 DEF links, tasks
    <3> QED
      BY <3>1, <3>2, <1>1 DEF LInv, TypeOK, ListChecksStaySilent, links, tasks, Still
  <2>2. count["done"] \in Nat
    BY Apart DEF LInv, TypeOK
  <2>3. Running'
    BY <1>1, <2>2 DEF Running, links
  <2> QED
    BY <1>1, <2>1, <2>3, StillKeeps
<1>2. commands \in 0 .. MaxCommands
  BY DEF LInv, TypeOK
<1>3. CASE Parse \/ RunEmpty
  BY <1>3, <1>1, <1>2 DEF Parse, RunEmpty, loop
<1>4. CASE CmdDump \/ \E t \in Id : CmdReadyAgain(t)
  BY <1>4, <1>1, CommandCounts DEF LInv, CmdDump, CmdReadyAgain, loop
<1>5. CASE CmdRun
  BY <1>5, <1>1, CommandCounts DEF LInv, CmdRun
<1>6. CASE RunChoose
  <2>1. /\ phase = "run" /\ phase' = "choose" /\ cur' = next["ready"] /\ best' = None
        /\ UNCHANGED <<links, tasks, turns, printed, commands, death>>
    BY <1>6 DEF RunChoose
  <2>2. next["ready"] \in Node /\ next["ready"] \in InList /\ Where(next["ready"]) = "ready"
    <3>1. LinksAgree /\ "ready" \in Queue /\ "ready" \in InList /\ Where("ready") = "ready"
      BY ShadowAgrees, Apart DEF LInv, InList, Where
    <3> QED
      BY <3>1, Apart DEF LinksAgree
  <2>3. TypeOK' /\ ListChecksStaySilent' /\ Still
    BY <2>1, <2>2 DEF LInv, TypeOK, ListChecksStaySilent, links, tasks, Still, Pointer
  <2>4. InList' = InList /\ \A n : Where(n)' = Where(n)
    BY <2>1 DEF InList, Created, Exists, Where, tasks
  <2>5. Running'
    BY <2>1, <2>2, <2>4 DEF LInv, Running, links
  <2> QED
    BY <2>1, <2>3, <2>5, StillKeeps
<1> QED
  BY <1>3, <1>4, <1>5, <1>6

LEMMA LInvNext == LInv /\ [Next]_vars => LInv'
<1> SUFFICES ASSUME LInv, [Next]_vars PROVE LInv'
  OBVIOUS
<1>1. commands \in 0 .. MaxCommands
  BY DEF LInv, TypeOK
<1>2. CASE UNCHANGED vars
  <2>1. TypeOK' /\ Running' /\ ListChecksStaySilent'
    BY <1>2 DEF LInv, TypeOK, Running, ListChecksStaySilent, InList, Created, Exists, Where,
                vars, links, tasks, loop, control
  <2> QED
    BY <1>2, <2>1, StillKeeps DEF Still, vars, loop, control
<1>3. CASE ParseError
  BY <1>1, <1>3, EndKeeps DEF ParseError, Die, ListChecks
<1>4. ASSUME NEW t \in Id, CmdUnknown(t) \/ CmdReadyDone(t) PROVE LInv'
  BY <1>4, EndKeeps, CommandCounts DEF LInv, CmdUnknown, CmdReadyDone, Die, ListChecks
<1>11. ASSUME NEW t \in Id, CmdTaskStops(t) PROVE LInv'
  <2>1. ~(~Exists(t) /\ Linked(prev, next, t))
    BY DEF LInv, Links, Unlinked
  <2> QED
    BY <1>11, <2>1, EndKeeps, CommandCounts DEF LInv, CmdTaskStops, Die, ListChecks
<1>5. ASSUME NEW t \in Id, CmdReadyStops(t) PROVE LInv'
  BY <1>5, StopsKeep, Apart DEF CmdReadyStops
<1>6. CASE FinishStops
  <2>1. best \in Id /\ state[best] = "ready" /\ MoveStops(best, "ready", "finish_task")
    BY <1>6, Apart DEF LInv, TypeOK, Running, FinishStops, Chosen
  <2> QED
    BY <2>1, StopsKeep, Apart
<1>7. CASE ChooseFault \/ PrintFault
  <2>1. PICK place \in {"choose_ready", "print_list"} : Follow(cur, place)
    BY <1>7 DEF ChooseFault, PrintFault
  <2> QED
    BY <1>1, <2>1, EndKeeps DEF Follow, ListChecks
<1>8. CASE Parse \/ CmdDump \/ CmdRun \/ RunEmpty \/ RunChoose \/ \E t \in Id : CmdReadyAgain(t)
  BY <1>8, QuietKeeps
<1>9. CASE \E t \in Id : CmdReady(t) \/ (\E p \in Priority : CmdTask(t, p))
                         \/ (\E len \in NoteLengths : CmdNote(t, len))
  BY <1>9, ReadyKeeps, TaskKeeps, NoteKeeps
<1>10. CASE Finish \/ ChooseStep \/ PrintTask \/ PrintNext \/ EndOfCommands
  BY <1>10, FinishKeeps, ChooseKeeps, PrintKeeps, NextKeeps, ReportBegins
<1> QED
  BY <1>2, <1>3, <1>4, <1>5, <1>6, <1>7, <1>8, <1>9, <1>10, <1>11 DEF Next, Advance, Ended

\* The inductive invariant: whatever notes have overwritten, the links are those of
\* three lists but for what was overwritten, each count is that of its state, and
\* the report has printed every task its walk has passed (ilist.c, report.c).
THEOREM LInvHolds == Spec => []LInv
BY LInvInit, LInvNext, PTL DEF Spec

\* ilist.c and its callers: a link that still is a node leads to a neighbour in the
\* same queue that points back, whatever notes overwrote and moves repaired.
THEOREM ListsHoldTogether == Spec => []LinksAgree
<1>1. LInv => LinksAgree
  BY ShadowAgrees DEF LInv
<1> QED
  BY <1>1, LInvHolds, PTL

\* ListHead.count is the number of tasks in the queue, damaged or not.
THEOREM CountsFollowStates == Spec => []CountsExact
<1>1. LInv => CountsExact
  BY DEF LInv, Counted, CountsExact, InState
<1> QED
  BY <1>1, LInvHolds, PTL

\* list_remove's two checks, list_push_back's one and scheduler_run's guard against a
\* loop that does not end: none of them ever notices an overwritten link.
THEOREM ChecksNeverFire == Spec => []ListChecksStaySilent
<1>1. LInv => ListChecksStaySilent
  BY DEF LInv
<1> QED
  BY <1>1, LInvHolds, PTL

\* report_final_state, when it comes to its end, has printed every task once and
\* under its queue, also by way of links that notes overwrote and moves repaired.
THEOREM ReportsAreComplete == Spec => []ReportComplete
<1>1. LInv => ReportComplete
  BY DEF LInv, Printed, Listed, Ids, InState, ReportComplete
<1> QED
  BY <1>1, LInvHolds, PTL
-----------------------------------------------------------------------------
\* With notes that fit: the queues.  A ring of nodes: the head, the tasks of s in
\* their order, and the head again.
Item(q, s, i) == IF i \in 1 .. Len(s) THEN s[i] ELSE q

Ring(nx, pv, q, s) ==
    \A i \in 0 .. Len(s) : /\ nx[Item(q, s, i)] = Item(q, s, i + 1)
                           /\ pv[Item(q, s, i + 1)] = Item(q, s, i)

\* Each task in state q is in s, once.
Lists(st, q, s) ==
    /\ s \in Seq(Id)
    /\ \A i \in 1 .. Len(s) : st[s[i]] = q
    /\ \A i, j \in 1 .. Len(s) : s[i] = s[j] => i = j
    /\ \A t \in Id : st[t] = q => \E i \in 1 .. Len(s) : s[i] = t

Rings == \A q \in Queue : Lists(state, q, Chain(q)) /\ Ring(next, prev, q, Chain(q))

Priorities == \A t \in Id : IF Exists(t) THEN priority[t] \in Priority ELSE priority[t] = None

\* choose_ready has come to the k-th task, and its choice is the oldest of highest
\* priority of those before.
Choice(s, k) ==
    /\ cur = Item("ready", s, k)
    /\ k = 1 => best = None
    /\ k > 1 => \E i \in 1 .. k - 1 :
                    /\ best = s[i]
                    /\ \A j \in 1 .. k - 1 : \/ priority[s[j]] < priority[s[i]]
                                             \/ priority[s[j]] = priority[s[i]] /\ j >= i

Choosing == phase = "choose" => \E k \in 1 .. Len(Chain("ready")) + 1 : Choice(Chain("ready"), k)

\* print_list has come to the k-th task and has printed those before.
Shown(q, k) == /\ cur = Item(q, Chain(q), k)
               /\ Len(printed[q]) = k - 1
               /\ \A i \in 1 .. k - 1 : printed[q][i] = Chain(q)[i]

Showing ==
    /\ InReport => \E k \in 1 .. Len(Chain(Printing)) + 1 : Shown(Printing, k)
    /\ phase \in {"print ready", "print done"} => printed["waiting"] = Chain("waiting")
    /\ phase = "print done" => printed["ready"] = Chain("ready")

QInv == Rings /\ Priorities /\ Choosing /\ Showing

Once(s) == \A i, j \in 1 .. Len(s) : s[i] = s[j] => i = j

LEMMA Appended ==
    ASSUME NEW s \in Seq(Id), NEW t \in Id
    PROVE  /\ Append(s, t) \in Seq(Id) /\ Len(Append(s, t)) = Len(s) + 1 /\ Len(s) \in Nat
           /\ \A i \in 1 .. Len(s) : Append(s, t)[i] = s[i]
           /\ Append(s, t)[Len(s) + 1] = t
BY AppendProperties

LEMMA Without ==
    ASSUME NEW s \in Seq(Id), NEW k \in 1 .. Len(s)
    PROVE  /\ Queues!RemoveAt(s, k) \in Seq(Id)
           /\ Len(s) \in Nat /\ Len(Queues!RemoveAt(s, k)) = Len(s) - 1
           /\ \A i \in 1 .. Len(s) - 1 :
                  Queues!RemoveAt(s, k)[i] = IF i < k THEN s[i] ELSE s[i + 1]
<1> DEFINE a == SubSeq(s, 1, k - 1)
           b == SubSeq(s, k + 1, Len(s))
<1>1. Len(s) \in Nat /\ k \in Nat /\ \A i \in 1 .. Len(s) : s[i] \in Id
  BY LenProperties, ElementOfSeq
<1>2. /\ a \in Seq(Id) /\ Len(a) = k - 1 /\ \A i \in 1 .. k - 1 : a[i] = s[i]
      /\ b \in Seq(Id) /\ Len(b) = Len(s) - k /\ \A i \in 1 .. Len(s) - k : b[i] = s[k + i]
  <2>1. /\ a \in Seq(Id) /\ Len(a) = k - 1 /\ \A i \in 1 .. k - 1 : a[i] = s[i]
    BY <1>1
  <2>2. /\ b \in Seq(Id) /\ Len(b) = Len(s) - k /\ \A i \in 1 .. Len(s) - k : b[i] = s[k + i]
    BY <1>1
  <2> QED
    BY <2>1, <2>2
<1>3. /\ a \o b \in Seq(Id) /\ Len(a \o b) = Len(s) - 1
      /\ \A i \in 1 .. Len(s) - 1 : (a \o b)[i] = IF i < k THEN a[i] ELSE b[i - (k - 1)]
  <2> HIDE DEF a, b
  <2>1. a \o b \in Seq(Id) /\ Len(a \o b) = Len(a) + Len(b)
        /\ \A i \in 1 .. Len(a) + Len(b) :
               (a \o b)[i] = IF i <= Len(a) THEN a[i] ELSE b[i - Len(a)]
    BY <1>2, ConcatProperties
  <2> QED
    BY <1>1, <1>2, <2>1
<1>4. \A i \in 1 .. Len(s) - 1 : (a \o b)[i] = IF i < k THEN s[i] ELSE s[i + 1]
  <2> HIDE DEF a, b
  <2>1. SUFFICES ASSUME NEW i \in 1 .. Len(s) - 1
                 PROVE  (a \o b)[i] = IF i < k THEN s[i] ELSE s[i + 1]
    OBVIOUS
  <2>2. CASE i < k
    BY <1>1, <1>2, <1>3, <2>1, <2>2
  <2>3. CASE ~(i < k)
    <3>1. i - (k - 1) \in 1 .. Len(s) - k /\ k + (i - (k - 1)) = i + 1
      BY <1>1, <2>1, <2>3
    <3> QED
      BY <1>2, <1>3, <2>1, <2>3, <3>1
  <2> QED
    BY <2>2, <2>3
<1> QED
  BY <1>1, <1>3, <1>4 DEF Queues!RemoveAt

\* The places of a ring: the head is the place before the first task and the one
\* behind the last.
LEMMA Places ==
    ASSUME NEW q \in Queue, NEW s \in Seq(Id), Once(s)
    PROVE  /\ Len(s) \in Nat /\ Item(q, s, 0) = q /\ Item(q, s, Len(s) + 1) = q
           /\ \A i \in 1 .. Len(s) : Item(q, s, i) = s[i] /\ s[i] \in Id /\ s[i] # q
           /\ \A i \in 0 .. Len(s) + 1 : Item(q, s, i) \in Node
           /\ \A i, j \in 0 .. Len(s) : Item(q, s, i) = Item(q, s, j) => i = j
           /\ \A i, j \in 1 .. Len(s) + 1 : Item(q, s, i) = Item(q, s, j) => i = j
<1>1. Len(s) \in Nat /\ \A i \in 1 .. Len(s) : s[i] \in Id /\ s[i] # q
  BY LenProperties, ElementOfSeq, Apart
<1>2. /\ \A i \in 1 .. Len(s) : Item(q, s, i) = s[i]
      /\ Item(q, s, 0) = q /\ Item(q, s, Len(s) + 1) = q
  BY <1>1 DEF Item
<1>3. \A i \in 0 .. Len(s) + 1 : i = 0 \/ i = Len(s) + 1 \/ i \in 1 .. Len(s)
  BY <1>1
<1>4. \A i \in 0 .. Len(s) + 1 : Item(q, s, i) \in Node
  BY <1>1, <1>2, <1>3 DEF Node
<1>5. \A i, j \in 0 .. Len(s) : Item(q, s, i) = Item(q, s, j) => i = j
  <2>1. \A i \in 0 .. Len(s) : i = 0 \/ i \in 1 .. Len(s)
    BY <1>1
  <2> QED
    BY <1>1, <1>2, <2>1 DEF Once
<1>6. \A i, j \in 1 .. Len(s) + 1 : Item(q, s, i) = Item(q, s, j) => i = j
  <2>1. \A i \in 1 .. Len(s) + 1 : i = Len(s) + 1 \/ i \in 1 .. Len(s)
    BY <1>1
  <2> QED
    BY <1>1, <1>2, <2>1 DEF Once
<1> QED
  BY <1>1, <1>2, <1>4, <1>5, <1>6

\* list_push_back: the ring is longer by one task, in front of the head.
LEMMA PushRing ==
    ASSUME NEW nx \in [Node -> Pointer], NEW pv \in [Node -> Pointer],
           NEW q \in Queue, NEW s \in Seq(Id), Once(s), Ring(nx, pv, q, s),
           NEW t \in Id, \A i \in 1 .. Len(s) : s[i] # t
    PROVE  Ring(PushNext(nx, pv, t, q), PushPrev(pv, t, q), q, Append(s, t))
<1> DEFINE n == Len(s)
           z == Item(q, s, n)
           u == Append(s, t)
           nx2 == [nx EXCEPT ![z] = t, ![t] = q]
           pv2 == [pv EXCEPT ![t] = z, ![q] = t]
<1>1. /\ n \in Nat /\ Item(q, s, 0) = q /\ Item(q, s, n + 1) = q
      /\ \A i \in 1 .. n : Item(q, s, i) = s[i] /\ s[i] \in Id /\ s[i] # q
      /\ \A i \in 0 .. n + 1 : Item(q, s, i) \in Node
      /\ \A i, j \in 0 .. n : Item(q, s, i) = Item(q, s, j) => i = j
      /\ \A i, j \in 1 .. n + 1 : Item(q, s, i) = Item(q, s, j) => i = j
  BY Places
<1>2. t \in Node /\ q \in Node /\ t # q
  BY Apart
<1>3. \A i \in 0 .. n + 1 : Item(q, s, i) # t
  <2>1. \A i \in 0 .. n + 1 : i = 0 \/ i = n + 1 \/ i \in 1 .. n
    BY <1>1
  <2> QED
    BY <1>1, <1>2, <2>1
<1>4. pv[q] = z
  <2>1. n \in 0 .. n
    BY <1>1
  <2> QED
    BY <1>1, <2>1 DEF Ring
<1>5. PushNext(nx, pv, t, q) = nx2 /\ PushPrev(pv, t, q) = pv2
  BY <1>4 DEF PushNext, PushPrev
<1>6. z \in Node /\ z # t
  BY <1>1, <1>3
<1>7. \A x \in Node : /\ nx2[x] = IF x = t THEN q ELSE IF x = z THEN t ELSE nx[x]
                      /\ pv2[x] = IF x = q THEN t ELSE IF x = t THEN z ELSE pv[x]
  <2> HIDE DEF z
  <2> QED
    BY <1>2, <1>6
<1>8. /\ Len(u) = n + 1 /\ Item(q, u, n + 1) = t /\ Item(q, u, n + 2) = q
      /\ \A i \in 0 .. n : Item(q, u, i) = Item(q, s, i)
  <2>1. Len(u) = n + 1 /\ u[n + 1] = t /\ \A i \in 1 .. n : u[i] = s[i]
    BY Appended
  <2> HIDE DEF u
  <2>2. Item(q, u, n + 1) = t /\ Item(q, u, n + 2) = q /\ Item(q, u, 0) = q
    BY <1>1, <2>1 DEF Item
  <2>3. \A i \in 1 .. n : Item(q, u, i) = s[i]
    BY <1>1, <2>1 DEF Item
  <2>4. \A i \in 0 .. n : i = 0 \/ i \in 1 .. n
    BY <1>1
  <2> QED
    BY <1>1, <2>1, <2>2, <2>3, <2>4
<1> HIDE DEF n, z, u, nx2, pv2
<1>9. ASSUME NEW i \in 0 .. n + 1
      PROVE  nx2[Item(q, u, i)] = Item(q, u, i + 1) /\ pv2[Item(q, u, i + 1)] = Item(q, u, i)
  <2>1. CASE i = n + 1
    BY <1>1, <1>2, <1>7, <1>8, <2>1
  <2>2. CASE i = n
    BY <1>1, <1>2, <1>3, <1>6, <1>7, <1>8, <2>2 DEF z
  <2>3. CASE i \in 0 .. n - 1
    <3>1. i \in 0 .. n /\ n \in 0 .. n /\ i + 1 \in 0 .. n /\ i + 1 \in 1 .. n /\ i # n
      BY <1>1, <2>3
    <3>2. Item(q, s, i) # z /\ Item(q, s, i) # t /\ Item(q, s, i + 1) # t /\ Item(q, s, i + 1) # q
          /\ Item(q, s, i) \in Node /\ Item(q, s, i + 1) \in Node
      BY <1>1, <1>3, <3>1 DEF z
    <3>3. nx[Item(q, s, i)] = Item(q, s, i + 1) /\ pv[Item(q, s, i + 1)] = Item(q, s, i)
      BY <3>1 DEF Ring, n
    <3> QED
      BY <1>7, <1>8, <3>1, <3>2, <3>3
  <2> QED
    BY <1>1, <2>1, <2>2, <2>3
<1>10. Ring(nx2, pv2, q, u)
  BY <1>8, <1>9 DEF Ring
<1> QED
  BY <1>5, <1>10 DEF u

\* list_remove: the ring without its k-th task.
LEMMA CutRing ==
    ASSUME NEW nx \in [Node -> Pointer], NEW pv \in [Node -> Pointer],
           NEW q \in Queue, NEW s \in Seq(Id), Once(s), Ring(nx, pv, q, s),
           NEW k \in 1 .. Len(s)
    PROVE  Ring([nx EXCEPT ![pv[s[k]]] = nx[s[k]], ![s[k]] = None],
                [pv EXCEPT ![nx[s[k]]] = pv[s[k]], ![s[k]] = None], q, Queues!RemoveAt(s, k))
<1> DEFINE n == Len(s)
           t == s[k]
           a == Item(q, s, k - 1)
           z == Item(q, s, k + 1)
           u == Queues!RemoveAt(s, k)
           nx2 == [nx EXCEPT ![a] = z, ![t] = None]
           pv2 == [pv EXCEPT ![z] = a, ![t] = None]
<1>1. /\ n \in Nat /\ Item(q, s, 0) = q /\ Item(q, s, n + 1) = q
      /\ \A i \in 1 .. n : Item(q, s, i) = s[i] /\ s[i] \in Id /\ s[i] # q
      /\ \A i \in 0 .. n + 1 : Item(q, s, i) \in Node
      /\ \A i, j \in 0 .. n : Item(q, s, i) = Item(q, s, j) => i = j
      /\ \A i, j \in 1 .. n + 1 : Item(q, s, i) = Item(q, s, j) => i = j
  BY Places
<1>2. \A i \in 0 .. n : nx[Item(q, s, i)] = Item(q, s, i + 1) /\ pv[Item(q, s, i + 1)] = Item(q, s, i)
  BY DEF Ring
<1>3. k \in Nat /\ k - 1 \in 0 .. n /\ k \in 0 .. n /\ k \in 1 .. n /\ k + 1 \in 1 .. n + 1
      /\ k \in 1 .. n + 1 /\ k - 1 \in 0 .. n + 1 /\ k + 1 \in 0 .. n + 1
  BY <1>1
<1>4. Item(q, s, k) = t /\ nx[t] = z /\ pv[t] = a /\ t \in Node /\ a \in Node /\ z \in Node
  <2>1. (k - 1) + 1 = k
    BY <1>3
  <2> QED
    BY <1>1, <1>2, <1>3, <2>1
<1> HIDE DEF n, t, a, z
<1>5. a # t /\ z # t
  BY <1>1, <1>3, <1>4 DEF a, z
<1>6. \A x \in Node : /\ nx2[x] = IF x = t THEN None ELSE IF x = a THEN z ELSE nx[x]
                      /\ pv2[x] = IF x = t THEN None ELSE IF x = z THEN a ELSE pv[x]
  BY <1>4
<1>7. Len(u) = n - 1 /\ \A i \in 0 .. n : Item(q, u, i) = IF i < k THEN Item(q, s, i) ELSE Item(q, s, i + 1)
  <2>1. Len(u) = n - 1 /\ \A i \in 1 .. n - 1 : u[i] = IF i < k THEN s[i] ELSE s[i + 1]
    BY Without DEF n
  <2> HIDE DEF u
  <2>2. SUFFICES ASSUME NEW i \in 0 .. n
                 PROVE  Item(q, u, i) = IF i < k THEN Item(q, s, i) ELSE Item(q, s, i + 1)
    BY <2>1
  <2>3. CASE i = 0
    BY <1>1, <1>3, <2>1, <2>3 DEF Item
  <2>4. CASE i = n
    BY <1>1, <1>3, <2>1, <2>4 DEF Item
  <2>5. CASE i \in 1 .. n - 1
    <3>1. i \in 1 .. n /\ i + 1 \in 1 .. n
      BY <1>1, <2>5
    <3> QED
      BY <1>1, <2>1, <2>5, <3>1 DEF Item
  <2> QED
    BY <1>1, <2>3, <2>4, <2>5
<1> HIDE DEF u, nx2, pv2
<1>8. ASSUME NEW i \in 0 .. n - 1
      PROVE  nx2[Item(q, u, i)] = Item(q, u, i + 1) /\ pv2[Item(q, u, i + 1)] = Item(q, u, i)
  <2>1. i \in 0 .. n /\ i + 1 \in 0 .. n /\ i + 2 \in 0 .. n + 1 /\ i + 1 \in 1 .. n + 1 /\ i \in Nat
        /\ i + 2 \in 1 .. n + 1 /\ (i + 1) + 1 = i + 2
    BY <1>1
  <2>2. CASE i + 1 < k
    <3>1. i # k - 1 /\ i # k /\ i + 1 # k /\ i + 1 # k + 1 /\ i < k
      BY <1>3, <2>1, <2>2
    <3>2. Item(q, s, i) # a /\ Item(q, s, i) # t /\ Item(q, s, i + 1) # t /\ Item(q, s, i + 1) # z
          /\ Item(q, s, i) \in Node /\ Item(q, s, i + 1) \in Node
      <4>1. i \in 0 .. n + 1 /\ i + 1 \in 0 .. n + 1
        BY <1>1, <2>1
      <4> QED
        BY <1>1, <1>3, <1>4, <2>1, <3>1, <4>1 DEF a, z
    <3> QED
      BY <1>2, <1>6, <1>7, <2>1, <2>2, <3>1, <3>2
  <2>3. CASE i + 1 = k
    <3>1. i = k - 1 /\ i < k /\ ~(i + 1 < k) /\ i + 2 = k + 1
      BY <1>3, <2>1, <2>3
    <3>2. Item(q, u, i) = a /\ Item(q, u, i + 1) = z
      BY <1>7, <2>1, <3>1 DEF a, z
    <3> QED
      BY <1>4, <1>5, <1>6, <3>2
  <2>4. CASE i + 1 > k
    <3>1. ~(i < k) /\ ~(i + 1 < k) /\ i + 1 # k /\ i + 1 # k - 1 /\ i + 2 # k /\ i + 2 # k + 1
      BY <1>3, <2>1, <2>4
    <3>2. Item(q, u, i) = Item(q, s, i + 1) /\ Item(q, u, i + 1) = Item(q, s, i + 2)
      BY <1>7, <2>1, <3>1
    <3>3. Item(q, s, i + 1) # a /\ Item(q, s, i + 1) # t /\ Item(q, s, i + 2) # t /\ Item(q, s, i + 2) # z
          /\ Item(q, s, i + 1) \in Node /\ Item(q, s, i + 2) \in Node
      <4>1. i + 1 \in 0 .. n + 1
        BY <1>1, <2>1
      <4> QED
        BY <1>1, <1>3, <1>4, <2>1, <3>1, <4>1 DEF a, z
    <3>4. nx[Item(q, s, i + 1)] = Item(q, s, i + 2) /\ pv[Item(q, s, i + 2)] = Item(q, s, i + 1)
      BY <1>2, <2>1
    <3> QED
      BY <1>6, <3>2, <3>3, <3>4
  <2> QED
    BY <1>3, <2>1, <2>2, <2>3, <2>4
<1> QED
  BY <1>1, <1>4, <1>7, <1>8 DEF Ring, nx2, pv2, u, t

\* Two rings have no node in common.
LEMMA RingsApart ==
    ASSUME NEW q \in Queue, NEW s \in Seq(Id), Once(s),
           NEW h \in Queue, NEW w \in Seq(Id), Once(w), q # h,
           \A i \in 1 .. Len(s), j \in 1 .. Len(w) : s[i] # w[j]
    PROVE  \A i \in 0 .. Len(s) + 1, j \in 0 .. Len(w) + 1 : Item(q, s, i) # Item(h, w, j)
<1>1. /\ Len(s) \in Nat /\ Item(q, s, 0) = q /\ Item(q, s, Len(s) + 1) = q
      /\ \A i \in 1 .. Len(s) : Item(q, s, i) = s[i] /\ s[i] \in Id
  BY Places
<1>2. /\ Len(w) \in Nat /\ Item(h, w, 0) = h /\ Item(h, w, Len(w) + 1) = h
      /\ \A i \in 1 .. Len(w) : Item(h, w, i) = w[i] /\ w[i] \in Id
  BY Places
<1>3. /\ \A i \in 0 .. Len(s) + 1 : i = 0 \/ i = Len(s) + 1 \/ i \in 1 .. Len(s)
      /\ \A i \in 0 .. Len(w) + 1 : i = 0 \/ i = Len(w) + 1 \/ i \in 1 .. Len(w)
  BY <1>1, <1>2
<1>4. \A i \in 0 .. Len(s) + 1 : Item(q, s, i) = q \/ (i \in 1 .. Len(s) /\ Item(q, s, i) = s[i] /\ s[i] \in Id)
  BY <1>1, <1>3
<1>5. \A i \in 0 .. Len(w) + 1 : Item(h, w, i) = h \/ (i \in 1 .. Len(w) /\ Item(h, w, i) = w[i] /\ w[i] \in Id)
  BY <1>2, <1>3
<1> QED
  BY <1>4, <1>5, Apart

\* A ring none of whose links is written stays one.
LEMMA RingKept ==
    ASSUME NEW nx, NEW pv, NEW nx2, NEW pv2, NEW h \in Queue, NEW w \in Seq(Id), Ring(nx, pv, h, w),
           \A i \in 0 .. Len(w) + 1 : /\ nx2[Item(h, w, i)] = nx[Item(h, w, i)]
                                      /\ pv2[Item(h, w, i)] = pv[Item(h, w, i)]
    PROVE  Ring(nx2, pv2, h, w)
<1>1. Len(w) \in Nat
  BY LenProperties
<1>2. \A i \in 0 .. Len(w) : i \in 0 .. Len(w) + 1 /\ i + 1 \in 0 .. Len(w) + 1
  BY <1>1
<1> QED
  BY <1>2 DEF Ring

\* list_push_back writes to its own ring ...
LEMMA PushElsewhere ==
    ASSUME NEW nx \in [Node -> Pointer], NEW pv \in [Node -> Pointer],
           NEW q \in Queue, NEW s \in Seq(Id), Once(s), Ring(nx, pv, q, s),
           NEW h \in Queue, NEW w \in Seq(Id), Once(w), Ring(nx, pv, h, w), q # h,
           \A i \in 1 .. Len(s), j \in 1 .. Len(w) : s[i] # w[j],
           NEW t \in Id, \A j \in 1 .. Len(w) : w[j] # t
    PROVE  Ring(PushNext(nx, pv, t, q), PushPrev(pv, t, q), h, w)
<1> DEFINE z == Item(q, s, Len(s))
<1>1. Len(s) \in Nat /\ Len(s) \in 0 .. Len(s) /\ Len(s) \in 0 .. Len(s) + 1
      /\ Item(q, s, Len(s) + 1) = q /\ 0 \in 0 .. Len(s) + 1 /\ Item(q, s, 0) = q
      /\ \A i \in 0 .. Len(s) + 1 : Item(q, s, i) \in Node
  BY Places
<1>2. pv[q] = z /\ z \in Node
  BY <1>1 DEF Ring
<1>3. \A j \in 0 .. Len(w) + 1 : Item(h, w, j) # z /\ Item(h, w, j) # q /\ Item(h, w, j) \in Node
  <2>1. \A i \in 0 .. Len(s) + 1, j \in 0 .. Len(w) + 1 : Item(q, s, i) # Item(h, w, j)
    BY RingsApart
  <2>2. \A j \in 0 .. Len(w) + 1 : Item(h, w, j) \in Node
    BY Places
  <2> QED
    BY <1>1, <2>1, <2>2
<1>4. \A j \in 0 .. Len(w) + 1 : Item(h, w, j) # t
  <2>1. t \notin Queue
    BY Apart
  <2> QED
    BY <2>1 DEF Item
<1> HIDE DEF z
<1>5. \A x \in Node : x \notin {t, z, q} => PushNext(nx, pv, t, q)[x] = nx[x] /\ PushPrev(pv, t, q)[x] = pv[x]
  BY <1>2, Apart DEF PushNext, PushPrev
<1> QED
  BY <1>3, <1>4, <1>5, RingKept

\* ... and so does list_remove.
LEMMA CutElsewhere ==
    ASSUME NEW nx \in [Node -> Pointer], NEW pv \in [Node -> Pointer],
           NEW q \in Queue, NEW s \in Seq(Id), Once(s), Ring(nx, pv, q, s),
           NEW h \in Queue, NEW w \in Seq(Id), Once(w), Ring(nx, pv, h, w), q # h,
           \A i \in 1 .. Len(s), j \in 1 .. Len(w) : s[i] # w[j],
           NEW k \in 1 .. Len(s)
    PROVE  Ring([nx EXCEPT ![pv[s[k]]] = nx[s[k]], ![s[k]] = None],
                [pv EXCEPT ![nx[s[k]]] = pv[s[k]], ![s[k]] = None], h, w)
<1>1. Len(s) \in Nat /\ k \in Nat /\ k \in 0 .. Len(s) /\ k - 1 \in 0 .. Len(s) /\ (k - 1) + 1 = k
      /\ k + 1 \in 0 .. Len(s) + 1 /\ k - 1 \in 0 .. Len(s) + 1 /\ k \in 0 .. Len(s) + 1
      /\ Item(q, s, k) = s[k] /\ \A i \in 0 .. Len(s) + 1 : Item(q, s, i) \in Node
  BY Places
<1>2. nx[s[k]] = Item(q, s, k + 1) /\ pv[s[k]] = Item(q, s, k - 1)
  BY <1>1 DEF Ring
<1>3. \A j \in 0 .. Len(w) + 1 : Item(h, w, j) \notin {nx[s[k]], pv[s[k]], s[k]} /\ Item(h, w, j) \in Node
  <2>1. \A i \in 0 .. Len(s) + 1, j \in 0 .. Len(w) + 1 : Item(q, s, i) # Item(h, w, j)
    BY RingsApart
  <2>2. \A j \in 0 .. Len(w) + 1 : Item(h, w, j) \in Node
    BY Places
  <2> QED
    BY <1>1, <1>2, <2>1, <2>2
<1>4. s[k] \in Node /\ nx[s[k]] \in Node /\ pv[s[k]] \in Node
  BY <1>1, <1>2
<1> DEFINE nx2 == [nx EXCEPT ![pv[s[k]]] = nx[s[k]], ![s[k]] = None]
           pv2 == [pv EXCEPT ![nx[s[k]]] = pv[s[k]], ![s[k]] = None]
<1>5. \A x \in Node : x \notin {nx[s[k]], pv[s[k]], s[k]} => nx2[x] = nx[x] /\ pv2[x] = pv[x]
  BY <1>4
<1> HIDE DEF nx2, pv2
<1>6. Ring(nx2, pv2, h, w)
  BY <1>3, <1>5, RingKept
<1> QED
  BY <1>6 DEF nx2, pv2

\* The walk of print_list from a head is its ring.
LEMMA ChainIsRing ==
    ASSUME IsFiniteSet(Id), NEW nx \in [Node -> Pointer], NEW pv \in [Node -> Pointer],
           NEW q \in Queue, NEW s \in Seq(Id), Once(s), Ring(nx, pv, q, s)
    PROVE  ChainOf(nx, q) = s
<1> DEFINE N == Cardinality(Id)
           n == Len(s)
           Eqn(f) == f = [i \in 0 .. N |-> IF i = 0 THEN nx[q]
                                 ELSE IF f[i - 1] \in Id THEN nx[f[i - 1]] ELSE f[i - 1]]
           A == [i \in 0 .. N |-> Item(q, s, i + 1)]
<1>1. /\ n \in Nat /\ Item(q, s, 0) = q /\ Item(q, s, n + 1) = q
      /\ \A i \in 1 .. n : Item(q, s, i) = s[i] /\ s[i] \in Id /\ s[i] # q
  BY Places
<1>2. N \in Nat
  BY FS_CardinalityType
<1>3. n <= N
  <2>1. [i \in 1 .. n |-> s[i]] \in Injection(1 .. n, Id)
    BY <1>1 DEF Injection, IsInjective, Once
  <2>2. Cardinality(1 .. n) <= N /\ Cardinality(1 .. n) = n
    <3>1. Cardinality(1 .. n) = IF 1 > n THEN 0 ELSE n - 1 + 1
      BY <1>1, FS_Interval
    <3>2. Cardinality(1 .. n) <= N
      BY <2>1, FS_Injection
    <3> QED
      BY <1>1, <3>1, <3>2
  <2> QED
    BY <2>2
<1>4. \A i \in 0 .. N : i > n => Item(q, s, i) = q
  BY <1>1, <1>2 DEF Item
<1>5. \A i \in 0 .. N : nx[Item(q, s, i)] = Item(q, s, i + 1) \/ i > n
  BY <1>1, <1>2 DEF Ring
<1>6. ASSUME NEW i \in 1 .. N
      PROVE  Item(q, s, i + 1) = IF Item(q, s, i) \in Id THEN nx[Item(q, s, i)] ELSE Item(q, s, i)
  <2>1. CASE i <= n
    BY <1>1, <1>2, <1>5, <1>6, <2>1
  <2>2. CASE i > n
    <3>1. Item(q, s, i) = q /\ Item(q, s, i + 1) = q /\ q \notin Id
      BY <1>1, <1>2, <1>6, <2>2, Apart DEF Item
    <3> QED
      BY <3>1
  <2> QED
    BY <1>1, <1>2, <2>1, <2>2
<1>7. nx[q] = Item(q, s, 1)
  <2>1. 0 \in 0 .. n /\ 0 + 1 = 1
    BY <1>1
  <2> QED
    BY <1>1, <2>1 DEF Ring
<1>8. Eqn(A)
  <2>1. ASSUME NEW i \in 0 .. N
        PROVE  A[i] = IF i = 0 THEN nx[q] ELSE IF A[i - 1] \in Id THEN nx[A[i - 1]] ELSE A[i - 1]
    <3>1. CASE i = 0
      BY <1>2, <1>7, <3>1
    <3>2. CASE i # 0
      <4>1. i \in 1 .. N /\ i - 1 \in 0 .. N /\ (i - 1) + 1 = i
        BY <1>2, <3>2
      <4>2. A[i] = Item(q, s, i + 1) /\ A[i - 1] = Item(q, s, i)
        BY <4>1
      <4> QED
        BY <1>6, <3>2, <4>1, <4>2
    <3> QED
      BY <3>1, <3>2
  <2> QED
    BY <2>1
<1>9. ASSUME NEW f, Eqn(f) PROVE f = A
  <2>1. DOMAIN f = 0 .. N /\ f = [i \in 0 .. N |-> f[i]]
    BY <1>9
  <2>2. SUFFICES ASSUME \E i \in 0 .. N : f[i] # A[i] PROVE FALSE
    BY <2>1
  <2> DEFINE B == {i \in 0 .. N : f[i] # A[i]}
  <2>3. PICK m \in B : \A i \in B : m <= i
    <3>1. B \subseteq Nat
      BY <1>2
    <3>2. B # {}
      <4> HIDE DEF A, N
      <4> QED
        BY <2>2
    <3> HIDE DEF B
    <3> QED
      BY <3>1, <3>2, LeastOf
  <2>4. f[m] = IF m = 0 THEN nx[q] ELSE IF f[m - 1] \in Id THEN nx[f[m - 1]] ELSE f[m - 1]
    BY <1>9
  <2>5. A[m] = IF m = 0 THEN nx[q] ELSE IF A[m - 1] \in Id THEN nx[A[m - 1]] ELSE A[m - 1]
    BY <1>8
  <2>6. m # 0 => f[m - 1] = A[m - 1]
    BY <1>2, <2>3
  <2> QED
    BY <2>3, <2>4, <2>5, <2>6
<1> DEFINE at == CHOOSE f : Eqn(f)
           stop == CHOOSE i \in 0 .. N : at[i] = q /\ \A j \in 0 .. i - 1 : at[j] # q
<1>10. at = A
  <2> HIDE DEF Eqn, A
  <2> QED
    BY <1>8, <1>9
<1>11. ChainOf(nx, q) = [i \in 1 .. stop |-> at[i - 1]]
  BY DEF ChainOf
<1>12. /\ \A i \in 0 .. N : at[i] = Item(q, s, i + 1)
       /\ at[n] = q /\ \A i \in 0 .. n - 1 : at[i] = s[i + 1] /\ at[i] # q
  <2>1. \A i \in 0 .. N : at[i] = Item(q, s, i + 1)
    BY <1>10
  <2>2. \A i \in 0 .. n - 1 : i \in 0 .. N /\ i + 1 \in 1 .. n
    BY <1>1, <1>2, <1>3
  <2> HIDE DEF at
  <2>3. n \in 0 .. N
    BY <1>1, <1>2, <1>3
  <2> QED
    BY <1>1, <2>1, <2>2, <2>3
<1> HIDE DEF at, n, N, A, Eqn
<1>13. stop = n
  <2>1. n \in 0 .. N /\ at[n] = q /\ \A j \in 0 .. n - 1 : at[j] # q
    BY <1>1, <1>2, <1>3, <1>12
  <2>2. stop \in 0 .. N /\ at[stop] = q /\ \A j \in 0 .. stop - 1 : at[j] # q
    BY <2>1
  <2> HIDE DEF stop
  <2>3. ~(stop < n) /\ ~(n < stop)
    BY <1>1, <1>2, <2>1, <2>2
  <2> QED
    BY <1>1, <1>2, <2>2, <2>3
<1> HIDE DEF stop
<1>14. s = [i \in 1 .. n |-> s[i]]
  BY LenProperties DEF n
<1>15. \A i \in 1 .. n : at[i - 1] = s[i]
  <2>1. \A i \in 1 .. n : i - 1 \in 0 .. n - 1 /\ (i - 1) + 1 = i
    BY <1>1
  <2> QED
    BY <1>12, <2>1
<1> QED
  BY <1>11, <1>13, <1>14, <1>15

-----------------------------------------------------------------------------
\* The lists of a state in which one task has moved on.
LEMMA ListsJoin ==
    ASSUME NEW st \in [Id -> Queue \cup {None}], NEW q \in Queue, NEW s, Lists(st, q, s),
           NEW t \in Id, st[t] # q
    PROVE  Lists([st EXCEPT ![t] = q], q, Append(s, t))
<1> DEFINE u == Append(s, t)
           st2 == [st EXCEPT ![t] = q]
<1>1. /\ s \in Seq(Id) /\ Len(s) \in Nat /\ u \in Seq(Id) /\ Len(u) = Len(s) + 1
      /\ \A i \in 1 .. Len(s) : u[i] = s[i] /\ s[i] \in Id /\ s[i] # t /\ st[s[i]] = q
      /\ u[Len(s) + 1] = t
  <2>1. s \in Seq(Id) /\ \A i \in 1 .. Len(s) : st[s[i]] = q
    BY DEF Lists
  <2> QED
    BY <2>1, Appended, ElementOfSeq
<1>2. \A x \in Id : st2[x] = IF x = t THEN q ELSE st[x]
  OBVIOUS
<1> HIDE DEF u, st2
<1>3. \A i \in 1 .. Len(u) : i = Len(s) + 1 \/ i \in 1 .. Len(s)
  BY <1>1
<1>4. \A i \in 1 .. Len(u) : st2[u[i]] = q
  BY <1>1, <1>2, <1>3
<1>5. \A i, j \in 1 .. Len(u) : u[i] = u[j] => i = j
  BY <1>1, <1>3 DEF Lists
<1>6. \A x \in Id : st2[x] = q => \E i \in 1 .. Len(u) : u[i] = x
  <2>1. SUFFICES ASSUME NEW x \in Id, st2[x] = q PROVE \E i \in 1 .. Len(u) : u[i] = x
    OBVIOUS
  <2>2. CASE x = t
    <3>1. Len(s) + 1 \in 1 .. Len(u)
      BY <1>1
    <3> QED
      BY <1>1, <2>2, <3>1
  <2>3. CASE x # t
    <3>1. PICK i \in 1 .. Len(s) : s[i] = x
      BY <1>2, <2>1, <2>3 DEF Lists
    <3>2. i \in 1 .. Len(u)
      BY <1>1
    <3> QED
      BY <1>1, <3>1, <3>2
  <2> QED
    BY <2>2, <2>3
<1>7. Lists(st2, q, u)
  BY <1>1, <1>4, <1>5, <1>6 DEF Lists
<1> QED
  BY <1>7 DEF u, st2

LEMMA ListsLeave ==
    ASSUME NEW st \in [Id -> Queue \cup {None}], NEW q \in Queue, NEW s, Lists(st, q, s),
           NEW k \in 1 .. Len(s), NEW to \in Queue, to # q
    PROVE  Lists([st EXCEPT ![s[k]] = to], q, Queues!RemoveAt(s, k))
<1> DEFINE u == Queues!RemoveAt(s, k)
           st2 == [st EXCEPT ![s[k]] = to]
<1>1. /\ s \in Seq(Id) /\ Len(s) \in Nat /\ u \in Seq(Id) /\ Len(u) = Len(s) - 1
      /\ \A i \in 1 .. Len(s) : s[i] \in Id /\ st[s[i]] = q
      /\ \A i, j \in 1 .. Len(s) : s[i] = s[j] => i = j
      /\ \A i \in 1 .. Len(s) - 1 : u[i] = IF i < k THEN s[i] ELSE s[i + 1]
  <2>1. s \in Seq(Id)
    BY DEF Lists
  <2>2. \A i \in 1 .. Len(s) : s[i] \in Id
    BY <2>1, ElementOfSeq
  <2> QED
    BY <2>1, <2>2, Without DEF Lists
<1>2. \A x \in Id : st2[x] = IF x = s[k] THEN to ELSE st[x]
  BY <1>1
<1> HIDE DEF u, st2
<1>3. ASSUME NEW i \in 1 .. Len(u)
      PROVE  \E m \in 1 .. Len(s) : m # k /\ u[i] = s[m] /\ m = IF i < k THEN i ELSE i + 1
  <2>1. CASE i < k
    BY <1>1, <1>3, <2>1
  <2>2. CASE ~(i < k)
    <3>1. i + 1 \in 1 .. Len(s) /\ i + 1 # k
      BY <1>1, <1>3, <2>2
    <3> QED
      BY <1>1, <1>3, <2>2, <3>1
  <2> QED
    BY <2>1, <2>2
<1>4. ASSUME NEW i \in 1 .. Len(u) PROVE st2[u[i]] = q
  <2>1. PICK m \in 1 .. Len(s) : m # k /\ u[i] = s[m]
    BY <1>3
  <2>2. s[m] \in Id /\ st[s[m]] = q /\ s[m] # s[k]
    BY <1>1, <2>1
  <2> QED
    BY <1>2, <2>1, <2>2
<1>5. ASSUME NEW i \in 1 .. Len(u), NEW j \in 1 .. Len(u), u[i] = u[j] PROVE i = j
  <2>1. PICK a \in 1 .. Len(s) : u[i] = s[a] /\ a = IF i < k THEN i ELSE i + 1
    BY <1>3
  <2>2. PICK b \in 1 .. Len(s) : u[j] = s[b] /\ b = IF j < k THEN j ELSE j + 1
    BY <1>3
  <2>3. a = b
    BY <1>1, <1>5, <2>1, <2>2
  <2> QED
    BY <1>1, <2>1, <2>2, <2>3
<1>6. ASSUME NEW x \in Id, st2[x] = q PROVE \E i \in 1 .. Len(u) : u[i] = x
  <2>1. x # s[k] /\ st[x] = q
    BY <1>2, <1>6
  <2>2. PICK m \in 1 .. Len(s) : s[m] = x
    BY <2>1 DEF Lists
  <2>3. CASE m < k
    <3>1. m \in 1 .. Len(u) /\ u[m] = s[m]
      BY <1>1, <2>3
    <3> QED
      BY <2>2, <3>1
  <2>4. CASE ~(m < k)
    <3>1. m - 1 \in 1 .. Len(u) /\ ~(m - 1 < k) /\ (m - 1) + 1 = m
      BY <1>1, <2>1, <2>2, <2>4
    <3>2. u[m - 1] = s[m]
      BY <1>1, <3>1
    <3> QED
      BY <2>2, <3>1, <3>2
  <2> QED
    BY <2>3, <2>4
<1>7. Lists(st2, q, u)
  BY <1>1, <1>4, <1>5, <1>6 DEF Lists
<1> QED
  BY <1>7 DEF u, st2

LEMMA ListsElsewhere ==
    ASSUME NEW st \in [Id -> Queue \cup {None}], NEW h \in Queue, NEW w, Lists(st, h, w),
           NEW t \in Id, st[t] # h, NEW to \in Queue, to # h
    PROVE  Lists([st EXCEPT ![t] = to], h, w)
<1>1. \A x \in Id : [st EXCEPT ![t] = to][x] = h <=> st[x] = h
  OBVIOUS
<1>2. \A i \in 1 .. Len(w) : w[i] \in Id
  BY ElementOfSeq DEF Lists
<1> QED
  BY <1>1, <1>2 DEF Lists

\* Lists of two states have no task in common.
LEMMA ListsApart ==
    ASSUME NEW st, NEW q \in Queue, NEW s, Lists(st, q, s), NEW h \in Queue, NEW w, Lists(st, h, w), q # h
    PROVE  /\ \A i \in 1 .. Len(s), j \in 1 .. Len(w) : s[i] # w[j]
           /\ s \in Seq(Id) /\ Once(s) /\ w \in Seq(Id) /\ Once(w)
BY DEF Lists, Once

\* CMD_TASK appends to the waiting queue.
LEMMA QueuesTask ==
    ASSUME IsFiniteSet(Id), TypeOK, TypeOK', Rings, NEW t \in Id, NEW p \in Priority, CmdTask(t, p)
    PROVE  /\ Rings'
           /\ \A h \in Queue : Chain(h)' = IF h = "waiting" THEN Append(Chain(h), t) ELSE Chain(h)
<1> DEFINE q == "waiting"
           s == Chain("waiting")
<1>1. /\ q \in Queue /\ state[t] = None /\ next' = PushNext(next, prev, t, q)
      /\ prev' = PushPrev(prev, t, q) /\ state' = [state EXCEPT ![t] = q]
  BY Apart DEF CmdTask, Exists
<1>2. /\ next \in [Node -> Pointer] /\ prev \in [Node -> Pointer]
      /\ next' \in [Node -> Pointer] /\ prev' \in [Node -> Pointer]
      /\ state \in [Id -> Queue \cup {None}]
  BY DEF TypeOK
<1>3. \A h \in Queue : Lists(state, h, Chain(h)) /\ Ring(next, prev, h, Chain(h)) /\ h # None
  BY Apart DEF Rings
<1> HIDE DEF s
<1>4. Lists(state, q, s) /\ Ring(next, prev, q, s) /\ s \in Seq(Id) /\ Once(s)
      /\ \A i \in 1 .. Len(s) : s[i] # t
  BY <1>1, <1>3 DEF Lists, Once, s
<1>5. Ring(next', prev', q, Append(s, t)) /\ Lists(state', q, Append(s, t))
  <2>1. Ring(next', prev', q, Append(s, t))
    BY <1>1, <1>2, <1>4, PushRing
  <2>2. Lists(state', q, Append(s, t))
    BY <1>1, <1>2, <1>3, <1>4, ListsJoin
  <2> QED
    BY <2>1, <2>2
<1>6. ASSUME NEW h \in Queue, h # q
      PROVE  Ring(next', prev', h, Chain(h)) /\ Lists(state', h, Chain(h))
  <2> DEFINE w == Chain(h)
  <2>1. Lists(state, h, w) /\ Ring(next, prev, h, w) /\ \A j \in 1 .. Len(w) : w[j] # t
    BY <1>1, <1>3 DEF Lists
  <2> HIDE DEF w
  <2>2. /\ \A i \in 1 .. Len(s), j \in 1 .. Len(w) : s[i] # w[j]
        /\ w \in Seq(Id) /\ Once(w)
    BY <1>1, <1>4, <1>6, <2>1, ListsApart
  <2>3. Ring(next', prev', h, w)
    BY <1>1, <1>2, <1>4, <1>6, <2>1, <2>2, PushElsewhere
  <2>4. Lists(state', h, w)
    BY <1>1, <1>2, <1>3, <1>6, <2>1, ListsElsewhere
  <2> QED
    BY <2>3, <2>4 DEF w
<1>7. ASSUME NEW h \in Queue, NEW w, Ring(next', prev', h, w), Lists(state', h, w) PROVE Chain(h)' = w
  BY <1>2, <1>7, ChainIsRing DEF Chain, Lists, Once
<1>8. \A h \in Queue : Chain(h)' = IF h = q THEN Append(Chain(h), t) ELSE Chain(h)
  <2>1. Chain(q)' = Append(Chain(q), t)
    <3>1. Chain(q)' = Append(s, t)
      BY <1>1, <1>5, <1>7
    <3> QED
      BY <3>1 DEF s
  <2>2. ASSUME NEW h \in Queue, h # q PROVE Chain(h)' = Chain(h)
    BY <1>6, <1>7, <2>2
  <2> QED
    BY <2>1, <2>2
<1>9. Rings'
  BY <1>5, <1>6, <1>8 DEF Rings, s
<1> QED
  BY <1>8, <1>9

\* list_remove and list_push_back move a task from its place in one queue to the end of
\* another.
LEMMA QueuesMove ==
    ASSUME IsFiniteSet(Id), TypeOK, TypeOK', Rings, NEW t \in Id, NEW from \in Queue, NEW to \in Queue,
           from # to, state[t] = from, Move(t, from, to),
           NEW k \in 1 .. Len(Chain(from)), Chain(from)[k] = t
    PROVE  /\ Rings'
           /\ Chain(from)' = Queues!RemoveAt(Chain(from), k)
           /\ Chain(to)' = Append(Chain(to), t)
           /\ \A h \in Queue \ {from, to} : Chain(h)' = Chain(h)
<1> DEFINE s == Chain(from)
           u == Queues!RemoveAt(s, k)
           v == Chain(to)
           nx == [next EXCEPT ![prev[t]] = next[t], ![t] = None]
           pv == [prev EXCEPT ![next[t]] = prev[t], ![t] = None]
<1>1. /\ next' = PushNext(nx, pv, t, to) /\ prev' = PushPrev(pv, t, to)
      /\ state' = [state EXCEPT ![t] = to]
  BY DEF Move, CutPrev, CutNext
<1>2. /\ next \in [Node -> Pointer] /\ prev \in [Node -> Pointer]
      /\ next' \in [Node -> Pointer] /\ prev' \in [Node -> Pointer]
      /\ state \in [Id -> Queue \cup {None}]
  BY DEF TypeOK
<1>3. \A h \in Queue : Lists(state, h, Chain(h)) /\ Ring(next, prev, h, Chain(h))
  BY DEF Rings
<1>4. nx \in [Node -> Pointer] /\ pv \in [Node -> Pointer]
  <2>1. None \in Pointer /\ next[t] \in Pointer /\ prev[t] \in Pointer
    BY <1>2 DEF Pointer, Node
  <2> QED
    BY <1>2, <2>1
<1> HIDE DEF s, v
<1>5. Lists(state, from, s) /\ Ring(next, prev, from, s) /\ s \in Seq(Id) /\ Once(s) /\ k \in 1 .. Len(s)
      /\ s[k] = t /\ Lists(state, to, v) /\ Ring(next, prev, to, v) /\ v \in Seq(Id) /\ Once(v)
      /\ \A i \in 1 .. Len(v) : v[i] # t
  <2>1. Lists(state, from, s) /\ Ring(next, prev, from, s) /\ Lists(state, to, v) /\ Ring(next, prev, to, v)
    BY <1>3 DEF s, v
  <2>2. k \in 1 .. Len(s) /\ s[k] = t
    BY DEF s
  <2>3. \A i \in 1 .. Len(v) : state[v[i]] # state[t]
    BY <2>1 DEF Lists
  <2> QED
    BY <2>1, <2>2, <2>3 DEF Lists, Once
<1> HIDE DEF nx, pv, u
<1>6. Ring(nx, pv, from, u)
  BY <1>2, <1>5, CutRing DEF nx, pv, u
<1>7. ASSUME NEW h \in Queue, h # from
      PROVE  Ring(nx, pv, h, Chain(h)) /\ Lists(state, h, Chain(h)) /\ Chain(h) \in Seq(Id) /\ Once(Chain(h))
             /\ \A j \in 1 .. Len(Chain(h)) : Chain(h)[j] # t
  <2> DEFINE w == Chain(h)
  <2>1. Lists(state, h, w) /\ Ring(next, prev, h, w) /\ w \in Seq(Id) /\ Once(w)
        /\ \A j \in 1 .. Len(w) : w[j] # t
    BY <1>3, <1>7 DEF Lists, Once
  <2> HIDE DEF w
  <2>2. \A i \in 1 .. Len(s), j \in 1 .. Len(w) : s[i] # w[j]
    BY <1>5, <1>7, <2>1, ListsApart
  <2>3. Ring(nx, pv, h, w)
    BY <1>2, <1>5, <1>7, <2>1, <2>2, CutElsewhere DEF nx, pv
  <2> QED
    BY <2>1, <2>3 DEF w
<1>8. Lists(state', from, u) /\ Lists(state', to, Append(v, t))
  <2>1. Lists(state', from, u)
    BY <1>1, <1>2, <1>5, ListsLeave DEF u
  <2>2. Lists(state', to, Append(v, t))
    BY <1>1, <1>2, <1>5, ListsJoin
  <2> QED
    BY <2>1, <2>2
<1>9. Ring(next', prev', to, Append(v, t))
  BY <1>1, <1>4, <1>5, <1>7, PushRing DEF v
<1>10. ASSUME NEW h \in Queue, h # to, NEW w, Ring(nx, pv, h, w), w \in Seq(Id), Once(w),
              \A i \in 1 .. Len(v), j \in 1 .. Len(w) : v[i] # w[j], \A j \in 1 .. Len(w) : w[j] # t
       PROVE  Ring(next', prev', h, w)
  <2>1. Ring(nx, pv, to, v)
    BY <1>7 DEF v
  <2> QED
    BY <1>1, <1>4, <1>5, <1>10, <2>1, PushElsewhere
<1>11. Ring(next', prev', from, u)
  <2>1. u \in Seq(Id) /\ Once(u) /\ \A j \in 1 .. Len(u) : u[j] # t
    <3>1. \A i \in 1 .. Len(u) : state'[u[i]] = from
      BY <1>8 DEF Lists
    <3>2. state'[t] = to
      BY <1>1, <1>2
    <3>3. \A j \in 1 .. Len(u) : u[j] # t
      BY <3>1, <3>2
    <3> QED
      BY <1>8, <3>3 DEF Lists, Once
  <2>2. \A i \in 1 .. Len(Append(v, t)), j \in 1 .. Len(u) : Append(v, t)[i] # u[j]
    <3> DEFINE x == Append(v, t)
    <3>1. Lists(state', to, x) /\ Lists(state', from, u)
      BY <1>8
    <3> HIDE DEF x
    <3>2. \A i \in 1 .. Len(x), j \in 1 .. Len(u) : x[i] # u[j]
      BY <3>1, ListsApart
    <3> QED
      BY <3>2 DEF x
  <2>3. \A i \in 1 .. Len(v) : i \in 1 .. Len(Append(v, t)) /\ Append(v, t)[i] = v[i]
    BY <1>5, Appended
  <2>4. \A i \in 1 .. Len(v), j \in 1 .. Len(u) : v[i] # u[j]
    BY <2>2, <2>3
  <2> QED
    BY <1>6, <1>10, <2>1, <2>4
<1>12. ASSUME NEW h \in Queue \ {from, to}
       PROVE  Ring(next', prev', h, Chain(h)) /\ Lists(state', h, Chain(h))
  <2> DEFINE w == Chain(h)
  <2>1. Ring(nx, pv, h, w) /\ Lists(state, h, w) /\ w \in Seq(Id) /\ Once(w)
        /\ \A j \in 1 .. Len(w) : w[j] # t
    BY <1>7
  <2> HIDE DEF w
  <2>2. \A i \in 1 .. Len(v), j \in 1 .. Len(w) : v[i] # w[j]
    BY <1>5, <1>12, <2>1, ListsApart
  <2>3. Ring(next', prev', h, w)
    BY <1>10, <1>12, <2>1, <2>2
  <2>4. Lists(state', h, w)
    BY <1>1, <1>2, <1>12, <2>1, ListsElsewhere
  <2> QED
    BY <2>3, <2>4 DEF w
<1>13. ASSUME NEW h \in Queue, NEW w, Ring(next', prev', h, w), Lists(state', h, w) PROVE Chain(h)' = w
  BY <1>2, <1>13, ChainIsRing DEF Chain, Lists, Once
<1>14. /\ Chain(from)' = u /\ Chain(to)' = Append(v, t)
       /\ \A h \in Queue \ {from, to} : Chain(h)' = Chain(h)
  BY <1>8, <1>9, <1>11, <1>12, <1>13
<1>15. Rings'
  BY <1>8, <1>9, <1>11, <1>12, <1>14 DEF Rings
<1> QED
  BY <1>14, <1>15 DEF u, s, v

\* What a step has to show: the invariant again, and a step of the queues or none.
Mapped == QInv' /\ [Queues!Next]_(Queues!queueVars)

LEMMA RingsKept ==
    ASSUME Rings, UNCHANGED <<prev, next, state>>
    PROVE  Rings' /\ \A h \in Queue : Chain(h)' = Chain(h)
<1>1. \A h \in Queue : Chain(h)' = Chain(h)
  BY DEF Chain
<1> QED
  BY <1>1 DEF Rings

\* The head's links lead to the first task and the last, a task's to its neighbours.
LEMMA RingOf ==
    ASSUME Rings, NEW q \in Queue
    PROVE  LET s == Chain(q) n == Len(s)
           IN  /\ s \in Seq(Id) /\ Once(s) /\ n \in Nat /\ DOMAIN s = 1 .. n
               /\ Item(q, s, 0) = q /\ Item(q, s, n + 1) = q
               /\ \A i \in 1 .. n : Item(q, s, i) = s[i] /\ s[i] \in Id /\ s[i] # q /\ state[s[i]] = q
               /\ \A i \in 0 .. n + 1 : Item(q, s, i) \in Node
               /\ \A i \in 0 .. n : /\ next[Item(q, s, i)] = Item(q, s, i + 1)
                                    /\ prev[Item(q, s, i + 1)] = Item(q, s, i)
               /\ \A t \in Id : state[t] = q => \E i \in 1 .. n : s[i] = t
<1> DEFINE s == Chain(q)
<1>1. Lists(state, q, s) /\ Ring(next, prev, q, s)
  BY DEF Rings
<1> HIDE DEF s
<1>2. s \in Seq(Id) /\ Once(s) /\ DOMAIN s = 1 .. Len(s)
  BY <1>1, LenProperties DEF Lists, Once
<1> QED
  BY <1>1, <1>2, Places DEF s, Lists, Ring

\* A step that changes no queue and neither begins nor ends a run.
LEMMA QuietMaps ==
    ASSUME QInv, UNCHANGED <<prev, next, state, priority>>, Choosing', Showing',
           phase \in {"run", "choose"} <=> phase' \in {"run", "choose"},
           phase # "exited", phase' # "exited"
    PROVE  Mapped
<1>1. Rings' /\ \A h \in Queue : Chain(h)' = Chain(h)
  BY RingsKept DEF QInv
<1>2. QInv'
  BY <1>1 DEF QInv, Priorities, Exists
<1>3. UNCHANGED Queues!queueVars
  BY <1>1 DEF Queues!queueVars, Queue
<1> QED
  BY <1>2, <1>3 DEF Mapped

\* Commands that change no queue, and the ends of the program before the report is out.
LEMMA CommandMaps ==
    ASSUME QInv, UNCHANGED <<prev, next, state, priority>>,
           phase \in {"parse", "apply", "print waiting", "print ready", "print done"},
           phase' \in {"apply", "died", "faulted", "undefined"}
    PROVE  Mapped
<1>1. Choosing' /\ Showing'
  BY DEF Choosing, Showing, InReport
<1> QED
  BY <1>1, QuietMaps

\* A note that fits reaches no link.
LEMMA NoteMaps ==
    ASSUME NoteLengths \subseteq 0 .. 28, LInv, QInv, NEW t \in Id, NEW len \in NoteLengths, CmdNote(t, len)
    PROVE  Mapped
<1>1. len \in 0 .. 28
  OBVIOUS
<1>2. Overwritten(prev[t], len, 29) = prev[t] /\ Overwritten(next[t], len, 37) = next[t]
  BY <1>1 DEF Overwritten
<1>3. prev' = prev /\ next' = next
  BY <1>2 DEF CmdNote, LInv, TypeOK
<1> QED
  BY <1>3, CommandMaps DEF CmdNote, Command, tasks

LEMMA TaskMaps ==
    ASSUME IsFiniteSet(Id), LInv, LInv', QInv, NEW t \in Id, NEW p \in Priority, CmdTask(t, p)
    PROVE  Mapped
<1>1. /\ phase = "apply" /\ phase' = phase /\ state[t] = None
      /\ priority' = [priority EXCEPT ![t] = p] /\ state' = [state EXCEPT ![t] = "waiting"]
      /\ state \in [Id -> Queue \cup {None}] /\ priority \in [Id -> Priority \cup {None}]
  BY DEF CmdTask, Command, Exists, LInv, TypeOK
<1>2. Rings' /\ \A h \in Queue : Chain(h)' = IF h = "waiting" THEN Append(Chain(h), t) ELSE Chain(h)
  BY QueuesTask DEF LInv, QInv
<1>3. Priorities'
  BY <1>1, Apart DEF QInv, Priorities, Exists
<1>4. QInv'
  BY <1>1, <1>2, <1>3 DEF QInv, Choosing, Showing, InReport
<1>5. Queues!Create(t, p)
  <2>1. Queues!Idle
    BY <1>1 DEF Queues!Idle
  <2>2. priority[t] = None
    BY <1>1 DEF QInv, Priorities, Exists
  <2>3. /\ Chain("waiting")' = Append(Chain("waiting"), t)
        /\ Chain("ready")' = Chain("ready") /\ Chain("done")' = Chain("done")
    BY <1>2 DEF Queue
  <2> QED
    BY <1>1, <2>1, <2>2, <2>3 DEF Queues!Create
<1> QED
  BY <1>4, <1>5 DEF Mapped, Queues!Next

LEMMA ReadyMaps ==
    ASSUME IsFiniteSet(Id), LInv, LInv', QInv, NEW t \in Id, CmdReady(t)
    PROVE  Mapped
<1>1. /\ phase = "apply" /\ phase' = phase /\ state[t] = "waiting" /\ priority' = priority
      /\ Move(t, "waiting", "ready") /\ state' = [state EXCEPT ![t] = "ready"]
      /\ state \in [Id -> Queue \cup {None}]
  BY DEF CmdReady, Command, Move, LInv, TypeOK
<1>2. PICK i \in 1 .. Len(Chain("waiting")) : Chain("waiting")[i] = t
  BY <1>1, RingOf DEF QInv, Queue
<1>3. /\ Rings'
      /\ Chain("waiting")' = Queues!RemoveAt(Chain("waiting"), i)
      /\ Chain("ready")' = Append(Chain("ready"), t)
      /\ Chain("done")' = Chain("done")
  BY <1>1, <1>2, QueuesMove DEF LInv, QInv, Queue
<1>4. Priorities'
  BY <1>1, Apart DEF QInv, Priorities, Exists
<1>5. QInv'
  BY <1>1, <1>3, <1>4 DEF QInv, Choosing, Showing, InReport
<1>6. Queues!MakeReady(t)
  <2>1. Queues!Idle
    BY <1>1 DEF Queues!Idle
  <2>2. i \in DOMAIN Chain("waiting")
    BY <1>2, RingOf DEF QInv, Queue
  <2> QED
    BY <1>1, <1>2, <1>3, <2>1, <2>2 DEF Queues!MakeReady
<1> QED
  BY <1>5, <1>6 DEF Mapped, Queues!Next

LEMMA RunMaps == ASSUME QInv, CmdRun \/ RunEmpty PROVE Mapped
<1>1. /\ UNCHANGED <<prev, next, state, priority>>
      /\ phase \in {"apply", "run"} /\ phase' \in {"apply", "run"}
  BY DEF CmdRun, RunEmpty, Command, links, tasks
<1>2. Rings' /\ \A h \in Queue : Chain(h)' = Chain(h)
  BY <1>1, RingsKept DEF QInv
<1>3. QInv'
  BY <1>1, <1>2 DEF QInv, Priorities, Exists, Choosing, Showing, InReport
<1>4. CASE CmdRun
  <2>1. Queues!StartRun
    BY <1>1, <1>2, <1>4 DEF CmdRun, Command, Queue, Queues!StartRun, Queues!Idle
  <2> QED
    BY <1>3, <2>1 DEF Mapped, Queues!Next
<1>5. CASE RunEmpty
  <2>1. Chain("ready") = <<>>
    <3> DEFINE s == Chain("ready")
    <3>1. /\ s \in Seq(Id) /\ Len(s) \in Nat /\ next[Item("ready", s, 0)] = Item("ready", s, 1)
          /\ Item("ready", s, 0) = "ready"
          /\ \A i \in 1 .. Len(s) : Item("ready", s, i) # "ready"
      <4>1. Len(s) \in Nat => 0 \in 0 .. Len(s) /\ 0 + 1 = 1
        OBVIOUS
      <4> QED
        BY <4>1, RingOf DEF QInv, Queue
    <3> HIDE DEF s
    <3>2. ~(1 \in 1 .. Len(s))
      BY <1>5, <3>1 DEF RunEmpty
    <3>3. Len(s) = 0
      BY <3>1, <3>2
    <3>4. s = <<>>
      BY <3>1, <3>3
    <3> QED
      BY <3>4 DEF s
  <2>2. Queues!StopRun
    BY <1>1, <1>2, <1>5, <2>1 DEF RunEmpty, Queue, Queues!StopRun
  <2> QED
    BY <1>3, <2>2 DEF Mapped, Queues!Next
<1> QED
  BY <1>4, <1>5

\* choose_ready begins, and goes on: of the tasks passed it keeps the oldest of highest
\* priority.
LEMMA ChooseMaps == ASSUME LInv, QInv, RunChoose \/ ChooseStep PROVE Mapped
<1> DEFINE s == Chain("ready")
<1>1. /\ UNCHANGED <<prev, next, state, priority>>
      /\ phase \in {"run", "choose"} /\ phase' = "choose"
  BY DEF RunChoose, ChooseStep, links, tasks, control
<1>2. /\ s \in Seq(Id) /\ Len(s) \in Nat /\ s' = s
      /\ Item("ready", s, 0) = "ready" /\ Item("ready", s, Len(s) + 1) = "ready"
      /\ \A i \in 1 .. Len(s) : Item("ready", s, i) = s[i] /\ s[i] \in Id /\ state[s[i]] = "ready"
      /\ \A i \in 0 .. Len(s) : next[Item("ready", s, i)] = Item("ready", s, i + 1)
  BY <1>1, RingOf, RingsKept DEF QInv, Queue
<1> HIDE DEF s
<1>3. \A i \in 1 .. Len(s) : priority[s[i]] \in Nat
  <2>1. \A i \in 1 .. Len(s) : Exists(s[i])
    BY <1>2, Apart DEF Exists
  <2> QED
    BY <1>2, <2>1, PriorityAssumption DEF QInv, Priorities
<1>4. \E k \in 1 .. Len(s) + 1 : Choice(s, k)'
  <2>1. CASE RunChoose
    <3>1. cur' = next["ready"] /\ best' = None /\ 0 \in 0 .. Len(s) /\ 0 + 1 = 1 /\ 1 \in 1 .. Len(s) + 1
      BY <1>2, <2>1 DEF RunChoose
    <3>2. cur' = Item("ready", s, 1)
      BY <1>2, <3>1
    <3> QED
      BY <1>2, <3>1, <3>2 DEF Choice
  <2>2. CASE ChooseStep
    <3>1. /\ phase = "choose" /\ cur \in Id /\ cur' = next[cur]
          /\ best' = IF Better(cur) THEN cur ELSE best
      BY <2>2 DEF ChooseStep
    <3>2. PICK k \in 1 .. Len(s) + 1 : Choice(s, k)
      BY <3>1 DEF QInv, Choosing, s
    <3>3. k \in 1 .. Len(s) /\ cur = s[k]
      <4>1. cur = Item("ready", s, k) /\ cur # "ready"
        BY <3>1, <3>2, Apart DEF Choice
      <4> QED
        BY <1>2, <4>1
    <3>4. k + 1 \in 1 .. Len(s) + 1 /\ cur' = Item("ready", s, k + 1)
      BY <1>2, <3>1, <3>3
    <3>5. \E i \in 1 .. k : /\ best' = s[i]
                            /\ \A j \in 1 .. k : \/ priority[s[j]] < priority[s[i]]
                                                 \/ priority[s[j]] = priority[s[i]] /\ j >= i
      <4>1. CASE k = 1
        <5>1. best = None /\ best' = s[1]
          BY <3>1, <3>2, <3>3, <4>1 DEF Choice, Better
        <5> QED
          BY <4>1, <5>1
      <4>2. CASE k # 1
        <5>1. PICK i \in 1 .. k - 1 :
                  /\ best = s[i]
                  /\ \A j \in 1 .. k - 1 : \/ priority[s[j]] < priority[s[i]]
                                           \/ priority[s[j]] = priority[s[i]] /\ j >= i
          BY <1>2, <3>2, <3>3, <4>2 DEF Choice
        <5>2. i \in 1 .. Len(s) /\ best # None /\ i \in 1 .. k /\ k \in 1 .. k
          BY <1>2, <3>3, <5>1, Apart DEF Node
        <5>3. \A j \in 1 .. k : j = k \/ j \in 1 .. k - 1
          BY <3>3
        <5>4. \A j \in 1 .. k : j \in 1 .. Len(s)
          BY <1>2, <3>3
        <5>5. CASE priority[s[k]] > priority[s[i]]
          <6>1. best' = s[k]
            BY <3>1, <3>3, <5>1, <5>5 DEF Better
          <6>2. \A j \in 1 .. k : \/ priority[s[j]] < priority[s[k]]
                                  \/ priority[s[j]] = priority[s[k]] /\ j >= k
            BY <1>3, <3>3, <5>1, <5>2, <5>3, <5>4, <5>5
          <6> QED
            BY <5>2, <6>1, <6>2
        <5>6. CASE ~(priority[s[k]] > priority[s[i]])
          <6>1. best' = s[i]
            BY <3>1, <3>3, <5>1, <5>2, <5>6 DEF Better
          <6>2. priority[s[k]] < priority[s[i]] \/ (priority[s[k]] = priority[s[i]] /\ k >= i)
            BY <1>3, <3>3, <5>1, <5>2, <5>6
          <6> QED
            BY <5>1, <5>2, <5>3, <6>1, <6>2
        <5> QED
          BY <5>5, <5>6
      <4> QED
        BY <4>1, <4>2
    <3>6. (k + 1) - 1 = k /\ k + 1 > 1 /\ k + 1 # 1
      BY <3>3
    <3>7. Choice(s, k + 1)'
      BY <1>1, <1>2, <3>4, <3>5, <3>6 DEF Choice
    <3> QED
      BY <3>4, <3>7
  <2> QED
    BY <2>1, <2>2
<1>5. Choosing' /\ Showing'
  BY <1>1, <1>2, <1>4 DEF Choosing, Showing, InReport, s
<1> QED
  BY <1>1, <1>5, QuietMaps

\* finish_task takes the one choose_ready has chosen of all the ready tasks.
LEMMA FinishMaps == ASSUME IsFiniteSet(Id), LInv, LInv', QInv, Finish PROVE Mapped
<1> DEFINE s == Chain("ready")
<1>1. /\ phase = "choose" /\ cur = "ready" /\ best # None /\ Move(best, "ready", "done")
      /\ priority' = priority /\ state' = [state EXCEPT ![best] = "done"]
      /\ state \in [Id -> Queue \cup {None}]
  BY DEF Finish, Chosen, Move, LInv, TypeOK
<1>2. phase' = "run"
  BY DEF Finish, LInv, ListChecksStaySilent, ListChecks
<1>3. /\ s \in Seq(Id) /\ Len(s) \in Nat /\ DOMAIN s = 1 .. Len(s)
      /\ \A i \in 1 .. Len(s) : Item("ready", s, i) = s[i] /\ s[i] # "ready" /\ s[i] \in Id
                                /\ state[s[i]] = "ready"
  BY RingOf DEF QInv, Queue
<1> HIDE DEF s
<1>4. PICK k \in 1 .. Len(s) + 1 : Choice(s, k)
  BY <1>1 DEF QInv, Choosing, s
<1>5. k = Len(s) + 1
  <2>1. Item("ready", s, k) = "ready"
    BY <1>1, <1>4 DEF Choice
  <2> QED
    BY <1>3, <2>1
<1>6. PICK i \in 1 .. Len(s) : /\ best = s[i]
                               /\ \A j \in 1 .. Len(s) : \/ priority[s[j]] < priority[s[i]]
                                                         \/ priority[s[j]] = priority[s[i]] /\ j >= i
  <2>1. k > 1 /\ k - 1 = Len(s)
    BY <1>1, <1>3, <1>4, <1>5 DEF Choice
  <2> QED
    BY <1>4, <2>1 DEF Choice
<1>7. /\ Rings'
      /\ Chain("ready")' = Queues!RemoveAt(s, i)
      /\ Chain("done")' = Append(Chain("done"), best)
      /\ Chain("waiting")' = Chain("waiting")
  <2>1. best \in Id /\ state[best] = "ready" /\ i \in 1 .. Len(Chain("ready")) /\ Chain("ready")[i] = best
    BY <1>3, <1>6 DEF s
  <2> QED
    BY <1>1, <2>1, QueuesMove DEF LInv, QInv, Queue, s
<1>8. Priorities'
  <2>1. state[best] = "ready" /\ best \in Id
    BY <1>3, <1>6
  <2> QED
    BY <1>1, <2>1, Apart DEF QInv, Priorities, Exists
<1>9. QInv'
  BY <1>2, <1>7, <1>8 DEF QInv, Choosing, Showing, InReport
<1>10. Queues!FinishNext
  <2>1. i \in DOMAIN Chain("ready") /\ Chain("ready")[i] = best
    BY <1>3, <1>6 DEF s
  <2>2. Queues!IsNext(i)
    BY <1>3, <1>6 DEF Queues!IsNext, s
  <2>3. /\ Chain("ready")' = Queues!RemoveAt(Chain("ready"), i)
        /\ Chain("done")' = Append(Chain("done"), Chain("ready")[i])
    BY <1>7, <2>1 DEF s
  <2> QED
    BY <1>1, <1>2, <1>7, <2>1, <2>2, <2>3 DEF Queues!FinishNext
<1> QED
  BY <1>9, <1>10 DEF Mapped, Queues!Next

\* What scheduler_run follows and removes is linked.
LEMMA RunsOn == ASSUME LInv, QInv PROVE ~ChooseFault /\ ~FinishStops
<1> DEFINE s == Chain("ready")
<1>1. /\ s \in Seq(Id) /\ Len(s) \in Nat
      /\ \A i \in 0 .. Len(s) + 1 : Item("ready", s, i) \in Node
      /\ \A i \in 1 .. Len(s) : Item("ready", s, i) = s[i]
      /\ \A i \in 0 .. Len(s) : /\ next[Item("ready", s, i)] = Item("ready", s, i + 1)
                                /\ prev[Item("ready", s, i + 1)] = Item("ready", s, i)
      /\ \A t \in Id : state[t] = "ready" => \E i \in 1 .. Len(s) : s[i] = t
  BY RingOf DEF QInv, Queue
<1> HIDE DEF s
<1>2. ~ChooseFault
  <2> SUFFICES ASSUME ChooseFault PROVE FALSE
    OBVIOUS
  <2>1. phase = "choose" /\ cur \in Damaged
    BY DEF ChooseFault, Follow, Damaged
  <2>2. PICK k \in 1 .. Len(s) + 1 : Choice(s, k)
    BY <2>1 DEF QInv, Choosing, s
  <2>3. cur \in Node
    BY <1>1, <2>2 DEF Choice
  <2> QED
    BY <2>1, <2>3, Apart
<1>3. ~FinishStops
  <2> SUFFICES ASSUME FinishStops PROVE FALSE
    OBVIOUS
  <2>1. best \in Id /\ state[best] = "ready" /\ MoveStops(best, "ready", "finish_task")
    BY Apart DEF LInv, TypeOK, Running, FinishStops, Chosen
  <2>2. PICK i \in 1 .. Len(s) : s[i] = best
    BY <1>1, <2>1
  <2>3. next[best] \in Node /\ prev[best] \in Node
    <3>1. i \in 0 .. Len(s) /\ i - 1 \in 0 .. Len(s) /\ (i - 1) + 1 = i /\ i + 1 \in 0 .. Len(s) + 1
          /\ i - 1 \in 0 .. Len(s) + 1
      BY <1>1
    <3> QED
      BY <1>1, <2>2, <3>1
  <2>4. count["ready"] # 0
    BY <2>1, NothingToNotice, Apart DEF LInv
  <2> QED
    BY <2>1, <2>3, <2>4, CutUnlinks, Apart DEF LInv, MoveStops, Removable
<1> QED
  BY <1>2, <1>3

\* print_list: one more task of the list it is at.
LEMMA PrintMaps == ASSUME LInv, QInv, PrintTask PROVE Mapped
<1>0. PICK q \in Queue : q = Printing
  BY ReportPlaces DEF PrintTask
<1> DEFINE s == Chain(q)
<1>1. /\ InReport /\ cur \in Id /\ cur' = next[cur]
      /\ printed' = [printed EXCEPT ![q] = Append(@, cur)]
      /\ UNCHANGED <<prev, next, state, priority, phase>>
  BY <1>0 DEF PrintTask, links, tasks, control
<1>2. /\ s \in Seq(Id) /\ Len(s) \in Nat
      /\ Item(q, s, Len(s) + 1) = q
      /\ \A i \in 1 .. Len(s) : Item(q, s, i) = s[i]
      /\ \A i \in 0 .. Len(s) : next[Item(q, s, i)] = Item(q, s, i + 1)
  BY RingOf DEF QInv
<1>3. /\ printed \in [Queue -> Seq(Id)] /\ printed[q] \in Seq(Id) /\ Len(printed[q]) \in Nat
  <2>1. printed \in [Queue -> Seq(Id)]
    BY DEF LInv, TypeOK
  <2>2. printed[q] \in Seq(Id)
    BY <2>1
  <2> QED
    BY <2>1, <2>2, LenProperties
<1>4. PICK k \in 1 .. Len(s) + 1 : /\ cur = Item(q, s, k) /\ Len(printed[q]) = k - 1
                                   /\ \A i \in 1 .. k - 1 : printed[q][i] = s[i]
  BY <1>0, <1>1 DEF QInv, Showing, Shown
<1>5. \A h \in Queue : Chain(h)' = Chain(h)
  BY <1>1, RingsKept DEF QInv
<1>6. q = Printing' /\ InReport'
  BY <1>0, <1>1 DEF Printing, InReport
<1> HIDE DEF s
<1>7. k \in 1 .. Len(s) /\ cur = s[k] /\ k + 1 \in 1 .. Len(s) + 1 /\ (k + 1) - 1 = k
  <2>1. k # Len(s) + 1
    BY <1>1, <1>2, <1>4, Apart
  <2> QED
    BY <1>2, <1>4, <2>1
<1>8. cur' = Item(q, s, k + 1)
  BY <1>1, <1>2, <1>4, <1>7
<1>9. Len(printed'[q]) = k /\ \A i \in 1 .. k : printed'[q][i] = s[i]
  <2> DEFINE a == printed[q]
             b == Append(a, cur)
  <2>1. printed'[q] = b
    BY <1>1, <1>3
  <2>2. /\ Len(b) = Len(a) + 1 /\ b[Len(a) + 1] = cur
        /\ \A i \in 1 .. Len(a) : b[i] = a[i]
    BY <1>1, <1>3, Appended
  <2> HIDE DEF b
  <2>3. Len(b) = k /\ b[k] = s[k] /\ \A i \in 1 .. k - 1 : b[i] = s[i]
    BY <1>4, <1>7, <2>2
  <2>4. \A i \in 1 .. k : i = k \/ i \in 1 .. k - 1
    BY <1>7
  <2> QED
    BY <2>1, <2>3, <2>4
<1>10. \A h \in Queue \ {q} : printed'[h] = printed[h]
  BY <1>1, <1>3
<1>11. Showing'
  <2>1. \E i \in 1 .. Len(Chain(q)') + 1 : Shown(q, i)'
    <3>1. Chain(q)' = s
      BY <1>5 DEF s
    <3>2. Shown(q, k + 1)'
      BY <1>7, <1>8, <1>9, <3>1 DEF Shown
    <3> QED
      BY <1>7, <3>1, <3>2
  <2>2. phase \in {"print ready", "print done"} => q # "waiting" /\ printed["waiting"] = Chain("waiting")
    BY <1>0 DEF QInv, Showing, Printing
  <2>3. phase = "print done" => q # "ready" /\ printed["ready"] = Chain("ready")
    BY <1>0 DEF QInv, Showing, Printing
  <2> QED
    BY <1>1, <1>5, <1>6, <1>10, <2>1, <2>2, <2>3 DEF Showing, Queue
<1>12. Choosing'
  BY <1>1 DEF Choosing, InReport
<1> QED
  BY <1>1, <1>11, <1>12, QuietMaps DEF InReport

\* At the head again, print_list has printed the whole queue.
LEMMA PrintedAll ==
    ASSUME LInv, QInv, InReport, cur = Printing
    PROVE  printed[Printing] = Chain(Printing)
<1>0. PICK q \in Queue : q = Printing
  BY ReportPlaces
<1> DEFINE s == Chain(q)
<1>1. /\ s \in Seq(Id) /\ Len(s) \in Nat /\ \A i \in 1 .. Len(s) : Item(q, s, i) = s[i] /\ s[i] # q
  BY RingOf DEF QInv
<1>2. printed[q] \in Seq(Id)
  BY DEF LInv, TypeOK
<1>3. PICK k \in 1 .. Len(s) + 1 : /\ cur = Item(q, s, k) /\ Len(printed[q]) = k - 1
                                   /\ \A i \in 1 .. k - 1 : printed[q][i] = s[i]
  BY <1>0 DEF QInv, Showing, Shown
<1> HIDE DEF s
<1>4. k = Len(s) + 1
  <2>1. ~(k \in 1 .. Len(s))
    BY <1>0, <1>1, <1>3
  <2> QED
    BY <1>1, <2>1
<1>5. Len(printed[q]) = Len(s) /\ \A i \in 1 .. Len(s) : printed[q][i] = s[i]
  BY <1>1, <1>3, <1>4
<1>6. printed[q] = s
  BY <1>1, <1>2, <1>5, SeqEqual
<1> QED
  BY <1>0, <1>6 DEF s

\* The first task of a list, or its head at once.
LEMMA ShowingBegins ==
    ASSUME Rings, NEW q \in Queue, cur' = next[q], printed'[q] = <<>>, Chain(q)' = Chain(q)
    PROVE  \E k \in 1 .. Len(Chain(q)') + 1 : Shown(q, k)'
<1> DEFINE s == Chain(q)
<1>1. /\ Len(s) \in Nat /\ Item(q, s, 0) = q
      /\ \A i \in 0 .. Len(s) : next[Item(q, s, i)] = Item(q, s, i + 1)
  BY RingOf
<1> HIDE DEF s
<1>2. 0 \in 0 .. Len(s) /\ 0 + 1 = 1 /\ 1 \in 1 .. Len(s) + 1
  BY <1>1
<1>3. cur' = Item(q, s, 1)
  BY <1>1, <1>2
<1>4. Shown(q, 1)'
  <2>1. Chain(q)' = s
    BY DEF s
  <2> QED
    BY <1>3, <2>1 DEF Shown
<1> QED
  BY <1>2, <1>4 DEF s

LEMMA NextMaps == ASSUME LInv, QInv, PrintNext PROVE Mapped
<1>1. /\ InReport /\ cur = Printing
      /\ UNCHANGED <<prev, next, state, priority, printed>>
  BY DEF PrintNext, links, tasks
<1>2. printed[Printing] = Chain(Printing)
  BY <1>1, PrintedAll
<1>3. Rings' /\ \A h \in Queue : Chain(h)' = Chain(h)
  BY <1>1, RingsKept DEF QInv
<1>4. CASE Printing = "waiting"
  <2>1. /\ phase = "print waiting" /\ phase' = "print ready" /\ cur' = next["ready"]
        /\ printed["ready"] = <<>> /\ printed["waiting"] = Chain("waiting")
    BY <1>1, <1>2, <1>4, ReportPlaces DEF PrintNext, After
  <2>2. \E k \in 1 .. Len(Chain("ready")') + 1 : Shown("ready", k)'
    BY <1>1, <1>3, <2>1, ShowingBegins DEF QInv, Queue
  <2>3. Printing' = "ready"
    BY <2>1 DEF Printing
  <2>4. Showing' /\ Choosing'
    BY <1>1, <1>3, <2>1, <2>2, <2>3 DEF Showing, Choosing, Queue
  <2> QED
    BY <1>1, <2>1, <2>4, QuietMaps
<1>5. CASE Printing = "ready"
  <2>1. /\ phase = "print ready" /\ phase' = "print done" /\ cur' = next["done"]
        /\ printed["done"] = <<>> /\ printed["ready"] = Chain("ready")
        /\ printed["waiting"] = Chain("waiting")
    BY <1>1, <1>2, <1>5, ReportPlaces DEF PrintNext, After, QInv, Showing
  <2>2. \E k \in 1 .. Len(Chain("done")') + 1 : Shown("done", k)'
    BY <1>1, <1>3, <2>1, ShowingBegins DEF QInv, Queue
  <2>3. Printing' = "done"
    BY <2>1 DEF Printing
  <2>4. Showing' /\ Choosing'
    BY <1>1, <1>3, <2>1, <2>2, <2>3 DEF Showing, Choosing, Queue
  <2> QED
    BY <1>1, <2>1, <2>4, QuietMaps
<1>6. CASE Printing = "done"
  <2>1. /\ phase = "print done" /\ phase' = "exited"
        /\ printed["waiting"] = Chain("waiting") /\ printed["ready"] = Chain("ready")
        /\ printed["done"] = Chain("done")
    BY <1>1, <1>2, <1>6, ReportPlaces DEF PrintNext, QInv, Showing
  <2>2. QInv'
    BY <1>1, <1>3, <2>1 DEF QInv, Priorities, Exists, Choosing, Showing, InReport
  <2>3. Queues!Report
    <3>1. Queues!Idle
      BY <2>1 DEF Queues!Idle
    <3>2. /\ Chain("waiting")' = Chain("waiting") /\ Chain("ready")' = Chain("ready")
          /\ Chain("done")' = Chain("done")
      BY <1>3 DEF Queue
    <3>3. <<printed["waiting"], printed["ready"], printed["done"]>>'
              = <<Chain("waiting"), Chain("ready"), Chain("done")>>
      BY <1>1, <2>1
    <3>4. phase \in {"run", "choose"} <=> phase' \in {"run", "choose"}
      BY <2>1
    <3>5. (IF phase = "exited" THEN <<printed["waiting"], printed["ready"], printed["done"]>> ELSE <<>>)'
              = <<Chain("waiting"), Chain("ready"), Chain("done")>>
      BY <2>1, <3>3
    <3> QED
      BY <1>1, <3>1, <3>2, <3>4, <3>5 DEF Queues!Report
  <2> QED
    BY <2>2, <2>3 DEF Mapped, Queues!Next
<1> QED
  BY <1>1, <1>4, <1>5, <1>6 DEF Printing

LEMMA ReportMaps == ASSUME LInv, QInv, EndOfCommands PROVE Mapped
<1>1. /\ phase = "apply" /\ phase' = "print waiting" /\ cur' = next["waiting"]
      /\ UNCHANGED <<prev, next, state, priority, printed>> /\ printed["waiting"] = <<>>
  BY DEF EndOfCommands, links, tasks, LInv, Printed, Queue
<1>2. \A h \in Queue : Chain(h)' = Chain(h)
  BY <1>1, RingsKept DEF QInv
<1>3. \E k \in 1 .. Len(Chain("waiting")') + 1 : Shown("waiting", k)'
  BY <1>1, <1>2, ShowingBegins DEF QInv, Queue
<1>4. Printing' = "waiting"
  BY <1>1 DEF Printing
<1>5. Showing' /\ Choosing'
  BY <1>1, <1>3, <1>4 DEF Showing, Choosing
<1> QED
  BY <1>1, <1>5, QuietMaps

LEMMA QInvInit == IsFiniteSet(Id) /\ Init => QInv /\ Queues!Init
<1> SUFFICES ASSUME IsFiniteSet(Id), Init PROVE QInv /\ Queues!Init
  OBVIOUS
<1>1. next \in [Node -> Pointer] /\ prev \in [Node -> Pointer]
  BY LInvInit DEF LInv, TypeOK
<1>2. ASSUME NEW q \in Queue PROVE Ring(next, prev, q, <<>>) /\ Lists(state, q, <<>>)
  <2>1. next[q] = q /\ prev[q] = q /\ \A t \in Id : state[t] # q
    BY Apart DEF Init
  <2>2. Item(q, <<>>, 0) = q /\ Item(q, <<>>, 1) = q /\ \A i \in 0 .. 0 : i = 0 /\ i + 1 = 1
    BY DEF Item
  <2>3. Ring(next, prev, q, <<>>)
    BY <2>1, <2>2, EmptySeq DEF Ring
  <2>4. Lists(state, q, <<>>)
    BY <2>1, EmptySeq DEF Lists
  <2> QED
    BY <2>3, <2>4
<1>3. \A q \in Queue : Chain(q) = <<>>
  <2>1. <<>> \in Seq(Id) /\ Once(<<>>)
    BY EmptySeq DEF Once
  <2> QED
    BY <1>1, <1>2, <2>1, ChainIsRing DEF Chain
<1>4. QInv
  BY <1>2, <1>3 DEF Init, QInv, Rings, Priorities, Exists, Choosing, Showing, InReport
<1>5. Queues!Init
  BY <1>3 DEF Init, Queues!Init, Queue
<1> QED
  BY <1>4, <1>5

LEMMA QInvNext ==
    NoteLengths \subseteq 0 .. 28 /\ IsFiniteSet(Id) /\ LInv /\ LInv' /\ QInv /\ [Next]_vars => Mapped
<1> SUFFICES ASSUME NoteLengths \subseteq 0 .. 28, IsFiniteSet(Id), LInv, LInv', QInv, [Next]_vars
             PROVE  Mapped
  OBVIOUS
<1>1. CASE UNCHANGED vars
  <2>1. UNCHANGED <<prev, next, state, priority, phase, cur, best, printed>>
    BY <1>1 DEF vars, links, tasks, loop, control
  <2>2. Rings' /\ \A h \in Queue : Chain(h)' = Chain(h)
    BY <2>1, RingsKept DEF QInv
  <2>3. Choosing'
    BY <2>1, <2>2 DEF QInv, Choosing, Choice, Queue
  <2>4. Showing'
    <3>1. \A q \in Queue : \A k : Shown(q, k)' <=> Shown(q, k)
      BY <2>1, <2>2 DEF Shown
    <3>2. Printing' = Printing /\ Printing \in Queue /\ InReport' = InReport
      BY <2>1 DEF Printing, InReport, Queue
    <3> QED
      BY <2>1, <2>2, <3>1, <3>2 DEF QInv, Showing, Queue
  <2>5. QInv'
    BY <2>1, <2>2, <2>3, <2>4 DEF QInv, Priorities, Exists
  <2>6. UNCHANGED Queues!queueVars
    BY <2>1, <2>2 DEF Queues!queueVars, Queue
  <2> QED
    BY <2>5, <2>6 DEF Mapped
<1>2. CASE Parse \/ ParseError \/ CmdDump
           \/ \E t \in Id : CmdTaskStops(t) \/ CmdUnknown(t) \/ CmdReadyAgain(t) \/ CmdReadyDone(t)
  BY <1>2, CommandMaps
  DEF Parse, ParseError, CmdDump, CmdTaskStops, CmdUnknown, CmdReadyAgain, CmdReadyDone, Command,
      Die, links, tasks
<1>3. CASE \E t \in Id : CmdReadyStops(t)
  BY <1>3, CommandMaps DEF CmdReadyStops, MoveStops, Die, Follow, links, tasks
<1>4. CASE PrintFault
  BY <1>4, CommandMaps DEF PrintFault, Follow, InReport, links, tasks
<1>5. CASE \E t \in Id : CmdReady(t) \/ (\E p \in Priority : CmdTask(t, p))
                         \/ (\E len \in NoteLengths : CmdNote(t, len))
  BY <1>5, ReadyMaps, TaskMaps, NoteMaps
<1>6. CASE CmdRun \/ RunEmpty \/ RunChoose \/ ChooseStep \/ Finish
  BY <1>6, RunMaps, ChooseMaps, FinishMaps
<1>7. CASE PrintTask \/ PrintNext \/ EndOfCommands
  BY <1>7, PrintMaps, NextMaps, ReportMaps
<1> QED
  BY <1>1, <1>2, <1>3, <1>4, <1>5, <1>6, <1>7, RunsOn DEF Next, Advance, Ended

\* With notes that stay in front of the links (24 bytes, and the padding behind them),
\* any number of tasks, priorities and commands: the linked lists are three queues,
\* scheduler_run takes the oldest ready task of highest priority each turn, and the
\* report lists the queues in order.
THEOREM ListsAreQueues ==
    ASSUME NoteLengths \subseteq 0 .. 28, IsFiniteSet(Id) PROVE Spec => ImplementsQueues
<1>1. Init => QInv /\ Queues!Init
  BY QInvInit
<1>2. LInv /\ LInv' /\ QInv /\ [Next]_vars => QInv' /\ [Queues!Next]_(Queues!queueVars)
  BY QInvNext DEF Mapped
<1> QED
  BY <1>1, <1>2, LInvHolds, PTL DEF Spec, ImplementsQueues, Queues!Spec
=============================================================================
