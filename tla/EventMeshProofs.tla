-------------------------- MODULE EventMeshProofs --------------------------
(***************************************************************************)
(* That the context of eventmesh is what its file says, and that its       *)
(* counters are those of the matching pairs of a message and a subscribe   *)
(* line, for any names, topics and rules and any number of lines.          *)
(***************************************************************************)
EXTENDS EventMesh, TLAPS, FiniteSetTheorems

ProfileLine == [name : Name, mode : Mode]

\* What has been loaded follows the last profile line, if there was one; the
\* context does not exist before it is created, and is a copy of what was loaded
\* from then on, when nothing is loaded any more.
Inv ==
    /\ profileLines \in Seq(ProfileLine)
    /\ IF profileLines = <<>> THEN profile = None
       ELSE /\ profile = LastProfile.name
            /\ closed = (LastProfile.mode = "fail_closed")
    /\ phase \in {"load", "create"} => context = None
    /\ phase = "create" => profileLines # <<>>
    /\ context # None =>
           /\ profileLines # <<>>
           /\ context = [name |-> profile, closed |-> closed, rules |-> rules]

\* An appended line is the last one.
LEMMA LastAppended ==
    ASSUME NEW S, NEW s \in Seq(S), NEW e \in S
    PROVE  /\ Append(s, e) \in Seq(S) /\ Append(s, e) # <<>>
           /\ Append(s, e)[Len(Append(s, e))] = e
  OBVIOUS

LEMMA InvInit == Init => Inv
  BY DEF Init, Inv

\* Every step keeps the invariant: a line changes what was loaded together with
\* the history, CreateContext copies, and nothing else touches either.
LEMMA InvStep == Inv /\ [Next]_vars => Inv'
<1> SUFFICES ASSUME Inv, [Next]_vars PROVE Inv'
  OBVIOUS
<1> USE DEF Inv
<1>1. ASSUME NEW n \in Name, NEW m \in Mode, LoadProfile(n, m) PROVE Inv'
  <2> DEFINE line == [name |-> n, mode |-> m]
  <2>1. line \in ProfileLine
    BY DEF ProfileLine
  <2>2. /\ profileLines' = Append(profileLines, line)
        /\ profile' = n /\ closed' = (m = "fail_closed")
        /\ phase = "load" /\ phase' = phase /\ context' = context
    BY <1>1 DEF LoadProfile, Line
  <2>3. profileLines' \in Seq(ProfileLine) /\ profileLines' # <<>> /\ LastProfile' = line
    BY <2>1, <2>2, LastAppended DEF LastProfile
  <2> QED
    BY <2>2, <2>3
<1>2. ASSUME NEW rule \in Rule, LoadRule(rule) PROVE Inv'
  BY <1>2 DEF LoadRule, Line, LastProfile
<1>3. ASSUME NEW n \in Name, NEW t \in Topic, NEW f \in BOOLEAN, LoadSubscribe(n, t, f)
      PROVE Inv'
  BY <1>3 DEF LoadSubscribe, Line, LastProfile
<1>4. ASSUME NEW t \in Topic, LoadMessage(t) PROVE Inv'
  BY <1>4 DEF LoadMessage, Line, LastProfile
<1>5. CASE LoadFatal \/ LoadRejects \/ RegisterFatal
  BY <1>5 DEF LoadFatal, LoadRejects, RegisterFatal, Die, config, made, LastProfile
<1>6. CASE LoadEnd
  BY <1>6, NoneAssumption DEF LoadEnd, Complete, config, made, LastProfile
<1>7. CASE CreateContext
  BY <1>7 DEF CreateContext, config, LastProfile
<1>8. CASE Register
  BY <1>8 DEF Register, config, LastProfile
<1>9. CASE RegisterDone \/ PassOver \/ CallAudit \/ CallFilter \/ NextMessage \/ Exit
  BY <1>9 DEF RegisterDone, PassOver, CallAudit, CallFilter, NextMessage, Exit,
              Offering, config, made, LastProfile
<1>10. CASE Ended \/ UNCHANGED vars
  BY <1>10 DEF Ended, vars, config, made, LastProfile
<1> QED
  BY <1>1, <1>2, <1>3, <1>4, <1>5, <1>6, <1>7, <1>8, <1>9, <1>10 DEF Next, Load, Run

\* The one context there is has the name and the mode of the last profile line,
\* and the whole rule book (config_load, plugin_context_create).
THEOREM ContextIsTheFile == Spec => []ContextExact
<1>1. Inv => ContextExact
  BY DEF Inv, ContextExact
<1> QED
  BY <1>1, InvInit, InvStep, PTL DEF Spec

-----------------------------------------------------------------------------
SpecLine == [name : Name, topic : Topic, filter : BOOLEAN]

\* The first n subscribe lines are of the one profile, and each is a subscription.
Bound(n) ==
    \A j \in 1 .. n : /\ specs[j].name = profile
                      /\ subs[j].topic = specs[j].topic /\ subs[j].filter = specs[j].filter

\* The pairs the loops of dispatcher_run have been through.
Done == {p \in Pairs : Before(p, msg, sub)}

\* Where the loops stand, and what they have counted so far.
DInv ==
    /\ specs \in Seq(SpecLine) /\ messages \in Seq(Topic)
    /\ msg \in 1 .. Len(messages) + 1 /\ sub \in 1 .. Len(specs) + 1
    /\ phase \in {"load", "create", "register", "dispatch", "died", "faulted", "exited"}
    /\ phase \in {"load", "create"} => subs = <<>> /\ sub = 1
    /\ phase = "register" =>
           context.name = profile /\ subs \in Seq([topic : Topic, filter : BOOLEAN])
               /\ Len(subs) = sub - 1 /\ Bound(sub - 1)
    /\ phase \in {"load", "create", "register", "died"} => msg = 1 /\ delivered = 0
    /\ dropped = 0 /\ status = 0
    /\ phase \in {"dispatch", "faulted", "exited"} =>
           /\ Len(subs) = Len(specs) /\ Bound(Len(specs))
           /\ delivered = Cardinality(Done)
           /\ \A p \in Done : ~specs[p[2]].filter
    /\ phase = "exited" => msg > Len(messages)

\* The pairs are finitely many, and known by their two numbers.
LEMMA PairsFinite == ASSUME DInv PROVE IsFiniteSet(Done)
<1>1. /\ IsFiniteSet(1 .. Len(messages)) /\ IsFiniteSet(1 .. Len(specs))
  <2>1. Len(messages) \in Int /\ Len(specs) \in Int
    BY DEF DInv
  <2> QED
    BY <2>1, FS_Interval
<1>2. IsFiniteSet((1 .. Len(messages)) \X (1 .. Len(specs)))
  BY <1>1, FS_Product
<1> QED
  BY <1>2, FS_Subset DEF Done, Pairs

\* Before the first pair nothing is done.
LEMMA NothingDone == ASSUME msg = 1, sub = 1 PROVE Done = {}
BY DEF Done, Pairs, Before

\* Both loops leave the pairs alone.
LEMMA PairsKept == ASSUME UNCHANGED config PROVE Pairs' = Pairs
BY DEF Pairs, Pair, config

\* Passing a pair adds it to what is done, if it matches.
LEMMA OneMore ==
    ASSUME DInv, UNCHANGED <<config, msg>>, sub' = sub + 1,
           msg <= Len(messages), sub <= Len(specs)
    PROVE  /\ Pair(msg, sub) => /\ Cardinality(Done') = Cardinality(Done) + 1
                                /\ Done' = Done \cup {<<msg, sub>>}
           /\ ~Pair(msg, sub) => Done' = Done
<1> DEFINE here == <<msg, sub>>
<1>1. /\ msg \in 1 .. Len(messages) /\ sub \in 1 .. Len(specs) /\ Pairs' = Pairs
      /\ msg \in Nat /\ sub \in Nat
  BY PairsKept DEF DInv
<1>2. ASSUME NEW p \in Pairs
      PROVE  Before(p, msg, sub + 1) <=> (Before(p, msg, sub) \/ p = here)
  BY <1>1 DEF Pairs, Before
<1>3. \A p : p \in Done' <=> p \in Pairs /\ Before(p, msg, sub + 1)
  BY <1>1 DEF Done, config
<1>4. here \in Pairs <=> Pair(msg, sub)
  BY <1>1 DEF Pairs
<1>5. ~Before(here, msg, sub)
  BY <1>1 DEF Before
<1>6. here \notin Done /\ \A p \in Done : p \in Pairs /\ Before(p, msg, sub)
  BY <1>5 DEF Done
<1>7. \A p \in Pairs : Before(p, msg, sub) => p \in Done
  BY DEF Done
<1>8. CASE Pair(msg, sub)
  <2>1. Done' = Done \cup {here}
    <3> HIDE DEF here
    <3> QED
      BY <1>2, <1>3, <1>4, <1>6, <1>7, <1>8
  <2>2. Cardinality(Done \cup {here}) = Cardinality(Done) + 1
    BY <1>6, PairsFinite, FS_AddElement
  <2> QED
    BY <1>8, <2>1, <2>2
<1>9. CASE ~Pair(msg, sub)
  <2> HIDE DEF here
  <2>1. Done' = Done
    BY <1>2, <1>3, <1>4, <1>6, <1>7, <1>9
  <2> QED
    BY <1>9, <2>1
<1> QED
  BY <1>8, <1>9

\* After the last line of a message, the first line of the next one.
LEMMA NextRow ==
    ASSUME DInv, UNCHANGED config, msg' = msg + 1, sub' = 1, sub > Len(specs)
    PROVE  Done' = Done
<1>1. /\ msg \in Nat /\ sub \in Nat /\ Len(specs) \in Nat /\ Len(messages) \in Nat
      /\ Pairs' = Pairs
  BY PairsKept DEF DInv
<1>2. ASSUME NEW p \in Pairs PROVE Before(p, msg + 1, 1) <=> Before(p, msg, sub)
  BY <1>1 DEF Pairs, Before
<1> QED
  BY <1>1, <1>2 DEF Done

LEMMA DInvInit == Init => DInv
BY DEF Init, DInv, config

\* Loading: a line more, and nothing is counted.
LEMMA DInvLoad == ASSUME DInv, Load PROVE DInv'
<1>1. CASE LoadFatal \/ LoadRejects
  BY <1>1 DEF DInv, LoadFatal, LoadRejects, Die, config, made, counts
<1>2. CASE LoadEnd
  BY <1>2 DEF DInv, LoadEnd, config, made, counts
<1>3. ASSUME NEW n \in Name, NEW m \in Mode, LoadProfile(n, m) PROVE DInv'
  BY <1>3 DEF DInv, LoadProfile, Line, counts
<1>4. ASSUME NEW rule \in Rule, LoadRule(rule) PROVE DInv'
  BY <1>4 DEF DInv, LoadRule, Line, counts
<1>5. ASSUME NEW n \in Name, NEW t \in Topic, NEW f \in BOOLEAN, LoadSubscribe(n, t, f)
      PROVE DInv'
  <2>1. [name |-> n, topic |-> t, filter |-> f] \in SpecLine
    BY DEF SpecLine
  <2>2. specs' \in Seq(SpecLine) /\ Len(specs') = Len(specs) + 1
    BY <1>5, <2>1 DEF DInv, LoadSubscribe
  <2> QED
    BY <1>5, <2>2 DEF DInv, LoadSubscribe, Line, counts
<1>6. ASSUME NEW t \in Topic, LoadMessage(t) PROVE DInv'
  <2>1. messages' \in Seq(Topic) /\ Len(messages') = Len(messages) + 1
    BY <1>6 DEF DInv, LoadMessage
  <2> QED
    BY <1>6, <2>1 DEF DInv, LoadMessage, Line, counts
<1> QED
  BY <1>1, <1>2, <1>3, <1>4, <1>5, <1>6 DEF Load

\* Registering: a subscription for each line of the profile, or none at all.
LEMMA DInvRegister ==
    ASSUME DInv, CreateContext \/ Register \/ RegisterFatal \/ RegisterDone
    PROVE  DInv'
<1>1. CASE CreateContext
  BY <1>1 DEF DInv, CreateContext, Bound, config, counts
<1>2. CASE Register
  <2> DEFINE new == [topic |-> specs[sub].topic, filter |-> specs[sub].filter]
  <2>1. /\ phase = "register" /\ phase' = phase /\ sub <= Len(specs) /\ sub' = sub + 1
        /\ UNCHANGED <<config, context, msg, counts>> /\ subs' = Append(subs, new)
        /\ specs[sub].name = context.name
    BY <1>2 DEF Register
  <2>2. specs[sub] \in SpecLine /\ sub \in Nat /\ Len(specs) \in Nat
    BY <2>1 DEF DInv
  <2>3. new \in [topic : Topic, filter : BOOLEAN]
    BY <2>2 DEF SpecLine
  <2>4. subs \in Seq([topic : Topic, filter : BOOLEAN]) /\ Len(subs) = sub - 1 /\ Bound(sub - 1)
        /\ context.name = profile
    BY <2>1 DEF DInv
  <2>5. /\ subs' \in Seq([topic : Topic, filter : BOOLEAN]) /\ Len(subs') = sub
        /\ subs'[sub] = new /\ \A j \in 1 .. sub - 1 : subs'[j] = subs[j]
    <3> HIDE DEF new
    <3> QED
      BY <2>1, <2>2, <2>3, <2>4
  <2>6. specs' = specs /\ profile' = profile /\ messages' = messages
    BY <2>1 DEF config
  <2>7. ASSUME NEW j \in 1 .. sub
        PROVE  /\ specs[j].name = profile
               /\ subs'[j].topic = specs[j].topic /\ subs'[j].filter = specs[j].filter
    <3>1. CASE j = sub
      BY <2>1, <2>4, <2>5, <3>1
    <3>2. CASE j # sub
      <4>1. j \in 1 .. sub - 1
        BY <2>2, <3>2
      <4>2. subs'[j] = subs[j]
        BY <2>5, <4>1
      <4> QED
        BY <2>4, <4>1, <4>2 DEF Bound
    <3> QED
      BY <3>1, <3>2
  <2>8. sub' - 1 = sub
    BY <2>1, <2>2
  <2>9. Bound(sub - 1)'
    BY <2>6, <2>7, <2>8 DEF Bound
  <2>10. sub' \in 1 .. Len(specs) + 1
    BY <2>1, <2>2 DEF DInv
  <2> QED
    BY <2>1, <2>4, <2>5, <2>6, <2>8, <2>9, <2>10 DEF DInv, counts
<1>3. CASE RegisterFatal
  BY <1>3 DEF DInv, RegisterFatal, Die, config, made, counts
<1>4. CASE RegisterDone
  <2>1. /\ phase = "register" /\ phase' = "dispatch" /\ sub' = 1 /\ msg' = msg
        /\ UNCHANGED <<config, made, counts>> /\ msg = 1 /\ delivered = 0
        /\ sub = Len(specs) + 1 /\ Len(specs) \in Nat
    BY <1>4 DEF DInv, RegisterDone
  <2>2. Done' = {}
    BY <2>1 DEF Done, Pairs, Before
  <2>3. Cardinality(Done') = 0
    BY <2>2, FS_EmptySet
  <2>4. Bound(Len(specs))'
    BY <2>1 DEF DInv, Bound, config, made
  <2> QED
    BY <2>1, <2>2, <2>3, <2>4 DEF DInv, config, made, counts
<1> QED
  BY <1>1, <1>2, <1>3, <1>4

\* Dispatching: a pair that is passed is counted if it matches.
LEMMA DInvDispatch ==
    ASSUME DInv, PassOver \/ CallAudit \/ CallFilter \/ NextMessage \/ Exit
    PROVE  DInv'
<1>1. /\ phase = "dispatch" /\ UNCHANGED <<config, made>>
      /\ Len(subs) = Len(specs) /\ Bound(Len(specs))
      /\ delivered = Cardinality(Done) /\ \A p \in Done : ~specs[p[2]].filter
  BY DEF DInv, PassOver, CallAudit, CallFilter, NextMessage, Exit, Offering
<1>2. Bound(Len(specs))' /\ Len(subs') = Len(specs') /\ Pairs' = Pairs
  BY <1>1, PairsKept DEF Bound, config, made
<1>3. CASE PassOver \/ CallAudit
  <2>1. /\ msg <= Len(messages) /\ sub <= Len(specs) /\ sub' = sub + 1 /\ msg' = msg
        /\ phase' = phase /\ sub \in 1 .. Len(specs) /\ Len(specs) \in Nat
    BY <1>1, <1>3 DEF PassOver, CallAudit, Offering, DInv
  <2>2. TopicMatches(subs[sub], messages[msg]) <=> Pair(msg, sub)
    BY <1>1, <2>1 DEF Bound, TopicMatches, Pair
  <2>3. subs[sub].filter = specs[sub].filter
    BY <1>1, <2>1 DEF Bound
  <2>4. CASE PassOver
    <3>1. Done' = Done
      BY <1>1, <2>1, <2>2, <2>4, OneMore DEF PassOver
    <3> QED
      BY <1>1, <1>2, <2>1, <2>4, <3>1 DEF DInv, PassOver, config, counts
  <2>5. CASE CallAudit
    <3>1. /\ delivered' = delivered + 1 /\ UNCHANGED <<dropped, status>>
          /\ ~specs[sub].filter /\ Pair(msg, sub)
      BY <2>2, <2>3, <2>5 DEF CallAudit, AuditResult
    <3>2. /\ Cardinality(Done') = Cardinality(Done) + 1
          /\ Done' = Done \cup {<<msg, sub>>}
      BY <1>1, <2>1, <3>1, OneMore
    <3>3. \A p \in Done' : ~specs'[p[2]].filter
      BY <1>1, <3>1, <3>2 DEF config
    <3> QED
      BY <1>1, <1>2, <2>1, <3>1, <3>2, <3>3 DEF DInv, config
  <2> QED
    BY <1>3, <2>4, <2>5
<1>4. CASE CallFilter \/ Exit
  <2>1. Done' = Done
    BY <1>2, <1>4 DEF CallFilter, Exit, Done
  <2> QED
    BY <1>1, <1>2, <1>4, <2>1 DEF DInv, CallFilter, Exit, config, counts
<1>5. CASE NextMessage
  <2>1. Done' = Done
    BY <1>1, <1>5, NextRow DEF NextMessage
  <2> QED
    BY <1>1, <1>2, <1>5, <2>1 DEF DInv, NextMessage, config, counts
<1> QED
  BY <1>3, <1>4, <1>5

LEMMA DInvStep == DInv /\ [Next]_vars => DInv'
<1> SUFFICES ASSUME DInv, [Next]_vars PROVE DInv'
  OBVIOUS
<1>1. CASE Ended \/ UNCHANGED vars
  BY <1>1 DEF Ended, DInv, Bound, Done, Pairs, Pair, vars, config, made, counts
<1> QED
  BY <1>1, DInvLoad, DInvRegister, DInvDispatch DEF Next, Run

\* A run counts the matching pairs of a message and a subscribe line that it has been
\* through, has met no filter among them, drops nothing, and exits only with every
\* pair behind it (dispatcher_run, dispatch_one).
THEOREM CountersAreThePairs == Spec => []DeliveredExact
<1>1. DInv => DeliveredExact
  <2> SUFFICES ASSUME DInv PROVE DeliveredExact
    OBVIOUS
  <2>1. phase \in {"load", "create", "register", "died"} => delivered + dropped = 0
    BY DEF DInv
  <2>2. phase \in {"dispatch", "faulted", "exited"} =>
           /\ \A j \in DOMAIN specs : specs[j].name = profile
           /\ delivered = Cardinality({p \in Pairs : Before(p, msg, sub)})
           /\ dropped = 0 /\ status = 0
           /\ \A p \in Pairs : Before(p, msg, sub) => ~specs[p[2]].filter
    BY DEF DInv, Bound, Done
  <2>3. phase = "exited" => \A p \in Pairs : Before(p, msg, sub)
    BY DEF DInv, Pairs, Before
  <2> QED
    BY <2>1, <2>2, <2>3 DEF DeliveredExact
<1> QED
  BY <1>1, DInvInit, DInvStep, PTL DEF Spec

\* A message that matches a filter's subscribe line.
Filtered == \E p \in Pairs : specs[p[2]].filter

\* A filter that is called has a message that matches its line.
LEMMA CallIsFiltered == ASSUME DInv, CallFilter PROVE Filtered'
<1>1. /\ phase = "dispatch" /\ msg <= Len(messages) /\ sub <= Len(subs)
      /\ TopicMatches(subs[sub], messages[msg]) /\ subs[sub].filter
      /\ UNCHANGED config
  BY DEF CallFilter, Offering
<1>2. /\ Len(subs) = Len(specs) /\ Bound(Len(specs))
      /\ Len(specs) \in Nat /\ Len(messages) \in Nat /\ msg \in Nat \ {0} /\ sub \in Nat \ {0}
  BY <1>1 DEF DInv
<1>3. msg \in 1 .. Len(messages) /\ sub \in 1 .. Len(specs)
  BY <1>1, <1>2
<1>4. subs[sub].topic = specs[sub].topic /\ subs[sub].filter = specs[sub].filter
  BY <1>2, <1>3 DEF Bound
<1>5. <<msg, sub>> \in Pairs /\ specs[sub].filter
  BY <1>1, <1>3, <1>4 DEF Pairs, Pair, TopicMatches
<1>6. Pairs' = Pairs /\ specs' = specs
  BY <1>1, PairsKept DEF config
<1> QED
  BY <1>5, <1>6 DEF Filtered

\* The safety half of FilteredMessageFaults, and its converse: the program exits only
\* if no message was one for a filter, and is killed only if one was
\* (dispatch_one, plugin_filter_handler).
THEOREM FilterDecides ==
    Spec => []((phase = "exited" => ~Filtered) /\ (phase = "faulted" => Filtered))
<1> DEFINE Struck == phase = "faulted" => Filtered
<1>1. Init => Struck
  BY DEF Init
<1>2. DInv /\ Struck /\ [Next]_vars => Struck'
  <2> SUFFICES ASSUME DInv, Struck, [Next]_vars PROVE Struck'
    OBVIOUS
  <2>1. CASE CallFilter
    BY <2>1, CallIsFiltered
  <2>2. CASE Ended \/ UNCHANGED vars
    <3>1. phase' = phase /\ UNCHANGED config /\ specs' = specs
      BY <2>2 DEF Ended, vars, config
    <3> QED
      BY <3>1, PairsKept DEF Filtered
  <2>3. CASE Load
    BY <2>3 DEF Load, LoadProfile, LoadRule, LoadSubscribe, LoadMessage, Line,
                LoadFatal, LoadEnd, LoadRejects, Die
  <2>4. CASE CreateContext \/ Register \/ RegisterFatal \/ RegisterDone
    BY <2>4 DEF CreateContext, Register, RegisterFatal, RegisterDone, Die
  <2>5. CASE PassOver \/ CallAudit \/ NextMessage \/ Exit
    BY <2>5 DEF PassOver, CallAudit, Offering, NextMessage, Exit
  <2> QED
    BY <2>1, <2>2, <2>3, <2>4, <2>5 DEF Next, Run
<1>3. DInv => (phase = "exited" => ~Filtered)
  <2> SUFFICES ASSUME DInv, phase = "exited" PROVE ~Filtered
    OBVIOUS
  <2>1. \A p \in Pairs : Before(p, msg, sub)
    BY DEF DInv, Pairs, Before
  <2>2. \A p \in Pairs : p \in Done
    BY <2>1 DEF Done
  <2> QED
    BY <2>2 DEF DInv, Filtered
<1> QED
  BY <1>1, <1>2, <1>3, DInvInit, DInvStep, PTL DEF Spec
=============================================================================
