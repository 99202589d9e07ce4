------------------------------ MODULE ListMux ------------------------------
(***************************************************************************)
(* benchmark8, the program listmux: a scheduler whose waiting, ready and   *)
(* done queues are circular doubly linked lists through a node inside each *)
(* task (ilist.c), a table that finds tasks by id (task.c), the commands   *)
(* of scheduler.c and the traversals of the final report (report.c).       *)
(*                                                                         *)
(* A pointer is the node it points to, NULL, or what task_set_note left    *)
(* there: the note is copied with the length the file declares, and the    *)
(* node follows the note in struct Task.  Following such a pointer kills   *)
(* the process or, where the program's memory happens to be, does whatever *)
(* the build does ("undefined": nothing is said of what comes after).      *)
(***************************************************************************)
EXTENDS Integers, FiniteSets, Sequences

CONSTANTS
    Id,           \* task ids
    Priority,     \* task priorities
    None,         \* NULL
    NoteLengths,  \* lengths the NOTE commands declare
    MaxCommands   \* bound: commands in the file

\* Beyond 108 bytes a note leaves the task's heap block: not modelled.
ASSUME NoteAssumption == NoteLengths \subseteq 0 .. 108
ASSUME PriorityAssumption == Priority \subseteq Nat
ASSUME CommandsAssumption == MaxCommands \in Nat

Queue == {"waiting", "ready", "done"}   \* the list heads inside Scheduler
Node  == Id \cup Queue

ASSUME NodeAssumption == Id \cap Queue = {} /\ None \notin Node

VARIABLES
    prev, next,    \* the links of the tasks' nodes and of the heads
    count,         \* ListHead.count
    state,         \* Task.state; None until the task is created
    priority,      \* Task.priority
    phase,         \* where main is
    cur, best,     \* choose_ready and print_list: the node looked at, the choice
    turns,         \* scheduler_run: tasks finished
    printed,       \* report_final_state: ids printed so far, per list
    commands,      \* commands applied
    death          \* the check that called die, or the loop that faulted

links   == <<prev, next, count>>
tasks   == <<state, priority>>
loop    == <<cur, best, turns, printed>>
control == <<phase, commands, death>>
vars    == <<links, tasks, loop, control>>

Stray   == "stray"     \* low bytes overwritten: may still be a mapped address
Garbage == "garbage"   \* the top bytes too: not an address
Pointer == Node \cup {None, Stray, Garbage}

ASSUME PointerAssumption == {Stray, Garbage} \cap (Node \cup {None}) = {}

Exists(t) == state[t] # None

Init == /\ prev = [n \in Node |-> IF n \in Queue THEN n ELSE None]
        /\ next = [n \in Node |-> IF n \in Queue THEN n ELSE None]
        /\ count = [q \in Queue |-> 0]
        /\ state = [t \in Id |-> None] /\ priority = [t \in Id |-> None]
        /\ cur = None /\ best = None /\ turns = 0
        /\ printed = [q \in Queue |-> <<>>]
        /\ phase = "parse" /\ commands = 0 /\ death = "none"

-----------------------------------------------------------------------------
\* die: exit(1) with a message.  What the call had written by then ends with the
\* process and is left out.
Die(reason) == /\ phase' = "died" /\ death' = reason
               /\ UNCHANGED <<links, tasks, loop>>

\* Dereferencing p, which is no node, at a place of the program.
Follow(p, place) ==
    /\ p \in {Stray, Garbage}
    /\ phase' \in (IF p = Stray THEN {"faulted", "undefined"} ELSE {"faulted"})
    /\ death' = place
    /\ UNCHANGED <<links, tasks, loop, commands>>

\* The whole file is parsed before anything runs, and one bad line ends all.
Parse == /\ phase = "parse" /\ phase' = "apply"
         /\ UNCHANGED <<links, tasks, loop, commands, death>>

ParseError == phase = "parse" /\ Die("parse") /\ UNCHANGED commands

Command == phase = "apply" /\ commands < MaxCommands /\ commands' = commands + 1

-----------------------------------------------------------------------------
\* list_push_back on links pv, nx, of a node that is not linked there.
Linked(pv, nx, t)      == pv[t] # None \/ nx[t] # None
PushPrev(pv, t, q)     == [pv EXCEPT ![t] = pv[q], ![q] = t]
PushNext(nx, pv, t, q) == [nx EXCEPT ![pv[q]] = t, ![t] = q]

\* Seeded fault: node->next = NULL is forgotten.
CutNext_KeepLink(t) == [next EXCEPT ![prev[t]] = next[t]]

\* list_remove on links whose neighbours are nodes.
CutPrev(t) == [prev EXCEPT ![next[t]] = prev[t], ![t] = None]
CutNext(t) == [next EXCEPT ![prev[t]] = next[t], ![t] = None]

Removable(t) == prev[t] \in Node /\ next[t] \in Node

\* Every check on the way from one list to the next lets t pass.
Movable(t, from) == /\ Removable(t) /\ count[from] > 0
                    /\ ~Linked(CutPrev(t), CutNext(t), t)

\* Seeded fault: next->prev = prev is forgotten.
Move_HalfCut(t, from, to) ==
    LET pv == [prev EXCEPT ![t] = None]
    IN  /\ prev' = PushPrev(pv, t, to)
        /\ next' = PushNext(CutNext(t), pv, t, to)
        /\ count' = [count EXCEPT ![from] = @ - 1, ![to] = @ + 1]
        /\ state' = [state EXCEPT ![t] = to]

\* Seeded fault: the counts of the two lists are mixed up.
Move_CountsSwapped(t, from, to) ==
    /\ prev' = PushPrev(CutPrev(t), t, to)
    /\ next' = PushNext(CutNext(t), CutPrev(t), t, to)
    /\ count' = [count EXCEPT ![to] = @ - 1, ![from] = @ + 1]
    /\ state' = [state EXCEPT ![t] = to]

\* Seeded fault: the new state is not stored.
Move_KeepState(t, from, to) ==
    /\ prev' = PushPrev(CutPrev(t), t, to)
    /\ next' = PushNext(CutNext(t), CutPrev(t), t, to)
    /\ count' = [count EXCEPT ![from] = @ - 1, ![to] = @ + 1]
    /\ UNCHANGED state

\* list_remove, the new state, list_push_back: move_to_ready and finish_task.
Move(t, from, to) ==
    /\ prev' = PushPrev(CutPrev(t), t, to)
    /\ next' = PushNext(CutNext(t), CutPrev(t), t, to)
    /\ count' = [count EXCEPT ![from] = @ - 1, ![to] = @ + 1]
    /\ state' = [state EXCEPT ![t] = to]

\* The ways a move does not come to its end: in list_remove an unlinked node, a
\* link that is no node (prev->next is written first), a count that would go below
\* zero; then, in list_push_back, a node that is still linked.
MoveStops(t, from, place) ==
    \/ /\ prev[t] = None \/ next[t] = None
       /\ Die("unlinked") /\ UNCHANGED commands
    \/ /\ prev[t] # None /\ next[t] # None /\ ~Removable(t)
       /\ Follow(IF prev[t] \notin Node THEN prev[t] ELSE next[t], place)
    \/ /\ Removable(t) /\ count[from] = 0
       /\ Die("underflow") /\ UNCHANGED commands
    \/ /\ Removable(t) /\ count[from] > 0 /\ Linked(CutPrev(t), CutNext(t), t)
       /\ Die("already linked") /\ UNCHANGED commands

-----------------------------------------------------------------------------
\* CMD_TASK: task_create, task_table_add, enqueue_waiting.
\* Seeded fault: list->count++ is forgotten.
CmdTask_NoCount(t, p) ==
    /\ Command /\ ~Exists(t) /\ ~Linked(prev, next, t)
    /\ state' = [state EXCEPT ![t] = "waiting"]
    /\ priority' = [priority EXCEPT ![t] = p]
    /\ prev' = PushPrev(prev, t, "waiting")
    /\ next' = PushNext(next, prev, t, "waiting")
    /\ UNCHANGED <<count, loop, phase, death>>

CmdTask(t, p) ==
    /\ Command /\ ~Exists(t) /\ ~Linked(prev, next, t)
    /\ state' = [state EXCEPT ![t] = "waiting"]
    /\ priority' = [priority EXCEPT ![t] = p]
    /\ prev' = PushPrev(prev, t, "waiting")
    /\ next' = PushNext(next, prev, t, "waiting")
    /\ count' = [count EXCEPT !["waiting"] = @ + 1]
    /\ UNCHANGED <<loop, phase, death>>

\* The table is asked for the id before the node is pushed.
CmdTaskStops(t) ==
    /\ Command
    /\ \/ Exists(t) /\ Die("duplicate task id")
       \/ ~Exists(t) /\ Linked(prev, next, t) /\ Die("already linked")

\* READY and NOTE look the task up first.
CmdUnknown(t) == Command /\ ~Exists(t) /\ Die("unknown task id")

\* CMD_READY: move_to_ready.
CmdReady(t) ==
    /\ Command /\ state[t] = "waiting"
    /\ Movable(t, "waiting")
    /\ Move(t, "waiting", "ready")
    /\ UNCHANGED <<priority, loop, phase, death>>

CmdReadyStops(t) ==
    /\ phase = "apply" /\ commands < MaxCommands
    /\ state[t] = "waiting"
    /\ MoveStops(t, "waiting", "move_to_ready")

CmdReadyAgain(t) == /\ Command /\ state[t] = "ready"
                    /\ UNCHANGED <<links, tasks, loop, phase, death>>

CmdReadyDone(t) == Command /\ state[t] = "done" /\ Die("cannot be made ready")

\* CMD_NOTE: task_set_note copies len bytes into the 24 of note.  Four bytes of
\* padding follow, then queue_link.prev (bytes 29 to 36) and .next (37 to 44);
\* audit_link and title behind them are never followed.  No byte is NUL, so a
\* pointer that lost its seventh byte is no user address.
Overwritten(p, len, first) ==
    IF len < first THEN p ELSE IF len < first + 6 THEN Stray ELSE Garbage

CmdNote(t, len) ==
    /\ Command /\ Exists(t)
    /\ prev' = [prev EXCEPT ![t] = Overwritten(@, len, 29)]
    /\ next' = [next EXCEPT ![t] = Overwritten(@, len, 37)]
    /\ UNCHANGED <<count, tasks, loop, phase, death>>

CmdDump == Command /\ UNCHANGED <<links, tasks, loop, phase, death>>

CmdRun == /\ Command
          /\ phase' = "run" /\ turns' = 0
          /\ UNCHANGED <<links, tasks, cur, best, printed, death>>

-----------------------------------------------------------------------------
\* scheduler_run: while (!list_empty(&sched->ready)) ...
RunEmpty == /\ phase = "run" /\ next["ready"] = "ready"
            /\ phase' = "apply"
            /\ UNCHANGED <<links, tasks, loop, commands, death>>

RunChoose == /\ phase = "run" /\ next["ready"] # "ready"
             /\ cur' = next["ready"] /\ best' = None
             /\ phase' = "choose"
             /\ UNCHANGED <<links, tasks, turns, printed, commands, death>>

\* Seeded fault: a later task of the same priority is preferred.
Better_Later(t) == best = None \/ priority[t] >= priority[best]

\* choose_ready, one node after the other.
Better(t) == best = None \/ priority[t] > priority[best]

\* Seeded fault: node = node->next is forgotten.
ChooseStep_Stuck == phase = "choose" /\ cur \in Id /\ UNCHANGED vars

ChooseStep ==
    /\ phase = "choose" /\ cur \in Id
    /\ best' = IF Better(cur) THEN cur ELSE best
    /\ cur' = next[cur]
    /\ UNCHANGED <<links, tasks, turns, printed, control>>

ChooseFault == phase = "choose" /\ Follow(cur, "choose_ready")

\* finish_task, and the guard against a run loop that does not end.
Created == {t \in Id : Exists(t)}

Chosen == phase = "choose" /\ cur = "ready" /\ best # None

Finish ==
    /\ Chosen
    /\ Movable(best, "ready")
    /\ Move(best, "ready", "done")
    /\ turns' = turns + 1
    /\ IF turns + 1 > Cardinality(Created) + 4
       THEN phase' = "died" /\ death' = "run loop exceeded"
       ELSE phase' = "run" /\ UNCHANGED death
    /\ cur' = None /\ best' = None
    /\ UNCHANGED <<priority, printed, commands>>

FinishStops == Chosen /\ MoveStops(best, "ready", "finish_task")

-----------------------------------------------------------------------------
\* report_final_state: print_list for each queue in turn.
After(q) == IF q = "waiting" THEN "ready" ELSE "done"
Printing == IF phase = "print waiting" THEN "waiting"
            ELSE IF phase = "print ready" THEN "ready" ELSE "done"
InReport == phase \in {"print waiting", "print ready", "print done"}

EndOfCommands == /\ phase = "apply"
                 /\ phase' = "print waiting" /\ cur' = next["waiting"]
                 /\ UNCHANGED <<links, tasks, best, turns, printed, commands, death>>

PrintTask ==
    /\ InReport /\ cur \in Id
    /\ printed' = [printed EXCEPT ![Printing] = Append(@, cur)]
    /\ cur' = next[cur]
    /\ UNCHANGED <<links, tasks, best, turns, control>>

PrintNext ==
    /\ InReport /\ cur = Printing
    /\ IF Printing = "done"
       THEN phase' = "exited" /\ cur' = None
       ELSE /\ phase' = (IF Printing = "waiting" THEN "print ready" ELSE "print done")
            /\ cur' = next[After(Printing)]
    /\ UNCHANGED <<links, tasks, best, turns, printed, commands, death>>

PrintFault == InReport /\ Follow(cur, "print_list")

-----------------------------------------------------------------------------
Advance ==
    \/ Parse \/ ParseError
    \/ \E t \in Id :
          \/ \E p \in Priority : CmdTask(t, p)
          \/ CmdTaskStops(t) \/ CmdUnknown(t)
          \/ CmdReady(t) \/ CmdReadyStops(t) \/ CmdReadyAgain(t) \/ CmdReadyDone(t)
          \/ \E len \in NoteLengths : CmdNote(t, len)
    \/ CmdDump \/ CmdRun \/ EndOfCommands
    \/ RunEmpty \/ RunChoose \/ ChooseStep \/ ChooseFault \/ Finish \/ FinishStops
    \/ PrintTask \/ PrintNext \/ PrintFault

Ended == phase \in {"exited", "died", "faulted", "undefined"} /\ UNCHANGED vars

Next == Advance \/ Ended

\* One thread, and a command file that ends: the program goes on.
Spec == Init /\ [][Next]_vars /\ WF_vars(Advance)

-----------------------------------------------------------------------------
TypeOK ==
    /\ prev \in [Node -> Pointer] /\ next \in [Node -> Pointer]
    /\ count \in [Queue -> Nat]
    /\ state \in [Id -> Queue \cup {None}]
    /\ priority \in [Id -> Priority \cup {None}]
    /\ cur \in Pointer /\ best \in Id \cup {None} /\ turns \in Nat
    /\ printed \in [Queue -> Seq(Id)]
    /\ phase \in {"parse", "apply", "run", "choose", "print waiting", "print ready",
                  "print done", "exited", "died", "faulted", "undefined"}
    /\ commands \in 0 .. MaxCommands

\* The queue a node belongs to: a head's own, a task's by its state.
Where(n) == IF n \in Queue THEN n ELSE state[n]

InList  == Queue \cup Created
Damaged == {Stray, Garbage}

\* Where a link still is a node, the neighbour belongs to the same queue and
\* points back, unless its own link was overwritten by a note; the heads are
\* never overwritten.  list_remove and list_push_back depend on both, and
\* Task.state on agreeing with the list the task is in.
LinksAgree ==
    /\ \A n \in InList :
          /\ next[n] \in Damaged \/ /\ next[n] \in InList /\ Where(next[n]) = Where(n)
                                    /\ prev[next[n]] \in {n} \cup Damaged
          /\ prev[n] \in Damaged \/ /\ prev[n] \in InList /\ Where(prev[n]) = Where(n)
                                    /\ next[prev[n]] \in {n} \cup Damaged
    /\ \A q \in Queue : next[q] \in Node /\ prev[q] \in Node

\* ListHead.count is the number of tasks in that state, damaged or not.
CountsExact ==
    \A q \in Queue : count[q] = Cardinality({t \in Id : state[t] = q})

\* No check on the way from list to list notices an overwritten link:
\* list_remove's of an unlinked node and of a count below zero, list_push_back's
\* of a node already linked, and scheduler_run's of a loop that does not end are
\* never what stops the program.  (list_validate has no caller.)
ListChecks == {"unlinked", "underflow", "already linked", "run loop exceeded"}

ListChecksStaySilent == death \notin ListChecks

\* A run that ends normally has printed every task once, under its queue,
\* even when it went through links that notes overwrote and moves repaired.
ReportComplete ==
    phase = "exited" =>
        \A q \in Queue : /\ {printed[q][i] : i \in DOMAIN printed[q]}
                                = {t \in Id : state[t] = q}
                         /\ Len(printed[q]) = count[q]

\* Whatever the commands and the notes, the run ends.
ProgramEnds == <>(phase \in {"exited", "died", "faulted", "undefined"})

\* The tasks met from a head to the next head, as print_list meets them.
ChainOf(nx, q) ==
    LET at[i \in 0 .. Cardinality(Id)] ==
            IF i = 0 THEN nx[q]
            ELSE IF at[i - 1] \in Id THEN nx[at[i - 1]] ELSE at[i - 1]
        stop == CHOOSE i \in 0 .. Cardinality(Id) :
                    at[i] = q /\ \A j \in 0 .. i - 1 : at[j] # q
    IN  [i \in 1 .. stop |-> at[i - 1]]

Chain(q) == ChainOf(next, q)

Queues == INSTANCE TaskQueues WITH
    waiting <- Chain("waiting"), ready <- Chain("ready"), done <- Chain("done"),
    running <- phase \in {"run", "choose"},
    report  <- IF phase = "exited"
               THEN <<printed["waiting"], printed["ready"], printed["done"]>> ELSE <<>>

\* With notes that fit, the linked lists are the three queues: no task is
\* lost or doubled, a run takes the oldest task of highest priority each
\* turn, and the report lists the queues in order.
ImplementsQueues == Queues!Spec

\* README.md: "deterministic segfault during scheduler report traversal".
FaultsOnlyInReport == phase = "faulted" => death = "print_list"
=============================================================================
