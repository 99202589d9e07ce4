----------------------------- MODULE TaskQueues -----------------------------
(***************************************************************************)
(* What the scheduler of benchmark8 promises: three first-in-first-out     *)
(* queues of tasks.  A new task waits; a waiting task can be made ready; a *)
(* run empties the ready queue, highest priority first and oldest first    *)
(* among equals; the final report lists the queues in order.  The links,   *)
(* the counters and the table the code keeps are not visible here.         *)
(***************************************************************************)
EXTENDS Integers, Sequences, SequencesExt

CONSTANTS Id, Priority, None

VARIABLES
    waiting, ready, done,   \* the queues
    priority,               \* of the tasks that exist
    running,                \* a run command is under way
    report                  \* the lists the final report printed

queueVars == <<waiting, ready, done, priority, running, report>>

Init == /\ waiting = <<>> /\ ready = <<>> /\ done = <<>>
        /\ priority = [t \in Id |-> None]
        /\ running = FALSE
        /\ report = <<>>

Idle == ~running /\ report = <<>>

Create(t, p) ==
    /\ Idle
    /\ priority[t] = None
    /\ priority' = [priority EXCEPT ![t] = p]
    /\ waiting' = Append(waiting, t)
    /\ UNCHANGED <<ready, done, running, report>>

MakeReady(t) ==
    /\ Idle
    /\ \E i \in DOMAIN waiting : waiting[i] = t /\ waiting' = RemoveAt(waiting, i)
    /\ ready' = Append(ready, t)
    /\ UNCHANGED <<done, priority, running, report>>

StartRun == Idle /\ running' = TRUE /\ UNCHANGED <<waiting, ready, done, priority, report>>

\* The oldest of the ready tasks of highest priority.
IsNext(i) == \A j \in DOMAIN ready :
                 \/ priority[ready[j]] < priority[ready[i]]
                 \/ priority[ready[j]] = priority[ready[i]] /\ j >= i

FinishNext ==
    /\ running
    /\ \E i \in DOMAIN ready :
          /\ IsNext(i)
          /\ ready' = RemoveAt(ready, i)
          /\ done' = Append(done, ready[i])
    /\ UNCHANGED <<waiting, priority, running, report>>

StopRun == /\ running /\ ready = <<>> /\ running' = FALSE
           /\ UNCHANGED <<waiting, ready, done, priority, report>>

Report == /\ Idle
          /\ report' = <<waiting, ready, done>>
          /\ UNCHANGED <<waiting, ready, done, priority, running>>

Next == \/ \E t \in Id : MakeReady(t) \/ \E p \in Priority : Create(t, p)
        \/ StartRun \/ FinishNext \/ StopRun \/ Report

Spec == Init /\ [][Next]_queueVars
=============================================================================
