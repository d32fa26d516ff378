------------------------------ MODULE JobPool -------------------------------
(***************************************************************************)
(* What a job queue of the core promises, after the queue service it       *)
(* replaces (streamhub-core-go/internal/recording/queue.go): a job that    *)
(* waits or runs is not added again, a job runs once it has waited, and    *)
(* no more than Limit run at a time.  A restart forgets all of them.       *)
(***************************************************************************)
EXTENDS Naturals, FiniteSets

CONSTANTS
    Job,    \* the jobs, by id
    Limit   \* how many may run at once

VARIABLES
    waiting,  \* accepted and not begun
    running   \* begun and not finished

Init == waiting = {} /\ running = {}

Accept(j) ==
    /\ j \notin waiting \cup running
    /\ waiting' = waiting \cup {j}
    /\ UNCHANGED running

Begin(j) ==
    /\ j \in waiting
    /\ Cardinality(running) < Limit
    /\ waiting' = waiting \ {j}
    /\ running' = running \cup {j}

Finish(j) ==
    /\ j \in running
    /\ running' = running \ {j}
    /\ UNCHANGED waiting

Forget == waiting' = {} /\ running' = {}

Next == (\E j \in Job : Accept(j) \/ Begin(j) \/ Finish(j)) \/ Forget

Spec == Init /\ [][Next]_<<waiting, running>>
=============================================================================
