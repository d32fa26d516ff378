---------------------------- MODULE UploadQueue -----------------------------
(***************************************************************************)
(* The job queue of the upload workers (recording/queue.go): a map of the  *)
(* ids queued or running, a bounded channel and the workers that read it.  *)
(* The mutex covers the map alone.  A caller is between it and the channel *)
(* in senders, and waits there while the channel is full; a worker deletes *)
(* the id only after the job has returned.  The workers are running: the   *)
(* branch of enqueue that runs a job inline before start is left out.      *)
(***************************************************************************)
EXTENDS Naturals, Sequences, FiniteSets

CONSTANTS
    Job,      \* the jobs, by id
    NoJob,    \* what an idle worker works on
    Workers,  \* jobQueue.workers
    ChanCap   \* the capacity of jobQueue.ch

ASSUME QueueAssumption ==
    Workers \in Nat \ {0} /\ ChanCap \in Nat \ {0} /\ NoJob \notin Job

Worker == 1 .. Workers

VARIABLES
    pending,  \* jobQueue.pending
    ch,       \* jobQueue.ch
    senders,  \* the jobs enqueue has marked pending and not sent yet
    job       \* the job each worker runs

queue == <<pending, ch, senders, job>>

QueueTypeOK ==
    /\ pending \subseteq Job
    /\ ch \in Seq(Job)
    /\ senders \subseteq Job
    /\ job \in [Worker -> Job \cup {NoJob}]

Running == {job[w] : w \in Worker} \ {NoJob}
Queued == {ch[k] : k \in 1 .. Len(ch)}

QueueInit ==
    /\ pending = {}
    /\ ch = <<>>
    /\ senders = {}
    /\ job = [w \in Worker |-> NoJob]

\* Mutant: the map is not looked at.
EnqueueAlways(j) ==
    /\ pending' = pending \cup {j}
    /\ senders' = senders \cup {j}
    /\ UNCHANGED <<ch, job>>

\* enqueue up to the unlock: a job that is pending is dropped.
Enqueue(j) ==
    IF j \in pending THEN UNCHANGED queue
    ELSE /\ pending' = pending \cup {j}
         /\ senders' = senders \cup {j}
         /\ UNCHANGED <<ch, job>>

\* Mutant: a full channel drops the job.
SendOrDrop(j) ==
    /\ j \in senders
    /\ senders' = senders \ {j}
    /\ IF Len(ch) < ChanCap THEN ch' = Append(ch, j) /\ UNCHANGED pending
       ELSE pending' = pending \ {j} /\ UNCHANGED ch
    /\ UNCHANGED job

\* The send at the end of enqueue.
Send(j) ==
    /\ j \in senders
    /\ Len(ch) < ChanCap
    /\ ch' = Append(ch, j)
    /\ senders' = senders \ {j}
    /\ UNCHANGED <<pending, job>>

\* A worker receives a job.
Take(w) ==
    /\ job[w] = NoJob
    /\ ch # <<>>
    /\ job' = [job EXCEPT ![w] = Head(ch)]
    /\ ch' = Tail(ch)
    /\ UNCHANGED <<pending, senders>>

\* The job has returned: its id is deleted.
Finish(w) ==
    /\ job[w] # NoJob
    /\ pending' = pending \ {job[w]}
    /\ job' = [job EXCEPT ![w] = NoJob]
    /\ UNCHANGED <<ch, senders>>

\* A new process starts with a new queue.
Forget ==
    /\ pending' = {}
    /\ ch' = <<>>
    /\ senders' = {}
    /\ job' = [w \in Worker |-> NoJob]

QueueNext ==
    \/ \E j \in Job : Enqueue(j) \/ Send(j)
    \/ \E w \in Worker : Take(w) \/ Finish(w)
    \/ Forget

QueueSpec == QueueInit /\ [][QueueNext]_queue

-----------------------------------------------------------------------------
(* The queue is a JobPool *)

Pool == INSTANCE JobPool WITH
          Limit <- Workers, waiting <- pending \ Running, running <- Running

\* An id is pending as long as its job is in one place, with a caller, in
\* the channel or with a worker: none is in two, and none is left pending
\* with no job, which would refuse its VOD for good.
OnePlace ==
    /\ pending = senders \cup Queued \cup Running
    /\ senders \cap (Queued \cup Running) = {}
    /\ Queued \cap Running = {}
    /\ \A k, l \in 1 .. Len(ch) : ch[k] = ch[l] => k = l
    /\ \A v, w \in Worker : job[v] = job[w] /\ job[v] # NoJob => v = w

\* A job that is queued or running is not added twice, so no two workers
\* upload the same VOD, and no more jobs run than there are workers.
ImplementsJobPool == Pool!Spec
=============================================================================
