-------------------------- MODULE RecordingProofs ---------------------------
(***************************************************************************)
(* The recordings and their upload queue, for any number of parts, workers *)
(* and requests, any channel and any set of faults:                        *)
(*                                                                         *)
(*   JobsAreInOnePlace   a job is in one place of the queue, and pending;  *)
(*   Typing              the types of the service;                         *)
(*   UsesTheQueue        every step of the service is one of the queue,    *)
(*                       so what holds of the queue holds here             *)
(*                       (ServiceJobsInOnePlace, ServiceIsAPool);          *)
(*   NoPartLost          a part not asked to go is on disk or in S3;       *)
(*   StopReachesSession  Stop reaches what an open session records;        *)
(*   QueueIsAPool        the queue implements JobPool: that a job a        *)
(*                       worker receives runs nowhere else tells it        *)
(*                       from one pending, which needs the first.          *)
(***************************************************************************)
EXTENDS Recording, TLAPS

\* Zenon is the prover of a leaf that names none; the leaves with arithmetic,
\* records or many cases name SMT.
USE Zenon

-----------------------------------------------------------------------------
(* The upload queue, for any number of jobs and workers and any channel *)

\* No job is in two places, with the types that it needs.
IInv == QueueTypeOK /\ OnePlace

\* enqueue drops what is pending; what it admits is in no other place.
LEMMA EnqueueKeeps ==
    ASSUME IInv, NEW j \in Job, Enqueue(j) PROVE IInv'
<1>1. CASE j \in pending
  BY SMT, <1>1 DEF IInv, Enqueue, queue, QueueTypeOK, OnePlace, Queued, Running
<1>2. CASE j \notin pending
  <2>1. /\ pending' = pending \cup {j} /\ senders' = senders \cup {j}
        /\ ch' = ch /\ job' = job
    BY <1>2 DEF Enqueue
  <2>2. Queued' = Queued /\ Running' = Running
    BY <2>1 DEF Queued, Running
  <2> QED
    BY SMT, <1>2, <2>1, <2>2 DEF IInv, QueueTypeOK, OnePlace
<1> QED
  BY <1>1, <1>2

\* The send moves a job from its caller to the channel.
LEMMA SendKeeps ==
    ASSUME IInv, NEW j \in Job, Send(j) PROVE IInv'
<1>0. ch \in Seq(Job) /\ j \in senders /\ j \notin Queued /\ j \notin Running
  BY DEF IInv, QueueTypeOK, OnePlace, Send
<1>1. /\ ch' = Append(ch, j) /\ senders' = senders \ {j}
      /\ pending' = pending /\ job' = job
  BY DEF Send
<1>2. /\ Len(ch') = Len(ch) + 1 /\ Len(ch) \in Nat
      /\ \A k \in 1 .. Len(ch) : ch'[k] = ch[k]
      /\ ch'[Len(ch) + 1] = j /\ ch' \in Seq(Job)
  BY SMT, <1>0, <1>1
<1>3. Queued' = Queued \cup {j} /\ Running' = Running
  BY SMT, <1>1, <1>2 DEF Queued, Running
<1>4. \A k, l \in 1 .. Len(ch') : ch'[k] = ch'[l] => k = l
  BY SMT, <1>0, <1>2 DEF IInv, OnePlace, Queued
<1> QED
  BY <1>0, <1>1, <1>2, <1>3, <1>4 DEF IInv, QueueTypeOK, OnePlace

\* A receive moves the first job of the channel to a worker.
LEMMA TakeKeeps ==
    ASSUME IInv, NEW w \in Worker, Take(w)
    PROVE  /\ IInv'
           /\ Head(ch) \in Queued
           /\ Running' = Running \cup {Head(ch)}
<1>0. ch \in Seq(Job) /\ ch # <<>> /\ job \in [Worker -> Job \cup {NoJob}]
  BY DEF IInv, QueueTypeOK, Take
<1>1. /\ job' = [job EXCEPT ![w] = Head(ch)] /\ ch' = Tail(ch)
      /\ pending' = pending /\ senders' = senders /\ job[w] = NoJob
  BY DEF Take
<1>2. /\ Len(ch) \in Nat \ {0} /\ Len(ch') = Len(ch) - 1
      /\ \A k \in 1 .. Len(ch) - 1 : ch'[k] = ch[k + 1]
      /\ Head(ch) = ch[1] /\ Head(ch) \in Job /\ ch' \in Seq(Job)
  BY SMT, <1>0, <1>1
<1>3. Head(ch) \in Queued /\ Head(ch) # NoJob
  BY SMT, <1>2, QueueAssumption DEF Queued
<1>4. Queued' = Queued \ {Head(ch)}
  <2>1. \A x \in Queued' : x \in Queued /\ x # Head(ch)
    BY SMT, <1>2 DEF Queued, IInv, OnePlace
  <2>2. ASSUME NEW x \in Queued, x # Head(ch) PROVE x \in Queued'
    <3>1. PICK k \in 1 .. Len(ch) : x = ch[k]
      BY DEF Queued
    <3>2. k - 1 \in 1 .. Len(ch) - 1 /\ ch'[k - 1] = x
      BY SMT, <1>2, <2>2, <3>1
    <3> QED
      BY <1>2, <3>2 DEF Queued
  <2> QED
    BY <2>1, <2>2
<1>5. \A v \in Worker : job'[v] = IF v = w THEN Head(ch) ELSE job[v]
  BY <1>0, <1>1
<1>6. Running' = Running \cup {Head(ch)}
  BY <1>1, <1>3, <1>5 DEF Running
<1>7. \A k, l \in 1 .. Len(ch') : ch'[k] = ch'[l] => k = l
  BY SMT, <1>2 DEF IInv, OnePlace
<1>8. \A u, v \in Worker : job'[u] = job'[v] /\ job'[u] # NoJob => u = v
  <2>1. \A v \in Worker : job[v] # Head(ch)
    BY SMT, <1>3 DEF IInv, OnePlace, Running
  <2> QED
    BY <1>5, <2>1 DEF IInv, OnePlace
<1>9. job' \in [Worker -> Job \cup {NoJob}]
  BY <1>0, <1>1, <1>2
<1> QED
  BY SMT, <1>1, <1>2, <1>3, <1>4, <1>6, <1>7, <1>8, <1>9 DEF IInv, QueueTypeOK, OnePlace

\* A job that returns leaves its worker and the map.
LEMMA FinishKeeps ==
    ASSUME IInv, NEW w \in Worker, Finish(w)
    PROVE  /\ IInv'
           /\ job[w] \in Running
           /\ Running' = Running \ {job[w]}
           /\ pending' = pending \ {job[w]}
<1>0. job \in [Worker -> Job \cup {NoJob}] /\ job[w] # NoJob
  BY DEF IInv, QueueTypeOK, Finish
<1>1. /\ job' = [job EXCEPT ![w] = NoJob] /\ pending' = pending \ {job[w]}
      /\ ch' = ch /\ senders' = senders
  BY DEF Finish
<1>2. job[w] \in Running
  BY <1>0 DEF Running
<1>3. \A v \in Worker : job'[v] = IF v = w THEN NoJob ELSE job[v]
  BY <1>0, <1>1
<1>4. Running' = Running \ {job[w]}
  BY SMT, <1>0, <1>3 DEF Running, IInv, OnePlace
<1>5. Queued' = Queued
  BY <1>1 DEF Queued
<1>6. \A u, v \in Worker : job'[u] = job'[v] /\ job'[u] # NoJob => u = v
  BY <1>3 DEF IInv, OnePlace
<1>7. job' \in [Worker -> Job \cup {NoJob}]
  BY <1>0, <1>1
<1>8. /\ pending' = senders' \cup Queued' \cup Running'
      /\ senders' \cap (Queued' \cup Running') = {}
      /\ Queued' \cap Running' = {}
  BY <1>1, <1>2, <1>4, <1>5 DEF IInv, OnePlace
<1> QED
  BY <1>1, <1>2, <1>4, <1>6, <1>7, <1>8 DEF IInv, QueueTypeOK, OnePlace

\* A new queue has nothing pending.
LEMMA ForgetKeeps == ASSUME Forget PROVE IInv' /\ Running' = {} /\ pending' = {}
<1>1. Len(ch') = 0 /\ Queued' = {} /\ ch' \in Seq(Job)
  BY SMT DEF Forget, Queued
<1>2. Running' = {}
  BY DEF Forget, Running
<1> QED
  BY SMT, <1>1, <1>2 DEF IInv, QueueTypeOK, OnePlace, Forget

\* The queue starts empty.
LEMMA InitHolds == QueueInit => IInv /\ Running = {}
<1> SUFFICES ASSUME QueueInit PROVE IInv /\ Running = {}
  OBVIOUS
<1>1. Len(ch) = 0 /\ Queued = {} /\ ch \in Seq(Job)
  BY SMT DEF QueueInit, Queued
<1>2. Running = {}
  BY DEF QueueInit, Running
<1> QED
  BY SMT, <1>1, <1>2 DEF IInv, QueueTypeOK, OnePlace, QueueInit

\* Every step keeps the jobs in one place.
LEMMA Inductive == IInv /\ [QueueNext]_queue => IInv'
<1> SUFFICES ASSUME IInv, [QueueNext]_queue PROVE IInv'
  OBVIOUS
<1>1. CASE UNCHANGED queue
  <2>1. UNCHANGED <<pending, ch, senders, job>>
    BY <1>1 DEF queue
  <2>2. Queued' = Queued /\ Running' = Running
    BY <2>1 DEF Queued, Running
  <2> QED
    BY <2>1, <2>2 DEF IInv, QueueTypeOK, OnePlace
<1>2. ASSUME NEW j \in Job, Enqueue(j) PROVE IInv'
  BY <1>2, EnqueueKeeps
<1>3. ASSUME NEW j \in Job, Send(j) PROVE IInv'
  BY <1>3, SendKeeps
<1>4. ASSUME NEW w \in Worker, Take(w) PROVE IInv'
  BY <1>4, TakeKeeps
<1>5. ASSUME NEW w \in Worker, Finish(w) PROVE IInv'
  BY <1>5, FinishKeeps
<1> QED
  BY <1>1, <1>2, <1>3, <1>4, <1>5, ForgetKeeps DEF QueueNext

\* No id is pending without its job, and no job is in two places.
THEOREM JobsAreInOnePlace == QueueSpec => []OnePlace
<1>1. QueueInit => IInv
  BY InitHolds
<1> QED
  BY <1>1, Inductive, PTL DEF QueueSpec, IInv

-----------------------------------------------------------------------------
(* Types *)

Launching == {"insert", "undo", "set"}

(* TypeOK, by the parts of the system that change it, and what it needs:    *)
(* who is at work names a part.                                             *)

FilesTyped ==
    /\ vod \in [Job -> Row]
    /\ disk \subseteq Job /\ s3 \subseteq Job /\ asked \subseteq Job
    /\ egress \in [Job -> EgressState]
    /\ hooks \subseteq Job \X {"complete", "failed"}
    /\ noise \subseteq Noise /\ config \in Configs

\* A rotation names the part it stops, a launch the one it starts.
SessionTyped ==
    /\ sess \in Session
    /\ IF sess.pc \in Launching THEN sess.next \in Job ELSE sess.next = NoJob
    /\ sess.pc = "stop" \/ sess.live => sess.cur \in Job

HandlersTyped ==
    /\ h \in [Request -> Handler]
    /\ \A p \in Request : h[p].pc # "idle" => h[p].v \in Job

WorkersTyped ==
    /\ QueueTypeOK
    /\ wk \in [Worker -> WorkerState]
    /\ \A w \in Worker : wk[w].pc # "idle" => job[w] \in Job

TranscodeTyped ==
    /\ xq \in Seq(TranscodeJob) /\ xpc \in {"idle", "run", "null"}
    /\ xpc # "idle" => xq # <<>>

BootTyped == boot \in [ph : {"off", "list", "uploads", "variants"},
                       todo : SUBSET Job, sent : Part]

TInv == /\ FilesTyped /\ SessionTyped /\ HandlersTyped
        /\ WorkersTyped /\ TranscodeTyped /\ BootTyped

\* What a step leaves alone keeps its type.
LEMMA Untouched ==
    /\ FilesTyped /\ UNCHANGED <<files, livekit, history>> => FilesTyped'
    /\ SessionTyped /\ UNCHANGED sess => SessionTyped'
    /\ HandlersTyped /\ UNCHANGED h => HandlersTyped'
    /\ WorkersTyped /\ UNCHANGED <<queue, wk>> => WorkersTyped'
    /\ TranscodeTyped /\ UNCHANGED transcode => TranscodeTyped'
    /\ BootTyped /\ UNCHANGED boot => BootTyped'
<1>1. FilesTyped /\ UNCHANGED <<files, livekit, history>> => FilesTyped'
  BY DEF FilesTyped, files, livekit, history
<1>2. WorkersTyped /\ UNCHANGED <<queue, wk>> => WorkersTyped'
  BY DEF WorkersTyped, queue, QueueTypeOK
<1> QED
  BY <1>1, <1>2 DEF SessionTyped, HandlersTyped, TranscodeTyped, transcode, BootTyped

\* An egress that ends is some part's.
LEMMA EndEgressType ==
    ASSUME FilesTyped, NEW v \in Job, NEW ev \in {"complete", "failed"}, EndEgress(v, ev)
    PROVE  /\ disk' \subseteq Job
           /\ egress' \in [Job -> EgressState]
           /\ hooks' \subseteq Job \X {"complete", "failed"}
<1>1. <<v, ev>> \in Job \X {"complete", "failed"}
  OBVIOUS
<1> QED
  BY <1>1 DEF FilesTyped, EndEgress, EgressState

\* What happened of Env is noise.
LEMMA OnceType ==
    ASSUME noise \subseteq Noise, NEW kind, Once(kind)
    PROVE  noise' \subseteq Noise
  BY RecordingAssumption DEF Once

\* StopEgress keeps the type of the egresses.
LEMMA StopEgressType ==
    ASSUME FilesTyped, NEW v \in Job, StopEgress(v), UNCHANGED <<vod, s3, asked, config>>
    PROVE  FilesTyped'
<1>1. CASE egress[v] = "running" /\ EndEgress(v, "complete") /\ UNCHANGED noise
  BY <1>1, EndEgressType DEF FilesTyped
<1>2. CASE UNCHANGED <<livekit, disk, noise>>
  BY <1>2 DEF FilesTyped, livekit
<1>3. CASE Once("stop") /\ UNCHANGED <<livekit, disk>>
  BY <1>3, OnceType DEF FilesTyped, livekit
<1> QED
  BY <1>1, <1>2, <1>3 DEF StopEgress

\* The steps of the room's recording session keep the types.
LEMMA SessionTypes ==
    ASSUME TInv, Start \/ Rotate \/ SessionStep PROVE TInv'
<1>0. FilesTyped /\ SessionTyped
  BY DEF TInv
<1>1. SUFFICES FilesTyped' /\ SessionTyped'
  <2>1. UNCHANGED jobs
    BY DEF Start, Rotate, SessionStep, Launch, Insert, Undo, SetCurrent, RotateStop
  <2> QED
    BY <1>1, <2>1, Untouched DEF TInv, jobs, transcode
<1> USE DEF Launching
<1>2. CASE Start
  BY <1>0, <1>2 DEF FilesTyped, SessionTyped, jobs, Start, livekit, Session
<1>3. CASE Rotate
  BY <1>0, <1>3 DEF FilesTyped, SessionTyped, jobs, Rotate, livekit, Session
<1>4. CASE Launch
  <2>1. ASSUME NEW v \in Unused,
               egress' = [egress EXCEPT ![v] = "running"],
               sess' = [sess EXCEPT !.pc = "insert", !.next = v], UNCHANGED noise
        PROVE  FilesTyped' /\ SessionTyped'
    BY <1>0, <1>4, <2>1
       DEF FilesTyped, SessionTyped, jobs, Launch, Unused, Session, Part, EgressState
  <2>2. ASSUME Back, egress' \in [Job -> EgressState], noise' \subseteq Noise
        PROVE  FilesTyped' /\ SessionTyped'
    BY <1>0, <1>4, <2>2 DEF FilesTyped, SessionTyped, jobs, Launch, Back, Session, Part
  <2>3. ASSUME NEW v \in Unused, egress' = [egress EXCEPT ![v] = "lost"]
        PROVE  egress' \in [Job -> EgressState]
    BY <1>0, <2>3 DEF FilesTyped, EgressState
  <2> QED
    BY <1>0, <1>4, <2>1, <2>2, <2>3, OnceType DEF Launch, FilesTyped
<1>5. CASE Insert
  <2>1. sess.next \in Job
    BY <1>0, <1>5 DEF Insert, SessionTyped
  <2>2. noise' \subseteq Noise
    BY <1>0, <1>5, OnceType DEF FilesTyped, Insert, Sql
  <2>3. [st |-> "recording", path |-> TRUE, key |-> FALSE] \in Row
    BY DEF Row, Status
  <2>4. vod' \in [Job -> Row]
    BY <1>0, <1>5, <2>1, <2>3 DEF FilesTyped, Insert, Sql
  <2>5. SessionTyped'
    BY <1>0, <1>5 DEF Insert, Sql, SessionTyped, Session
  <2> QED
    BY <1>0, <1>5, <2>2, <2>4, <2>5 DEF FilesTyped, Insert, livekit, jobs
<1>6. CASE Undo
  <2>1. sess.next \in Job /\ UNCHANGED <<vod, s3, asked, config>>
    BY <1>0, <1>6 DEF Undo, SessionTyped, jobs
  <2>2. FilesTyped'
    BY <1>0, <1>6, <2>1, StopEgressType DEF Undo, FilesTyped, livekit
  <2>3. SessionTyped'
    BY <1>0, <1>6 DEF Undo, Back, SessionTyped, Session, Part
  <2> QED
    BY <2>2, <2>3
<1>7. CASE SetCurrent
  BY <1>0, <1>7 DEF FilesTyped, SessionTyped, jobs, SetCurrent, livekit, Session, Part
<1>8. CASE RotateStop
  <2>1. sess.cur \in Job /\ UNCHANGED <<vod, s3, asked, config>>
    BY <1>0, <1>8 DEF RotateStop, SessionTyped, jobs
  <2>2. FilesTyped'
    BY <1>0, <1>8, <2>1, StopEgressType DEF RotateStop, FilesTyped, livekit
  <2>3. SessionTyped'
    BY <1>0, <1>8 DEF RotateStop, SessionTyped, Session
  <2> QED
    BY SMT, <2>2, <2>3
<1> QED
  BY <1>2, <1>3, <1>4, <1>5, <1>6, <1>7, <1>8 DEF SessionStep

\* A goroutine that ends, or goes on with the part it has.
LEMMA HandlerMoves ==
    ASSUME HandlersTyped, NEW p \in Request, NEW pc,
           \/ End(p)
           \/ /\ Go(p, pc) /\ h[p].pc # "idle"
              /\ pc \in {"enqueue", "stop", "delLocal", "delRow"}
    PROVE  HandlersTyped'
<1>1. CASE End(p)
  <2>1. Idle \in Handler /\ Idle.pc = "idle"
    BY DEF Idle, Handler, Part
  <2> QED
    BY <1>1, <2>1 DEF HandlersTyped, End
<1>2. CASE /\ Go(p, pc) /\ h[p].pc # "idle"
           /\ pc \in {"enqueue", "stop", "delLocal", "delRow"}
  <2> DEFINE g == [h[p] EXCEPT !.pc = pc]
  <2>1. g \in Handler /\ g.v = h[p].v
    BY <1>2 DEF HandlersTyped, Handler
  <2>2. h' = [h EXCEPT ![p] = g]
    BY <1>2 DEF Go
  <2> HIDE DEF g
  <2> QED
    BY <1>2, <2>1, <2>2 DEF HandlersTyped
<1> QED
  BY <1>1, <1>2

\* A new goroutine works on a part.
LEMMA HandlerStarts ==
    ASSUME HandlersTyped, NEW p \in Request, NEW g \in Handler, g.v \in Job,
           h' = [h EXCEPT ![p] = g]
    PROVE  HandlersTyped'
  BY DEF HandlersTyped

\* An update of a status changes that status, if anything.
LEMMA SetStatusType ==
    ASSUME vod \in [Job -> Row], NEW v \in Job, NEW s \in Status, SetStatus(v, s)
    PROVE  /\ vod' \in [Job -> Row]
           /\ \A u \in Job : /\ vod'[u].path = vod[u].path
                             /\ vod'[u].key = vod[u].key
                             /\ \/ vod'[u].st = vod[u].st
                                \/ u = v /\ Exists(v) /\ vod'[u].st = s
<1> DEFINE r == [vod[v] EXCEPT !.st = s]
<1>1. r \in Row /\ r.path = vod[v].path /\ r.key = vod[v].key /\ r.st = s
  BY DEF Row
<1>2. vod' = vod \/ (Exists(v) /\ vod' = [vod EXCEPT ![v] = r])
  BY DEF SetStatus
<1> HIDE DEF r
<1> QED
  BY <1>1, <1>2

\* A statement that sets a status, or fails.
LEMMA SqlStatusType ==
    ASSUME FilesTyped, NEW v \in Job, NEW s \in Status, Sql(SetStatus(v, s), TRUE),
           UNCHANGED <<disk, s3, livekit, asked, config>>
    PROVE  FilesTyped'
<1>1. noise' \subseteq Noise
  BY OnceType DEF FilesTyped, Sql
<1>2. vod' \in [Job -> Row]
  BY SetStatusType DEF FilesTyped, Sql
<1> QED
  BY <1>1, <1>2 DEF FilesTyped, livekit

\* So do the steps of requests and webhooks.
LEMMA HandlerTypes ==
    ASSUME TInv, NEW p \in Request, HandlerStep(p) PROVE TInv'
<1>0. FilesTyped /\ SessionTyped /\ HandlersTyped /\ WorkersTyped
  BY DEF TInv
<1>1. CASE SetUploading(p)
  <2>1. h[p].v \in Job
    BY <1>0, <1>1 DEF SetUploading, HandlersTyped
  <2>2. FilesTyped'
    BY <1>0, <1>1, <2>1, SqlStatusType DEF SetUploading, uploads, Status
  <2>3. HandlersTyped'
    BY <1>0, <1>1, HandlerMoves DEF SetUploading
  <2> QED
    BY <1>1, <2>2, <2>3, Untouched DEF TInv, SetUploading, uploads
<1>2. CASE EnqueueUpload(p)
  <2>1. h[p].v \in Job
    BY <1>0, <1>2 DEF EnqueueUpload, HandlersTyped
  <2>2. HandlersTyped'
    BY <1>0, <1>2, HandlerMoves DEF EnqueueUpload
  <2>3. QueueTypeOK' /\ UNCHANGED job
    BY <1>0, <1>2, <2>1 DEF EnqueueUpload, Enqueue, WorkersTyped, QueueTypeOK, queue
  <2>4. WorkersTyped'
    BY <1>0, <1>2, <2>3 DEF EnqueueUpload, WorkersTyped, uploads
  <2> QED
    BY <1>2, <2>2, <2>4, Untouched DEF TInv, EnqueueUpload, uploads, history
<1>3. CASE EgressFailed(p)
  <2>1. h[p].v \in Job
    BY <1>0, <1>3 DEF EgressFailed, HandlersTyped
  <2>2. FilesTyped'
    BY <1>0, <1>3, <2>1, SqlStatusType DEF EgressFailed, uploads, Status
  <2>3. HandlersTyped'
    BY <1>0, <1>3, HandlerMoves DEF EgressFailed
  <2> QED
    BY <1>3, <2>2, <2>3, Untouched DEF TInv, EgressFailed, uploads
<1>4. CASE ClearSession(p)
  <2>1. SessionTyped'
    BY <1>0, <1>4 DEF ClearSession, SessionTyped, Session
  <2>2. HandlersTyped'
    BY <1>0, <1>4, HandlerMoves DEF ClearSession
  <2> QED
    BY <1>4, <2>1, <2>2, Untouched DEF TInv, ClearSession, uploads, history
<1>5. CASE StopCurrent(p)
  <2>1. h[p].v \in Job
    BY <1>0, <1>5 DEF StopCurrent, HandlersTyped
  <2>2. FilesTyped'
    BY <1>0, <1>5, <2>1, StopEgressType DEF StopCurrent, uploads
  <2>3. HandlersTyped'
    BY <1>0, <1>5, HandlerMoves DEF StopCurrent
  <2> QED
    BY <1>5, <2>2, <2>3, Untouched DEF TInv, StopCurrent, uploads
<1>6. CASE DeleteS3(p)
  <2>1. FilesTyped'
    BY <1>0, <1>6 DEF DeleteS3, FilesTyped, livekit, uploads
  <2>2. HandlersTyped'
    BY <1>0, <1>6, HandlerMoves DEF DeleteS3
  <2> QED
    BY <1>6, <2>1, <2>2, Untouched DEF TInv, DeleteS3, uploads
<1>7. CASE DeleteLocal(p)
  <2>1. FilesTyped'
    BY <1>0, <1>7 DEF DeleteLocal, FilesTyped, livekit, uploads
  <2>2. HandlersTyped'
    BY <1>0, <1>7, HandlerMoves DEF DeleteLocal
  <2> QED
    BY <1>7, <2>1, <2>2, Untouched DEF TInv, DeleteLocal, uploads
<1>8. CASE DeleteRow(p)
  <2>1. h[p].v \in Job
    BY <1>0, <1>8 DEF DeleteRow, HandlersTyped
  <2>2. FilesTyped'
    BY <1>0, <1>8, <2>1, SqlStatusType DEF DeleteRow, uploads, Status
  <2>3. HandlersTyped'
    BY <1>0, <1>8, HandlerMoves DEF DeleteRow
  <2> QED
    BY <1>8, <2>2, <2>3, Untouched DEF TInv, DeleteRow, uploads
<1> QED
  BY <1>1, <1>2, <1>3, <1>4, <1>5, <1>6, <1>7, <1>8 DEF HandlerStep

\* So do the webhooks and requests that become a handler.
LEMMA ArrivalTypes ==
    ASSUME TInv, NEW p \in Request,
           \/ \E m \in hooks : Receive(p, m)
           \/ \E v \in Job : Stop(p, v) \/ Delete(p, v)
    PROVE  TInv'
<1>0. FilesTyped /\ SessionTyped /\ HandlersTyped
  BY DEF TInv
<1>1. ASSUME NEW m \in hooks, Receive(p, m) PROVE TInv'
  <2>1. m[1] \in Job
    BY <1>0 DEF FilesTyped
  <2>2. noise' \subseteq Noise /\ hooks' \subseteq hooks
    BY <1>0, <1>1, OnceType DEF FilesTyped, Receive
  <2>3. FilesTyped'
    BY <1>0, <1>1, <2>2 DEF FilesTyped, Receive, files, uploads
  <2> DEFINE g == [Idle EXCEPT !.v = m[1],
                               !.pc = IF m[2] = "failed" THEN "fail" ELSE "uploading"]
  <2>4. g \in Handler /\ g.v = m[1]
    BY <2>1 DEF Idle, Handler, Part
  <2>5. h' = [h EXCEPT ![p] = g] \/ h' = h
    BY <1>1 DEF Receive
  <2> HIDE DEF g
  <2>6. HandlersTyped'
    BY <1>0, <2>1, <2>4, <2>5, HandlerStarts, Untouched
  <2> QED
    BY <1>1, <2>3, <2>6, Untouched DEF TInv, Receive, uploads
<1>2. ASSUME NEW v \in Job, Stop(p, v) PROVE TInv'
  <2> DEFINE g == IF sess.live THEN [Idle EXCEPT !.pc = "clear", !.v = sess.cur]
                  ELSE [Idle EXCEPT !.pc = "stop", !.v = v]
  <2>1. g \in Handler /\ g.v \in Job
    BY <1>0 DEF Idle, Handler, Part, SessionTyped
  <2>2. h' = [h EXCEPT ![p] = g]
    BY <1>2 DEF Stop
  <2> HIDE DEF g
  <2>3. HandlersTyped'
    BY <1>0, <2>1, <2>2, HandlerStarts
  <2> QED
    BY <1>2, <2>3, Untouched DEF TInv, Stop, uploads, history
<1>3. ASSUME NEW v \in Job, Delete(p, v) PROVE TInv'
  <2> DEFINE g == [pc |-> "delS3", v |-> v, path |-> vod[v].path, key |-> vod[v].key]
  <2>1. g \in Handler /\ g.v = v
    BY <1>0 DEF FilesTyped, Row, Handler, Part
  <2>2. h' = [h EXCEPT ![p] = g]
    BY <1>3 DEF Delete
  <2> HIDE DEF g
  <2>3. HandlersTyped'
    BY <1>0, <2>1, <2>2, HandlerStarts
  <2>4. noise' \subseteq Noise
    BY <1>0, <1>3, OnceType DEF FilesTyped, Delete
  <2>5. FilesTyped'
    BY <1>0, <1>3, <2>4 DEF FilesTyped, Delete, files, livekit, uploads
  <2> QED
    BY <1>3, <2>3, <2>5, Untouched DEF TInv, Delete, uploads
<1> QED
  BY <1>1, <1>2, <1>3

\* A worker goes on with the job it has.
LEMMA WorkerMoves ==
    ASSUME WorkersTyped, NEW w \in Worker, wk[w].pc # "idle", UNCHANGED queue,
           NEW pc, At(w, pc),
           pc \in {"remove", "update", "variants", "fail", "done"}
    PROVE  /\ WorkersTyped'
           /\ \A u \in Worker : wk'[u].pc = IF u = w THEN pc ELSE wk[u].pc
<1> DEFINE g == [wk[w] EXCEPT !.pc = pc]
<1>1. g \in WorkerState /\ g.pc = pc
  BY DEF WorkersTyped, WorkerState
<1>2. wk' = [wk EXCEPT ![w] = g]
  BY DEF At
<1>3. QueueTypeOK' /\ UNCHANGED job
  BY DEF WorkersTyped, QueueTypeOK, queue
<1> HIDE DEF g
<1> QED
  BY <1>1, <1>2, <1>3 DEF WorkersTyped

\* The transcode queue takes parts.
LEMMA TranscodeType ==
    ASSUME TranscodeTyped, NEW v \in Job, NEW del \in BOOLEAN, Transcode(v, del),
           UNCHANGED xpc
    PROVE  /\ TranscodeTyped'
           /\ \A k \in 1 .. Len(xq') : xq'[k].v = v \/ \E l \in 1 .. Len(xq) : xq'[k] = xq[l]
<1> DEFINE r == [v |-> v, delete |-> del]
<1>1. r \in TranscodeJob /\ r.v = v
  BY DEF TranscodeJob
<1>2. xq' = xq \/ xq' = Append(xq, r)
  BY DEF Transcode
<1> HIDE DEF r
<1>3. CASE xq' = xq
  BY <1>3 DEF TranscodeTyped
<1>4. CASE xq' = Append(xq, r)
  <2>1. /\ xq' \in Seq(TranscodeJob) /\ Len(xq') = Len(xq) + 1 /\ Len(xq) \in Nat
        /\ \A k \in 1 .. Len(xq) : xq'[k] = xq[k]
        /\ xq'[Len(xq) + 1] = r
    BY SMT, <1>1, <1>4 DEF TranscodeTyped
  <2> QED
    BY SMT, <1>1, <2>1 DEF TranscodeTyped
<1> QED
  BY <1>2, <1>3, <1>4

\* So do the steps of the upload workers.
LEMMA WorkerTypes ==
    ASSUME TInv, NEW w \in Worker, UploadTake(w) \/ WorkerStep(w) PROVE TInv'
<1>0. FilesTyped /\ WorkersTyped /\ TranscodeTyped /\ QueueTypeOK
  BY DEF TInv, WorkersTyped
<1>1. CASE UploadTake(w)
  <2>1. QueueTypeOK' /\ \A u \in Worker : job'[u] = IF u = w THEN Head(ch) ELSE job[u]
    BY SMT, <1>0, <1>1 DEF UploadTake, Take, QueueTypeOK
  <2>2. Head(ch) \in Job
    BY SMT, <1>0, <1>1 DEF UploadTake, Take, QueueTypeOK
  <2> DEFINE g == [wk[w] EXCEPT !.pc = "read"]
  <2>3. g \in WorkerState /\ wk' = [wk EXCEPT ![w] = g]
    BY <1>0, <1>1 DEF UploadTake, At, WorkersTyped, WorkerState
  <2> HIDE DEF g
  <2>4. WorkersTyped'
    BY <1>0, <2>1, <2>2, <2>3 DEF WorkersTyped
  <2> QED
    BY <1>1, <2>4, Untouched DEF TInv, UploadTake, requests, history
<1>2. CASE WorkerStep(w)
  <2>0. job[w] \in Job /\ wk[w].cfg \in Config
    BY <1>0, <1>2
       DEF WorkersTyped, WorkerState, WorkerStep, UploadRead, UploadPut, UploadRemove,
           UploadUpdate, UploadVariants, UploadFail, UploadDone
  <2>1. CASE UploadRead(w)
    <3>1. noise' \subseteq Noise
      BY <1>0, <2>1, OnceType DEF FilesTyped, UploadRead
    <3>2. FilesTyped'
      BY <1>0, <2>1, <3>1 DEF FilesTyped, UploadRead, files, livekit, requests
    <3> DEFINE g == [cfg |-> config,
                     pc |-> IF ~Exists(job[w]) THEN "done"
                            ELSE IF ~vod[job[w]].path \/ job[w] \notin disk
                                 THEN "fail" ELSE "put"]
    <3>3. g \in WorkerState
      BY <1>0, RecordingAssumption DEF WorkerState, FilesTyped
    <3>4. wk' = [wk EXCEPT ![w] = g] \/ At(w, "done") \/ At(w, "fail")
      BY <2>1 DEF UploadRead
    <3> HIDE DEF g
    <3>5. UNCHANGED queue
      BY <2>1 DEF UploadRead
    <3>6. ASSUME wk' = [wk EXCEPT ![w] = g] PROVE WorkersTyped'
      <4>1. QueueTypeOK' /\ UNCHANGED job
        BY <1>0, <3>5 DEF QueueTypeOK, queue
      <4> QED
        BY <1>0, <2>0, <3>3, <3>6, <4>1 DEF WorkersTyped
    <3>7. ASSUME At(w, "done") \/ At(w, "fail") PROVE WorkersTyped'
      BY <1>0, <2>1, <3>5, <3>7, WorkerMoves DEF UploadRead
    <3> QED
      BY <2>1, <3>2, <3>4, <3>6, <3>7, Untouched DEF TInv, UploadRead, requests
  <2>2. CASE UploadPut(w)
    <3>1. noise' \subseteq Noise
      BY <1>0, <2>2, OnceType DEF FilesTyped, UploadPut
    <3>2. FilesTyped'
      BY <1>0, <2>0, <2>2, <3>1 DEF FilesTyped, UploadPut, livekit, requests
    <3>3. WorkersTyped'
      BY <1>0, <2>2, WorkerMoves DEF UploadPut
    <3> QED
      BY <2>2, <3>2, <3>3, Untouched DEF TInv, UploadPut, requests
  <2>3. CASE UploadRemove(w)
    <3>1. FilesTyped'
      BY <1>0, <2>3 DEF FilesTyped, UploadRemove, livekit, requests
    <3>2. WorkersTyped'
      BY <1>0, <2>3, WorkerMoves DEF UploadRemove
    <3> QED
      BY <2>3, <3>1, <3>2, Untouched DEF TInv, UploadRemove, requests
  <2>4. CASE UploadUpdate(w)
    <3>1. noise' \subseteq Noise
      BY <1>0, <2>4, OnceType DEF FilesTyped, UploadUpdate, Sql
    <3> DEFINE r == [st |-> "ready", key |-> TRUE, path |-> ~Removes(wk[w].cfg)]
    <3>2. r \in Row
      BY DEF Row, Status
    <3>3. vod' = vod \/ vod' = [vod EXCEPT ![job[w]] = r]
      BY <2>4 DEF UploadUpdate, Sql
    <3> HIDE DEF r
    <3>4. FilesTyped'
      BY <1>0, <2>4, <3>1, <3>2, <3>3 DEF FilesTyped, UploadUpdate, livekit, requests
    <3>5. \E pc \in {"variants", "done", "fail"} : At(w, pc)
      BY <2>4 DEF UploadUpdate, Sql
    <3>6. WorkersTyped'
      BY <1>0, <2>4, <3>5, WorkerMoves DEF UploadUpdate
    <3> QED
      BY <2>4, <3>4, <3>6, Untouched DEF TInv, UploadUpdate, requests
  <2>5. CASE UploadVariants(w)
    <3>1. wk[w].cfg.delete \in BOOLEAN
      BY <2>0 DEF Config
    <3>2. TranscodeTyped'
      BY <1>0, <2>0, <2>5, <3>1, TranscodeType DEF UploadVariants
    <3>3. WorkersTyped'
      BY <1>0, <2>5, WorkerMoves DEF UploadVariants
    <3> QED
      BY <2>5, <3>2, <3>3, Untouched DEF TInv, UploadVariants, requests, history
  <2>6. CASE UploadFail(w)
    <3>1. FilesTyped'
      BY <1>0, <2>0, <2>6, SqlStatusType DEF UploadFail, requests, Status
    <3>2. WorkersTyped'
      BY <1>0, <2>6, WorkerMoves DEF UploadFail
    <3> QED
      BY <2>6, <3>1, <3>2, Untouched DEF TInv, UploadFail, requests
  <2>7. CASE UploadDone(w)
    <3>1. AtRest \in WorkerState /\ AtRest.pc = "idle"
      BY DEF AtRest, WorkerState, Config
    <3>2. QueueTypeOK' /\ \A u \in Worker : u # w => job'[u] = job[u]
      BY <1>0, <2>7 DEF UploadDone, Finish, QueueTypeOK
    <3>3. WorkersTyped'
      BY <1>0, <2>7, <3>1, <3>2 DEF UploadDone, WorkersTyped
    <3> QED
      BY <2>7, <3>3, Untouched DEF TInv, UploadDone, requests, history
  <2> QED
    BY <1>2, <2>1, <2>2, <2>3, <2>4, <2>5, <2>6, <2>7 DEF WorkerStep
<1> QED
  BY <1>1, <1>2

\* So do a send to the upload queue and an egress that ends.
LEMMA QueueTypes ==
    ASSUME TInv, NEW v \in Job, UploadSend(v) \/ Ended(v) PROVE TInv'
<1>0. FilesTyped /\ WorkersTyped /\ QueueTypeOK
  BY DEF TInv, WorkersTyped
<1>1. CASE UploadSend(v)
  <2>1. QueueTypeOK' /\ UNCHANGED job
    BY SMT, <1>0, <1>1 DEF UploadSend, Send, QueueTypeOK
  <2>2. WorkersTyped'
    BY <1>0, <1>1, <2>1 DEF UploadSend, WorkersTyped
  <2> QED
    BY <1>1, <2>2, Untouched DEF TInv, UploadSend, requests, history
<1>2. CASE Ended(v)
  <2>1. FilesTyped'
    BY <1>0, <1>2, EndEgressType DEF FilesTyped, Ended, history
  <2> QED
    BY <1>2, <2>1, Untouched DEF TInv, Ended
<1> QED
  BY <1>1, <1>2

\* So do the steps of the transcoder.
LEMMA TranscodeTypes ==
    ASSUME TInv, TranscodeStep PROVE TInv'
<1>0. FilesTyped /\ TranscodeTyped
  BY DEF TInv
<1>1. xq # <<>> /\ Head(xq) \in TranscodeJob /\ Tail(xq) \in Seq(TranscodeJob)
  <2>1. xq # <<>> \/ xpc \in {"run", "null"}
    BY DEF TranscodeStep, TranscodeTake, TranscodeRun, TranscodeNull
  <2>2. xq # <<>> /\ xq \in Seq(TranscodeJob)
    BY <1>0, <2>1 DEF TranscodeTyped
  <2> QED
    BY SMT, <2>2
<1>2. CASE TranscodeTake
  <2>1. TranscodeTyped'
    BY <1>0, <1>1, <1>2 DEF TranscodeTyped, TranscodeTake
  <2> QED
    BY <1>2, <2>1, Untouched DEF TInv, TranscodeTake, requests, history
<1>3. CASE TranscodeRun
  <2>1. TranscodeTyped'
    BY <1>0, <1>1, <1>3 DEF TranscodeTyped, TranscodeRun
  <2>2. FilesTyped'
    BY <1>0, <1>3 DEF FilesTyped, TranscodeRun, livekit, requests
  <2> QED
    BY <1>3, <2>1, <2>2, Untouched DEF TInv, TranscodeRun, requests
<1>4. CASE TranscodeNull
  <2>1. TranscodeTyped'
    BY <1>0, <1>1, <1>4 DEF TranscodeTyped, TranscodeNull
  <2>2. Head(xq).v \in Job
    BY <1>1 DEF TranscodeJob
  <2>3. noise' \subseteq Noise
    BY <1>0, <1>4, OnceType DEF FilesTyped, TranscodeNull, Sql
  <2> DEFINE r == [vod[Head(xq).v] EXCEPT !.path = FALSE]
  <2>4. r \in Row
    BY <1>0, <2>2 DEF FilesTyped, Row
  <2>5. vod' = vod \/ vod' = [vod EXCEPT ![Head(xq).v] = r]
    BY <1>4 DEF TranscodeNull, Sql
  <2> HIDE DEF r
  <2>6. FilesTyped'
    BY <1>0, <1>4, <2>2, <2>3, <2>4, <2>5
       DEF FilesTyped, TranscodeNull, livekit, requests
  <2> QED
    BY <1>4, <2>1, <2>6, Untouched DEF TInv, TranscodeNull, requests
<1> QED
  BY <1>2, <1>3, <1>4 DEF TranscodeStep

\* So do the steps of the recovery at boot.
LEMMA RecoverTypes ==
    ASSUME TInv, RecoverStep \/ RecoverFails PROVE TInv'
<1>0. /\ WorkersTyped /\ TranscodeTyped /\ BootTyped /\ QueueTypeOK
      /\ boot.todo \subseteq Job
  BY DEF TInv, WorkersTyped, BootTyped
<1>2. CASE RecoverList
  <2>1. BootTyped'
    BY <1>0, <1>2 DEF RecoverList, BootTyped, ListRows
  <2> QED
    BY <1>2, <2>1, Untouched DEF TInv, RecoverList, booting, transcode
<1>3. CASE RecoverUpload
  <2>1. BootTyped'
    BY <1>0, <1>3 DEF RecoverUpload, BootTyped, Part
  <2>2. QueueTypeOK' /\ UNCHANGED job
    BY <1>0, <1>3 DEF RecoverUpload, Enqueue, QueueTypeOK, queue
  <2>3. WorkersTyped'
    BY <1>0, <1>3, <2>2 DEF RecoverUpload, WorkersTyped, booting
  <2> QED
    BY <1>3, <2>1, <2>3, Untouched DEF TInv, RecoverUpload, booting, transcode
<1>4. CASE RecoverReady
  <2>1. BootTyped'
    BY <1>0, <1>4 DEF RecoverReady, BootTyped, ListRows, NoBoot, Part
  <2> QED
    BY <1>4, <2>1, Untouched DEF TInv, RecoverReady, booting, transcode
<1>5. CASE RecoverVariants
  <2>1. BootTyped'
    <3>1. CASE boot.todo = {}
      BY SMT, <1>5, <3>1 DEF RecoverVariants, BootTyped, NoBoot, Part
    <3>2. CASE boot.todo # {}
      <4>1. \E v \in boot.todo : boot' = [boot EXCEPT !.todo = boot.todo \ {v}]
        BY <1>5, <3>2 DEF RecoverVariants
      <4> QED
        BY <1>0, <4>1 DEF BootTyped
    <3> QED
      BY <3>1, <3>2
  <2>2. TranscodeTyped'
    BY <1>0, <1>5, TranscodeType, Untouched DEF RecoverVariants, transcode, booting
  <2> QED
    BY <1>5, <2>1, <2>2, Untouched DEF TInv, RecoverVariants, booting
<1>6. CASE RecoverFails
  <2>0. boot' = NoBoot \/ boot' = [boot EXCEPT !.ph = "uploads"]
    BY <1>6 DEF RecoverFails
  <2>1. BootTyped'
    BY SMT, <1>0, <2>0 DEF BootTyped, NoBoot, Part
  <2>2. noise' \subseteq Noise
    BY <1>6, RecordingAssumption DEF RecoverFails, TInv, FilesTyped
  <2>3. FilesTyped'
    BY <1>6, <2>2 DEF RecoverFails, TInv, FilesTyped, files, livekit
  <2> QED
    BY <1>6, <2>1, <2>3, Untouched DEF TInv, RecoverFails
<1> QED
  BY <1>2, <1>3, <1>4, <1>5, <1>6 DEF RecoverStep

\* So does a restart of the core.
LEMMA RestartTypes ==
    ASSUME TInv, Restart PROVE TInv'
<1>1. FilesTyped'
  BY OnceType DEF TInv, FilesTyped, Restart, files, livekit
<1>2. SessionTyped'
  BY DEF Restart, SessionTyped, Session, Launching, Part
<1>3. HandlersTyped'
  BY DEF Restart, HandlersTyped, Handler, Idle, Part
<1>4. WorkersTyped'
  <2>1. QueueTypeOK'
    BY ForgetKeeps DEF Restart, IInv
  <2> QED
    BY <2>1 DEF Restart, WorkersTyped, WorkerState, AtRest, Config
<1>5. TranscodeTyped' /\ BootTyped'
  BY SMT DEF Restart, TranscodeTyped, BootTyped, NoBoot, Part
<1> QED
  BY <1>1, <1>2, <1>3, <1>4, <1>5 DEF TInv

\* The types hold initially.
LEMMA TypeInit == Init => TInv
<1> SUFFICES ASSUME Init PROVE TInv
  OBVIOUS
<1>1. FilesTyped
  BY DEF Init, FilesTyped, Row, Status, EgressState
<1>2. SessionTyped
  BY DEF Init, SessionTyped, Session, Launching, Part
<1>3. HandlersTyped
  BY DEF Init, HandlersTyped, Handler, Idle, Part
<1>4. WorkersTyped
  <2>1. QueueTypeOK
    BY InitHolds DEF Init, IInv
  <2> QED
    BY <2>1 DEF Init, WorkersTyped, WorkerState, AtRest, Config
<1>5. TranscodeTyped /\ BootTyped
  BY SMT DEF Init, TranscodeTyped, BootTyped, NoBoot, Part
<1> QED
  BY <1>1, <1>2, <1>3, <1>4, <1>5 DEF TInv

\* Every step keeps the types.
LEMMA TypeNext == TInv /\ [Next]_vars => TInv'
<1> SUFFICES ASSUME TInv, [Next]_vars PROVE TInv'
  BY SMT
<1>1. CASE UNCHANGED vars
  BY <1>1, Untouched DEF TInv, vars
<1>2. CASE Edit
  <2>1. FilesTyped'
    BY <1>2, OnceType DEF TInv, FilesTyped, Edit, files, livekit
  <2> QED
    BY <1>2, <2>1, Untouched DEF TInv, Edit
<1> QED
  BY <1>1, <1>2, SessionTypes, HandlerTypes, ArrivalTypes, WorkerTypes, QueueTypes,
     TranscodeTypes, RecoverTypes, RestartTypes
     DEF Next

\* The recordings keep to their types: a job, a handler and a launch always
\* name a part.
THEOREM Typing == Spec => []TypeOK
<1>1. TInv => TypeOK
  BY DEF TInv, TypeOK, FilesTyped, SessionTyped, HandlersTyped, WorkersTyped,
         TranscodeTyped, BootTyped
<1> QED
  BY <1>1, TypeInit, TypeNext, PTL DEF Spec

-----------------------------------------------------------------------------
(* The upload queue inside the service *)

\* What the service does to its queue are steps of the queue: it enqueues
\* parts, and a worker takes and finishes jobs as the queue says.
LEMMA QueueSteps ==
    ASSUME TInv, [Next]_vars PROVE [QueueNext]_queue
<1>1. CASE UNCHANGED queue
  BY <1>1
<1>2. ASSUME NEW p \in Request, EnqueueUpload(p) PROVE QueueNext
  BY <1>2 DEF EnqueueUpload, TInv, HandlersTyped, QueueNext
<1>3. ASSUME NEW w \in Worker, UploadTake(w) \/ UploadDone(w) PROVE QueueNext
  BY <1>3 DEF UploadTake, UploadDone, QueueNext
<1>4. ASSUME NEW v \in Job, UploadSend(v) PROVE QueueNext
  BY <1>4 DEF UploadSend, QueueNext
<1>5. CASE RecoverUpload
  <2>1. boot.todo \subseteq Job
    BY DEF TInv, BootTyped
  <2> QED
    BY <1>1, <1>5, <2>1 DEF RecoverUpload, QueueNext
<1>6. CASE Restart
  BY <1>6 DEF Restart, QueueNext
<1>7. CASE UNCHANGED vars \/ Start \/ Rotate \/ SessionStep \/ TranscodeStep \/ Edit
  BY <1>1, <1>7
     DEF vars, Start, Rotate, SessionStep, Launch, Insert, Undo, SetCurrent, RotateStop,
         jobs, TranscodeStep, TranscodeTake, TranscodeRun, TranscodeNull, Edit
<1>8. ASSUME NEW p \in Request, HandlerStep(p), ~EnqueueUpload(p) PROVE UNCHANGED queue
  BY <1>8
     DEF HandlerStep, SetUploading, EgressFailed, ClearSession, StopCurrent, DeleteS3,
         DeleteLocal, DeleteRow
<1>9. ASSUME NEW p \in Request, \/ \E m \in hooks : Receive(p, m)
                                \/ \E v \in Job : Stop(p, v) \/ Delete(p, v)
      PROVE  UNCHANGED queue
  BY <1>9 DEF Receive, Stop, Delete
<1>10. ASSUME NEW w \in Worker, WorkerStep(w), ~UploadDone(w) PROVE UNCHANGED queue
  BY <1>10
     DEF WorkerStep, UploadRead, UploadPut, UploadRemove, UploadUpdate, UploadVariants,
         UploadFail
<1>11. ASSUME NEW v \in Job, Ended(v) PROVE UNCHANGED queue
  BY <1>11 DEF Ended
<1>12. CASE (RecoverStep /\ ~RecoverUpload) \/ RecoverFails
  BY <1>1, <1>12
     DEF RecoverStep, RecoverList, RecoverReady, RecoverVariants, RecoverFails
<1> QED
  BY <1>1, <1>2, <1>3, <1>4, <1>5, <1>6, <1>7, <1>8, <1>9, <1>10, <1>11, <1>12 DEF Next

\* The recordings implement the queue of UploadQueue.
THEOREM UsesTheQueue == Spec => QueueSpec
<1>1. Init => QueueInit
  BY DEF Init
<1>2. TInv /\ [Next]_vars => [QueueNext]_queue
  BY QueueSteps
<1> QED
  BY <1>1, <1>2, TypeInit, TypeNext, PTL DEF Spec, QueueSpec

\* In the running service too no job is in two places, and none is pending
\* in none.
THEOREM ServiceJobsInOnePlace == Spec => []OnePlace
  BY UsesTheQueue, JobsAreInOnePlace, PTL

-----------------------------------------------------------------------------
(* RecordingSurvives.  Once an upload has put the part, all that follows    *)
(* takes it that the part is in S3: the worker past the upload, the queue   *)
(* of the transcode jobs and the second half of Recover.  Nothing takes it  *)
(* from there but a deletion, and that one was asked for.                   *)

Stored(v) == egress[v] = "complete" => v \in disk \cup s3
RowTrue(v) == vod[v].st = "ready" \/ (Exists(v) /\ ~vod[v].path) => v \in s3
UploadSure(v) ==
    \A w \in Worker : job[w] = v /\ wk[w].pc \in {"remove", "update", "variants"}
                        => v \in s3
TranscodeSure(v) == \A k \in 1 .. Len(xq) : xq[k].v = v => v \in s3
RecoverSure(v) == boot.ph = "variants" /\ v \in boot.todo => v \in s3
Unasked(v) ==
    \A p \in Request : h[p].v = v => h[p].pc \notin {"delS3", "delLocal", "delRow"}

Safe(v) == /\ Stored(v) /\ RowTrue(v) /\ UploadSure(v)
           /\ TranscodeSure(v) /\ RecoverSure(v) /\ Unasked(v)

SafeInv == \A v \in Job \ asked : Safe(v)

\* What a step leaves alone stays true, as long as the part stays in S3.
LEMMA SafeUntouched ==
    ASSUME NEW v \in Job, v \in s3 => v \in s3'
    PROVE  /\ Stored(v) /\ UNCHANGED <<egress, disk>> => Stored(v)'
           /\ RowTrue(v) /\ UNCHANGED vod => RowTrue(v)'
           /\ UploadSure(v) /\ UNCHANGED <<queue, wk>> => UploadSure(v)'
           /\ TranscodeSure(v) /\ UNCHANGED xq => TranscodeSure(v)'
           /\ RecoverSure(v) /\ UNCHANGED boot => RecoverSure(v)'
           /\ Unasked(v) /\ UNCHANGED h => Unasked(v)'
<1>1. UploadSure(v) /\ UNCHANGED <<queue, wk>> => UploadSure(v)'
  BY DEF UploadSure, queue
<1>2. RowTrue(v) /\ UNCHANGED vod => RowTrue(v)'
  BY DEF RowTrue, Exists
<1> QED
  BY <1>1, <1>2 DEF Stored, TranscodeSure, RecoverSure, Unasked

\* StopEgress, and an egress that ends, leave the MP4 on disk.
LEMMA StopEgressSafe ==
    ASSUME TInv, NEW v \in Job, Stored(v), v \in s3 => v \in s3', NEW u \in Job,
           \/ StopEgress(u)
           \/ \E ev \in {"complete", "failed"} : EndEgress(u, ev)
           \/ UNCHANGED <<livekit, disk>>
    PROVE  Stored(v)'
<1>1. ASSUME NEW ev \in {"complete", "failed"}, EndEgress(u, ev) PROVE Stored(v)'
  BY <1>1 DEF TInv, FilesTyped, EndEgress, Stored
<1>2. CASE UNCHANGED <<livekit, disk>>
  BY <1>2, SafeUntouched DEF livekit
<1> QED
  BY <1>1, <1>2 DEF StopEgress

\* The steps of the room's recording session lose no part.
LEMMA SessionSafe ==
    ASSUME TInv, NEW v \in Job, Safe(v), Start \/ Rotate \/ SessionStep
    PROVE  Safe(v)'
<1>0. UNCHANGED jobs
  BY DEF Start, Rotate, SessionStep, Launch, Insert, Undo, SetCurrent, RotateStop
<1>1. SUFFICES Stored(v)' /\ RowTrue(v)'
  BY <1>0, <1>1, SafeUntouched DEF Safe, jobs, transcode
<1>2. v \in s3 => v \in s3'
  BY <1>0 DEF jobs
<1>3. CASE Start \/ Rotate \/ SetCurrent
  BY <1>2, <1>3, SafeUntouched DEF Safe, Start, Rotate, SetCurrent, livekit
<1>4. CASE Launch
  <2>1. \/ egress' = egress
        \/ \E u \in Job, st \in {"running", "lost"} : egress' = [egress EXCEPT ![u] = st]
    BY <1>4 DEF Launch, Unused
  <2>2. Stored(v)'
    BY <1>2, <1>4, <2>1 DEF Safe, Stored, Launch, TInv, FilesTyped
  <2> QED
    BY <1>2, <1>4, <2>2, SafeUntouched DEF Safe, Launch
<1>5. CASE Insert
  <2> DEFINE r == [st |-> "recording", path |-> TRUE, key |-> FALSE]
  <2>1. vod' = vod \/ vod' = [vod EXCEPT ![sess.next] = r]
    BY <1>5 DEF Insert, Sql
  <2>2. vod'[v] = vod[v] \/ vod'[v] = r
    BY <2>1 DEF TInv, FilesTyped
  <2>3. RowTrue(v)'
    BY SMT, <1>2, <2>2 DEF Safe, RowTrue, Exists
  <2> QED
    BY <1>2, <1>5, <2>3, SafeUntouched DEF Safe, Insert, livekit
<1>6. CASE Undo
  <2>1. sess.next \in Job
    BY <1>6 DEF TInv, SessionTyped, Undo, Launching
  <2>2. Stored(v)'
    BY <1>2, <1>6, <2>1, StopEgressSafe DEF Undo, Safe
  <2> QED
    BY <1>2, <1>6, <2>2, SafeUntouched DEF Safe, Undo
<1>7. CASE RotateStop
  <2>1. sess.cur \in Job
    BY <1>7 DEF TInv, SessionTyped, RotateStop
  <2>2. Stored(v)'
    BY <1>2, <1>7, <2>1, StopEgressSafe DEF RotateStop, Safe
  <2> QED
    BY <1>2, <1>7, <2>2, SafeUntouched DEF Safe, RotateStop
<1> QED
  BY <1>3, <1>4, <1>5, <1>6, <1>7 DEF SessionStep

\* A status other than ready asserts nothing new.
LEMMA StatusSafe ==
    ASSUME TInv, NEW v \in Job, RowTrue(v), v \in s3 => v \in s3', NEW u \in Job,
           NEW st \in Status \ {"ready"}, Sql(SetStatus(u, st), TRUE)
    PROVE  RowTrue(v)'
<1>1. CASE UNCHANGED vod
  BY <1>1, SafeUntouched
<1>2. CASE SetStatus(u, st)
  <2>1. /\ vod'[v].path = vod[v].path
        /\ \/ vod'[v].st = vod[v].st
           \/ v = u /\ Exists(v) /\ vod'[v].st = st
    BY SMT, <1>2, SetStatusType DEF TInv, FilesTyped
  <2> QED
    BY <2>1 DEF RowTrue, Exists
<1> QED
  BY <1>1, <1>2 DEF Sql

\* A goroutine that moves on deletes nothing it was not deleting.
LEMMA MoveSafe ==
    ASSUME TInv, NEW v \in Job, Unasked(v), NEW p \in Request, NEW pc,
           \/ End(p)
           \/ /\ Go(p, pc)
              /\ pc \in {"delLocal", "delRow"} => h[p].v # v
              /\ pc # "delS3"
    PROVE  Unasked(v)'
<1>0. v # NoJob /\ h \in [Request -> Handler]
  BY QueueAssumption DEF TInv, HandlersTyped
<1>1. CASE End(p)
  BY <1>0, <1>1 DEF End, Idle, Unasked
<1>2. CASE /\ Go(p, pc)
           /\ pc \in {"delLocal", "delRow"} => h[p].v # v
           /\ pc # "delS3"
  <2>1. \A q \in Request : h'[q].v = h[q].v /\ h'[q].pc = IF q = p THEN pc ELSE h[q].pc
    BY <1>0, <1>2 DEF Go, Handler
  <2> QED
    BY <1>2, <2>1 DEF Unasked
<1> QED
  BY <1>1, <1>2

\* Nor do those of requests and webhooks.
LEMMA HandlerSafe ==
    ASSUME TInv, NEW v \in Job, Safe(v), NEW p \in Request, HandlerStep(p)
    PROVE  Safe(v)'
<1>0. h[p].v \in Job
  BY DEF TInv, HandlersTyped, HandlerStep, SetUploading, EnqueueUpload, EgressFailed,
         ClearSession, StopCurrent, DeleteS3, DeleteLocal, DeleteRow
<1>1. ASSUME SetUploading(p) \/ EgressFailed(p) \/ DeleteRow(p) PROVE Safe(v)'
  <2>1. v \in s3 => v \in s3'
    BY <1>1 DEF SetUploading, EgressFailed, DeleteRow
  <2>2. \E st \in Status \ {"ready"} : Sql(SetStatus(h[p].v, st), TRUE)
    BY <1>1 DEF SetUploading, EgressFailed, DeleteRow, Status
  <2>3. RowTrue(v)'
    BY <1>0, <2>1, <2>2, StatusSafe DEF Safe
  <2>4. Unasked(v)'
    BY <1>1, MoveSafe DEF Safe, SetUploading, EgressFailed, DeleteRow
  <2> QED
    BY <1>1, <2>1, <2>3, <2>4, SafeUntouched
       DEF Safe, SetUploading, EgressFailed, DeleteRow, livekit, uploads, transcode
<1>2. CASE EnqueueUpload(p)
  <2>1. v \in s3 => v \in s3'
    BY <1>2 DEF EnqueueUpload, files
  <2>2. Unasked(v)'
    BY <1>2, MoveSafe DEF Safe, EnqueueUpload
  <2>3. UNCHANGED <<job, wk>>
    BY <1>2 DEF EnqueueUpload, Enqueue, queue, uploads
  <2>4. UploadSure(v)'
    BY <2>1, <2>3 DEF Safe, UploadSure
  <2> QED
    BY <1>2, <2>1, <2>2, <2>4, SafeUntouched
       DEF Safe, EnqueueUpload, files, livekit, uploads, transcode
<1>3. CASE ClearSession(p)
  <2>1. v \in s3 => v \in s3'
    BY <1>3 DEF ClearSession, files
  <2>2. Unasked(v)'
    BY <1>3, MoveSafe DEF Safe, ClearSession
  <2> QED
    BY <1>3, <2>1, <2>2, SafeUntouched
       DEF Safe, ClearSession, files, livekit, uploads, transcode
<1>4. CASE StopCurrent(p)
  <2>1. v \in s3 => v \in s3'
    BY <1>4 DEF StopCurrent
  <2>2. Unasked(v)'
    BY <1>4, MoveSafe DEF Safe, StopCurrent
  <2>3. Stored(v)'
    BY <1>0, <1>4, <2>1, StopEgressSafe DEF Safe, StopCurrent
  <2> QED
    BY <1>4, <2>1, <2>2, <2>3, SafeUntouched DEF Safe, StopCurrent, uploads, transcode
<1>5. CASE DeleteS3(p)
  <2>1. h[p].v # v
    BY <1>5 DEF Safe, Unasked, DeleteS3
  <2>2. v \in s3 => v \in s3'
    BY <1>5, <2>1 DEF DeleteS3
  <2>3. Unasked(v)'
    BY <1>5, <2>1, MoveSafe DEF Safe, DeleteS3
  <2> QED
    BY <1>5, <2>2, <2>3, SafeUntouched DEF Safe, DeleteS3, livekit, uploads, transcode
<1>6. CASE DeleteLocal(p)
  <2>1. h[p].v # v
    BY <1>6 DEF Safe, Unasked, DeleteLocal
  <2>2. v \in s3 => v \in s3'
    BY <1>6 DEF DeleteLocal
  <2>3. Unasked(v)'
    BY <1>6, <2>1, MoveSafe DEF Safe, DeleteLocal
  <2>4. Stored(v)'
    BY <1>6, <2>1, <2>2 DEF Safe, Stored, DeleteLocal, livekit
  <2> QED
    BY <1>6, <2>2, <2>3, <2>4, SafeUntouched DEF Safe, DeleteLocal, uploads, transcode
<1> QED
  BY <1>1, <1>2, <1>3, <1>4, <1>5, <1>6 DEF HandlerStep

\* Only Delete begins a deletion, and it says so.
LEMMA ArrivalSafe ==
    ASSUME TInv, NEW v \in Job, Safe(v), v \notin asked', NEW p \in Request,
           \/ \E m \in hooks : Receive(p, m)
           \/ \E u \in Job : Stop(p, u) \/ Delete(p, u)
    PROVE  Safe(v)'
<1>0. h \in [Request -> Handler] /\ Unasked(v) /\ Idle.pc = "idle"
  BY DEF TInv, HandlersTyped, Safe, Idle
<1>1. ASSUME NEW m \in hooks, Receive(p, m) PROVE Safe(v)'
  <2>1. \A q \in Request : h'[q] = h[q] \/ h'[q].pc \in {"fail", "uploading"}
    BY <1>0, <1>1 DEF Receive, Idle
  <2>2. Unasked(v)'
    BY <1>0, <2>1 DEF Unasked
  <2> QED
    BY <1>1, <2>2, SafeUntouched DEF Safe, Receive, files, uploads, transcode
<1>2. ASSUME NEW u \in Job, Stop(p, u) PROVE Safe(v)'
  <2>1. \A q \in Request : h'[q] = h[q] \/ h'[q].pc \in {"clear", "stop"}
    BY <1>0, <1>2 DEF Stop, Idle
  <2>2. Unasked(v)'
    BY <1>0, <2>1 DEF Unasked
  <2> QED
    BY <1>2, <2>2, SafeUntouched DEF Safe, Stop, files, livekit, uploads, transcode
<1>3. ASSUME NEW u \in Job, Delete(p, u) PROVE Safe(v)'
  <2>1. u # v /\ \A q \in Request : h'[q] = h[q] \/ h'[q].v = u
    BY <1>0, <1>3 DEF Delete
  <2>2. Unasked(v)'
    BY <1>0, <2>1 DEF Unasked
  <2> QED
    BY <1>3, <2>2, SafeUntouched DEF Safe, Delete, files, livekit, uploads, transcode
<1> QED
  BY <1>1, <1>2, <1>3

\* A worker is past the upload only with its job in S3.
LEMMA WorkerSafe ==
    ASSUME TInv, NEW v \in Job, Safe(v), NEW w \in Worker,
           UploadTake(w) \/ WorkerStep(w)
    PROVE  Safe(v)'
<1>0. /\ WorkersTyped /\ job \in [Worker -> Job \cup {NoJob}]
      /\ wk \in [Worker -> WorkerState] /\ vod \in [Job -> Row]
  BY DEF TInv, WorkersTyped, QueueTypeOK, FilesTyped
<1>1. CASE UploadTake(w)
  <2>1. \A u \in Worker : u # w => job'[u] = job[u] /\ wk'[u] = wk[u]
    BY <1>0, <1>1 DEF UploadTake, Take, At
  <2>2. wk'[w].pc = "read"
    BY <1>0, <1>1 DEF UploadTake, At, WorkerState
  <2>3. v \in s3 => v \in s3'
    BY <1>1 DEF UploadTake, files
  <2>4. UploadSure(v)'
    BY <2>1, <2>2, <2>3 DEF Safe, UploadSure
  <2> QED
    BY <1>1, <2>3, <2>4, SafeUntouched
       DEF Safe, UploadTake, files, livekit, requests, transcode
<1>2. ASSUME NEW pc, At(w, pc), UNCHANGED job,
             pc \in {"remove", "update", "variants"} => (job[w] = v => v \in s3'),
             v \in s3 => v \in s3'
      PROVE  UploadSure(v)'
  <2>1. \A u \in Worker : u # w => wk'[u] = wk[u]
    BY <1>0, <1>2 DEF At
  <2>2. wk'[w].pc = pc
    BY <1>0, <1>2 DEF At, WorkerState
  <2> QED
    BY <1>2, <2>1, <2>2 DEF Safe, UploadSure
<1>3. CASE UploadRead(w)
  <2>1. v \in s3 => v \in s3'
    BY <1>3 DEF UploadRead, files
  <2>2. UNCHANGED job
    BY <1>3 DEF UploadRead, queue
  <2>3. \A u \in Worker : wk'[u] = wk[u] \/ wk'[u].pc \in {"done", "fail", "put"}
    BY SMT, <1>0, <1>3 DEF UploadRead, At, WorkerState
  <2>4. UploadSure(v)'
    BY <2>1, <2>2, <2>3 DEF Safe, UploadSure
  <2> QED
    BY <1>3, <2>1, <2>4, SafeUntouched
       DEF Safe, UploadRead, files, livekit, requests, transcode
<1>4. CASE UploadPut(w)
  <2>1. v \in s3 => v \in s3'
    BY <1>4 DEF UploadPut
  <2>2. UNCHANGED job
    BY <1>4 DEF UploadPut, queue
  <2>3. \/ At(w, "fail")
        \/ /\ \E pc \in {"remove", "update"} : At(w, pc)
           /\ job[w] \in s3'
    BY <1>4 DEF UploadPut
  <2>4. UploadSure(v)'
    BY <1>2, <2>1, <2>2, <2>3
  <2> QED
    BY <1>4, <2>1, <2>4, SafeUntouched DEF Safe, UploadPut, livekit, requests, transcode
<1>5. CASE UploadRemove(w)
  <2>1. v \in s3 => v \in s3'
    BY <1>5 DEF UploadRemove
  <2>2. job[w] = v => v \in s3
    BY <1>5 DEF UploadRemove, Safe, UploadSure
  <2>3. UploadSure(v)'
    BY <1>2, <1>5, <2>1, <2>2 DEF UploadRemove, queue
  <2>4. Stored(v)'
    BY <1>5, <2>1, <2>2 DEF UploadRemove, Safe, Stored, livekit
  <2> QED
    BY <1>5, <2>1, <2>3, <2>4, SafeUntouched DEF Safe, UploadRemove, requests, transcode
<1>6. CASE UploadUpdate(w)
  <2>1. v \in s3 => v \in s3'
    BY <1>6 DEF UploadUpdate
  <2>2. job[w] = v => v \in s3
    BY <1>6 DEF UploadUpdate, Safe, UploadSure
  <2>3. \E pc \in {"variants", "done", "fail"} : At(w, pc)
    BY <1>6 DEF UploadUpdate, Sql
  <2>4. UploadSure(v)'
    BY <1>2, <1>6, <2>1, <2>2, <2>3 DEF UploadUpdate, queue
  <2>5. job[w] # v => vod'[v] = vod[v]
    BY <1>0, <1>6 DEF UploadUpdate, Sql
  <2>6. RowTrue(v)'
    BY <2>1, <2>2, <2>5 DEF Safe, RowTrue, Exists
  <2> QED
    BY <1>6, <2>1, <2>4, <2>6, SafeUntouched
       DEF Safe, UploadUpdate, livekit, requests, transcode
<1>7. CASE UploadVariants(w)
  <2>1. v \in s3 => v \in s3'
    BY <1>7 DEF UploadVariants, files
  <2>2. job[w] = v => v \in s3
    BY <1>7 DEF UploadVariants, Safe, UploadSure
  <2>3. UploadSure(v)'
    BY <1>2, <1>7, <2>1 DEF UploadVariants, queue
  <2>4. job[w] \in Job /\ wk[w].cfg.delete \in BOOLEAN
    BY <1>0, <1>7 DEF UploadVariants, WorkersTyped, WorkerState, Config
  <2>5. \A k \in 1 .. Len(xq') : \/ xq'[k].v = job[w]
                                 \/ \E l \in 1 .. Len(xq) : xq'[k] = xq[l]
    BY <1>7, <2>4, TranscodeType DEF UploadVariants, TInv
  <2>6. TranscodeSure(v)'
    BY <2>1, <2>2, <2>5 DEF Safe, TranscodeSure
  <2> QED
    BY <1>7, <2>1, <2>3, <2>6, SafeUntouched
       DEF Safe, UploadVariants, files, livekit, requests
<1>8. CASE UploadFail(w)
  <2>1. v \in s3 => v \in s3'
    BY <1>8 DEF UploadFail
  <2>2. UploadSure(v)'
    BY <1>2, <1>8, <2>1 DEF UploadFail, queue
  <2>3. job[w] \in Job
    BY <1>0, <1>8 DEF UploadFail, WorkersTyped
  <2>4. RowTrue(v)'
    BY <1>8, <2>1, <2>3, StatusSafe DEF Safe, UploadFail, Status
  <2> QED
    BY <1>8, <2>1, <2>2, <2>4, SafeUntouched
       DEF Safe, UploadFail, livekit, requests, transcode
<1>9. CASE UploadDone(w)
  <2>1. v \in s3 => v \in s3'
    BY <1>9 DEF UploadDone, files
  <2>2. \A u \in Worker : u # w => job'[u] = job[u] /\ wk'[u] = wk[u]
    BY <1>0, <1>9 DEF UploadDone, Finish
  <2>3. job'[w] = NoJob /\ NoJob # v
    BY <1>0, <1>9, QueueAssumption DEF UploadDone, Finish
  <2>4. UploadSure(v)'
    BY <2>1, <2>2, <2>3 DEF Safe, UploadSure
  <2> QED
    BY <1>9, <2>1, <2>4, SafeUntouched
       DEF Safe, UploadDone, files, livekit, requests, transcode
<1> QED
  BY <1>1, <1>3, <1>4, <1>5, <1>6, <1>7, <1>8, <1>9 DEF WorkerStep

\* The transcode job deletes a source that is in S3.
LEMMA TranscodeSafe ==
    ASSUME TInv, NEW v \in Job, Safe(v), TranscodeStep
    PROVE  Safe(v)'
<1>0. v \in s3 => v \in s3'
  BY DEF TranscodeStep, TranscodeTake, TranscodeRun, TranscodeNull, files
<1>1. xq # <<>> /\ xq \in Seq(TranscodeJob) /\ vod \in [Job -> Row]
  <2>1. xq # <<>> \/ xpc \in {"run", "null"}
    BY DEF TranscodeStep, TranscodeTake, TranscodeRun, TranscodeNull
  <2> QED
    BY <2>1 DEF TInv, TranscodeTyped, FilesTyped
<1>2. Head(xq).v = v => v \in s3
  BY SMT, <1>1 DEF Safe, TranscodeSure
<1>3. xq' = xq \/ xq' = Tail(xq)
  BY DEF TranscodeStep, TranscodeTake, TranscodeRun, TranscodeNull
<1>4. TranscodeSure(v)'
  <2>1. CASE xq' = xq
    BY <1>0, <2>1, SafeUntouched DEF Safe
  <2>2. CASE xq' = Tail(xq)
    <3>1. /\ Len(xq) \in Nat /\ Len(xq') = Len(xq) - 1
          /\ \A k \in 1 .. Len(xq') : xq'[k] = xq[k + 1]
      BY SMT, <1>1, <2>2
    <3> QED
      BY SMT, <1>0, <3>1 DEF Safe, TranscodeSure
  <2> QED
    BY <1>3, <2>1, <2>2
<1>5. CASE TranscodeTake
  BY <1>0, <1>4, <1>5, SafeUntouched DEF Safe, TranscodeTake, files, livekit, requests
<1>6. CASE TranscodeRun
  <2>1. Stored(v)'
    BY <1>0, <1>2, <1>6 DEF Safe, Stored, TranscodeRun, livekit
  <2> QED
    BY <1>0, <1>4, <1>6, <2>1, SafeUntouched DEF Safe, TranscodeRun, requests
<1>7. CASE TranscodeNull
  <2>1. Head(xq).v # v => vod'[v] = vod[v]
    BY <1>1, <1>7 DEF TranscodeNull, Sql
  <2>2. RowTrue(v)'
    BY <1>0, <1>2, <2>1 DEF Safe, RowTrue, Exists
  <2> QED
    BY <1>0, <1>4, <1>7, <2>2, SafeUntouched DEF Safe, TranscodeNull, livekit, requests
<1> QED
  BY <1>5, <1>6, <1>7 DEF TranscodeStep

\* Recover transcodes rows that are ready, and a new process has no jobs.
LEMMA RecoverSafe ==
    ASSUME TInv, NEW v \in Job, Safe(v), RecoverStep \/ RecoverFails \/ Restart
    PROVE  Safe(v)'
<1>1. boot.todo \subseteq Job
  BY DEF TInv, BootTyped
<1>2. v \in s3 => v \in s3'
  BY DEF RecoverStep, RecoverList, RecoverUpload, RecoverReady, RecoverVariants,
         RecoverFails, Restart, booting, files
<1>3. ASSUME UNCHANGED <<job, xq, booting>>, RecoverSure(v)' PROVE Safe(v)'
  <2>1. UploadSure(v)'
    BY <1>2, <1>3 DEF Safe, UploadSure, booting
  <2> QED
    BY <1>2, <1>3, <2>1, SafeUntouched DEF Safe, booting, files, livekit
<1>4. CASE RecoverList
  BY <1>3, <1>4 DEF RecoverList, RecoverSure, queue, TInv, BootTyped
<1>5. CASE RecoverUpload
  <2>1. RecoverSure(v)'
    BY <1>5 DEF RecoverUpload, RecoverSure, TInv, BootTyped
  <2>2. UNCHANGED job
    BY <1>5 DEF RecoverUpload, Enqueue, queue
  <2> QED
    BY <1>3, <1>5, <2>1, <2>2 DEF RecoverUpload
<1>6. CASE RecoverReady
  <2>1. v \in ListRows("ready") => v \in s3
    BY DEF ListRows, Safe, RowTrue
  <2>2. RecoverSure(v)'
    BY <1>2, <1>6, <2>1 DEF RecoverReady, RecoverSure, NoBoot, TInv, BootTyped
  <2> QED
    BY <1>3, <1>6, <2>2 DEF RecoverReady, queue
<1>7. CASE RecoverVariants
  <2>1. RecoverSure(v)'
    <3>1. boot'.ph = "off" \/ (boot'.ph = boot.ph /\ boot'.todo \subseteq boot.todo)
      <4>1. CASE boot.todo = {}
        BY SMT, <1>7, <4>1 DEF RecoverVariants, NoBoot
      <4>2. CASE boot.todo # {}
        <5>1. \E u \in boot.todo : boot' = [boot EXCEPT !.todo = boot.todo \ {u}]
          BY <1>7, <4>2 DEF RecoverVariants
        <5> QED
          BY <5>1 DEF TInv, BootTyped
      <4> QED
        BY <4>1, <4>2
    <3> QED
      BY <1>2, <3>1 DEF RecoverSure, Safe
  <2>2. UNCHANGED job /\ UNCHANGED booting
    BY <1>7 DEF RecoverVariants, queue
  <2>3. CASE UNCHANGED xq
    BY <1>3, <2>1, <2>2, <2>3
  <2>4. ASSUME NEW u \in boot.todo, Transcode(u, TRUE) PROVE Safe(v)'
    <3>1. u = v => v \in s3
      BY <1>7 DEF RecoverVariants, Safe, RecoverSure
    <3>2. \A k \in 1 .. Len(xq') : \/ xq'[k].v = u
                                   \/ \E l \in 1 .. Len(xq) : xq'[k] = xq[l]
      BY <1>1, <2>2, <2>4, TranscodeType DEF TInv, booting
    <3>3. TranscodeSure(v)'
      BY <1>2, <3>1, <3>2 DEF Safe, TranscodeSure
    <3>4. UploadSure(v)'
      BY <1>2, <2>2 DEF Safe, UploadSure, booting
    <3> QED
      BY <1>2, <2>1, <2>2, <3>3, <3>4, SafeUntouched DEF Safe, booting, files, livekit
  <2> QED
    BY <1>7, <2>3, <2>4 DEF RecoverVariants
<1>8. CASE Restart
  <2>1. UploadSure(v)'
    BY <1>8 DEF Restart, UploadSure, AtRest
  <2>2. TranscodeSure(v)'
    <3>1. Len(xq') = 0
      BY <1>8 DEF Restart
    <3> QED
      BY SMT, <3>1 DEF TranscodeSure
  <2>3. RecoverSure(v)' /\ Unasked(v)'
    BY <1>8 DEF Restart, RecoverSure, Unasked, NoBoot, Idle
  <2> QED
    BY <1>2, <1>8, <2>1, <2>2, <2>3, SafeUntouched DEF Safe, Restart, files, livekit
<1>9. CASE RecoverFails
  <2>0. boot' = NoBoot \/ boot' = [boot EXCEPT !.ph = "uploads"]
    BY <1>9 DEF RecoverFails
  <2>1. RecoverSure(v)'
    BY SMT, <2>0 DEF RecoverSure, NoBoot, TInv, BootTyped
  <2> QED
    BY <1>2, <1>9, <2>1, SafeUntouched DEF Safe, RecoverFails, files, livekit, transcode
<1> QED
  BY <1>4, <1>5, <1>6, <1>7, <1>8, <1>9 DEF RecoverStep

\* There is no part to lose initially.
LEMMA SafeInit == Init => SafeInv
<1> SUFFICES ASSUME Init, NEW v \in Job PROVE Safe(v)
  BY DEF SafeInv
<1>1. Stored(v) /\ RowTrue(v) /\ RecoverSure(v)
  BY DEF Init, Stored, RowTrue, Exists, RecoverSure, NoBoot
<1>2. UploadSure(v) /\ Unasked(v)
  BY DEF Init, UploadSure, Unasked, AtRest, Idle
<1>3. TranscodeSure(v)
  <2>1. Len(xq) = 0
    BY DEF Init
  <2> QED
    BY SMT, <2>1 DEF TranscodeSure
<1> QED
  BY <1>1, <1>2, <1>3 DEF Safe

\* No step loses a part.
LEMMA SafeNext == TInv /\ SafeInv /\ [Next]_vars => SafeInv'
<1> SUFFICES ASSUME TInv, SafeInv, [Next]_vars, NEW v \in Job, v \notin asked'
             PROVE  Safe(v)'
  BY DEF SafeInv
<1>1. asked \subseteq asked'
  BY DEF Next, vars, history, Start, Rotate, SessionStep, Launch, Insert, Undo,
         SetCurrent, RotateStop, jobs, HandlerStep, SetUploading, EnqueueUpload,
         EgressFailed, ClearSession, StopCurrent, DeleteS3, DeleteLocal, DeleteRow,
         Receive, Stop, Delete, UploadTake, WorkerStep, UploadRead, UploadPut,
         UploadRemove, UploadUpdate, UploadVariants, UploadFail, UploadDone, requests,
         UploadSend, Ended, TranscodeStep, TranscodeTake, TranscodeRun, TranscodeNull,
         RecoverStep, RecoverList, RecoverUpload, RecoverReady, RecoverVariants, RecoverFails,
         booting, Restart, Edit
<1>2. Safe(v)
  BY <1>1 DEF SafeInv
<1>3. CASE UNCHANGED vars \/ Edit
  BY <1>2, <1>3, SafeUntouched DEF Safe, vars, Edit, files, livekit, transcode
<1>4. ASSUME NEW u \in Job, UploadSend(u) PROVE Safe(v)'
  <2>1. UNCHANGED <<job, wk>> /\ v \in s3 => v \in s3'
    BY <1>4 DEF UploadSend, Send, files
  <2>2. UploadSure(v)'
    BY <1>2, <1>4, <2>1 DEF Safe, UploadSure, UploadSend, Send, files
  <2> QED
    BY <1>2, <1>4, <2>2, SafeUntouched
       DEF Safe, UploadSend, files, livekit, requests, transcode
<1>5. ASSUME NEW u \in Job, Ended(u) PROVE Safe(v)'
  <2>1. Stored(v)'
    BY <1>2, <1>5, StopEgressSafe DEF Safe, Ended
  <2> QED
    BY <1>2, <1>5, <2>1, SafeUntouched DEF Safe, Ended, transcode
<1> QED
  BY <1>2, <1>3, <1>4, <1>5, SessionSafe, HandlerSafe, ArrivalSafe, WorkerSafe,
     TranscodeSafe, RecoverSafe
     DEF Next

\* No part that was recorded is lost before somebody asks for its deletion,
\* for any number of parts, workers and requests and any set of faults: a
\* file goes from disk only once S3 has it, through every crash between the
\* upload, removeLocal, the update of the row and the transcode job.
THEOREM NoPartLost == Spec => []RecordingSurvives
<1>1. SafeInv => RecordingSurvives
  BY DEF SafeInv, Safe, Stored, RowTrue, RecordingSurvives
<1> QED
  BY <1>1, TypeInit, TypeNext, SafeInit, SafeNext, PTL DEF Spec

-----------------------------------------------------------------------------
(* OpenSessionReaches.  Between the stop of the old part and the moment the *)
(* new one is current, only the new one records; what a restart or a Stop   *)
(* leaves behind is no session's.                                           *)

\* A session that neither Stop nor a restart has ended, and whose egresses
\* have always stopped when told to.
Followed == /\ "stop" \notin noise /\ ~Cancelled
            /\ ~(sess.pc = "idle" /\ sess.cur = NoJob)

OnlyTracked ==
    \A v \in Job : egress[v] = "running" =>
       /\ v = sess.cur \/ v = sess.next
       /\ sess.pc \in Launching \cup {"launch"} => v # sess.cur

\* The parts the session names were launched.
Begun == \A v \in Job : v = sess.cur \/ v = sess.next => egress[v] # "none"

TrackInv == Begun /\ (Followed => OnlyTracked)

\* Egresses only end, and the session stays: nothing to track is added.
LEMMA TrackQuiet ==
    ASSUME TrackInv, noise \subseteq noise', UNCHANGED sess,
           \A v \in Job : \/ egress'[v] = egress[v]
                          \/ egress'[v] \in {"complete", "failed"}
    PROVE  TrackInv'
<1>1. Followed' => Followed
  BY DEF Followed, Cancelled
<1> QED
  BY <1>1 DEF TrackInv, Begun, OnlyTracked

\* An egress told to stop has stopped, unless the call failed.
LEMMA StopEgressEnds ==
    ASSUME TInv, NEW u \in Job, StopEgress(u)
    PROVE  /\ noise \subseteq noise'
           /\ \A v \in Job : \/ egress'[v] = egress[v]
                             \/ egress'[v] \in {"complete", "failed"}
           /\ egress'[u] # "running" \/ "stop" \in noise'
  BY DEF TInv, FilesTyped, StopEgress, EndEgress, Once, livekit

\* The steps of the session keep its open part followed.
LEMMA TrackSession ==
    ASSUME TInv, TrackInv, Start \/ Rotate \/ SessionStep PROVE TrackInv'
<1>0. /\ sess \in Session /\ SessionTyped /\ NoJob \notin Job
      /\ egress \in [Job -> EgressState]
  BY QueueAssumption DEF TInv, SessionTyped, FilesTyped
<1> USE DEF Launching
<1>1. CASE Start
  <2>1. Followed' => Followed
    BY <1>0, <1>1 DEF Start, Followed, Cancelled, Session
  <2> QED
    BY <1>0, <1>1, <2>1
       DEF Start, TrackInv, Begun, OnlyTracked, livekit, SessionTyped, Session
<1>2. CASE Rotate
  <2>1. /\ sess'.cur = sess.cur /\ sess'.next = sess.next /\ sess'.live = sess.live
        /\ sess'.pc = "stop" /\ sess.live /\ UNCHANGED <<egress, noise>>
    BY <1>0, <1>2 DEF Rotate, Session, livekit
  <2>2. Followed' => Followed
    BY <1>0, <2>1 DEF Followed, Cancelled, SessionTyped
  <2> QED
    BY <2>1, <2>2 DEF TrackInv, Begun, OnlyTracked
<1>3. CASE Launch
  <2>1. ASSUME NEW u \in Unused, egress' = [egress EXCEPT ![u] = "running"],
               sess' = [sess EXCEPT !.pc = "insert", !.next = u], UNCHANGED noise
        PROVE  TrackInv'
    <3>1. u \in Job /\ u # sess.cur /\ sess.next = NoJob /\ sess.pc = "launch"
      BY <1>0, <1>3, <2>1 DEF TrackInv, Begun, Unused, Launch, SessionTyped
    <3>2. /\ sess'.cur = sess.cur /\ sess'.next = u /\ sess'.pc = "insert"
          /\ sess'.live = sess.live
      BY <1>0, <2>1 DEF Session
    <3>3. Followed' => Followed
      BY <2>1, <3>1, <3>2 DEF Followed, Cancelled
    <3>4. \A v \in Job : egress'[v] = IF v = u THEN "running" ELSE egress[v]
      BY <1>0, <2>1, <3>1
    <3> QED
      BY <1>0, <3>1, <3>2, <3>3, <3>4 DEF TrackInv, Begun, OnlyTracked
  <2>2. ASSUME Back, noise \subseteq noise',
               \A v \in Job : \/ egress'[v] = egress[v]
                              \/ egress[v] = "none" /\ egress'[v] = "lost"
        PROVE  TrackInv'
    <3>1. sess.next = NoJob /\ sess.pc = "launch"
      BY <1>0, <1>3 DEF Launch, SessionTyped
    <3>2. /\ sess'.cur = sess.cur /\ sess'.next = NoJob /\ sess'.live = sess.live
          /\ sess'.pc \in {"off", "idle"}
      BY <1>0, <2>2 DEF Back, Session
    <3>3. Followed' => Followed
      BY <2>2, <3>1, <3>2 DEF Followed, Cancelled
    <3> QED
      BY <1>0, <2>2, <3>1, <3>2, <3>3 DEF TrackInv, Begun, OnlyTracked
  <2>3. ASSUME NEW u \in Unused, egress' = [egress EXCEPT ![u] = "lost"]
        PROVE  \A v \in Job : \/ egress'[v] = egress[v]
                              \/ egress[v] = "none" /\ egress'[v] = "lost"
    BY <1>0, <2>3 DEF Unused
  <2> QED
    BY <1>3, <2>1, <2>2, <2>3 DEF Launch, Once
<1>4. CASE Insert
  <2>1. /\ sess'.cur = sess.cur /\ sess'.next = sess.next /\ sess'.live = sess.live
        /\ sess'.pc \in {"set", "undo"} /\ sess.pc = "insert"
    BY <1>0, <1>4 DEF Insert, Sql, Session
  <2>2. noise \subseteq noise' /\ UNCHANGED egress
    BY <1>4 DEF Insert, Sql, Once, livekit
  <2>3. Followed' => Followed
    BY <2>1, <2>2 DEF Followed, Cancelled
  <2> QED
    BY <2>1, <2>2, <2>3 DEF TrackInv, Begun, OnlyTracked
<1>5. CASE Undo
  <2>1. sess.next \in Job /\ sess.pc = "undo"
    BY <1>0, <1>5 DEF Undo, SessionTyped
  <2>2. /\ sess'.cur = sess.cur /\ sess'.next = NoJob /\ sess'.live = sess.live
        /\ sess'.pc \in {"off", "idle"}
    BY <1>0, <1>5 DEF Undo, Back, Session
  <2>3. CASE Cancelled
    <3>1. Cancelled' /\ UNCHANGED egress
      BY <1>5, <2>2, <2>3 DEF Cancelled, Undo, livekit
    <3> QED
      BY <1>0, <2>2, <3>1 DEF TrackInv, Begun, Followed
  <2>4. CASE ~Cancelled
    <3>1. StopEgress(sess.next)
      BY <1>5, <2>4 DEF Undo
    <3>2. /\ noise \subseteq noise'
          /\ \A v \in Job : \/ egress'[v] = egress[v]
                            \/ egress'[v] \in {"complete", "failed"}
          /\ egress'[sess.next] # "running" \/ "stop" \in noise'
      BY <2>1, <3>1, StopEgressEnds
    <3>3. Followed' => Followed
      BY <2>1, <2>4, <3>2 DEF Followed
    <3>4. Followed' => \A v \in Job : egress'[v] # "running"
      BY <2>1, <3>2, <3>3 DEF TrackInv, OnlyTracked, Followed
    <3> QED
      BY <1>0, <2>2, <3>2, <3>4 DEF TrackInv, Begun, OnlyTracked
  <2> QED
    BY <2>3, <2>4
<1>6. CASE SetCurrent
  <2>1. sess.next \in Job /\ sess.pc = "set" /\ UNCHANGED <<egress, noise>>
    BY <1>0, <1>6 DEF SetCurrent, SessionTyped, livekit
  <2>2. /\ sess'.cur = sess.next /\ sess'.next = NoJob /\ sess'.pc = "idle"
        /\ sess'.live = (sess.live \/ sess.cur = NoJob)
    BY <1>6 DEF SetCurrent
  <2>3. Followed' => Followed
    BY <1>0, <2>1, <2>2 DEF Followed, Cancelled
  <2> QED
    BY <1>0, <2>1, <2>2, <2>3 DEF TrackInv, Begun, OnlyTracked
<1>7. CASE RotateStop
  <2>1. sess.cur \in Job /\ sess.pc = "stop" /\ sess.next = NoJob
    BY <1>0, <1>7 DEF RotateStop, SessionTyped
  <2>2. /\ sess'.cur = sess.cur /\ sess'.next = NoJob /\ sess'.live = sess.live
        /\ sess'.pc = "launch"
    BY <1>0, <1>7, <2>1 DEF RotateStop, Session
  <2>3. CASE Cancelled
    <3>1. Cancelled' /\ UNCHANGED egress
      BY <1>7, <2>2, <2>3 DEF Cancelled, RotateStop, livekit
    <3> QED
      BY <1>0, <2>1, <2>2, <3>1 DEF TrackInv, Begun, Followed
  <2>4. CASE ~Cancelled
    <3>1. StopEgress(sess.cur)
      BY <1>7, <2>4 DEF RotateStop
    <3>2. /\ noise \subseteq noise'
          /\ \A v \in Job : \/ egress'[v] = egress[v]
                            \/ egress'[v] \in {"complete", "failed"}
          /\ egress'[sess.cur] # "running" \/ "stop" \in noise'
      BY <2>1, <3>1, StopEgressEnds
    <3>3. Followed' => Followed
      BY <2>1, <2>4, <3>2 DEF Followed
    <3>4. Followed' => \A v \in Job : egress'[v] # "running"
      BY <1>0, <2>1, <3>2, <3>3 DEF TrackInv, OnlyTracked, Followed
    <3> QED
      BY <1>0, <2>1, <2>2, <3>2, <3>4 DEF TrackInv, Begun, OnlyTracked
  <2> QED
    BY SMT, <2>3, <2>4
<1> QED
  BY <1>1, <1>2, <1>3, <1>4, <1>5, <1>6, <1>7 DEF SessionStep

\* Every step keeps the open session followed.
LEMMA TrackNext == TInv /\ TrackInv /\ [Next]_vars => TrackInv'
<1> SUFFICES ASSUME TInv, TrackInv, [Next]_vars PROVE TrackInv'
  OBVIOUS
<1>1. ASSUME UNCHANGED <<sess, egress>>, noise \subseteq noise' PROVE TrackInv'
  BY <1>1, TrackQuiet
<1>2. CASE UNCHANGED vars \/ TranscodeStep \/ RecoverStep \/ RecoverFails \/ Edit
  BY <1>1, <1>2
     DEF vars, livekit, history, TranscodeStep, TranscodeTake, TranscodeRun,
         TranscodeNull, requests, Sql, Once, RecoverStep, RecoverList, RecoverUpload,
         RecoverReady, RecoverVariants, RecoverFails, booting, Edit
<1>3. ASSUME NEW w \in Worker, UploadTake(w) \/ WorkerStep(w) PROVE TrackInv'
  BY <1>1, <1>3
     DEF UploadTake, WorkerStep, UploadRead, UploadPut, UploadRemove, UploadUpdate,
         UploadVariants, UploadFail, UploadDone, requests, livekit, Sql, Once
<1>4. ASSUME NEW u \in Job, UploadSend(u) PROVE TrackInv'
  BY <1>1, <1>4 DEF UploadSend, requests, livekit
<1>5. ASSUME NEW u \in Job, Ended(u) PROVE TrackInv'
  <2>1. \A v \in Job : egress'[v] = egress[v] \/ egress'[v] \in {"complete", "failed"}
    BY <1>5 DEF TInv, FilesTyped, Ended, EndEgress
  <2> QED
    BY <1>5, <2>1, TrackQuiet DEF Ended, history
<1>6. CASE Restart
  <2>1. ~Followed' /\ Begun'
    BY <1>6, QueueAssumption DEF Restart, Followed, Begun
  <2> QED
    BY <2>1 DEF TrackInv
<1>7. ASSUME NEW p \in Request, \/ \E m \in hooks : Receive(p, m)
                                \/ \E v \in Job : Stop(p, v) \/ Delete(p, v)
      PROVE  TrackInv'
  BY <1>1, <1>7 DEF Receive, Stop, Delete, Once, livekit
<1>8. ASSUME NEW p \in Request, HandlerStep(p) PROVE TrackInv'
  <2>1. CASE StopCurrent(p)
    <3>1. h[p].v \in Job
      BY <2>1 DEF StopCurrent, TInv, HandlersTyped
    <3> QED
      BY <2>1, <3>1, StopEgressEnds, TrackQuiet DEF StopCurrent
  <2>2. CASE ClearSession(p)
    <3>1. /\ sess'.cur = sess.cur /\ sess'.next = sess.next /\ sess'.pc = sess.pc
          /\ sess'.live = FALSE /\ UNCHANGED <<egress, noise>>
      BY <2>2 DEF ClearSession, TInv, SessionTyped, Session, livekit
    <3>2. Followed' => Followed
      BY <3>1 DEF Followed, Cancelled
    <3> QED
      BY <3>1, <3>2 DEF TrackInv, Begun, OnlyTracked
  <2>3. CASE ~StopCurrent(p) /\ ~ClearSession(p)
    BY <1>1, <1>8, <2>3
       DEF HandlerStep, SetUploading, EnqueueUpload, EgressFailed, DeleteS3,
           DeleteLocal, DeleteRow, livekit, Sql, Once
  <2> QED
    BY <2>1, <2>2, <2>3
<1> QED
  BY <1>2, <1>3, <1>4, <1>5, <1>6, <1>7, <1>8, TrackSession DEF Next

\* While its StopEgress calls succeed, Stop reaches all that an open session
\* records, for any number of parts and requests: no interleaving of the
\* rotation with webhooks, stops, restarts and failing statements leaves an
\* egress of the session recording that the session does not name.  A part
\* whose StartEgress was not answered is none of the session's.
THEOREM StopReachesSession == Spec => []OpenSessionReaches
<1>1. Init => TrackInv
  BY SMT, QueueAssumption DEF Init, TrackInv, Begun, OnlyTracked
<1>2. TInv /\ TrackInv => OpenSessionReaches
  BY QueueAssumption
     DEF TInv, SessionTyped, TrackInv, Followed, Cancelled, OnlyTracked,
         OpenSessionReaches
<1> QED
  BY <1>1, <1>2, TypeInit, TypeNext, TrackNext, PTL DEF Spec

-----------------------------------------------------------------------------
(* The queue implements JobPool.  The refinement needs OnePlace: that the   *)
(* job a worker receives runs nowhere else is what distinguishes it from    *)
(* one that is merely pending.                                              *)

INSTANCE FiniteSetTheorems

\* While a worker is idle, fewer jobs run than there are workers.
LEMMA RoomToRun ==
    ASSUME IInv, NEW w \in Worker, job[w] = NoJob
    PROVE  Cardinality(Running) < Workers
<1> DEFINE busy == {v \in Worker : job[v] # NoJob}
           f == [v \in busy |-> job[v]]
<1>1. IsFiniteSet(Worker) /\ Cardinality(Worker) = Workers
  BY SMT, QueueAssumption, FS_Interval DEF Worker
<1>2. /\ IsFiniteSet(Worker \ {w})
      /\ Cardinality(Worker \ {w}) = Workers - 1
  BY <1>1, FS_RemoveElement
<1>3. busy \in SUBSET (Worker \ {w})
  OBVIOUS
<1>4. IsFiniteSet(busy) /\ Cardinality(busy) <= Workers - 1
  BY SMT, <1>2, <1>3, FS_Subset
<1>5. f \in Surjection(busy, Running)
  BY DEF Surjection, Running, IInv, QueueTypeOK
<1>6. IsFiniteSet(Running) /\ Cardinality(Running) <= Cardinality(busy)
  BY <1>4, <1>5, FS_Surjection
<1>7. Cardinality(Running) \in Nat /\ Cardinality(busy) \in Nat
  BY <1>4, <1>6, FS_CardinalityType
<1> QED
  BY SMT, <1>4, <1>6, <1>7, QueueAssumption

\* Every step of the queue is a step of the pool, or none.
LEMMA StepMaps ==
    ASSUME IInv, [QueueNext]_queue
    PROVE  [Pool!Next]_<<pending \ Running, Running>>
<1>0. Running \subseteq pending /\ Running \subseteq Job
  BY DEF IInv, OnePlace, QueueTypeOK, Running
<1>1. ASSUME NEW j \in Job, Enqueue(j)
      PROVE  Pool!Next \/ UNCHANGED <<pending \ Running, Running>>
  <2>1. Running' = Running
    BY <1>1 DEF Enqueue, queue, Running
  <2>2. CASE j \in pending
    <3>1. pending' = pending
      BY <1>1, <2>2 DEF Enqueue, queue
    <3> QED
      BY <2>1, <3>1
  <2>3. CASE j \notin pending
    <3>1. pending' = pending \cup {j}
      BY <1>1, <2>3 DEF Enqueue
    <3>2. Pool!Accept(j)
      BY <1>0, <2>1, <2>3, <3>1 DEF Pool!Accept
    <3> QED
      BY <3>2 DEF Pool!Next
  <2> QED
    BY <2>2, <2>3
<1>2. ASSUME NEW j \in Job, Send(j)
      PROVE  UNCHANGED <<pending \ Running, Running>>
  BY <1>2 DEF Send, Running
<1>3. ASSUME NEW w \in Worker, Take(w) PROVE Pool!Next
  <2>1. job[w] = NoJob /\ pending' = pending
    BY <1>3 DEF Take
  <2>2. Head(ch) \in Queued /\ Running' = Running \cup {Head(ch)}
    BY <1>3, TakeKeeps
  <2>3. Head(ch) \in pending \ Running /\ Head(ch) \in Job
    BY <2>2 DEF IInv, OnePlace, QueueTypeOK
  <2>4. Pool!Cardinality(Running) < Workers
    BY <2>1, RoomToRun DEF Pool!Cardinality, Cardinality
  <2>5. Pool!Begin(Head(ch))
    BY <2>1, <2>2, <2>3, <2>4 DEF Pool!Begin
  <2> QED
    BY <2>3, <2>5 DEF Pool!Next
<1>4. ASSUME NEW w \in Worker, Finish(w) PROVE Pool!Next
  <2>1. /\ job[w] \in Running /\ Running' = Running \ {job[w]}
        /\ pending' = pending \ {job[w]}
    BY <1>4, FinishKeeps
  <2>2. Pool!Finish(job[w])
    BY <2>1 DEF Pool!Finish
  <2> QED
    BY <1>0, <2>1, <2>2 DEF Pool!Next
<1>5. CASE Forget
  BY <1>5, ForgetKeeps DEF Pool!Next, Pool!Forget
<1>6. CASE UNCHANGED queue
  BY <1>6 DEF queue, Running
<1> QED
  BY <1>1, <1>2, <1>3, <1>4, <1>5, <1>6 DEF QueueNext

\* The queue keeps what JobPool promises: a job id queued or running is not
\* added twice, jobs run once they have waited, and only so many at a time.
THEOREM QueueIsAPool == QueueSpec => ImplementsJobPool
<1>1. QueueInit => IInv /\ Pool!Init
  BY InitHolds DEF QueueInit, Pool!Init
<1>2. IInv /\ [QueueNext]_queue => IInv' /\ [Pool!Next]_<<pending \ Running, Running>>
  BY Inductive, StepMaps
<1> QED
  BY <1>1, <1>2, PTL DEF QueueSpec, ImplementsJobPool, Pool!Spec

\* In the running service too no part is uploaded by two workers at once.
THEOREM ServiceIsAPool == Spec => ImplementsJobPool
  BY UsesTheQueue, QueueIsAPool, PTL

=============================================================================
