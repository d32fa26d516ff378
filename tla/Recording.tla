----------------------------- MODULE Recording ------------------------------
(***************************************************************************)
(* The recordings of one split session: the egress that writes each part,  *)
(* the VOD row and the MP4 of the part, and the upload that moves it to S3 *)
(* (streamhub-core-go/internal/recording).  The uploads go through the     *)
(* queue of UploadQueue, whose jobs are the parts.                         *)
(*                                                                         *)
(* A part is named by its egress; its row is the one whose metatags hold   *)
(* that egress id.  Sessions share nothing but the queue.                  *)
(***************************************************************************)
EXTENDS UploadQueue, FiniteSetsExt

CONSTANTS
    MaxRequests, \* bound on requests and webhooks in flight
    MaxNoise,    \* bound on what happens of Env, each kind at most once
    Configs,     \* the configs the app may have
    Env          \* what a run lets happen around the service

\* dup: a webhook delivered again; sql: a failing statement; crash: the core
\* stops and starts again; edit: another config; delete: a VOD is deleted;
\* start, stop, s3: a failing StartEgress, StopEgress or S3 call; lost: a
\* StartEgress that fails although LiveKit has started the egress.
Noise == {"dup", "sql", "crash", "edit", "delete", "start", "stop", "s3",
          "lost"}

\* delete_local_after_upload, and whether post-transcode variants are on.
Config == [delete : BOOLEAN, variants : BOOLEAN]

ASSUME RecordingAssumption ==
    /\ Job \subseteq Nat /\ NoJob \in Nat
    /\ MaxRequests \in Nat /\ MaxNoise \in Nat
    /\ Configs \subseteq Config /\ Env \subseteq Noise

Request == 1 .. MaxRequests

VARIABLES
    config,   \* the app's config
    vod,      \* the vods row of each part
    disk,     \* the parts whose MP4 is on disk
    s3,       \* the parts whose MP4 is in S3
    egress,   \* LiveKit's egresses
    hooks,    \* the webhooks LiveKit has yet to deliver
    sess,     \* the session, and its start or rotation under way
    h,        \* the requests and webhooks in flight
    wk,       \* where each upload worker is in its job
    xq,       \* VodTranscode.queue, the running job first
    xpc,      \* where the transcode worker is
    boot,     \* Recover under way
    asked,    \* the parts a deletion was asked for
    noise     \* what happened of Env

files == <<vod, disk, s3>>
livekit == <<egress, hooks>>
transcode == <<xq, xpc>>
history == <<config, asked, noise>>
vars == <<queue, files, livekit, sess, h, wk, transcode, boot, history>>

-----------------------------------------------------------------------------
(* Types *)

Status == {"none", "recording", "uploading", "ready", "failed", "deleted"}

\* local_path and file_key: whether they are set.
Row == [st : Status, path : BOOLEAN, key : BOOLEAN]

Part == Job \cup {NoJob}

\* cur is currentEgressID, next the part being launched; live: the session
\* is in Service.sessions.
Session == [pc : {"off", "idle", "stop", "launch", "insert", "undo", "set"},
            cur : Part, next : Part, live : BOOLEAN]

Handler == [pc : {"idle", "uploading", "enqueue", "fail", "clear", "stop",
                  "delS3", "delLocal", "delRow"},
            v : Part, path : BOOLEAN, key : BOOLEAN]

WorkerState == [pc : {"idle", "read", "put", "remove", "update", "variants",
                      "fail", "done"},
                cfg : Config]

TranscodeJob == [v : Job, delete : BOOLEAN]

\* lost: it records, and the call that started it returned an error.
EgressState == {"none", "running", "lost", "complete", "failed"}

TypeOK ==
    /\ QueueTypeOK
    /\ vod \in [Job -> Row]
    /\ disk \subseteq Job /\ s3 \subseteq Job /\ asked \subseteq Job
    /\ egress \in [Job -> EgressState]
    /\ hooks \subseteq Job \X {"complete", "failed"}
    /\ sess \in Session
    /\ h \in [Request -> Handler]
    /\ wk \in [Worker -> WorkerState]
    /\ xq \in Seq(TranscodeJob) /\ xpc \in {"idle", "run", "null"}
    /\ boot \in [ph : {"off", "list", "uploads", "variants"},
                 todo : SUBSET Job, sent : Part]
    /\ noise \subseteq Noise /\ config \in Configs

Idle == [pc |-> "idle", v |-> NoJob, path |-> FALSE, key |-> FALSE]
AtRest == [pc |-> "idle", cfg |-> [delete |-> FALSE, variants |-> FALSE]]
NoBoot == [ph |-> "off", todo |-> {}, sent |-> NoJob]

Init ==
    /\ QueueInit
    /\ config \in Configs
    /\ vod = [v \in Job |-> [st |-> "none", path |-> FALSE, key |-> FALSE]]
    /\ disk = {} /\ s3 = {} /\ asked = {}
    /\ egress = [v \in Job |-> "none"]
    /\ hooks = {}
    /\ sess = [pc |-> "off", cur |-> NoJob, next |-> NoJob, live |-> FALSE]
    /\ h = [p \in Request |-> Idle]
    /\ wk = [w \in Worker |-> AtRest]
    /\ xq = <<>> /\ xpc = "idle"
    /\ boot = NoBoot
    /\ noise = {}

-----------------------------------------------------------------------------
(* LiveKit, the database and S3 *)

Exists(v) == vod[v].st \notin {"none", "deleted"}

\* Vods.Update: no row, no change; whatever the status is.
SetStatus(v, s) ==
    vod' = IF Exists(v) THEN [vod EXCEPT ![v].st = s] ELSE vod

\* What Env allows happens.
Once(kind) ==
    /\ kind \in Env \ noise /\ Cardinality(noise) < MaxNoise
    /\ noise' = noise \cup {kind}

\* The statement changes the rows, or fails.
Sql(step, failure) ==
    \/ step /\ UNCHANGED noise
    \/ failure /\ UNCHANGED vod /\ Once("sql")

\* An egress ends; the MP4 of one that completes is on disk.
EndEgress(v, ev) ==
    /\ egress' = [egress EXCEPT ![v] = ev]
    /\ hooks' = hooks \cup {<<v, ev>>}
    /\ disk' = IF ev = "complete" THEN disk \cup {v} ELSE disk

\* StopEgress with a live context: an error when the egress has ended.
StopEgress(v) ==
    \/ egress[v] = "running" /\ EndEgress(v, "complete") /\ UNCHANGED noise
    \/ egress[v] # "running" /\ UNCHANGED <<livekit, disk, noise>>
    \/ egress[v] = "running" /\ Once("stop") /\ UNCHANGED <<livekit, disk>>

\* The room ends, or the egress fails.
Ended(v) ==
    /\ egress[v] \in {"running", "lost"}
    /\ \E ev \in {"complete", "failed"} : EndEgress(v, ev)
    /\ UNCHANGED <<queue, vod, s3, sess, h, wk, transcode, boot, history>>

-----------------------------------------------------------------------------
(* The session: StartRecording, launchPart and rotate *)

jobs == <<queue, s3, h, wk, transcode, boot, config, asked>>

\* clearSession cancels the context that rotate and what it calls run on.
Cancelled == sess.cur # NoJob /\ ~sess.live

\* A launch that failed: there is no session, or the old part stays current.
Back == sess' = [sess EXCEPT !.pc = IF sess.cur = NoJob THEN "off" ELSE "idle",
                             !.next = NoJob]

Start ==
    /\ sess.pc = "off" /\ sess.cur = NoJob
    /\ sess' = [sess EXCEPT !.pc = "launch"]
    /\ UNCHANGED <<jobs, livekit, vod, disk, noise>>

Unused == {v \in Job : egress[v] = "none"}

\* StartEgress: a call that is not answered within requestTimeout is an
\* error, and the egress it started records all the same.
Launch ==
    /\ sess.pc = "launch"
    /\ \/ \E v \in Unused :
            /\ v = Min(Unused) /\ ~Cancelled
            /\ \/ /\ egress' = [egress EXCEPT ![v] = "running"]
                  /\ sess' = [sess EXCEPT !.pc = "insert", !.next = v]
                  /\ UNCHANGED noise
               \/ /\ egress' = [egress EXCEPT ![v] = "lost"]
                  /\ Back
                  /\ Once("lost")
       \/ /\ IF Cancelled \/ Unused = {} THEN UNCHANGED noise ELSE Once("start")
          /\ Back
          /\ UNCHANGED egress
    /\ UNCHANGED <<jobs, hooks, vod, disk>>

Insert ==
    /\ sess.pc = "insert"
    /\ \/ /\ ~Cancelled
          /\ Sql(/\ vod' = [vod EXCEPT ![sess.next] =
                             [st |-> "recording", path |-> TRUE, key |-> FALSE]]
                 /\ sess' = [sess EXCEPT !.pc = "set"],
                 sess' = [sess EXCEPT !.pc = "undo"])
       \/ /\ Cancelled
          /\ sess' = [sess EXCEPT !.pc = "undo"]
          /\ UNCHANGED <<vod, noise>>
    /\ UNCHANGED <<jobs, livekit, disk>>

\* Mutant: the egress of a row that was not inserted is left alone.
UndoNothing ==
    /\ sess.pc = "undo"
    /\ Back
    /\ UNCHANGED <<jobs, livekit, vod, disk, noise>>

\* safeStopEgress after a failed insert, on the context of the insert.
Undo ==
    /\ sess.pc = "undo"
    /\ IF Cancelled THEN UNCHANGED <<livekit, disk, noise>>
       ELSE StopEgress(sess.next)
    /\ Back
    /\ UNCHANGED <<jobs, vod>>

\* The new part is current; StartRecording registers the session.
SetCurrent ==
    /\ sess.pc = "set"
    /\ sess' = [pc |-> "idle", cur |-> sess.next, next |-> NoJob,
                live |-> sess.live \/ sess.cur = NoJob]
    /\ UNCHANGED <<jobs, livekit, vod, disk, noise>>

\* The ticker of the session.
Rotate ==
    /\ sess.pc = "idle" /\ sess.live
    /\ sess' = [sess EXCEPT !.pc = "stop"]
    /\ UNCHANGED <<jobs, livekit, vod, disk, noise>>

RotateStop ==
    /\ sess.pc = "stop"
    /\ IF Cancelled THEN UNCHANGED <<livekit, disk, noise>>
       ELSE StopEgress(sess.cur)
    /\ sess' = [sess EXCEPT !.pc = "launch"]
    /\ UNCHANGED <<jobs, vod>>

SessionStep == Launch \/ Insert \/ Undo \/ SetCurrent \/ RotateStop

-----------------------------------------------------------------------------
(* Webhooks: OnEgressEvent *)

uploads == <<wk, transcode, boot, config>>

\* Goroutines are alike: a new one takes the first free slot.
Free(p) == h[p].pc = "idle" /\ \A q \in Request : q < p => h[q].pc # "idle"

Go(p, pc) == h' = [h EXCEPT ![p].pc = pc]
End(p) == h' = [h EXCEPT ![p] = Idle]

\* locate: the row of the egress; for a row that was deleted the map
\* Service.egress may still know it.  Without either the event is dropped.
Receive(p, m) ==
    /\ Free(p)
    /\ \/ hooks' = hooks \ {m} /\ UNCHANGED noise
       \/ UNCHANGED hooks /\ Once("dup")
    /\ \/ /\ vod[m[1]].st # "none"
          /\ h' = [h EXCEPT ![p] =
                     [Idle EXCEPT !.v = m[1],
                                  !.pc = IF m[2] = "failed" THEN "fail"
                                         ELSE "uploading"]]
       \/ ~Exists(m[1]) /\ UNCHANGED h
    /\ UNCHANGED <<queue, files, egress, sess, uploads, asked>>

\* An error is logged and the job enqueued all the same.
SetUploading(p) ==
    /\ h[p].pc = "uploading"
    /\ Sql(SetStatus(h[p].v, "uploading"), TRUE)
    /\ Go(p, "enqueue")
    /\ UNCHANGED <<queue, disk, s3, livekit, sess, uploads, asked>>

EnqueueUpload(p) ==
    /\ h[p].pc = "enqueue"
    /\ Enqueue(h[p].v)
    /\ End(p)
    /\ UNCHANGED <<files, livekit, sess, uploads, asked, noise>>

\* Mutant: a status of its own for an egress that failed.
EgressFailedError(p) ==
    /\ h[p].pc = "fail"
    /\ Sql(SetStatus(h[p].v, "error"), TRUE)
    /\ End(p)
    /\ UNCHANGED <<queue, disk, s3, livekit, sess, uploads, asked>>

\* markFailed; recording_failed.
EgressFailed(p) ==
    /\ h[p].pc = "fail"
    /\ Sql(SetStatus(h[p].v, "failed"), TRUE)
    /\ End(p)
    /\ UNCHANGED <<queue, disk, s3, livekit, sess, uploads, asked>>

-----------------------------------------------------------------------------
(* Requests: StopRecording, StopForStream and DeleteVodCascade *)

\* Stop resolves a row and reads its session: the egress to stop is the
\* session's current one, or the row's own.  One that finds neither at work
\* would change nothing.
Stop(p, v) ==
    /\ Free(p) /\ Exists(v)
    /\ sess.live \/ egress[v] = "running"
    /\ h' = [h EXCEPT ![p] =
               IF sess.live THEN [Idle EXCEPT !.pc = "clear", !.v = sess.cur]
               ELSE [Idle EXCEPT !.pc = "stop", !.v = v]]
    /\ UNCHANGED <<queue, files, livekit, sess, uploads, asked, noise>>

ClearSession(p) ==
    /\ h[p].pc = "clear"
    /\ sess' = [sess EXCEPT !.live = FALSE]
    /\ Go(p, "stop")
    /\ UNCHANGED <<queue, files, livekit, uploads, asked, noise>>

StopCurrent(p) ==
    /\ h[p].pc = "stop"
    /\ StopEgress(h[p].v)
    /\ End(p)
    /\ UNCHANGED <<queue, vod, s3, sess, uploads, asked>>

\* Delete reads the row, by request or because it has expired.
Delete(p, v) ==
    /\ Free(p) /\ Exists(v)
    /\ h' = [h EXCEPT ![p] = [pc |-> "delS3", v |-> v, path |-> vod[v].path,
                              key |-> vod[v].key]]
    /\ asked' = asked \cup {v}
    /\ Once("delete")
    /\ UNCHANGED <<queue, files, livekit, sess, uploads>>

\* The S3 objects the row named, an error tolerated.
DeleteS3(p) ==
    /\ h[p].pc = "delS3"
    /\ \/ s3' = IF h[p].key THEN s3 \ {h[p].v} ELSE s3
       \/ UNCHANGED s3
    /\ Go(p, "delLocal")
    /\ UNCHANGED <<queue, vod, disk, livekit, sess, uploads, asked, noise>>

DeleteLocal(p) ==
    /\ h[p].pc = "delLocal"
    /\ disk' = IF h[p].path THEN disk \ {h[p].v} ELSE disk
    /\ Go(p, "delRow")
    /\ UNCHANGED <<queue, vod, s3, livekit, sess, uploads, asked, noise>>

DeleteRow(p) ==
    /\ h[p].pc = "delRow"
    /\ Sql(SetStatus(h[p].v, "deleted"), TRUE)
    /\ End(p)
    /\ UNCHANGED <<queue, disk, s3, livekit, sess, uploads, asked>>

HandlerStep(p) ==
    \/ SetUploading(p) \/ EnqueueUpload(p) \/ EgressFailed(p)
    \/ ClearSession(p) \/ StopCurrent(p)
    \/ DeleteS3(p) \/ DeleteLocal(p) \/ DeleteRow(p)

-----------------------------------------------------------------------------
(* The upload job: processUpload *)

requests == <<sess, h, boot, config, asked>>

At(w, pc) == wk' = [wk EXCEPT ![w].pc = pc]

\* Workers are alike: the first idle one receives.
UploadTake(w) ==
    /\ \A u \in Worker : u < w => job[u] # NoJob
    /\ Take(w)
    /\ At(w, "read")
    /\ UNCHANGED <<files, livekit, requests, transcode, noise>>

\* Mutant: the local file goes first.
UploadReadRemove(w) ==
    /\ wk[w].pc = "read"
    /\ wk' = [wk EXCEPT ![w] =
               [cfg |-> config, pc |-> IF ~Exists(job[w]) THEN "done"
                                       ELSE IF job[w] \notin disk THEN "fail"
                                       ELSE "put"]]
    /\ disk' = disk \ {job[w]}
    /\ UNCHANGED <<queue, vod, s3, livekit, requests, transcode, noise>>

\* A row that is missing or cannot be read ends the job; a missing file, or
\* a config that cannot be read, fails it.
UploadRead(w) ==
    /\ wk[w].pc = "read"
    /\ \/ /\ wk' = [wk EXCEPT ![w] =
                     [cfg |-> config,
                      pc |-> IF ~Exists(job[w]) THEN "done"
                             ELSE IF ~vod[job[w]].path \/ job[w] \notin disk
                                  THEN "fail" ELSE "put"]]
          /\ UNCHANGED noise
       \/ At(w, "done") /\ Once("sql")
       \/ Exists(job[w]) /\ At(w, "fail") /\ Once("sql")
    /\ UNCHANGED <<queue, files, livekit, requests, transcode>>

Removes(c) == c.delete /\ ~c.variants

UploadPut(w) ==
    /\ wk[w].pc = "put"
    /\ \/ /\ job[w] \in disk
          /\ s3' = s3 \cup {job[w]}
          /\ At(w, IF Removes(wk[w].cfg) THEN "remove" ELSE "update")
          /\ UNCHANGED noise
       \/ /\ IF job[w] \in disk THEN Once("s3") ELSE UNCHANGED noise
          /\ At(w, "fail")
          /\ UNCHANGED s3
    /\ UNCHANGED <<queue, vod, disk, livekit, requests, transcode>>

\* removeLocal, before the row says ready.
UploadRemove(w) ==
    /\ wk[w].pc = "remove"
    /\ disk' = disk \ {job[w]}
    /\ At(w, "update")
    /\ UNCHANGED <<queue, vod, s3, livekit, requests, transcode, noise>>

\* The row is ready; vod_ready.
UploadUpdate(w) ==
    /\ wk[w].pc = "update"
    /\ Sql(/\ vod' = IF ~Exists(job[w]) THEN vod
                     ELSE [vod EXCEPT ![job[w]] =
                             [st |-> "ready", key |-> TRUE,
                              path |-> ~Removes(wk[w].cfg)]]
           /\ At(w, IF wk[w].cfg.variants THEN "variants" ELSE "done"),
           At(w, "fail"))
    /\ UNCHANGED <<queue, disk, s3, livekit, requests, transcode>>

\* VodTranscode.Enqueue, which drops a job that is queued or running.
Transcode(v, del) ==
    xq' = IF \E k \in 1 .. Len(xq) : xq[k].v = v THEN xq
          ELSE Append(xq, [v |-> v, delete |-> del])

UploadVariants(w) ==
    /\ wk[w].pc = "variants"
    /\ Transcode(job[w], wk[w].cfg.delete)
    /\ At(w, "done")
    /\ UNCHANGED <<queue, files, livekit, requests, xpc, noise>>

\* markFailed; recording_failed.
UploadFail(w) ==
    /\ wk[w].pc = "fail"
    /\ Sql(SetStatus(job[w], "failed"), TRUE)
    /\ At(w, "done")
    /\ UNCHANGED <<queue, disk, s3, livekit, requests, transcode>>

UploadDone(w) ==
    /\ wk[w].pc = "done"
    /\ Finish(w)
    /\ wk' = [wk EXCEPT ![w] = AtRest]
    /\ UNCHANGED <<files, livekit, requests, transcode, noise>>

WorkerStep(w) ==
    \/ UploadRead(w) \/ UploadPut(w) \/ UploadRemove(w) \/ UploadUpdate(w)
    \/ UploadVariants(w) \/ UploadFail(w) \/ UploadDone(w)

\* The send at the end of enqueue.
UploadSend(v) ==
    /\ Send(v)
    /\ UNCHANGED <<files, livekit, requests, wk, transcode, noise>>

-----------------------------------------------------------------------------
(* The transcode job: ProcessJob *)

\* A job whose row or source is gone ends at once.
TranscodeTake ==
    /\ xpc = "idle" /\ xq # <<>>
    /\ IF Exists(Head(xq).v) /\ Head(xq).v \in disk
       THEN xpc' = "run" /\ UNCHANGED xq
       ELSE xq' = Tail(xq) /\ UNCHANGED xpc
    /\ UNCHANGED <<queue, files, livekit, requests, wk, noise>>

\* run and, whatever came of it, the source.
TranscodeRun ==
    /\ xpc = "run"
    /\ IF Head(xq).delete
       THEN /\ disk' = disk \ {Head(xq).v}
            /\ xpc' = "null" /\ UNCHANGED xq
       ELSE xpc' = "idle" /\ xq' = Tail(xq) /\ UNCHANGED disk
    /\ UNCHANGED <<queue, vod, s3, livekit, requests, wk, noise>>

\* local_path is NULL, whatever the row is by now.
TranscodeNull ==
    /\ xpc = "null"
    /\ LET v == Head(xq).v
       IN  Sql(vod' = IF Exists(v) THEN [vod EXCEPT ![v].path = FALSE] ELSE vod,
               TRUE)
    /\ xpc' = "idle" /\ xq' = Tail(xq)
    /\ UNCHANGED <<queue, disk, s3, livekit, requests, wk>>

TranscodeStep == TranscodeTake \/ TranscodeRun \/ TranscodeNull

-----------------------------------------------------------------------------
(* Restart: a new process, and Recover *)

Restart ==
    /\ Once("crash")
    /\ Forget
    /\ sess' = [pc |-> "idle", cur |-> NoJob, next |-> NoJob, live |-> FALSE]
    /\ h' = [p \in Request |-> Idle]
    /\ wk' = [w \in Worker |-> AtRest]
    /\ xq' = <<>> /\ xpc' = "idle"
    /\ boot' = [NoBoot EXCEPT !.ph = "list"]
    /\ UNCHANGED <<files, livekit, config, asked>>

booting == <<files, livekit, sess, h, wk, xpc, history>>

\* Vods.List, of which Recover uses the rows with a local_path.
ListRows(st) == {v \in Job : vod[v].st = st /\ vod[v].path}

RecoverList ==
    /\ boot.ph = "list"
    /\ boot' = [boot EXCEPT !.ph = "uploads", !.todo = ListRows("uploading")]
    /\ UNCHANGED <<queue, xq, booting>>

\* Mutant: the row is passed over.
RecoverUploadSkip ==
    /\ boot.ph = "uploads" /\ boot.todo # {}
    /\ boot' = [boot EXCEPT !.todo = @ \ {Min(boot.todo)}]
    /\ UNCHANGED <<queue, xq, booting>>

\* enqueue, which returns when the job is in the channel.
RecoverUpload ==
    /\ boot.ph = "uploads" /\ boot.sent \notin senders
    /\ \E v \in boot.todo :
         /\ v = Min(boot.todo)
         /\ IF v \in disk THEN Enqueue(v) ELSE UNCHANGED queue
         /\ boot' = [boot EXCEPT !.todo = @ \ {v},
                                 !.sent = IF v \in disk \ pending THEN v
                                          ELSE NoJob]
    /\ UNCHANGED <<xq, booting>>

\* The ready rows, if the source is the transcode job's to delete.
RecoverReady ==
    /\ boot.ph = "uploads" /\ boot.todo = {} /\ boot.sent \notin senders
    /\ boot' = IF config.delete /\ config.variants
               THEN [boot EXCEPT !.ph = "variants", !.todo = ListRows("ready"),
                                 !.sent = NoJob]
               ELSE NoBoot
    /\ UNCHANGED <<queue, xq, booting>>

RecoverVariants ==
    /\ boot.ph = "variants"
    /\ IF boot.todo = {} THEN boot' = NoBoot /\ UNCHANGED xq
       ELSE \E v \in boot.todo :
              /\ v = Min(boot.todo)
              /\ IF v \in disk THEN Transcode(v, TRUE) ELSE UNCHANGED xq
              /\ boot' = [boot EXCEPT !.todo = @ \ {v}]
    /\ UNCHANGED <<queue, booting>>

\* A query fails: Recover ends, or, where it is the one for the uploads, goes
\* on without them.  MaxNoise does not bound it, as a crash comes before.
RecoverFails ==
    /\ \/ boot.ph = "list" /\ boot' \in {NoBoot, [boot EXCEPT !.ph = "uploads"]}
       \/ /\ boot.ph = "uploads" /\ boot.todo = {} /\ boot.sent \notin senders
          /\ boot' = NoBoot
    /\ "sql" \in Env /\ noise' = noise \cup {"sql"}
    /\ UNCHANGED <<queue, files, livekit, sess, h, wk, transcode, config, asked>>

RecoverStep == RecoverList \/ RecoverUpload \/ RecoverReady \/ RecoverVariants

\* Somebody edits the config.
Edit ==
    /\ Once("edit")
    /\ config' \in Configs \ {config}
    /\ UNCHANGED <<queue, files, livekit, sess, h, wk, transcode, boot, asked>>

-----------------------------------------------------------------------------
Next ==
    \/ Start \/ Rotate \/ SessionStep
    \/ \E p \in Request :
         \/ HandlerStep(p)
         \/ \E m \in hooks : Receive(p, m)
         \/ \E v \in Job : Stop(p, v) \/ Delete(p, v)
    \/ \E w \in Worker : UploadTake(w) \/ WorkerStep(w)
    \/ \E v \in Job : UploadSend(v) \/ Ended(v)
    \/ TranscodeStep
    \/ RecoverStep \/ RecoverFails
    \/ Restart \/ Edit

\* What has begun goes on: some request, and some goroutine of the uploads
\* or of Recover, that can take a step takes one.  Nothing makes a client
\* send a request, the ticker fire or LiveKit end an egress or deliver a
\* webhook.
Fairness ==
    /\ WF_vars(\E p \in Request : HandlerStep(p))
    /\ WF_vars(\/ \E w \in Worker : UploadTake(w) \/ WorkerStep(w)
               \/ \E v \in Job : UploadSend(v)
               \/ RecoverStep)

Spec == Init /\ [][Next]_vars
FairSpec == Spec /\ Fairness

-----------------------------------------------------------------------------
(* Properties *)

\* Until somebody deletes it, a part that was recorded is on disk or in S3,
\* and in S3 once its row is ready or has lost its local_path: whatever
\* fails, restarts or is delivered twice between the upload, removeLocal,
\* the update of the row and the transcode job.
RecordingSurvives ==
    \A v \in Job \ asked :
       /\ egress[v] = "complete" => v \in disk \cup s3
       /\ vod[v].st = "ready" \/ (Exists(v) /\ ~vod[v].path) => v \in s3

\* While the session is open, all that records for it is the part Stop
\* would stop or the one being launched, unless a StopEgress failed.  That is
\* all a Stop can reach: the part of a StartEgress that returned an error
\* has no row, and nothing ends it before the room does.
OpenSessionReaches ==
    sess.live /\ "stop" \notin noise => \A v \in Job : egress[v] = "running" =>
                    v = sess.cur \/ v = sess.next

\* An upload that was cut off once its file was gone: Recover passes it over.
Stranded(v) ==
    vod[v].st = "uploading" /\ v \notin disk /\ v \notin pending

\* No VOD stays uploading for good, through restarts too: it becomes ready,
\* failed or deleted, unless it is stranded, a statement failed or a
\* webhook came twice.
UploadSettles ==
    \A v \in Job :
       []<>(\/ vod[v].st # "uploading"
            \/ Stranded(v)
            \/ noise \cap {"sql", "dup"} # {})
=============================================================================
