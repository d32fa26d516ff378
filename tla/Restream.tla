------------------------------ MODULE Restream ------------------------------
(***************************************************************************)
(* The restream destinations of one room: the rows of restream_targets,    *)
(* the requests that add, list and remove destinations, the webhooks of    *)
(* LiveKit that move them, and the timers that relaunch failed ones        *)
(* (streamhub-core-go/internal/restream).                                  *)
(*                                                                         *)
(* Nothing locks a row from one statement of a request to the next.  A     *)
(* request, a webhook or a retry is a handler in a slot of h: each of its  *)
(* SQL statements, LiveKit calls and uses of the map egressApp is a step.  *)
(* Rooms share nothing, so one is enough.                                  *)
(***************************************************************************)
EXTENDS Naturals, FiniteSets, FiniteSetsExt

CONSTANTS
    Url,         \* the RTMP URLs destinations are added for
    MaxId,       \* bound on the rows inserted
    MaxEgress,   \* bound on the egresses LiveKit starts
    MaxRequests, \* bound on requests and webhooks in flight
    MaxRetriers, \* bound on retries in flight
    MaxTargets,  \* maxTargetsPerRoom
    RetryLimit,  \* retryLimit
    MaxFaults,   \* bound on restarts, failing statements and lost answers
    Env          \* what a run lets happen around the service

\* dup: a webhook delivered again; room: one that names its room; sql: a
\* failing statement; lk: a failing LiveKit call; lost: a start call that
\* fails although LiveKit has started the egress; restart: the core stops
\* and starts again.  A webhook that is lost is one that is never received.
EnvKinds == {"dup", "room", "sql", "lk", "lost", "restart"}

ASSUME BoundsAssumption ==
    /\ MaxId \in Nat /\ MaxEgress \in Nat /\ MaxFaults \in Nat
    /\ MaxTargets \in Nat /\ RetryLimit \in Nat \ {0}
    /\ MaxRequests \in Nat /\ MaxRetriers \in Nat
ASSUME UrlAssumption == Url # {}
ASSUME EnvAssumption == Env \subseteq EnvKinds

Id == 1 .. MaxId
Egress == 1 .. MaxEgress
Request == 1 .. MaxRequests
Retrier == MaxRequests + 1 .. MaxRequests + MaxRetriers
Slot == Request \cup Retrier

VARIABLES
    row,        \* restream_targets, by id
    egressApp,  \* Service.egressApp: the egresses whose app is known
    timers,     \* the retry timers armed for each row
    closed,     \* Service.closed
    h,          \* the handlers in flight
    egress,     \* LiveKit's egresses
    hooks,      \* the webhooks LiveKit has yet to deliver
    faults      \* restarts, failed statements and lost answers so far

memory == <<egressApp, timers, closed>>
livekit == <<egress, hooks>>
vars == <<row, memory, h, livekit, faults>>

-----------------------------------------------------------------------------
(* Types *)

Status == {"none", "starting", "active", "failed", "stopped"}
Live == {"starting", "active"}

\* EGRESS_ABORTED is handled as EGRESS_COMPLETE; nothing is recorded of
\* EGRESS_STARTING and EGRESS_ENDING.
Event == {"active", "failed", "limit", "complete"}

\* error is what onFailed wrote.
Target == [st : Status, url : Url, eg : Egress \cup {0}, retries : Nat,
           error : {"none"} \cup Event]

\* ours: the egress ended because Remove stopped it.
Webhook == [eg : Egress, ev : Event, ours : BOOLEAN]

Pc == {"idle", "count", "launch", "insert", "map",
       "listLive", "listSet",
       "mark", "stop",
       "app", "row", "active", "failed", "drop", "retry", "stopped", "fire",
       "relaunch", "bump", "again", "setEgress"}

\* A handler and what it read: the row, its status and its retries, the
\* egress and webhook at hand, and the rows a List has to upgrade.
Handler == [pc : Pc, url : Url, id : Id \cup {0}, eg : Egress \cup {0},
            live : BOOLEAN, n : Nat, ev : Event, ours : BOOLEAN,
            todo : SUBSET (Id \X (Egress \cup {0}))]

\* id is the row an egress was launched for, 0 until Add inserts it.  The
\* service does not know of an egress whose start call failed: id stays 0,
\* and lost is the row whose retry made the call.
Push == [st : {"none", "starting", "active", "ended"},
         url : Url, id : Id \cup {0}, lost : Id \cup {0}]

TypeOK ==
    /\ row \in [Id -> Target]
    /\ egressApp \subseteq Egress
    /\ timers \in [Id -> Nat]
    /\ closed \in BOOLEAN
    /\ h \in [Slot -> Handler]
    /\ egress \in [Egress -> Push]
    /\ hooks \subseteq Webhook
    /\ faults \in 0 .. MaxFaults

AnyUrl == CHOOSE u \in Url : TRUE
NoRow == [st |-> "none", url |-> AnyUrl, eg |-> 0, retries |-> 0,
          error |-> "none"]
Idle == [pc |-> "idle", url |-> AnyUrl, id |-> 0, eg |-> 0, live |-> FALSE,
         n |-> 0, ev |-> "active", ours |-> FALSE, todo |-> {}]

Init ==
    /\ row = [i \in Id |-> NoRow]
    /\ egressApp = {}
    /\ timers = [i \in Id |-> 0]
    /\ closed = FALSE
    /\ h = [p \in Slot |-> Idle]
    /\ egress = [e \in Egress |-> [st |-> "none", url |-> AnyUrl, id |-> 0,
                                   lost |-> 0]]
    /\ hooks = {}
    /\ faults = 0

-----------------------------------------------------------------------------
(* Repository *)

\* SetStatus: no condition on the status the row has.
SetStatus(i, s, err) ==
    row' = [row EXCEPT ![i].st = s, ![i].error = err]

\* ByEgressID: the newest row of the egress.
ByEgressID(e) == {i \in Id : row[i].st # "none" /\ row[i].eg = e}

FindLiveByURL(u) == {i \in Id : row[i].st \in Live /\ row[i].url = u}
CountLiveByRoom == Cardinality({i \in Id : row[i].st \in Live})
NewId == {i \in Id : row[i].st = "none"}

-----------------------------------------------------------------------------
(* LiveKit, from how the service calls it *)

Unused == {e \in Egress : egress[e].st = "none"}

\* StartStreamEgress for row i: the next egress id.
StartStreamEgress(e, u, i) ==
    /\ e = Min(Unused)
    /\ egress' = [egress EXCEPT ![e] = [st |-> "starting", url |-> u, id |-> i,
                                       lost |-> 0]]

Running(e) == egress[e].st \in {"starting", "active"}

\* StopEgress: an error for an egress that has ended.
StopEgress(e) ==
    IF Running(e)
    THEN /\ egress' = [egress EXCEPT ![e].st = "ended"]
         /\ hooks' = hooks \cup
              {[eg |-> e, ev |-> "complete", ours |-> TRUE]}
    ELSE UNCHANGED livekit

\* An egress reaches its destination, or ends by itself.
Reported(e) ==
    /\ UNCHANGED <<row, memory, h, faults>>
    /\ \/ /\ egress[e].st = "starting"
          /\ egress' = [egress EXCEPT ![e].st = "active"]
          /\ hooks' = hooks \cup {[eg |-> e, ev |-> "active", ours |-> FALSE]}
       \/ /\ Running(e)
          /\ egress' = [egress EXCEPT ![e].st = "ended"]
          /\ \E ev \in Event \ {"active"} :
               hooks' = hooks \cup {[eg |-> e, ev |-> ev, ours |-> FALSE]}

-----------------------------------------------------------------------------
(* Requests *)

Go(p, pc) == h' = [h EXCEPT ![p].pc = pc]
End(p) == h' = [h EXCEPT ![p] = Idle]

Fault(kind) ==
    /\ kind \in Env
    /\ faults < MaxFaults
    /\ faults' = faults + 1

\* Goroutines are alike: a new one takes the first free slot.
Free(p, slots) ==
    /\ h[p].pc = "idle"
    /\ \A q \in slots : q < p => h[q].pc # "idle"

Adding == {"count", "launch", "insert"}

\* LiveKit starts no more egresses than MaxEgress.
StartFails == "lk" \in Env \/ Unused = {}

\* StartStreamEgress for row i is not answered within requestTimeout: an
\* error for the service, a push for the destination.
StartTimesOut(u, i) ==
    /\ Fault("lost")
    /\ \E e \in Unused :
         /\ e = Min(Unused)
         /\ egress' = [egress EXCEPT ![e] =
                         [st |-> "starting", url |-> u, id |-> 0, lost |-> i]]

\* Add: a destination that is live already is refused.  The bound on the
\* rows leaves one for every Add in flight.
Add(p, u) ==
    /\ Free(p, Request)
    /\ Cardinality(NewId) > Cardinality({q \in Request : h[q].pc \in Adding})
    /\ FindLiveByURL(u) = {}
    /\ h' = [h EXCEPT ![p] = [Idle EXCEPT !.pc = "count", !.url = u]]
    /\ UNCHANGED <<row, memory, livekit, faults>>

AddCount(p) ==
    /\ h[p].pc = "count"
    /\ IF CountLiveByRoom >= MaxTargets THEN End(p) ELSE Go(p, "launch")
    /\ UNCHANGED <<row, memory, livekit, faults>>

AddLaunch(p) ==
    /\ h[p].pc = "launch"
    /\ \/ /\ \E e \in Unused :
               /\ StartStreamEgress(e, h[p].url, 0)
               /\ h' = [h EXCEPT ![p].pc = "insert", ![p].eg = e]
          /\ UNCHANGED faults
       \/ StartFails /\ End(p) /\ UNCHANGED <<egress, faults>>
       \/ StartTimesOut(h[p].url, 0) /\ End(p)
    /\ UNCHANGED <<row, memory, hooks>>

\* Insert, which reads the row back.
AddInsert(p) ==
    /\ h[p].pc = "insert"
    /\ \E i \in NewId :
         /\ i = Min(NewId)
         /\ row' = [row EXCEPT ![i] =
                      [NoRow EXCEPT !.st = "starting", !.url = h[p].url,
                                    !.eg = h[p].eg]]
         /\ egress' = [egress EXCEPT ![h[p].eg].id = i]
    /\ \/ Go(p, "map") /\ UNCHANGED faults
       \/ Fault("sql") /\ End(p)
    /\ UNCHANGED <<memory, hooks>>

\* setEgressApp, the last step of Add and of a retry; restream_started.
MapEgress(p) ==
    /\ h[p].pc = "map"
    /\ egressApp' = egressApp \cup {h[p].eg}
    /\ End(p)
    /\ UNCHANGED <<row, timers, closed, livekit, faults>>

\* List: reads the rows and goes on when one is starting.
List(p) ==
    /\ Free(p, Request)
    /\ LET starting == {i \in Id : row[i].st = "starting"}
       IN  /\ starting # {}
           /\ h' = [h EXCEPT ![p] =
                      [Idle EXCEPT !.pc = "listLive",
                                   !.todo = {<<i, row[i].eg>> : i \in starting}]]
    /\ UNCHANGED <<row, memory, livekit, faults>>

\* refreshFromLiveKit: ListStreamEgress, and the rows it shows active.
ListLive(p) ==
    /\ h[p].pc = "listLive"
    /\ \/ LET todo == {t \in h[p].todo : egress[t[2]].st = "active"}
          IN  h' = [h EXCEPT ![p] =
                      IF todo = {} THEN Idle
                      ELSE [@ EXCEPT !.pc = "listSet", !.todo = todo]]
       \/ "lk" \in Env /\ End(p)
    /\ UNCHANGED <<row, memory, livekit, faults>>

\* The newest row first; a failing SetStatus is ignored.
ListSet(p) ==
    /\ h[p].pc = "listSet"
    /\ \E t \in h[p].todo :
         /\ \A o \in h[p].todo : o[1] <= t[1]
         /\ \/ SetStatus(t[1], "active", "none") /\ UNCHANGED faults
            \/ Fault("sql") /\ UNCHANGED row
         /\ h' = [h EXCEPT ![p] = IF @.todo = {t} THEN Idle
                                  ELSE [@ EXCEPT !.todo = h[p].todo \ {t}]]
    /\ UNCHANGED <<memory, livekit>>

\* Remove: by egress id.
Remove(p, e) ==
    /\ Free(p, Request)
    /\ \E i \in ByEgressID(e) :
         /\ i = Max(ByEgressID(e))
         /\ h' = [h EXCEPT ![p] =
                    [Idle EXCEPT !.pc = "mark", !.id = i, !.eg = e,
                                 !.live = row[i].st \in Live]]
    /\ UNCHANGED <<row, memory, livekit, faults>>

\* Marked before the egress is stopped.  A webhook that still finds the
\* egress in the map finds a stopped row, so dropEgressApp is no step of
\* its own.
RemoveMark(p) ==
    /\ h[p].pc = "mark"
    /\ SetStatus(h[p].id, "stopped", "none")
    /\ egressApp' = egressApp \ {h[p].eg}
    /\ IF h[p].live THEN Go(p, "stop") ELSE End(p)
    /\ UNCHANGED <<timers, closed, livekit, faults>>

\* StopEgress, its error tolerated; restream_stopped.
RemoveStop(p) ==
    /\ h[p].pc = "stop"
    /\ \/ StopEgress(h[p].eg)
       \/ "lk" \in Env /\ UNCHANGED livekit
    /\ End(p)
    /\ UNCHANGED <<row, memory, faults>>

-----------------------------------------------------------------------------
(* Webhooks: onEgressEvent *)

\* The webhook reaches HandleEvent.  It stays in flight when its delivery
\* is repeated.
Receive(p, m) ==
    /\ Free(p, Request)
    /\ h' = [h EXCEPT ![p] = [Idle EXCEPT !.pc = "app", !.eg = m.eg,
                                          !.ev = m.ev, !.ours = m.ours]]
    /\ \/ hooks' = hooks \ {m}
       \/ "dup" \in Env /\ UNCHANGED hooks
    /\ UNCHANGED <<row, memory, egress, faults>>

\* The app comes from the room the webhook names, or from the map.
HookApp(p) ==
    /\ h[p].pc = "app"
    /\ \/ h[p].eg \in egressApp /\ Go(p, "row")
       \/ h[p].eg \notin egressApp /\ End(p)
       \/ "room" \in Env /\ Go(p, "row")
    /\ UNCHANGED <<row, memory, livekit, faults>>

\* What onEgressEvent does with a row in status s.
OnEgressEvent(ev, s) ==
    IF s = "stopped" THEN "idle"
    ELSE CASE ev = "active" -> IF s = "active" THEN "idle" ELSE "active"
           [] ev \in {"failed", "limit"} -> "failed"
           [] ev = "complete" -> IF s = "failed" THEN "idle" ELSE "stopped"

HookRow(p) ==
    /\ h[p].pc = "row"
    /\ \/ ByEgressID(h[p].eg) = {} /\ End(p)
       \/ \E i \in ByEgressID(h[p].eg) :
            /\ i = Max(ByEgressID(h[p].eg))
            /\ LET pc == OnEgressEvent(h[p].ev, row[i].st)
               IN  h' = [h EXCEPT ![p] =
                           IF pc = "idle" THEN Idle
                           ELSE [@ EXCEPT !.pc = pc, !.id = i,
                                          !.n = row[i].retries]]
    /\ UNCHANGED <<row, memory, livekit, faults>>

HookActive(p) ==
    /\ h[p].pc = "active"
    /\ SetStatus(h[p].id, "active", "none")
    /\ End(p)
    /\ UNCHANGED <<memory, livekit, faults>>

\* onFailed: the row, the map, then the callback and the retry.
HookFailed(p) ==
    /\ h[p].pc = "failed"
    /\ SetStatus(h[p].id, "failed", h[p].ev)
    /\ Go(p, "drop")
    /\ UNCHANGED <<memory, livekit, faults>>

HookDrop(p) ==
    /\ h[p].pc = "drop"
    /\ egressApp' = egressApp \ {h[p].eg}
    /\ IF h[p].ev = "failed" /\ h[p].n < RetryLimit THEN Go(p, "retry")
       ELSE End(p)
    /\ UNCHANGED <<row, timers, closed, livekit, faults>>

\* Mutant: two timers for one failure.
ScheduleRetryTwice(i) ==
    timers' = IF closed THEN timers ELSE [timers EXCEPT ![i] = @ + 2]

\* scheduleRetry, after the callback restream_failed.
ScheduleRetry(i) ==
    timers' = IF closed THEN timers ELSE [timers EXCEPT ![i] = @ + 1]

HookRetry(p) ==
    /\ h[p].pc = "retry"
    /\ ScheduleRetry(h[p].id)
    /\ End(p)
    /\ UNCHANGED <<row, egressApp, closed, livekit, faults>>

HookStopped(p) ==
    /\ h[p].pc = "stopped"
    /\ SetStatus(h[p].id, "stopped", "none")
    /\ Go(p, "fire")
    /\ UNCHANGED <<memory, livekit, faults>>

\* dropEgressApp, and the callback restream_stopped.
HookFire(p) ==
    /\ h[p].pc = "fire"
    /\ egressApp' = egressApp \ {h[p].eg}
    /\ End(p)
    /\ UNCHANGED <<row, timers, closed, livekit, faults>>

-----------------------------------------------------------------------------
(* Retries *)

\* Mutant: the status of the row is not looked at.
RetryAnyway(p, i) ==
    /\ Free(p, Retrier)
    /\ timers[i] > 0
    /\ timers' = [timers EXCEPT ![i] = @ - 1]
    /\ h' = [h EXCEPT ![p] = [Idle EXCEPT !.pc = "relaunch", !.id = i,
                                          !.url = row[i].url,
                                          !.n = row[i].retries + 1]]
    /\ UNCHANGED <<row, egressApp, closed, livekit, faults>>

\* A timer fires and retry reads the row.
Retry(p, i) ==
    /\ Free(p, Retrier)
    /\ timers[i] > 0
    /\ timers' = [timers EXCEPT ![i] = @ - 1]
    /\ h' = [h EXCEPT ![p] =
               IF row[i].st # "failed" THEN Idle
               ELSE [Idle EXCEPT !.pc = "relaunch", !.id = i,
                                 !.url = row[i].url,
                                 !.n = row[i].retries + 1]]
    /\ UNCHANGED <<row, egressApp, closed, livekit, faults>>

RetryLaunch(p) ==
    /\ h[p].pc = "relaunch"
    /\ \/ /\ \E e \in Unused :
               /\ StartStreamEgress(e, h[p].url, h[p].id)
               /\ h' = [h EXCEPT ![p].pc = "setEgress", ![p].eg = e]
          /\ UNCHANGED faults
       \/ StartFails /\ Go(p, "bump") /\ UNCHANGED <<egress, faults>>
       \/ StartTimesOut(h[p].url, h[p].id) /\ Go(p, "bump")
    /\ UNCHANGED <<row, memory, hooks>>

\* Mutant: one retry too many.
RetryBumpOneMore(p) ==
    /\ h[p].pc = "bump"
    /\ row' = [row EXCEPT ![h[p].id].retries = h[p].n]
    /\ IF h[p].n <= RetryLimit THEN Go(p, "again") ELSE End(p)
    /\ UNCHANGED <<memory, livekit, faults>>

\* Mutant: a failed relaunch is not tried again.
RetryBumpOnce(p) ==
    /\ h[p].pc = "bump"
    /\ row' = [row EXCEPT ![h[p].id].retries = h[p].n]
    /\ End(p)
    /\ UNCHANGED <<memory, livekit, faults>>

\* BumpRetries, its error ignored.
RetryBump(p) ==
    /\ h[p].pc = "bump"
    /\ \/ row' = [row EXCEPT ![h[p].id].retries = h[p].n] /\ UNCHANGED faults
       \/ Fault("sql") /\ UNCHANGED row
    /\ IF h[p].n < RetryLimit THEN Go(p, "again") ELSE End(p)
    /\ UNCHANGED <<memory, livekit>>

RetryAgain(p) ==
    /\ h[p].pc = "again"
    /\ ScheduleRetry(h[p].id)
    /\ End(p)
    /\ UNCHANGED <<row, egressApp, closed, livekit, faults>>

\* Mutant: a status no query of the table knows.
RetrySetUnknown(p) ==
    /\ h[p].pc = "setEgress"
    /\ row' = [row EXCEPT ![h[p].id] = [@ EXCEPT !.st = "restarting",
                                                 !.eg = h[p].eg]]
    /\ Go(p, "map")
    /\ UNCHANGED <<memory, livekit, faults>>

\* SetEgress: like SetStatus, whatever the row is by now.
RetrySet(p) ==
    /\ h[p].pc = "setEgress"
    /\ row' = [row EXCEPT ![h[p].id] =
                 [@ EXCEPT !.st = "starting", !.eg = h[p].eg,
                           !.retries = h[p].n, !.error = "none"]]
    /\ Go(p, "map")
    /\ UNCHANGED <<memory, livekit, faults>>

-----------------------------------------------------------------------------
(* Failures of the core *)

\* A statement whose error ends its handler.
SqlSteps == {"count", "insert", "mark", "row", "active", "failed", "stopped",
             "setEgress"}

SqlError(p) ==
    /\ h[p].pc \in SqlSteps
    /\ Fault("sql")
    /\ End(p)
    /\ UNCHANGED <<row, memory, livekit>>

\* retry's read of the row fails.
RetryReadError(i) ==
    /\ timers[i] > 0
    /\ Fault("sql")
    /\ timers' = [timers EXCEPT ![i] = @ - 1]
    /\ UNCHANGED <<row, egressApp, closed, h, livekit>>

\* Close, on shutdown: handlers in flight go on.
Close ==
    /\ ~closed
    /\ Fault("restart")
    /\ closed' = TRUE
    /\ timers' = [i \in Id |-> 0]
    /\ UNCHANGED <<row, egressApp, h, livekit>>

\* The process ends, shut down or not, and a new one starts.
Restart ==
    /\ \/ closed /\ UNCHANGED faults
       \/ Fault("restart")
    /\ closed' = FALSE
    /\ egressApp' = {}
    /\ timers' = [i \in Id |-> 0]
    /\ h' = [p \in Slot |-> Idle]
    /\ UNCHANGED <<row, livekit>>

-----------------------------------------------------------------------------
Step(p) ==
    \/ AddCount(p) \/ AddLaunch(p) \/ AddInsert(p) \/ MapEgress(p)
    \/ ListLive(p) \/ ListSet(p) \/ RemoveMark(p) \/ RemoveStop(p)
    \/ HookApp(p) \/ HookRow(p) \/ HookActive(p) \/ HookFailed(p)
    \/ HookDrop(p) \/ HookRetry(p) \/ HookStopped(p) \/ HookFire(p)
    \/ RetryLaunch(p) \/ RetryBump(p) \/ RetryAgain(p) \/ RetrySet(p)

Next ==
    \/ \E p \in Slot : Step(p) \/ SqlError(p)
    \/ \E p \in Request :
         \/ \E u \in Url : Add(p, u)
         \/ List(p)
         \/ \E e \in Egress : Remove(p, e)
         \/ \E m \in hooks : Receive(p, m)
    \/ \E p \in Retrier, i \in Id : Retry(p, i)
    \/ \E i \in Id : RetryReadError(i)
    \/ \E e \in Egress : Reported(e)
    \/ Close \/ Restart

\* Handlers run to their end and armed timers fire; nothing makes a client
\* send a request, LiveKit end an egress or the network deliver a webhook.
Fairness ==
    /\ \A p \in Slot : WF_vars(Step(p))
    /\ \A i \in Id : WF_vars(\E p \in Retrier : Retry(p, i))

Spec == Init /\ [][Next]_vars
FairSpec == Spec /\ Fairness

-----------------------------------------------------------------------------
(* Properties *)

\* Where a handler is about to write the status of its row.
Moving == {"active", "failed", "stopped", "relaunch", "setEgress"}

\* No handler in flight is going to move row i.
Settled(i) ==
    \A p \in Slot :
       /\ h[p].id = i => h[p].pc \notin Moving
       /\ \A t \in h[p].todo : t[1] # i

\* A row that is stopped while no handler that read it earlier is still
\* under way stays so, and nothing takes it up again: not a timer, a List
\* or a late webhook.
QuietStopIsFinal ==
    [][\A i \in Id : row[i].st = "stopped" /\ Settled(i)
                       => (row[i].st = "stopped" /\ Settled(i))']_vars

\* What pushes to the destination of row i, or is about to, as far as the
\* service knows: its running egresses, its armed timers and the handlers
\* that arm or serve one.
Pushers(i) ==
    timers[i]
    + Cardinality({e \in Egress : Running(e) /\ egress[e].id = i})
    + Cardinality({p \in Slot : h[p].id = i
                     /\ h[p].pc \in {"retry", "relaunch", "bump", "again"}})

\* A destination is pushed to by one egress, or one retry is on its way,
\* never both and never two, however its failures, retries and removals
\* interleave, as long as no webhook is delivered twice.  The egress of a
\* start call that failed all the same is beside the point here: retry takes
\* the error for a push that never began (OneEgressEach of MCRestream).
OneEgressPerTarget == \A i \in Id : Pushers(i) <= 1

\* The retries of a destination end at RetryLimit (onFailed, retry), as
\* long as no webhook is delivered twice.
RetriesWithinLimit == \A i \in Id : row[i].retries <= RetryLimit

\* A destination whose restream_failed said willRetry is relaunched,
\* removed or out of retries in the end, if no statement fails and the core
\* does not stop.
PromisedRetryComes ==
    \A i \in Id :
       (\E p \in Slot : h[p].pc = "retry" /\ h[p].id = i)
       ~> (row[i].st # "failed" \/ row[i].retries >= RetryLimit
           \/ faults > 0)
=============================================================================
