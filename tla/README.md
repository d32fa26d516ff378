# StreamHub in TLA+

A model of the concurrent core of StreamHub: what its goroutines, processes,
timers, sockets and tables do to each other, checked by TLC on small instances
and, for the central safety properties, proved by TLAPS for every instance.

## The system

StreamHub is a management layer around LiveKit. Its parts, by who runs them:

- **Core** (`streamhub-core-go`): one Go process per installation, the *master*.
  It owns the SQL tables, serves the REST API, receives LiveKit's webhooks, and
  runs the background loops: watchdogs, retry loops, janitors, mirrors.
- **Encoder** (`streamhub-encoder`): a Go process that supervises one ffmpeg
  engine per channel and one process per output.
- **Edge nodes** (`plugins-vendor/*/worker/vision_edge`): a Python agent per
  node, connected to the master's gateway by WebSocket, running one worker
  process per assignment.
- **Camera agent** (`streamhub-agent`, C), **web console**
  (`streamhub-web`), **client libraries** (`streamhub-adaptor`,
  `streamhub-app-sdk`).

How they interact, and what makes it hard:

| Part | State | Operations | Meets | Hard behaviours |
|---|---|---|---|---|
| Edge grid | assignment table, connection map, disconnect times, agents' children | schedule, retry, failover, revoke, reoffer, status report, connect, drop, restart | agents over WebSocket; watchdog and API in the master | read-decide-write without a transaction, two read loops of one node, frames that outlive a failover, restarts of either side |
| Encoder supervisor | `wantRun`, state, spec, process, kick channel, backoff | start, stop, restart, set spec, spawn, terminate | channel manager, watchdog, API, operating system | a one-token channel with two meanings, children that ignore signals, windows between spawn and publication |
| Passthrough | remux entry, processes, restart timer, port, key, streams row | publish, done, remove, exit callback, timer, mirror tick, close | mediamtx hooks, streams table, operating system | handlers without a common lock, late exit callbacks, memory lost by a restart |
| Encoder channels | outputs, resolve goroutines, port leases | sync, reconcile, resolve, launch, stop | supervisor, StreamHub API | a check of a context followed by a launch |
| Recording | sessions, recording rows, upload queue, local files | start, rotate, stop, egress event, upload, recover, retain | LiveKit webhooks, S3, disk | webhooks early, late, twice; crash between upload and mark |
| Restream | target rows, retry timers | add, remove, egress event, retry | LiveKit | duplicated failures, retries racing removal |
| HLS and streams | abandoned and launched egresses, playlist, streams rows | start, stop, watchdog, janitor, reconcile | LiveKit, webhooks | concurrent starts, prune grace, out-of-order participant events |
| Callbacks, plugins, cluster, IoT, quotas, auth, backups, ... | small maps and tables | request handlers | | listed in PROJECT.json |

What a reader would want to hold of them: one worker, one encoder, one remux,
one egress per stream; nothing runs that was stopped; nothing that should run is
forgotten; rows say what is; work moves off what is lost; a stop returns.

## Modules

| Module | Models | Reads as |
|---|---|---|
| `EdgeGrid` | `internal/edge` scheduler, gateway, watchdog, repository; the agent's `ws_client.py`, `supervisor.py`, `runtime.py` | composition of the master's threads, the agents and the frames between them |
| `Supervisor` | encoder `supervisor.go`, and the manager's `rebuildEngine`, watchdog and restarts | one goroutine, its controller, the processes |
| `Passthrough` | `internal/passthrough` remux manager, handlers, `SyncStreamRows` | one ingress: manager, handlers, mirror, processes |
| `Restream` | `internal/restream` service and repository, the LiveKit calls they make | one room: rows, handlers in slots, timers, egresses, webhooks |
| `JobPool` | what the upload queue promises | abstract specification: jobs wait, run, finish |
| `UploadQueue` | `recording/queue.go` | pending set, callers, channel, workers; implements `JobPool` |
| `Recording` | `internal/recording`: sessions, webhooks, uploads, transcode jobs, deletion, recovery | extends `UploadQueue` with what its jobs are about |
| `Hls` | `streams/hls.go`, the HLS part of `streams/watchdog.go` | one room: callers, LiveKit's egresses, the playlist |
| `MC...` | instances for TLC | constants, symmetry, refuted statements |
| `...Proofs` | theorems | one module per argument |

### EdgeGrid

The table is `status` and `owner` (`node_id`); `Gateway.conns` is `conn`;
`lastDisconnect` is `flapped`, and `aged` says that the grace since the last
change of the link has passed. `thread` is whoever holds `Scheduler.mu`:
`Schedule`, `RetryPending` and `HandleNodeDown` are its programs, with one step
for each statement and each push. `revoker` is a `Revoke`, which takes no lock.
Every session has a read loop (`reader`, and `todo`/`sent` for its reoffer
loop); the loop of a replaced session goes on beside the newer one. The agent
is one asyncio loop per node with `child` and `restarts` of its supervisor.
`down` and `up` are the frames in flight per session; a dropped session loses
what the agent has not read and any suffix of what it sent. `placed` and
`launched` are history variables and influence nothing.

Abstracted: the placement policy (any eligible node may be chosen; both
policies choose one), capabilities and telemetry (a constant capacity per
node), time (a grace has passed or has not; the agent's restart cap is 3 in a
sliding hour, and a behaviour is one such hour). A socket that breaks under a
write or a read of the gateway is modelled as one the agent left just before:
until the agent notices it only works on frames it already has, and sends
reports that arrive or not, which it could have done before leaving.

### Supervisor

Every section under `Process.mu` is one step of `loop`, named by `loop.pc`.
`kick` is the channel's one slot. The controller `ctl` holds `Manager.applyMu`;
`Restart` may come at any moment. A process is up, interrupted, killed or gone,
and reacts to SIGINT when it likes; only SIGKILL is certain to end it, and not
at once. Process ids are reused, the backoff is capped by the code itself:
the model needs no bound of its own.

### Passthrough

`RemuxManager` methods are under one mutex and are one step each; the handlers
take no lock between their calls, so each call is a step. A process that ended
waits in `exited` until its callback runs, which is where late exits come
from. `Env` lists what a run lets happen: a publish while armed (`rearm`), a
publish beside a done or a remove (`overlap`), removal, an orderly shutdown and
boot, deaths by signal, failing spawns, failing statements. The failure count
is capped at the value from which the code gives up. `crashes` is a history
variable. `Listens` is the kind of ingress: one whose ffmpeg listens on a port
of the pool, or one that pulls, from an MPEG-TS source or from the listener of
MediaMTX, and takes no port. A publish the code rejects changes nothing and is
no step.

The boot is only that after a `Close`. A core that is killed leaves its ffmpeg
running with no entry that names it, beside the one the boot arms: nothing in
the code looks for it, and none of the properties on processes speaks of it.

### Restream

A request, a webhook or a retry is a handler in a slot of `h`; every SQL
statement, LiveKit call and use of `egressApp` is one step of it, and between
two steps anything may happen. `row` is the table, `timers` the retry timers
armed, `egress` and `hooks` what LiveKit runs and has yet to report, in any
order. `Env` lists repeated webhooks, webhooks that name their room, failing
statements, failing calls, start calls whose answer is lost and restarts. A lost
webhook is one that is never received. When the answer to a start is lost, after
the client's 60 seconds, the service takes the call for failed while the egress
pushes: it has no row, and `lost` remembers which row it was meant for.

### JobPool, UploadQueue, Recording

A part of a recording is named by its egress, and so is its upload job. The
mutex of the queue covers only the pending map: a caller that marked its job is
in `senders` until there is room in the channel. `Recording` adds the session
(`sess`: start and rotation, one step for each call), requests and webhooks
(`h`), the workers' programs (`wk`), the transcode queue (`xq`, `xpc`), recovery
at boot (`boot`), and the three places a recording can be: the row `vod`, the
`disk`, `s3`. `ImplementsJobPool` maps the queue to `JobPool`: what is sent or
to be sent waits, what a worker holds runs.

`noise` counts what a run lets go wrong or come from outside: each kind once,
`MaxNoise` kinds to a behaviour, but for the queries of a recovery, which may
fail after the crash. A part whose StartEgress timed out after LiveKit started
it is `lost`: it records until the room ends, and has neither row nor session.
The queue has its workers from the first job on; `enqueue` before `start`, which
runs the job inline, is left out.

### Hls

A caller (a request, or the watchdog) lists and judges, then stops and launches
call by call; `call` says where it is. LiveKit's egress is starting, active
without a segment, writing, ending, or dead and still listed. Time is kept as
what `stale` asks of it: `young` and `launched` (within the startup grace),
`wrote` (the playlist changed since the egress started), `list` (none, fresh,
frozen). The listing and its judgement are one step, the code making no call in
between. `order` holds which `started_at` is before which. An egress id nobody
holds is used again. Assumed of LiveKit: an egress at work has its first segment
within the startup grace and then writes on, and one that fails while starting
is listed no more. A Start that replaces an egress stops it and gives it up in
one step: a listing in between shows it as ending, and its caller returns, or as
it was before.

Nothing tells an active egress from a corpse when LiveKit reports it without a
`started_at` and `launched` does not have it either, after a restart or after a
start call that failed and started one all the same (`Unknown`). The properties
exempt what then follows; it takes two upsets, or three with a failed stop.

## Runs

Passing:

| Run | Shows |
|---|---|
| `edge_restarts` | a node reconnects beside its old read loop, the master or an agent restarts, pongs are missed by a live agent, workers exit, spawns fail: a row is running only if its node launched the worker (`RunningWasLaunched`), only a missed pong or a master restart takes a live session from the gateway (`LiveSessionHeld`) |
| `edge_live` | two nodes, revokes, crashing workers: work leaves a lost node (`DownNodeLosesWork`), unplaced rows get placed (`UnplacedIsPlaced`), active rows have an owner (`PlacedHasOwner`), a worker runs only where its row was placed (`OnlyPlacedNodesRun`), late reports do not touch a row that moved (`RunningWasLaunched`) |
| `sup_engine` | one live child (`OneChild`), none after Stop (`StopLeavesNone`), exits are restarted (`ExitIsRestarted`), Stop hangs in one place at most (`StopHangsOnlyOnRestart`) |
| `pass_safety` | publishes in order, an ingress that listens: one ffmpeg (`OneRemux`), none behind a stop (`StoppedHasNoChild`), the port is held (`ArmedHoldsPort`) |
| `pass_live` | repeated publishes, an ingress that pulls: never forgotten (`ArmedIsSupervised`), gets an ffmpeg or an error once publishes cease (`ArmedRuns`), dead rows end (`RowEnds`) |
| `restream_targets` | with each webhook delivered once: one egress the service knows of, or one retry, per destination (`OneEgressPerTarget`), retries end at the limit (`RetriesWithinLimit`), a stop nobody races is final (`QuietStopIsFinal`), an announced retry comes (`PromisedRetryComes`) |
| `recording_vods` | no recording is lost (`RecordingSurvives`), an open session reaches all that an answered start records for it (`OpenSessionReaches`), no VOD stays uploading (`UploadSettles`), a job is in one place (`OnePlace`), the queue is a pool (`ImplementsJobPool`) |
| `hls_room` | one egress writes the room when Starts do not overlap and no replaced egress fails to stop (`OneWriter`), only dead ones are replaced (`OnlyTheDeadGo`), a stop reaches what runs (`StopReaches`), an always-on room is served again (`RoomServed`) |

One run of each module checks its `TypeOK` besides.

Refuted, one documented promise each:

| Run | Promise | What happens |
|---|---|---|
| `edge_pending` | no forever-pending row beside a healthy node | a failed push parks the row with its `node_id`; the retry loop lists rows without one |
| `sup_staletoken` | Stop blocks until the child is gone | a Restart with no child published leaves a token; the next, healthy child is taken for killed and the loop waits for it |
| `pass_tworemux` | one ffmpeg per ingress | a publish while a restart timer is pending launches one, the timer another |
| `restream_removed` | Remove stops the destination | a retry relaunches the row between Remove's read and its mark; Remove read it as failed, so it marks the row stopped and stops nothing, and the new egress pushes on |

### Bounds

`EdgeGrid`: one assignment and one or two nodes; the races are between threads
on one row, and failover needs a second node. Two sessions for one node (`edge_restarts`): a
session and its replacement are what two read loops need. The two runs divide
the faults and the second node between them; the safety properties of both
are proved for all of it at once. `MaxUp` stops the
reaper, not the protocol, when a frame is unread. `MaxRestarts` 1 lets a child
be restarted and give up. `Supervisor`: two processes, the one being waited for
and the abandoned one; two commands; backoff 1, 2, 3, where doubling and cap
both act. `Passthrough`: three processes in the safety run (current, replaced
and one of an earlier boot), two under fairness; a failure limit of 1, passed
by two crashes, and of 2 under fairness, where a publish between two failed
spawns sets the count back before it reaches the limit. `Restream`: one row and two egresses, the one that failed and
the relaunched one; two requests and two retries, so that each can race its
like; a limit of two retries. Rows share only the URL check. `Recording`: two
parts, which a rotation needs, and one slot of the channel, so that the queue
is full with one job; one worker, where the code has two: workers meet only in
the queue, whose properties are proved for any number of them. One request in
flight beside the session's own goroutine. One upset, of nine kinds, at any
point. `Hls`: three egresses (a corpse, its replacement, one too many), a
request beside the watchdog, one corpse at a time, one upset of seven kinds.

### What the environment of a run leaves out

Some properties hold only in the environment of their run. The others were
checked by TLC on the same or a smaller instance with what the run leaves out.

- `restream_targets` delivers each webhook once. With `dup` TLC refutes
  `OneEgressPerTarget` (the second copy of EGRESS_FAILED finds the row failed,
  and `onFailed` schedules another retry) and `RetriesWithinLimit` (the two
  retries both read the row below the limit and each relaunches or bumps).
  `QuietStopIsFinal` holds, and is proved, with repeats; for
  `PromisedRetryComes` with repeats there is no verdict, TLC did not finish.
- `pass_safety` has publishes in order. With `rearm`, `OneRemux` and
  `StoppedHasNoChild` fail (the trace of `pass_tworemux`, and the child nobody
  names after it), `ArmedHoldsPort` holds. With `overlap`, `ArmedHoldsPort`
  fails: a publish that arms the ingress between the Stop and the releasePort of
  a done runs on a port that is free. The other two hold with `overlap` and
  `remove` on two processes; with the whole environment and three processes
  TLC did not finish.
- `pass_live` has no restart of the core and no failing statement, either of
  which leaves a row behind (`RowEnds` fails with `close` and with `db`).
  `ArmedRuns` holds with each of them, and all three properties with `rearm`
  and `overlap`, on a failure limit of 1.
  The ingress of the run pulls; the three hold of one that listens as well
  (588,810 states).
- `ArmedRuns` is about the time after the last publish. While publishes go on,
  one that comes between two firings of the timer resets the failure count
  (`Start`), and with a limit of 2 or more TLC finds an ingress whose ffmpeg
  never can be spawned and which is neither live nor given up, for ever.
- `restream_targets` loses the answers of start calls, and its properties are
  about the egresses the service knows of. Of all of them `OneEgressEach`
  says the same and is refuted (below).
- `edge_live` has two of the seven faults and one node that loses its link. Its
  two liveness properties hold with each of the other faults alone. With `revoke`
  and both nodes free to drop, all five of its properties hold (326,927 states).
- `recording_vods` has applications that delete the local file after the upload,
  where a file can be missed. Its six properties hold for those that keep it
  (241,729 states).

### Fairness

Only what the runtime gives. Goroutines that can run do, timers fire, tickers
tick, a process sent SIGKILL ends. A Go mutex hands itself to a waiter that
starves, hence strong fairness of the two placement loops that contend for
`Scheduler.mu`. In `Restream` handlers go on and timers fire, in `Recording`
handlers, workers, callers waiting for room and recovery go on, in `Hls` callers
go on, the watchdog ticks, LiveKit starts and ends what it was asked to and time
passes. A Tick of the edge watchdog visits every node in turn, so the check of
one node is not starved by that of another (strong fairness of `WatchdogCheck`;
under weak fairness two lost nodes can starve one another, which the loop in
`Tick` rules out). Where one conjunct covers several goroutines it says that one of them
goes on, which is less than the runtime gives. Nothing makes a request, a publish, a reconnect or a child's
exit happen.

## Proofs

Proved for every set of nodes, assignments, processes, commands, egresses, parts
and requests and every value of the bounds; the assumptions are the named `ASSUME`s of the component's
module (the "no node", "no process" and "no job" values are not members, bounds
are naturals, backoffs are ordered, there is a URL), which TLC evaluates in every run.

- `EdgeGridProofs`. `Typing`: `TInv` adds to `TypeOK` that the fields of
  `thread` and `revoker` exist where a program point uses them.
  `RowsHaveOwner`: a row without a node can
  be written by none of the unguarded status updates, since they come from lists
  and frames of rows that had an owner (`LoopOwnerInv`, `WriteInv`,
  `RevokerInv`), and no step takes an owner away. `LiveSessionKept`: an
  action property, from the types and `onClose`'s comparison.
- `EdgeWorkerProofs`. `PlacedNodesRun`: a worker is started by a frame, a frame is pushed by a placement or a reoffer,
  and a reoffer lists rows by `node_id`. So the invariant `PlacedInv` follows an
  assignment all the way: frames in flight, rows, reoffer lists and the push
  about to happen all name nodes in `placed`. `RunningLaunched`: by the frames
  that say running (`UpInv`) and the children that run (`ChildInv`); a report
  writes the row only if the row still names the sender.
- `SupervisorProofs`. A live process is the goroutine's own and the goroutine is
  at a point where it knows it (`Supervised`); outside a pending Stop an unwanted
  supervisor has no goroutine. `OneChild` and `StopLeavesNone` follow.
- `PassthroughProofs`. `Minded` (the entry's child exists; an armed entry has a
  child, a timer or an error) gives `NeverForgotten` in every environment. With
  publishes in order (`InOrder`: neither `rearm` nor `overlap`), `Single` says in
  addition that a process at work is the entry's child, that a child and a timer
  exclude each other and that handlers hold the ingress down while they work.
- `RestreamProofs`. `QuietStop`, an action property: the types (`Typed`), and a
  lemma for each way a step changes the handlers (it ends one, moves one on, or
  sets one up) saying that what was settled stays settled; the steps that write
  rows then write other rows, or start from a row that is not stopped. Repeated
  webhooks are included. `OnePush` and `RetriesBounded` take every action through
  the lemmas of `RestreamPushProofs`.
- `RestreamPushProofs`, the invariant `Held` behind those two. Without repeated
  webhooks a destination is held by one thing at a time, the egress that pushes
  to it, the webhook of its failure, the handler of that webhook, the timer or
  the retry, and every kind of step hands it from one to the next. `OneReport`
  says it of an egress, `OneHolder` of a row, `SetAlone` covers the gap between a
  relaunch and the statement that writes the new egress to the row, when a
  failure of that egress finds no row. `Counted` then says that the retries a
  handler has read are still those of the row.
- `RecordingProofs`, the queue first. `JobsAreInOnePlace`: senders, channel and
  workers are disjoint and pending is their union. It makes every step of the
  queue a step of `JobPool` or a stutter (`QueueIsAPool`): `Enqueue` accepts,
  `Send` only moves within waiting, `Take` begins. The limit of running jobs is
  the number of workers, by a cardinality argument. Then the service: `Typing`,
  by the parts of the state (`TInv`).
  `UsesTheQueue`: every step of the service is a step of `UploadQueue` or leaves
  the queue alone, so `JobsAreInOnePlace` and `QueueIsAPool` carry over to the
  service. `NoPartLost` from `SafeInv`: a complete part is on disk or in S3, and
  whoever is past the upload (a worker, the transcode queue, the second half of
  recovery, a row that says ready or has no local path) knows it is in S3; a
  deletion is only ever of a part that was asked for. `StopReachesSession` from
  `TrackInv`: what runs is the session's current or next part, and the current
  one has stopped by the time the next is launched.
- `HlsProofs`. `Reached` from `Told`: what a caller can see of an egress at work
  (`Looks`) keeps it from being taken for stale, also when the listing is old by
  the time it is used (`SeenTrue`). `Single` from `Cleared`: between its listing
  and its launch a Start has in hand, or has given up, all that is listed; with
  `Reached` nothing is at work when it launches. `DeadGo` from `Sole` (beside an
  egress at work everything listed is given up) and `DeadOnly` (what a Start is
  about to stop is not at work).

In the larger modules `USE Zenon` makes Zenon the prover of a leaf that names
none. What is left to SMT names it: arithmetic, records, and steps with many
cases.

The hypotheses are needed: `pass_tworemux` is what happens without `InOrder`,
and with repeated webhooks TLC refutes what `OnePush` and `RetriesBounded` state
(above). The inductive invariants of `Restream`, `Recording` and `Hls` were
checked by TLC before they were proved, that of `Hls` with two egresses and all
seven upsets in one behaviour (3,586,582 states), since the run meets one.

Only model-checked: what is stated under fairness (`DownNodeLosesWork`,
`UnplacedIsPlaced`, `ExitIsRestarted`, `StopHangsOnlyOnRestart`, `ArmedRuns`,
`RowEnds`, `PromisedRetryComes`, `UploadSettles`, `RoomServed`), which is out of
the prover's reach. Every invariant and every action property of a passing run
has a theorem.

## Where the code departs from its word

Four departures have runs of their own (above). TLC refutes the following too,
with the definitions kept in the `MC` modules; each is a statement of a document,
comment or test. They have no run because each is one scenario of a question a
run above already asks of its module, in an environment the run leaves out.

- **DownNodeFailsOver** (`FairSpec`, one node, `masterRestart`). After a master restart a node that does not come back keeps its rows running. lastDisconnect lives in memory only, so after a master restart DisconnectedSince knows nothing of a node that never reconnects and maybeFailover returns: its rows stay offered/running for ever. streamhub-docs/features/vision-edge.md:287 says: "Once a node has been WS-down past the grace, its work is failed over (above)."
- **ViewSurvivesDrop** (`FairSpec`, one node with a reconnect, `exit`). A worker that exits cleanly while the agent is disconnected is never reported. reap removes a cleanly exited child before its status is reported; report_status drops the frame while disconnected and the reconnect announces only children that still exist, so the row says running for ever. plugins-vendor/counting/worker/vision_edge/ws_client.py:262 says: "Disconnected → dropped (re-announced on reconnect)".
- **ViewSurvivesDrop** (`FairSpec`, one node with a reconnect, `agentRestart`). A restarted agent has no children and the master never re-offers rows that say running. On register the master re-offers only pending and offered rows; an agent that restarted announces no children, so a row that said running stays running with no worker anywhere. plugins-vendor/counting/worker/vision_edge/ws_client.py:303-304 says: "Re-announce every child after a (re)connect so the master's view of this node's assignments survives a dropped channel."
- **OneWorkerInTheEnd** (`FairSpec`, two nodes, one of which reconnects, no fault). A node that reconnects after failover keeps its worker beside the new owner's. HandleNodeDown reassigns the row but nothing revokes the worker of the old node, which survives the drop and goes on once the node is back: two nodes process the stream for ever. streamhub-docs/features/vision-edge.md:222-223 says: "The assignment unit is **(app × plugin × stream)** — one worker per stream for a given edge-capable plugin."
- **RevokeStopsWorker** (`FairSpec`, one node, `revoke`). A Revoke between the scheduler's write and its push reaches the agent before the assignment does. Revoke takes no lock: called between Create/Reassign and Send of the placement thread, its frame precedes the assign frame, the agent ignores it and then starts the worker, whose running report resurrects the row. streamhub-core-go/internal/edge/scheduler.go:137 says: "Revoke tells the owning node, then marks the row revoked".
- **RevokedIsFinal** (`Spec`, one node, `revoke`). A revoked row becomes offered again. Reassign, UpdateStatus and UpdateStatusForNode have no guard on the current status: RetryPending's Reassign, a reoffer or a late report moves a revoked row back to offered or running. streamhub-docs/features/vision-edge.md:274-275 says: "Assignment lifecycle: `pending → offered → running → stopped | failed`, or `revoked` on operator delete."
- **NeverOverAssigns** (`Spec`, one node, two assignments). A parked row is re-offered to its node without a capacity check. A row parked with its node_id does not count as load (ActiveCountByNode counts offered and running), so its node's room is given to another row; the reoffer on register then pushes the parked row as well, with no capacity check. streamhub-docs/features/vision-edge.md:939-940 says: "The edge reports `grid.vramFreeMb` in telemetry so the master never over-assigns."
- **RestartIsImmediate** (`Ops = {"restart"}`). Restart of a child that has run for StableAfter waits MinBackoff. The restart branch sets backoff to 0 (234), but an uptime of at least StableAfter sets it back to MinBackoff (259-261), so the restart of a stable child waits. streamhub-encoder/internal/supervisor/supervisor.go:155-156 says: "Restart kills the current child; the loop restarts it immediately (counted as a restart, no backoff)."
- **RebuiltIsStarted** (`FairSpec`, `Ops = {"rebuild"}`). A rebuild that falls between the goroutine's read of the spec and the published child never takes effect. rebuildEngine decides between Start and Restart by Status, which still says stopped until the first child is published, and Restart kills nothing while proc is nil: either way the engine keeps the old command although SetSpec has replaced it. streamhub-encoder/internal/channel/manager.go:292 says: "rebuildEngine (re)builds the engine command and (re)starts it."
- **RemovedIsTornDown** (`overlap`, `remove`). A publish that found the key before Remove deleted it arms the remux of a removed ingress. HandlePublish looks the key up (261) and starts the remux (298) with no lock shared with Remove, which stops the remux (380) before it deletes the key (382): a publish in between runs an ffmpeg for an ingress that no longer exists. streamhub-core-go/internal/passthrough/service.go:365-366 says: "Remove tears a passthrough ingress down (remux + HLS dir, port, key, the mirrored streams row)."
- **StaleExitIgnored** (publishes in order). The exit of a child that was stopped long ago is taken for the exit of its successor. The guard ignores a stale exit only while the entry has another child; between that child's exit and its restart the old child's exit counts as one more exit of the entry, changes its failure count and replaces its timer. streamhub-core-go/internal/passthrough/remux_test.go:273 says: "A stale child's exit (replaced by a later launch) must not clobber it."
- **CrashLoopGivesUp** (`signal`). An ffmpeg that dies of a signal each time is restarted for ever. A child killed by a signal has no exit code and no error, so it counts as a clean end: failures goes back to 0 and it is started again after 250 ms, for ever. streamhub-core-go/internal/passthrough/remux.go:19-20 says: "error = gave up after repeated crashes".
- **RowEnds** (`FairSpec`, `close`). After a restart of the core the active streams row of a publisher that is gone is never ended. Only a room in liveRooms is ended, and liveRooms is in memory: after a restart the row of an ingress whose encoder does not come back stays active (Streams.reconcile skips passthrough rows, streamhub-core-go/internal/streams/streams.go:637). streamhub-core-go/internal/passthrough/service.go:151-154 says: "mirrors live passthrough remuxes into the per-app streams table [...] stale/stopped ⇒ end it once".
- **TerminalNeverMoves** (one row, two requests). A stopped row becomes active again. List, a webhook or a retry that read the row before Remove marked it writes active, failed or starting over stopped, since SetStatus has no guard on the current status. streamhub-core-go/internal/restream/service.go:390 says: "Terminal rows never move again (e.g. stop-by-user already recorded)".
- **StopEventSilent** (one row, two requests). The stop by the user is announced twice. a List that read the row earlier puts it back to active between Remove's mark and the egress_ended webhook, which then fires restream_stopped a second time. streamhub-core-go/internal/restream/service.go:332 says: "Mark terminal FIRST so the egress_ended webhook (fired by stopEgress) sees a stopped row".
- **OneLivePerUrl** (two rows, two requests). Two Adds of one URL both succeed. Add looks the URL up (236), launches (252) and inserts (264) with no lock or constraint: two requests at once both pass the look-up. streamhub-docs/features/restream.md:60 says: "Duplicado (misma URL viva en la misma sala)" is answered 409.
- **OneEgressEach** (`lost`, one row, three egresses). A retry whose start call timed out leaves an egress nobody knows of beside the next one. LiveKit may have started the egress when the client gives up on the answer (streamhub-core-go/internal/livekit/client.go:96-97, 60 s); retry counts the call as failed, bumps the count and launches again, and neither Remove, which stops by the egress id of a row, nor a webhook, which finds no row of that id, reaches the first one. streamhub-core-go/internal/restream/service.go:19 says: "caps simultaneous live destinations (one egress each)".
- **NeverTwoWriters** (`overlap`). Two Starts that overlap launch one egress each. Start lists, judges and launches with no lock across the three: a request beside the watchdog, or two requests, both find nothing (or the same corpse) and both launch; the newer one wins every later lookup and Stop ends both, but until then two write one playlist. streamhub-core-go/internal/streams/hls.go:251-252 says: "never two egresses writing one room".
- **ReusedGoesOn** (no upset). A Start shortly after a Stop returns the egress that is ending. LiveKit lists an EGRESS_ENDING egress among the active ones and stale only looks at EGRESS_ACTIVE, so Start reuses it; it ends, and without the watchdog nothing is launched. streamhub-core-go/internal/streams/hls.go:146 says: "Start launches (or reuses, idempotently) the HLS egress of the stream's room."

Of `Recording` the properties leave out what the code does not rule out, each
visible in the condition of a property:

- A rotation that races `StopRecording` launches a part after the session is
  cleared: it records with nobody to stop it, since the Insert and the
  undo's StopEgress both fail on the cancelled context. `OpenSessionReaches`
  speaks of open sessions only, and not of a session one of whose StopEgress
  calls failed.
- A StartEgress that times out after LiveKit started the part is taken for
  failed: the part records until the room ends, and no Stop reaches it.
- A crash, or a failing update, after the local file is removed and before the
  row says ready: the upload is in S3 and the row says uploading (`Stranded`) or
  failed. Recovery passes the row over since its file is gone.
- A complete webhook delivered twice sets a ready row to uploading again and the
  second upload fails it, its file being gone; the recording itself survives.
- A webhook delivered before the row is inserted finds no row and is dropped; the
  row says recording for good.

## Not modelled, and why

PROJECT.json lists every part. The parts with state shared between goroutines
that have no module yet, in the order they would be added:

1. The streams table: participant and track webhooks out of order against the
   reconcile loop and its prune grace (`streams.go`, `livekit/webhooks.go`).
2. The outputs of a channel on top of `Supervisor`: resolve goroutines, port
   leases (`channel/manager.go`).
3. Placement arithmetic (`edge/logic.go`) as operators against a declarative
   reference; `EdgeGrid` has "some eligible node with room" for it.
4. Plugin auto-assignment beside the API (`edge/reconcile.go`, `routes.go`).
5. Retention, DVR windows, the WebSocket ingest hub, callbacks: small, and with
   the patterns modelled above.

Most of the repository is not a matter for a model of this kind: argument
building for ffmpeg, packet and playlist parsing, REST plumbing and validation,
SQL that one request runs by itself, the web console, client libraries,
firmware, deployment scripts. The modules cover the code in which goroutines,
processes, timers and messages meet, which is a small share of its lines.
