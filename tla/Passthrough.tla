---------------------------- MODULE Passthrough -----------------------------
(***************************************************************************)
(* One passthrough ingress of streamhub-core-go/internal/passthrough: the  *)
(* RemuxManager entry that supervises its ffmpeg, the publish, done and    *)
(* remove handlers of the Service that drive it, and SyncStreamRows, which *)
(* mirrors it into the streams table.                                      *)
(*                                                                         *)
(* Everything RemuxManager does is under its mutex, so Start, Stop, Close, *)
(* the exit callback and the restart timer are each one step.  The         *)
(* handlers of the Service hold no lock from one call to the next, so each *)
(* of their calls is a step.  Ingresses share nothing but port numbers.    *)
(***************************************************************************)
EXTENDS Naturals

CONSTANTS
    Pid,          \* process ids; one is reused once its exit was handled
    NoPid,        \* remuxEntry.child = nil
    MaxFailures,  \* maxConsecutiveFailures
    Listens,      \* its ffmpeg listens for the encoder; FALSE when it pulls
                  \* an MPEG-TS source or the listener is MediaMTX's
    Env           \* what a run lets happen around the manager

\* rearm: a publish of an ingress that is armed; overlap: a publish beside
\* a done or a remove; db: a failing statement; spawn: a failing exec;
\* signal: an ffmpeg that dies of a signal.
EnvKinds == {"rearm", "overlap", "remove", "close", "signal", "spawn", "db"}

ASSUME PidAssumption == NoPid \notin Pid
ASSUME MaxFailuresAssumption == MaxFailures \in Nat
ASSUME ListensAssumption == Listens \in BOOLEAN
ASSUME EnvAssumption == Env \subseteq EnvKinds

VARIABLES
    key,       \* the ingress has its row in ingress_auth
    port,      \* Service.portByID has its port
    entry,     \* RemuxManager.entries: its remuxEntry
    proc,      \* the ffmpeg processes started for it
    fresh,     \* its HLS playlist was written within playlistFreshWindow
    pub,       \* where HandlePublish is
    fin,       \* where HandleDone or Remove is
    row,       \* its streams row is active
    liveRoom,  \* Service.liveRooms has its room
    sync,      \* where SyncStreamRows is
    crashes    \* crashes of its ffmpeg since Start or a clean exit

manager == <<entry, proc>>
service == <<key, port, pub, fin>>
mirror == <<row, liveRoom, sync>>
vars == <<manager, service, mirror, fresh, crashes>>

\* "absent": the manager has no entry.
RemuxStatus == {"absent", "idle", "live", "off", "error"}

Exit == {"clean", "crash", "signal"}

\* A process runs, was sent SIGTERM, has ended and waits for its callback,
\* or is gone.  It is the entry's newest, or was replaced by a later
\* launch, or belongs to an entry that Close dropped.
Process == [st : {"gone", "up", "term", "exited"}, how : Exit,
            role : {"newest", "replaced", "foreign"}]

\* entry.live stands for desired = "live".
Entry == [st : RemuxStatus, live : BOOLEAN, child : Pid \cup {NoPid},
          timer : BOOLEAN, failures : 0 .. MaxFailures + 1]

Fin == [op : {"done", "remove"}, room : BOOLEAN,
        pc : {"idle", "stop", "port", "key", "forget", "end"}]

Sync == [pc : {"idle", "read", "upsert", "mark", "end", "unmark"},
         live : BOOLEAN]

TypeOK ==
    /\ key \in BOOLEAN /\ port \in BOOLEAN /\ fresh \in BOOLEAN
    /\ row \in BOOLEAN /\ liveRoom \in BOOLEAN
    /\ entry \in Entry
    /\ proc \in [Pid -> Process]
    /\ pub \in {"idle", "acquire", "start"}
    /\ fin \in Fin /\ sync \in Sync
    /\ crashes \in 0 .. MaxFailures + 1

NoEntry == [st |-> "absent", live |-> FALSE, child |-> NoPid,
            timer |-> FALSE, failures |-> 0]

NoFin == [op |-> "done", room |-> FALSE, pc |-> "idle"]
NoSync == [pc |-> "idle", live |-> FALSE]

\* Create has registered the key.
Init ==
    /\ key = TRUE /\ port = FALSE /\ fresh = FALSE
    /\ entry = NoEntry
    /\ proc = [p \in Pid |-> [st |-> "gone", how |-> "clean",
                              role |-> "foreign"]]
    /\ pub = "idle" /\ fin = NoFin
    /\ row = FALSE /\ liveRoom = FALSE /\ sync = NoSync
    /\ crashes = 0

-----------------------------------------------------------------------------
(* RemuxManager *)

\* onExit with no limit.
OnExitForever(e, crashed) ==
    LET f == IF crashed THEN e.failures + 1 ELSE 0
    IN  [e EXCEPT !.child = NoPid, !.st = "idle", !.failures = f,
                  !.timer = TRUE]

\* onExit that re-arms only after a crash.
OnExitCrashOnly(e, crashed) ==
    IF ~e.live THEN [e EXCEPT !.child = NoPid, !.st = "off"]
    ELSE IF crashed /\ e.failures < MaxFailures
    THEN [e EXCEPT !.child = NoPid, !.st = "idle", !.failures = @ + 1,
                   !.timer = TRUE]
    ELSE [e EXCEPT !.child = NoPid, !.st = "idle", !.failures = 0]

\* onExit: what the exit of a child makes of the entry.
OnExit(e, crashed) ==
    LET f == IF crashed THEN e.failures + 1 ELSE 0
    IN  IF ~e.live THEN [e EXCEPT !.child = NoPid, !.st = "off"]
        ELSE IF f > MaxFailures
        THEN [e EXCEPT !.child = NoPid, !.st = "error",
                       !.failures = MaxFailures + 1]
        ELSE [e EXCEPT !.child = NoPid, !.st = "idle", !.failures = f,
                       !.timer = TRUE]

\* launch: a new process, or a spawn error handled as a crash.
Launch(e) ==
    \/ \E p \in Pid :
          /\ proc[p].st = "gone"
          /\ proc' = [q \in Pid |->
                        IF q = p THEN [st |-> "up", how |-> "clean",
                                       role |-> "newest"]
                        ELSE IF proc[q].role = "newest"
                        THEN [proc[q] EXCEPT !.role = "replaced"]
                        ELSE proc[q]]
          /\ entry' = [e EXCEPT !.child = p, !.st = "live"]
    \/ /\ "spawn" \in Env
       /\ entry' = OnExit(e, TRUE)
       /\ UNCHANGED proc

\* Terminate: SIGTERM of the entry's child.
Terminate ==
    [p \in Pid |-> IF p = entry.child /\ proc[p].st = "up"
                   THEN [proc[p] EXCEPT !.st = "term"] ELSE proc[p]]

\* Start: a no-op while live; a pending restart timer is left alone.
Start ==
    IF entry.st = "live" \/ entry.child # NoPid
    THEN UNCHANGED <<manager, crashes>>
    ELSE /\ Launch([entry EXCEPT !.live = TRUE, !.failures = 0,
                                 !.st = "idle"])
         /\ crashes' = 0

\* Stop that forgets to end the restart timer.
StopKeepsTimer ==
    IF entry.st = "absent" THEN UNCHANGED <<manager, fresh>>
    ELSE /\ proc' = Terminate
         /\ entry' = [entry EXCEPT !.live = FALSE, !.child = NoPid,
                                   !.st = "off"]
         /\ fresh' = FALSE

\* Stop that forgets the child.
StopNoTerminate ==
    IF entry.st = "absent" THEN UNCHANGED <<manager, fresh>>
    ELSE /\ entry' = [entry EXCEPT !.live = FALSE, !.timer = FALSE,
                                   !.child = NoPid, !.st = "off"]
         /\ fresh' = FALSE
         /\ UNCHANGED proc

\* Stop: terminate the child, forget it, remove the HLS directory.
Stop ==
    IF entry.st = "absent" THEN UNCHANGED <<manager, fresh>>
    ELSE /\ proc' = Terminate
         /\ entry' = [entry EXCEPT !.live = FALSE, !.timer = FALSE,
                                   !.child = NoPid, !.st = "off"]
         /\ fresh' = FALSE

\* A restart timer that fires and launches nothing.
TimerLost ==
    /\ entry.timer
    /\ entry' = [entry EXCEPT !.timer = FALSE]
    /\ UNCHANGED <<proc, service, mirror, fresh, crashes>>

\* The restart timer.
TimerFires ==
    /\ entry.timer
    /\ IF entry.live THEN Launch([entry EXCEPT !.timer = FALSE])
       ELSE entry' = [entry EXCEPT !.timer = FALSE] /\ UNCHANGED proc
    /\ UNCHANGED <<service, mirror, fresh, crashes>>

\* The process ends; its pipes are read to the end before the callback.
ProcessEnds(p, how) ==
    /\ proc[p].st \in {"up", "term"}
    /\ how = "signal" => proc[p].st = "term" \/ "signal" \in Env
    /\ proc' = [proc EXCEPT ![p].st = IF proc[p].role = "foreign" THEN "gone"
                                      ELSE "exited",
                            ![p].how = IF proc[p].role = "foreign"
                                       THEN "clean" ELSE how]
    /\ UNCHANGED <<entry, service, mirror, fresh, crashes>>

\* The exit callback: an exit is ignored only when the entry has another
\* child now; a death by signal is no crash.
ExitCallback(p) ==
    /\ proc[p].st = "exited"
    /\ proc' = [proc EXCEPT ![p] = [st |-> "gone", how |-> "clean",
                                    role |-> "foreign"]]
    /\ entry' = IF entry.child \notin {NoPid, p} THEN entry
                ELSE OnExit(entry, proc[p].how = "crash")
    /\ crashes' = IF proc[p].role # "newest" \/ ~entry.live THEN crashes
                  ELSE IF proc[p].how = "clean" THEN 0
                  ELSE IF crashes > MaxFailures THEN crashes
                  ELSE crashes + 1
    /\ UNCHANGED <<service, mirror, fresh>>

\* An orderly shutdown (Close) and the boot of the next core.
CloseAndBoot ==
    /\ "close" \in Env
    /\ proc' = [p \in Pid |-> [st |-> IF Terminate[p].st = "exited" THEN "gone"
                                      ELSE Terminate[p].st,
                               how |-> "clean", role |-> "foreign"]]
    /\ entry' = NoEntry
    /\ port' = FALSE /\ pub' = "idle" /\ fin' = NoFin
    /\ liveRoom' = FALSE /\ sync' = NoSync
    /\ crashes' = 0
    /\ UNCHANGED <<key, row, fresh>>

-----------------------------------------------------------------------------
(* The Service: HandlePublish, HandleDone, Remove *)

\* The publish hook, the boot re-arm or Create finds the key.  A publish
\* that is rejected, as of an MPEG-TS ingress without a source, does nothing.
PublishLookup ==
    /\ pub = "idle" /\ key
    /\ "rearm" \in Env \/ entry.st \in {"absent", "off"}
    /\ "overlap" \in Env \/ fin.pc = "idle"
    /\ pub' = IF Listens THEN "acquire" ELSE "start"
    /\ UNCHANGED <<manager, mirror, key, port, fin, fresh, crashes>>

\* acquirePort that gives a port without reserving it.
AcquireNothing ==
    /\ pub = "acquire"
    /\ pub' = "start"
    /\ UNCHANGED <<manager, mirror, key, port, fin, fresh, crashes>>

AcquirePort ==
    /\ pub = "acquire"
    /\ port' = TRUE
    /\ pub' = "start"
    /\ UNCHANGED <<manager, mirror, key, fin, fresh, crashes>>

PublishStart ==
    /\ pub = "start"
    /\ Start
    /\ pub' = "idle"
    /\ UNCHANGED <<mirror, key, port, fin, fresh>>

\* HandleDone needs the key; Remove reads the room from the key's row, and
\* goes on without one when it cannot be read.
FinishLookup(op) ==
    /\ fin.pc = "idle"
    /\ op = "done" => key
    /\ op = "remove" => "remove" \in Env
    /\ "overlap" \in Env \/ pub = "idle"
    /\ \E room \in BOOLEAN :
         /\ room = key \/ (op = "remove" /\ "db" \in Env /\ ~room)
         /\ fin' = [op |-> op, room |-> room, pc |-> "stop"]
    /\ UNCHANGED <<manager, mirror, key, port, pub, fresh, crashes>>

FinishStop ==
    /\ fin.pc = "stop"
    /\ Stop
    /\ fin' = [fin EXCEPT !.pc = "port"]
    /\ UNCHANGED <<mirror, key, port, pub, crashes>>

ReleasePort ==
    /\ fin.pc = "port"
    /\ port' = FALSE
    /\ fin' = IF fin.op = "done" THEN NoFin ELSE [fin EXCEPT !.pc = "key"]
    /\ UNCHANGED <<manager, mirror, key, pub, fresh, crashes>>

\* keys.Remove; an error is only logged.
RemoveKey ==
    /\ fin.pc = "key"
    /\ \/ key' = FALSE
       \/ "db" \in Env /\ UNCHANGED key
    /\ fin' = IF fin.room THEN [fin EXCEPT !.pc = "forget"] ELSE NoFin
    /\ UNCHANGED <<manager, mirror, port, pub, fresh, crashes>>

RemoveForget ==
    /\ fin.pc = "forget"
    /\ liveRoom' = FALSE
    /\ fin' = [fin EXCEPT !.pc = "end"]
    /\ UNCHANGED <<manager, key, port, pub, row, sync, fresh, crashes>>

RemoveEnd ==
    /\ fin.pc = "end"
    /\ \/ row' = FALSE
       \/ "db" \in Env /\ UNCHANGED row
    /\ fin' = NoFin
    /\ UNCHANGED <<manager, key, port, pub, liveRoom, sync, fresh, crashes>>

-----------------------------------------------------------------------------
(* SyncStreamRows and the playlist it looks at *)

Segment ==
    /\ \E p \in Pid : proc[p].st \in {"up", "term"}
    /\ fresh' = TRUE
    /\ UNCHANGED <<manager, service, mirror, crashes>>

\* Nothing was written for playlistFreshWindow.
PlaylistAges ==
    /\ fresh
    /\ fresh' = FALSE
    /\ UNCHANGED <<manager, service, mirror, crashes>>

SyncList ==
    /\ sync.pc = "idle"
    /\ entry.st # "absent"
    /\ sync' = [pc |-> "read", live |-> entry.live]
    /\ UNCHANGED <<manager, service, row, liveRoom, fresh, crashes>>

SyncRead ==
    /\ sync.pc = "read"
    /\ sync' = IF sync.live /\ fresh THEN [sync EXCEPT !.pc = "upsert"]
               ELSE IF liveRoom THEN [sync EXCEPT !.pc = "end"]
               ELSE NoSync
    /\ UNCHANGED <<manager, service, row, liveRoom, fresh, crashes>>

SyncUpsert ==
    /\ sync.pc = "upsert"
    /\ \/ row' = TRUE /\ sync' = [sync EXCEPT !.pc = "mark"]
       \/ "db" \in Env /\ sync' = NoSync /\ UNCHANGED row
    /\ UNCHANGED <<manager, service, liveRoom, fresh, crashes>>

\* An upsert that leaves no mark.
SyncNoMark ==
    /\ sync.pc = "mark"
    /\ sync' = NoSync
    /\ UNCHANGED <<manager, service, row, liveRoom, fresh, crashes>>

SyncMark ==
    /\ sync.pc = "mark"
    /\ liveRoom' = TRUE
    /\ sync' = NoSync
    /\ UNCHANGED <<manager, service, row, fresh, crashes>>

SyncEnd ==
    /\ sync.pc = "end"
    /\ \/ row' = FALSE /\ sync' = [sync EXCEPT !.pc = "unmark"]
       \/ "db" \in Env /\ sync' = NoSync /\ UNCHANGED row
    /\ UNCHANGED <<manager, service, liveRoom, fresh, crashes>>

SyncUnmark ==
    /\ sync.pc = "unmark"
    /\ liveRoom' = FALSE
    /\ sync' = NoSync
    /\ UNCHANGED <<manager, service, row, fresh, crashes>>

Handlers ==
    \/ PublishLookup \/ AcquirePort \/ PublishStart
    \/ \E op \in {"done", "remove"} : FinishLookup(op)
    \/ FinishStop \/ ReleasePort \/ RemoveKey \/ RemoveForget \/ RemoveEnd

Syncing ==
    \/ SyncList \/ SyncRead \/ SyncUpsert \/ SyncMark \/ SyncEnd
    \/ SyncUnmark

Next ==
    \/ Handlers \/ Syncing \/ TimerFires \/ CloseAndBoot
    \/ \E p \in Pid :
          ExitCallback(p) \/ \E how \in Exit : ProcessEnds(p, how)
    \/ Segment \/ PlaylistAges

Spec == Init /\ [][Next]_vars

\* The 15 s ticker runs SyncStreamRows again and again, a scheduled timer
\* fires, a handler that has begun goes on, and the wait of a process that
\* ended returns.  No encoder has to come or to go, and no ffmpeg to end.
FairSpec ==
    /\ Spec
    /\ WF_vars(Syncing)
    /\ WF_vars(TimerFires)
    /\ WF_vars(AcquirePort \/ PublishStart)
    /\ WF_vars(FinishStop \/ ReleasePort \/ RemoveKey \/ RemoveForget
                 \/ RemoveEnd)
    /\ \A p \in Pid : WF_vars(ExitCallback(p))

-----------------------------------------------------------------------------
(* Properties *)

Running == {p \in Pid : proc[p].st = "up"}

\* With publishes in order, never two ffmpeg at work for one ingress: "spawns + supervises one
\* `ffmpeg -c copy` per passthrough ingress" (RemuxManager, remux.go:113).
OneRemux == \A p, q \in Running : p = q

\* With publishes in order, no ffmpeg is left at work when the ingress is
\* stopped or the manager was closed, whatever timer or exit was pending
\* (Stop, Close, onExit).
StoppedHasNoChild == ~entry.live => Running = {}

\* An armed ingress is never forgotten: its ffmpeg exists, or a restart is
\* scheduled, or the manager gave up (launch, onExit, Start).
ArmedIsSupervised ==
    entry.live =>
      \/ entry.child # NoPid /\ proc[entry.child].st # "gone"
      \/ entry.timer
      \/ entry.st = "error"

\* An armed ingress holds the port its ffmpeg listens on, across publishes,
\* ends and restarts (acquirePort, releasePort), if no publish overlaps a
\* done or a remove.
ArmedHoldsPort == Listens /\ entry.live => port

\* Once publishes have ceased an armed ingress gets an ffmpeg or ends in
\* error (onExit, the timer).  While they go on Start sets failures back, and
\* an ffmpeg that cannot be spawned is tried for ever.
ArmedRuns ==
    <>[](pub = "idle") =>
        (entry.live ~> (entry.st \in {"live", "error"} \/ ~entry.live))

\* A streams row does not stay active behind a dead playlist: "stale/stopped
\* => end it once" (SyncStreamRows, service.go:151), while the core does not
\* restart and no statement fails.
RowEnds == (row /\ ~fresh) ~> (~row \/ fresh)
=============================================================================
