----------------------------- MODULE Supervisor -----------------------------
(***************************************************************************)
(* The encoder's process supervisor                                        *)
(* (streamhub-encoder/internal/supervisor) as the channel manager uses it: *)
(* one goroutine per supervised engine starts the child, waits for it,     *)
(* backs off and starts it again, while the manager rebuilds, restarts and *)
(* stops it.                                                               *)
(*                                                                         *)
(* The manager's reconcile and stop run under Manager.applyMu, so there is *)
(* one controller, ctl, and a Stop holds it until the loop has ended.      *)
(* Restart comes from the watchdog and the API at any moment.  Every       *)
(* section the code runs under Process.mu is one step.                     *)
(***************************************************************************)
EXTENDS Naturals

CONSTANTS
    Pid,         \* process ids; one is reused once its process is gone
    NoPid,       \* Process.proc = nil
    Specs,       \* the commands the manager builds for the engine
    MinBackoff,  \* Options.MinBackoff, in units of time
    MaxBackoff,  \* Options.MaxBackoff
    Ops          \* what is asked of a running supervisor besides Stop

ASSUME PidAssumption == NoPid \notin Pid
ASSUME SpecsAssumption == Specs # {}
ASSUME BackoffAssumption ==
    /\ MinBackoff \in Nat \ {0} /\ MaxBackoff \in Nat
    /\ MinBackoff <= MaxBackoff
ASSUME OpsAssumption == Ops \subseteq {"rebuild", "restart"}

VARIABLES
    wantRun,  \* Process.wantRun
    state,    \* Process.state, what Status reports
    spec,     \* Process.spec, the command of the next start
    proc,     \* Process.proc
    kick,     \* Process.kick holds its one token
    loop,     \* the supervising goroutine: where it is and its locals
    child,    \* child[p]: the operating system's view of process p
    ctl       \* the manager's goroutine that holds applyMu

vars == <<wantRun, state, spec, proc, kick, loop, child, ctl>>

State == {"stopped", "running", "backoff", "stopping"}

\* A process runs, was sent SIGINT, was sent SIGKILL, or is gone.
Child == {"gone", "up", "interrupted", "killed"}

\* Where loop() is: "none" before Start and once done is closed.
LoopPc == {"none", "top", "spawn", "publish", "select", "kicked",
           "awaitKilled", "interrupt", "grace", "afterKill", "exited",
           "decide", "backoff", "delay"}

\* Where the controller is in rebuildEngine or in Stop.
CtlPc == {"idle", "setSpec", "start", "restart", "stopping"}

Loop == [pc : LoopPc, pid : Pid \cup {NoPid}, spec : Specs,
         backoff : 0 .. MaxBackoff, delay : 0 .. MaxBackoff, want : BOOLEAN]

TypeOK ==
    /\ wantRun \in BOOLEAN
    /\ state \in State
    /\ spec \in Specs
    /\ proc \in Pid \cup {NoPid}
    /\ kick \in BOOLEAN
    /\ loop \in Loop
    /\ child \in [Pid -> Child]
    /\ ctl \in [pc : CtlPc, spec : Specs, fresh : BOOLEAN]

Init ==
    /\ wantRun = FALSE
    /\ state = "stopped"
    /\ spec \in Specs
    /\ proc = NoPid
    /\ kick = FALSE
    /\ loop = [pc |-> "none", pid |-> NoPid, spec |-> spec,
               backoff |-> MinBackoff, delay |-> 0, want |-> TRUE]
    /\ child = [p \in Pid |-> "gone"]
    /\ ctl = [pc |-> "idle", spec |-> spec, fresh |-> FALSE]

\* Processes nobody has sent SIGKILL to.
Live == {p \in Pid : child[p] \in {"up", "interrupted"}}

\* The child the goroutine waits for has exited: waitCh is ready.
Reapable == child[loop.pid] = "gone"

\* SIGKILL of process p.
Kill(p) == [child EXCEPT ![p] = IF @ = "gone" THEN @ ELSE "killed"]

-----------------------------------------------------------------------------
(* What the manager asks for *)

\* rebuildEngine reads Status to tell a first start from a restart.
RebuildEngine(s) ==
    /\ ctl.pc = "idle"
    /\ wantRun => "rebuild" \in Ops
    /\ ctl' = [pc |-> "setSpec", spec |-> s, fresh |-> state = "stopped"]
    /\ UNCHANGED <<wantRun, state, spec, proc, kick, loop, child>>

SetSpec ==
    /\ ctl.pc = "setSpec"
    /\ spec' = ctl.spec
    /\ ctl' = [ctl EXCEPT !.pc = IF ctl.fresh THEN "start" ELSE "restart"]
    /\ UNCHANGED <<wantRun, state, proc, kick, loop, child>>

\* Start() without its check, which would supervise twice.
StartTwice ==
    /\ ctl.pc = "start"
    /\ wantRun' = TRUE
    /\ kick' = FALSE
    /\ loop' = [loop EXCEPT !.pc = "top", !.backoff = MinBackoff]
    /\ ctl' = [ctl EXCEPT !.pc = "idle"]
    /\ UNCHANGED <<state, spec, proc, child>>

\* Start(): a no-op when already supervising, else a new kick channel and a
\* new goroutine.
Start ==
    /\ ctl.pc = "start"
    /\ wantRun' = TRUE
    /\ kick' = (wantRun /\ kick)
    /\ loop' = IF wantRun THEN loop
               ELSE [loop EXCEPT !.pc = "top", !.backoff = MinBackoff]
    /\ ctl' = [ctl EXCEPT !.pc = "idle"]
    /\ UNCHANGED <<state, spec, proc, child>>

\* The body of Restart(): kill the current child and leave a token.
DoRestart ==
    /\ kick' = (wantRun \/ kick)
    /\ child' = IF wantRun /\ proc # NoPid THEN Kill(proc) ELSE child

RebuildRestart ==
    /\ ctl.pc = "restart"
    /\ DoRestart
    /\ ctl' = [ctl EXCEPT !.pc = "idle"]
    /\ UNCHANGED <<wantRun, state, spec, proc, loop>>

\* The watchdog of a stalled engine, RestartEngine and RestartOutput.
Restart ==
    /\ "restart" \in Ops
    /\ wantRun
    /\ DoRestart
    /\ UNCHANGED <<wantRun, state, spec, proc, loop, ctl>>

\* Stop() that forgets to wake the goroutine.
StopNoSignal ==
    /\ ctl.pc = "idle"
    /\ wantRun
    /\ wantRun' = FALSE
    /\ ctl' = [ctl EXCEPT !.pc = "stopping"]
    /\ UNCHANGED <<state, spec, proc, kick, loop, child>>

\* Stop(), up to the wait for done; a no-op on a stopped supervisor.
Stop ==
    /\ ctl.pc = "idle"
    /\ wantRun
    /\ wantRun' = FALSE
    /\ kick' = TRUE
    /\ ctl' = [ctl EXCEPT !.pc = "stopping"]
    /\ UNCHANGED <<state, spec, proc, loop, child>>

\* done is closed: Stop returns.
StopReturn ==
    /\ ctl.pc = "stopping"
    /\ loop.pc = "none"
    /\ ctl' = [ctl EXCEPT !.pc = "idle"]
    /\ UNCHANGED <<wantRun, state, spec, proc, kick, loop, child>>

-----------------------------------------------------------------------------
(* The supervising goroutine *)

LoopTop ==
    /\ loop.pc = "top"
    /\ loop' = IF wantRun THEN [loop EXCEPT !.pc = "spawn", !.spec = spec]
               ELSE [loop EXCEPT !.pc = "none"]
    /\ state' = IF wantRun THEN state ELSE "stopped"
    /\ UNCHANGED <<wantRun, spec, proc, kick, child, ctl>>

\* runner.Start: the process exists before Process.proc names it.
LoopSpawn ==
    /\ loop.pc = "spawn"
    /\ \E p \in Pid :
          /\ child[p] = "gone"
          /\ child' = [child EXCEPT ![p] = "up"]
          /\ loop' = [loop EXCEPT !.pc = "publish", !.pid = p]
    /\ UNCHANGED <<wantRun, state, spec, proc, kick, ctl>>

LoopSpawnFails ==
    /\ loop.pc = "spawn"
    /\ loop' = [loop EXCEPT !.pc = "exited", !.pid = NoPid]
    /\ UNCHANGED <<wantRun, state, spec, proc, kick, child, ctl>>

LoopPublish ==
    /\ loop.pc = "publish"
    /\ proc' = loop.pid
    /\ state' = "running"
    /\ loop' = [loop EXCEPT !.pc = "select"]
    /\ UNCHANGED <<wantRun, spec, kick, child, ctl>>

\* The select on waitCh and kick: either, when both are ready.
LoopChildExits ==
    /\ loop.pc = "select"
    /\ Reapable
    /\ loop' = [loop EXCEPT !.pc = "exited"]
    /\ UNCHANGED <<wantRun, state, spec, proc, kick, child, ctl>>

LoopTakesKick ==
    /\ loop.pc = "select"
    /\ kick
    /\ kick' = FALSE
    /\ loop' = [loop EXCEPT !.pc = "kicked"]
    /\ UNCHANGED <<wantRun, state, spec, proc, child, ctl>>

\* A token means Stop when wantRun is off, and Restart when it is on.
LoopKicked ==
    /\ loop.pc = "kicked"
    /\ state' = IF wantRun THEN state ELSE "stopping"
    /\ loop' = [loop EXCEPT !.pc = IF wantRun THEN "awaitKilled"
                                   ELSE "interrupt"]
    /\ UNCHANGED <<wantRun, spec, proc, kick, child, ctl>>

\* "Restart(): already killed; wait for it."
LoopAwaitKilled ==
    /\ loop.pc = "awaitKilled"
    /\ Reapable
    /\ loop' = [loop EXCEPT !.pc = "exited", !.backoff = 0]
    /\ UNCHANGED <<wantRun, state, spec, proc, kick, child, ctl>>

\* terminate: SIGINT, and SIGKILL after StopTimeout.
LoopInterrupt ==
    /\ loop.pc = "interrupt"
    /\ child' = [child EXCEPT ![loop.pid] = IF @ = "up" THEN "interrupted"
                                            ELSE @]
    /\ loop' = [loop EXCEPT !.pc = "grace"]
    /\ UNCHANGED <<wantRun, state, spec, proc, kick, ctl>>

LoopGraceExit ==
    /\ loop.pc \in {"grace", "afterKill"}
    /\ Reapable
    /\ loop' = [loop EXCEPT !.pc = "exited"]
    /\ UNCHANGED <<wantRun, state, spec, proc, kick, child, ctl>>

\* A StopTimeout that gives up instead of killing.
GiveUpAfterGrace ==
    /\ loop.pc = "grace"
    /\ loop' = [loop EXCEPT !.pc = "afterKill"]
    /\ UNCHANGED <<wantRun, state, spec, proc, kick, child, ctl>>

LoopGraceTimeout ==
    /\ loop.pc = "grace"
    /\ child' = Kill(loop.pid)
    /\ loop' = [loop EXCEPT !.pc = "afterKill"]
    /\ UNCHANGED <<wantRun, state, spec, proc, kick, ctl>>

\* A second after SIGKILL terminate abandons the process.
LoopAbandon ==
    /\ loop.pc = "afterKill"
    /\ loop' = [loop EXCEPT !.pc = "exited"]
    /\ UNCHANGED <<wantRun, state, spec, proc, kick, child, ctl>>

LoopExited ==
    /\ loop.pc = "exited"
    /\ proc' = NoPid
    /\ loop' = [loop EXCEPT !.pc = "decide", !.want = wantRun]
    /\ UNCHANGED <<wantRun, state, spec, kick, child, ctl>>

\* After OnExit: the end when Stop was called, else an uptime of at least
\* StableAfter takes the backoff back to its minimum.
LoopDecide ==
    /\ loop.pc = "decide"
    /\ \/ /\ ~loop.want
          /\ state' = "stopped"
          /\ loop' = [loop EXCEPT !.pc = "none"]
       \/ /\ loop.want
          /\ \E stable \in {FALSE, loop.pid # NoPid} :
                loop' = [loop EXCEPT !.pc = "backoff",
                                     !.backoff = IF stable THEN MinBackoff
                                                 ELSE @]
          /\ UNCHANGED state
    /\ UNCHANGED <<wantRun, spec, proc, kick, child, ctl>>

LoopBackoff ==
    /\ loop.pc = "backoff"
    /\ state' = "backoff"
    /\ loop' = [loop EXCEPT !.pc = "delay", !.delay = loop.backoff]
    /\ UNCHANGED <<wantRun, spec, proc, kick, child, ctl>>

\* Doubling with no cap.
DoubledBackoff(b) == IF b = 0 THEN MinBackoff ELSE 2 * b

NextBackoff(b) ==
    IF b = 0 THEN MinBackoff
    ELSE IF 2 * b > MaxBackoff THEN MaxBackoff ELSE 2 * b

\* A delay only a token ends.
DelayNoTimer ==
    /\ loop.pc = "delay"
    /\ kick
    /\ kick' = FALSE
    /\ loop' = [loop EXCEPT !.pc = "top", !.backoff = NextBackoff(@)]
    /\ UNCHANGED <<wantRun, state, spec, proc, child, ctl>>

\* The timer fires or, in a delay that is not zero, a token ends it.
LoopDelay ==
    /\ loop.pc = "delay"
    /\ kick' \in {kick, kick /\ loop.delay = 0}
    /\ loop' = [loop EXCEPT !.pc = "top", !.backoff = NextBackoff(@)]
    /\ UNCHANGED <<wantRun, state, spec, proc, child, ctl>>

-----------------------------------------------------------------------------
(* The child *)

\* It ends by itself, or because of SIGINT, or never.
ChildExit(p) ==
    /\ child[p] \in {"up", "interrupted"}
    /\ child' = [child EXCEPT ![p] = "gone"]
    /\ UNCHANGED <<wantRun, state, spec, proc, kick, loop, ctl>>

ChildKilled(p) ==
    /\ child[p] = "killed"
    /\ child' = [child EXCEPT ![p] = "gone"]
    /\ UNCHANGED <<wantRun, state, spec, proc, kick, loop, ctl>>

Controller ==
    \/ \E s \in Specs : RebuildEngine(s)
    \/ SetSpec \/ Start \/ RebuildRestart \/ Stop \/ StopReturn

Looping ==
    \/ LoopTop \/ LoopSpawn \/ LoopSpawnFails \/ LoopPublish
    \/ LoopChildExits \/ LoopTakesKick \/ LoopKicked \/ LoopAwaitKilled
    \/ LoopInterrupt \/ LoopGraceExit \/ LoopGraceTimeout \/ LoopAbandon
    \/ LoopExited \/ LoopDecide \/ LoopBackoff \/ LoopDelay

Next ==
    \/ Controller \/ Restart \/ Looping
    \/ \E p \in Pid : ChildExit(p) \/ ChildKilled(p)

Spec == Init /\ [][Next]_vars

\* The Go scheduler runs every goroutine that can run, timers fire, and
\* the kernel ends a process it sent SIGKILL.  Nothing makes a child exit
\* by itself, and nobody has to call Stop or Restart.
FairSpec ==
    /\ Spec
    /\ WF_vars(Looping)
    /\ WF_vars(SetSpec \/ Start \/ RebuildRestart \/ StopReturn)
    /\ \A p \in Pid : WF_vars(ChildKilled(p))

-----------------------------------------------------------------------------
(* Properties *)

\* The supervised command never runs twice: a second process is started
\* only when the one before is gone or has been sent SIGKILL, whatever the
\* order of Start, Restart, Stop, crashes and timeouts (loop, terminate).
OneChild == \A p, q \in Live : p = q

\* When Stop has returned and Start was not called since, no process runs
\* that was not sent SIGKILL: nothing keeps a port or a device open behind
\* the manager's back (Stop, terminate).
StopLeavesNone == (ctl.pc # "stopping" /\ ~wantRun) => Live = {}

\* A child that exits while the supervisor is wanted is started again,
\* after any number of crashes and failed starts (loop).
ExitIsRestarted ==
    (loop.pc = "exited" /\ wantRun) ~> (loop.pc = "spawn" \/ ~wantRun)

\* A Stop that does not return waits in one place only: the branch that
\* takes a token for a Restart's, for a child that nobody killed (loop,
\* supervisor.go:233).  From everywhere else, children that ignore SIGINT
\* or survive SIGKILL for a while included, it returns.
StopHangsOnlyOnRestart ==
    ctl.pc = "stopping" ~>
      (ctl.pc = "idle" \/ (loop.pc = "awaitKilled" /\ child[loop.pid] = "up"))

\* Stop returns: "It blocks until the child is gone (or StopTimeout+1s
\* elapsed after SIGKILL)" (Stop, supervisor.go:140).
StopReturns == ctl.pc = "stopping" ~> ctl.pc = "idle"
=============================================================================
