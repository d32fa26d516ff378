---------------------------- MODULE MCSupervisor ----------------------------
(* Instances of Supervisor, and two statements of the code's comments that  *)
(* TLC refutes on them: README, "Where the code departs from its word".     *)
EXTENDS Supervisor

\* A child that Restart killed is started again with no delay: "the loop
\* restarts it immediately (counted as a restart, no backoff)" (Restart,
\* supervisor.go:155).  The goroutine marks such an exit with backoff 0.
RestartIsImmediate ==
    [][loop.pc = "decide" /\ loop.want /\ loop.backoff = 0
         => loop'.backoff = 0]_(loop.backoff)

\* A rebuilt engine runs the command it was rebuilt with: "rebuildEngine
\* (re)builds the engine command and (re)starts it" (manager.go:292).
RebuiltIsStarted ==
    \A s \in Specs :
        (spec = s /\ wantRun) ~> (loop.spec = s \/ spec # s \/ ~wantRun)
=============================================================================
