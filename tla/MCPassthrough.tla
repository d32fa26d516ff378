---------------------------- MODULE MCPassthrough ---------------------------
(* Instances of Passthrough, and statements of the code's comments and      *)
(* tests that TLC refutes on them: README, "Where the code departs from its *)
(* word".                                                                   *)
EXTENDS Passthrough, TLC

PidSymmetry == Permutations(Pid)

\* A removed ingress is down once its handlers are through: "Remove tears a
\* passthrough ingress down (remux + HLS dir, port, key, ...)" (Remove,
\* service.go:365).
RemovedIsTornDown == (~key /\ pub = "idle" /\ fin.pc = "idle") => ~entry.live

\* The exit of a replaced child does not touch the entry: "A stale child's
\* exit (replaced by a later launch) must not clobber it" (remux_test.go:273).
StaleExitIgnored ==
    [][\A p \in Pid :
         proc[p].st = "exited" /\ proc[p].role = "replaced"
           /\ proc'[p].st = "gone"
         => UNCHANGED entry]_vars

\* A crash loop ends in error: "error = gave up after repeated crashes"
\* (remux.go:20), whatever the ffmpeg dies of.
CrashLoopGivesUp == (entry.live /\ crashes > MaxFailures) => entry.st = "error"
=============================================================================
