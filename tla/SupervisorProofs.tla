-------------------------- MODULE SupervisorProofs --------------------------
(***************************************************************************)
(* Safety of the process supervisor for every number of processes, every   *)
(* set of commands and every backoff.  The inductive invariant ties the    *)
(* one live process to the goroutine's place in loop(), and that place to  *)
(* what the controller knows.                                              *)
(***************************************************************************)
EXTENDS Supervisor, TLAPS

\* The places of loop() at which its child may run without a SIGKILL.
Holding == {"publish", "select", "kicked", "awaitKilled", "interrupt",
            "grace"}

\* The live process is the goroutine's own, and a supervisor that is not
\* wanted and not being stopped has no goroutine.
Supervised ==
    /\ \A p \in Live : loop.pc \in Holding /\ p = loop.pid
    /\ (~wantRun /\ ctl.pc # "stopping") => loop.pc = "none"

IInv == TypeOK /\ Supervised

\* Doubling a backoff keeps it between the bounds.
LEMMA NextBackoffType ==
    ASSUME NEW b \in 0 .. MaxBackoff
    PROVE  NextBackoff(b) \in 0 .. MaxBackoff
  BY BackoffAssumption DEF NextBackoff

\* The constants the types mention are in them.
LEMMA BackoffType == MinBackoff \in 0 .. MaxBackoff /\ 0 \in 0 .. MaxBackoff
  BY BackoffAssumption

\* A new supervisor is well typed.
LEMMA TypeInit == Init => TypeOK
<1> SUFFICES ASSUME Init PROVE TypeOK
  OBVIOUS
<1>1. loop \in Loop
  BY BackoffType DEF Init, Loop, LoopPc
<1>2. ctl \in [pc : CtlPc, spec : Specs, fresh : BOOLEAN]
  BY DEF Init, CtlPc
<1>3. child \in [Pid -> Child]
  BY DEF Init, Child
<1> QED
  BY <1>1, <1>2, <1>3, Zenon DEF Init, TypeOK, State

\* Every step of the manager keeps the types.
LEMMA ControllerType == TypeOK /\ Controller => TypeOK'
<1> SUFFICES ASSUME TypeOK, Controller PROVE TypeOK'
  OBVIOUS
<1> USE BackoffType DEF TypeOK, State, Loop, LoopPc, CtlPc, Child
<1>1. ASSUME NEW s \in Specs, RebuildEngine(s) PROVE TypeOK'
  BY <1>1 DEF RebuildEngine
<1>2. CASE SetSpec
  BY <1>2 DEF SetSpec
<1>3. CASE Start
  BY <1>3, Zenon DEF Start
<1>4. CASE RebuildRestart
  BY <1>4 DEF RebuildRestart, DoRestart, Kill
<1>5. CASE Stop
  BY <1>5, Zenon DEF Stop
<1>6. CASE StopReturn
  BY <1>6 DEF StopReturn
<1> QED
  BY <1>1, <1>2, <1>3, <1>4, <1>5, <1>6 DEF Controller

\* Every step of the goroutine keeps the types.
LEMMA LoopingType == TypeOK /\ Looping => TypeOK'
<1> SUFFICES ASSUME TypeOK, Looping PROVE TypeOK'
  OBVIOUS
<1> USE BackoffType DEF TypeOK, State, Loop, LoopPc, Child
<1>1. CASE LoopTop
  BY <1>1, Zenon DEF LoopTop
<1>2. CASE LoopSpawn
  BY <1>2, Zenon DEF LoopSpawn
<1>3. CASE LoopSpawnFails
  BY <1>3, Zenon DEF LoopSpawnFails
<1>4. CASE LoopPublish
  BY <1>4 DEF LoopPublish
<1>5. CASE LoopChildExits \/ LoopTakesKick \/ LoopKicked \/ LoopAwaitKilled
  BY <1>5, ZenonT(40) DEF LoopChildExits, LoopTakesKick, LoopKicked, LoopAwaitKilled
<1>6. CASE LoopInterrupt
  BY <1>6, Zenon DEF LoopInterrupt
<1>7. CASE LoopGraceTimeout
  BY <1>7, Zenon DEF LoopGraceTimeout, Kill
<1>8. CASE LoopGraceExit \/ LoopAbandon \/ LoopExited
  BY <1>8, ZenonT(40) DEF LoopGraceExit, LoopAbandon, LoopExited
<1>9. CASE LoopDecide
  BY <1>9, ZenonT(40) DEF LoopDecide
<1>10. CASE LoopBackoff
  BY <1>10, Zenon DEF LoopBackoff
<1>11. CASE LoopDelay
  <2>1. NextBackoff(loop.backoff) \in 0 .. MaxBackoff
    BY NextBackoffType
  <2> QED
    BY <1>11, <2>1, Zenon DEF LoopDelay
<1> QED
  BY <1>1, <1>2, <1>3, <1>4, <1>5, <1>6, <1>7, <1>8, <1>9, <1>10, <1>11
     DEF Looping

\* Every step keeps the types.
LEMMA TypeNext == TypeOK /\ [Next]_vars => TypeOK'
<1> SUFFICES ASSUME TypeOK, [Next]_vars PROVE TypeOK'
  OBVIOUS
<1>1. CASE Controller
  BY <1>1, ControllerType
<1>2. CASE Looping
  BY <1>2, LoopingType
<1>3. CASE Restart
  BY <1>3 DEF TypeOK, Restart, DoRestart, Kill, Child
<1>4. ASSUME NEW p \in Pid, ChildExit(p) \/ ChildKilled(p) PROVE TypeOK'
  BY <1>4 DEF TypeOK, ChildExit, ChildKilled, Child
<1>5. CASE UNCHANGED vars
  BY <1>5 DEF vars, TypeOK
<1> QED
  BY <1>1, <1>2, <1>3, <1>4, <1>5 DEF Next

\* The supervisor's state, its channels, its goroutine and its processes
\* always have their types: the backoff stays between zero and MaxBackoff
\* (loop).
THEOREM Typing == Spec => []TypeOK
  BY TypeInit, TypeNext, PTL DEF Spec

\* Every step of the manager keeps the process with its goroutine: Start
\* makes a goroutine only where there was none, and Stop waits for its end.
LEMMA ControllerSupervised == IInv /\ Controller => Supervised'
<1> SUFFICES ASSUME IInv, Controller PROVE Supervised'
  OBVIOUS
<1> USE DEF IInv, TypeOK, Supervised, Live, Holding, Loop, CtlPc
<1>1. ASSUME NEW s \in Specs, RebuildEngine(s) PROVE Supervised'
  BY <1>1 DEF RebuildEngine
<1>2. CASE SetSpec
  BY <1>2 DEF SetSpec
<1>3. CASE Start
  BY <1>3 DEF Start
<1>4. CASE RebuildRestart
  BY <1>4 DEF RebuildRestart, DoRestart, Kill
<1>5. CASE Stop
  BY <1>5 DEF Stop
<1>6. CASE StopReturn
  BY <1>6 DEF StopReturn
<1> QED
  BY <1>1, <1>2, <1>3, <1>4, <1>5, <1>6 DEF Controller

\* Every step of the goroutine keeps its process with it: it leaves the
\* places that hold a child only when the child is gone or was killed.
LEMMA LoopingSupervised == IInv /\ Looping => Supervised'
<1> SUFFICES ASSUME IInv, Looping PROVE Supervised'
  OBVIOUS
<1> USE DEF IInv, TypeOK, Supervised, Live, Holding, Loop
<1>1. CASE LoopTop
  BY <1>1 DEF LoopTop
<1>2. CASE LoopSpawn
  BY <1>2 DEF LoopSpawn
<1>3. CASE LoopSpawnFails
  BY <1>3 DEF LoopSpawnFails
<1>4. CASE LoopPublish \/ LoopTakesKick \/ LoopKicked
  BY <1>4 DEF LoopPublish, LoopTakesKick, LoopKicked
<1>5. CASE LoopChildExits \/ LoopAwaitKilled \/ LoopGraceExit
  BY <1>5 DEF LoopChildExits, LoopAwaitKilled, LoopGraceExit, Reapable
<1>6. CASE LoopInterrupt
  BY <1>6 DEF LoopInterrupt
<1>7. CASE LoopGraceTimeout
  BY <1>7 DEF LoopGraceTimeout, Kill
<1>8. CASE LoopAbandon \/ LoopExited
  BY <1>8 DEF LoopAbandon, LoopExited
<1>9. CASE LoopDecide
  BY <1>9 DEF LoopDecide
<1>10. CASE LoopBackoff \/ LoopDelay
  BY <1>10 DEF LoopBackoff, LoopDelay
<1> QED
  BY <1>1, <1>2, <1>3, <1>4, <1>5, <1>6, <1>7, <1>8, <1>9, <1>10
     DEF Looping

\* Every step keeps the inductive invariant.
LEMMA IInvNext == IInv /\ [Next]_vars => IInv'
<1> SUFFICES ASSUME IInv, [Next]_vars PROVE Supervised'
  BY TypeNext DEF IInv
<1>1. CASE Controller
  BY <1>1, ControllerSupervised
<1>2. CASE Looping
  BY <1>2, LoopingSupervised
<1>3. CASE Restart
  BY <1>3 DEF IInv, TypeOK, Supervised, Live, Restart, DoRestart, Kill
<1>4. ASSUME NEW p \in Pid, ChildExit(p) \/ ChildKilled(p)
      PROVE  Supervised'
  BY <1>4 DEF IInv, TypeOK, Supervised, Live, ChildExit, ChildKilled
<1>5. CASE UNCHANGED vars
  BY <1>5 DEF vars, IInv, Supervised, Live
<1> QED
  BY <1>1, <1>2, <1>3, <1>4, <1>5 DEF Next

\* The inductive invariant holds throughout.
LEMMA IInvHolds == Spec => []IInv
<1>1. Init => IInv
  BY TypeInit DEF Init, IInv, Supervised, Live
<1> QED
  BY <1>1, IInvNext, PTL DEF Spec

\* No command ever runs in two live processes (loop, terminate): a new
\* child is started only once the old one is gone or was sent SIGKILL.
THEOREM SingleChild == Spec => []OneChild
<1>1. IInv => OneChild
  BY DEF IInv, Supervised, OneChild
<1> QED
  BY <1>1, IInvHolds, PTL

\* When Stop has returned no live process is left behind (Stop).
THEOREM StoppedLeavesNone == Spec => []StopLeavesNone
<1>1. IInv => StopLeavesNone
  BY DEF IInv, Supervised, StopLeavesNone, Holding
<1> QED
  BY <1>1, IInvHolds, PTL
=============================================================================
