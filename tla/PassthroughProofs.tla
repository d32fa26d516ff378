------------------------- MODULE PassthroughProofs --------------------------
(***************************************************************************)
(* Safety of one passthrough ingress for every number of processes and     *)
(* every failure limit.  That an armed ingress is never forgotten holds in *)
(* every environment; that one ffmpeg at most is at work, and that the     *)
(* ingress holds its port, when publishes come in order.                   *)
(***************************************************************************)
EXTENDS Passthrough, TLAPS

USE DEF manager, service, mirror

\* The limits of the failure count.
LEMMA Bounds ==
    /\ 0 \in 0 .. MaxFailures + 1
    /\ MaxFailures + 1 \in 0 .. MaxFailures + 1
    /\ \A n \in 0 .. MaxFailures : n + 1 \in 0 .. MaxFailures + 1
  BY MaxFailuresAssumption

\* onExit gives an entry with no child, and counts no further than the limit.
LEMMA OnExitType ==
    ASSUME NEW e \in Entry, NEW c \in BOOLEAN
    PROVE  OnExit(e, c) \in Entry
<1> DEFINE f == IF c THEN e.failures + 1 ELSE 0
<1>1. CASE ~e.live
  BY <1>1, Zenon DEF OnExit, Entry, RemuxStatus
<1>2. CASE e.live /\ f > MaxFailures
  BY <1>2, Bounds, Zenon DEF OnExit, Entry, RemuxStatus
<1>3. CASE e.live /\ ~(f > MaxFailures)
  <2>1. f \in 0 .. MaxFailures + 1
    BY <1>3, MaxFailuresAssumption DEF Entry
  <2>2. OnExit(e, c) = [e EXCEPT !.child = NoPid, !.st = "idle",
                                 !.failures = f, !.timer = TRUE]
    BY <1>3 DEF OnExit
  <2> HIDE DEF f
  <2> QED
    BY <2>1, <2>2, Zenon DEF Entry, RemuxStatus
<1> QED
  BY <1>1, <1>2, <1>3 DEF Entry

\* launch keeps the entry and the processes well typed.
LEMMA LaunchType ==
    ASSUME TypeOK, NEW e \in Entry, Launch(e)
    PROVE  entry' \in Entry /\ proc' \in [Pid -> Process]
<1>1. CASE UNCHANGED proc /\ entry' = OnExit(e, TRUE)
  BY <1>1, OnExitType, Zenon DEF TypeOK
<1>2. ASSUME NEW p \in Pid,
             proc' = [q \in Pid |->
                        IF q = p THEN [st |-> "up", how |-> "clean",
                                       role |-> "newest"]
                        ELSE IF proc[q].role = "newest"
                        THEN [proc[q] EXCEPT !.role = "replaced"]
                        ELSE proc[q]],
             entry' = [e EXCEPT !.child = p, !.st = "live"]
      PROVE  entry' \in Entry /\ proc' \in [Pid -> Process]
  <2>1. entry' \in Entry
    BY <1>2, Zenon DEF Entry, RemuxStatus
  <2>2. ASSUME NEW q \in Pid PROVE proc'[q] \in Process
    BY <1>2 DEF TypeOK, Process, Exit
  <2> QED
    BY <1>2, <2>1, <2>2, Zenon
<1> QED
  BY <1>1, <1>2, Zenon DEF Launch

\* Terminate keeps the processes well typed.
LEMMA TerminateType == TypeOK => Terminate \in [Pid -> Process]
  BY DEF TypeOK, Terminate, Process

\* The handlers and the mirror at rest are well typed.
LEMMA IdleType == NoFin \in Fin /\ NoSync \in Sync
  BY DEF NoFin, NoSync, Fin, Sync

\* The first state is well typed.
LEMMA TypeInit == Init => TypeOK
<1> SUFFICES ASSUME Init PROVE TypeOK
  OBVIOUS
<1>1. entry \in Entry
  BY Bounds DEF Init, NoEntry, Entry, RemuxStatus
<1>2. proc \in [Pid -> Process]
  BY DEF Init, Process, Exit
<1> QED
  BY <1>1, <1>2, Bounds, IdleType, Zenon DEF Init, TypeOK

\* The steps of the manager keep the types.
LEMMA ManagerType ==
    ASSUME TypeOK,
           \/ TimerFires \/ CloseAndBoot \/ Segment \/ PlaylistAges
           \/ \E p \in Pid :
                ExitCallback(p) \/ \E how \in Exit : ProcessEnds(p, how)
    PROVE  TypeOK'
<1>e. entry \in Entry
  BY DEF TypeOK
<1>1. CASE TimerFires
  <2>1. [entry EXCEPT !.timer = FALSE] \in Entry
    BY <1>e, Zenon DEF Entry
  <2>2. entry' \in Entry /\ proc' \in [Pid -> Process]
    BY <1>1, <2>1, LaunchType, Zenon DEF TimerFires, TypeOK
  <2> QED
    BY <1>1, <2>2 DEF TimerFires, TypeOK
<1>2. CASE CloseAndBoot
  <2>1. proc' \in [Pid -> Process]
    BY <1>2, TerminateType DEF CloseAndBoot, Process, Exit
  <2>2. entry' \in Entry
    BY <1>2, MaxFailuresAssumption
       DEF CloseAndBoot, NoEntry, Entry, RemuxStatus
  <2> QED
    BY <1>2, <2>1, <2>2, Bounds, IdleType, Zenon DEF CloseAndBoot, TypeOK
<1>3. CASE Segment \/ PlaylistAges
  BY <1>3, Zenon DEF Segment, PlaylistAges, TypeOK
<1>4. ASSUME NEW p \in Pid, ExitCallback(p) PROVE TypeOK'
  <2>1. proc' \in [Pid -> Process]
    BY <1>4 DEF ExitCallback, TypeOK, Process, Exit
  <2>2. entry' \in Entry
    BY <1>4, <1>e, OnExitType, Zenon DEF ExitCallback
  <2>3. crashes' \in 0 .. MaxFailures + 1
    BY <1>4, MaxFailuresAssumption DEF ExitCallback, TypeOK
  <2> QED
    BY <1>4, <2>1, <2>2, <2>3 DEF ExitCallback, TypeOK
<1>5. ASSUME NEW p \in Pid, NEW how \in Exit, ProcessEnds(p, how)
      PROVE  TypeOK'
  <2>1. proc' \in [Pid -> Process]
    BY <1>5 DEF ProcessEnds, TypeOK, Process, Exit
  <2> QED
    BY <1>5, <2>1 DEF ProcessEnds, TypeOK
<1> QED
  BY <1>1, <1>2, <1>3, <1>4, <1>5

\* The steps of the handlers and of the mirror keep the types.
LEMMA ServiceType == TypeOK /\ (Handlers \/ Syncing) => TypeOK'
<1> SUFFICES ASSUME TypeOK, Handlers \/ Syncing PROVE TypeOK'
  OBVIOUS
<1>e. entry \in Entry
  BY DEF TypeOK
<1>1. CASE PublishLookup \/ AcquirePort
  BY <1>1, Zenon DEF PublishLookup, AcquirePort, TypeOK
<1>2. CASE PublishStart
  <2>1. [entry EXCEPT !.live = TRUE, !.failures = 0, !.st = "idle"] \in Entry
    BY <1>e, Bounds, Zenon DEF Entry, RemuxStatus
  <2>2. entry' \in Entry /\ proc' \in [Pid -> Process]
    BY <1>2, <1>e, <2>1, LaunchType DEF PublishStart, Start, TypeOK
  <2> QED
    BY <1>2, <2>2, Bounds DEF PublishStart, Start, TypeOK
<1>3. ASSUME NEW op \in {"done", "remove"}, FinishLookup(op) PROVE TypeOK'
  BY <1>3 DEF FinishLookup, TypeOK, Fin
<1>4. CASE FinishStop
  <2>1. proc' \in [Pid -> Process]
    BY <1>4, TerminateType DEF FinishStop, Stop, TypeOK
  <2>2. entry' \in Entry
    BY <1>4, <1>e, Zenon DEF FinishStop, Stop, Entry, RemuxStatus
  <2> QED
    BY <1>4, <2>1, <2>2, Zenon DEF FinishStop, Stop, TypeOK, Fin
<1>5. CASE ReleasePort \/ RemoveKey \/ RemoveForget \/ RemoveEnd
  <2>1. fin' \in Fin
    BY <1>5, IdleType
       DEF ReleasePort, RemoveKey, RemoveForget, RemoveEnd, TypeOK, Fin
  <2> QED
    BY <1>5, <2>1, Zenon
       DEF ReleasePort, RemoveKey, RemoveForget, RemoveEnd, TypeOK
<1>6. CASE Syncing
  <2>1. sync' \in Sync
    BY <1>6, IdleType
       DEF Syncing, SyncList, SyncRead, SyncUpsert, SyncMark, SyncEnd,
           SyncUnmark, TypeOK, Sync, Entry
  <2> QED
    BY <1>6, <2>1, Zenon DEF Syncing, SyncList, SyncRead, SyncUpsert, SyncMark,
                      SyncEnd, SyncUnmark, TypeOK
<1> QED
  BY <1>1, <1>2, <1>3, <1>4, <1>5, <1>6 DEF Handlers

\* Every step keeps the types.
LEMMA TypeNext == TypeOK /\ [Next]_vars => TypeOK'
<1>1. TypeOK /\ UNCHANGED vars => TypeOK'
  BY DEF vars, TypeOK
<1> QED
  BY <1>1, ManagerType, ServiceType DEF Next

\* The entry, its processes, the handlers and the mirror always have their
\* types: the failure count never passes maxConsecutiveFailures + 1 (onExit).
THEOREM Typing == Spec => []TypeOK
  BY TypeInit, TypeNext, PTL DEF Spec
-----------------------------------------------------------------------------
(* An armed ingress is never forgotten *)

\* The entry's child exists and is of this core; an armed entry has a
\* child, a timer or the verdict "error".
Minded ==
    /\ entry.child # NoPid =>
         /\ entry.child \in Pid
         /\ proc[entry.child].st # "gone"
         /\ proc[entry.child].role # "foreign"
    /\ entry.live => entry.child # NoPid \/ entry.timer \/ entry.st = "error"

\* launch leaves a child that exists, or what onExit makes of a crash.
LEMMA LaunchMinded ==
    ASSUME TypeOK, NEW e \in Entry, e.live, Launch(e)
    PROVE  Minded'
<1>1. CASE UNCHANGED proc /\ entry' = OnExit(e, TRUE)
  BY <1>1, PidAssumption DEF OnExit, Minded, Entry
<1>2. ASSUME NEW p \in Pid,
             proc' = [q \in Pid |->
                        IF q = p THEN [st |-> "up", how |-> "clean",
                                       role |-> "newest"]
                        ELSE IF proc[q].role = "newest"
                        THEN [proc[q] EXCEPT !.role = "replaced"]
                        ELSE proc[q]],
             entry' = [e EXCEPT !.child = p, !.st = "live"]
      PROVE  Minded'
  BY <1>2, PidAssumption DEF Minded, Entry
<1> QED
  BY <1>1, <1>2, Zenon DEF Launch

\* The steps that leave the entry and its processes alone keep Minded.
LEMMA MindedFrame == Minded /\ UNCHANGED manager => Minded'
  BY DEF Minded

\* Every step keeps Minded.
LEMMA MindedNext == TypeOK /\ Minded /\ [Next]_vars => Minded'
<1> SUFFICES ASSUME TypeOK, Minded, [Next]_vars PROVE Minded'
  OBVIOUS
<1>e. entry \in Entry
  BY DEF TypeOK
<1>1. CASE TimerFires
  <2>1. CASE entry.live
    <3>1. /\ [entry EXCEPT !.timer = FALSE] \in Entry
          /\ [entry EXCEPT !.timer = FALSE].live
      BY <1>e, <2>1, Zenon DEF Entry
    <3> QED
      BY <1>1, <2>1, <3>1, LaunchMinded, Zenon DEF TimerFires
  <2>2. CASE ~entry.live
    BY <1>1, <1>e, <2>2 DEF TimerFires, Minded, Entry
  <2> QED
    BY <2>1, <2>2
<1>2. CASE CloseAndBoot
  BY <1>2 DEF CloseAndBoot, NoEntry, Minded
<1>3. ASSUME NEW p \in Pid, ExitCallback(p) PROVE Minded'
  <2>1. CASE entry.child \notin {NoPid, p}
    BY <1>3, <1>e, <2>1 DEF ExitCallback, Minded, TypeOK
  <2>2. CASE entry.child \in {NoPid, p}
    BY <1>3, <1>e, <2>2, PidAssumption
       DEF ExitCallback, OnExit, Minded, Entry
  <2> QED
    BY <2>1, <2>2
<1>4. ASSUME NEW p \in Pid, NEW how \in Exit, ProcessEnds(p, how)
      PROVE  Minded'
  BY <1>4 DEF ProcessEnds, Minded, TypeOK, Process
<1>5. CASE PublishStart
  <2>1. CASE entry.st = "live" \/ entry.child # NoPid
    BY <1>5, <2>1, MindedFrame DEF PublishStart, Start
  <2>2. CASE ~(entry.st = "live" \/ entry.child # NoPid)
    <3> DEFINE e == [entry EXCEPT !.live = TRUE, !.failures = 0,
                                  !.st = "idle"]
    <3>1. e \in Entry /\ e.live
      BY <1>e, Bounds, Zenon DEF Entry, RemuxStatus
    <3>2. Launch(e)
      BY <1>5, <2>2 DEF PublishStart, Start
    <3> HIDE DEF e
    <3> QED
      BY <3>1, <3>2, LaunchMinded
  <2> QED
    BY <2>1, <2>2
<1>6. CASE FinishStop
  BY <1>6, <1>e, Zenon DEF FinishStop, Stop, Minded, Entry
<1>7. CASE \/ PublishLookup \/ AcquirePort \/ ReleasePort \/ RemoveKey
           \/ RemoveForget \/ RemoveEnd \/ Segment \/ PlaylistAges
           \/ \E op \in {"done", "remove"} : FinishLookup(op)
  BY <1>7, MindedFrame
     DEF PublishLookup, AcquirePort, ReleasePort, RemoveKey, RemoveForget,
         RemoveEnd, Segment, PlaylistAges, FinishLookup
<1>8. CASE Syncing
  BY <1>8, MindedFrame DEF Syncing, SyncList, SyncRead, SyncUpsert, SyncMark,
                           SyncEnd, SyncUnmark
<1>9. CASE UNCHANGED vars
  BY <1>9, MindedFrame DEF vars
<1> QED
  BY <1>1, <1>2, <1>3, <1>4, <1>5, <1>6, <1>7, <1>8, <1>9
     DEF Next, Handlers

\* An armed ingress always has an ffmpeg, a scheduled restart or the status
\* "error" (launch, onExit), in every environment: with stale exits, with
\* publishes of an armed ingress and with overlapping handlers.
THEOREM NeverForgotten == Spec => []ArmedIsSupervised
<1>1. Init => Minded
  BY DEF Init, NoEntry, Minded
<1>2. Minded => ArmedIsSupervised
  BY DEF Minded, ArmedIsSupervised
<1> QED
  BY <1>1, <1>2, MindedNext, Typing, TypeInit, TypeNext, PTL DEF Spec
-----------------------------------------------------------------------------
(* One ffmpeg and its port, when publishes come in order *)

\* No publish of an armed ingress, and none beside a done or a remove.
InOrder == Env \cap {"rearm", "overlap"} = {}

\* The only ffmpeg at work is the entry's child; a timer is pending only
\* between children; a publish under way finds the ingress stopped and no
\* other handler at work; an armed ingress that listens holds its port.
Single ==
    /\ \A p \in Running : p = entry.child
    /\ entry.child # NoPid => entry.live /\ ~entry.timer
    /\ entry.timer => entry.live
    /\ entry.st \in {"absent", "off"} => ~entry.live
    /\ pub # "idle" => ~entry.live /\ fin.pc = "idle"
    /\ fin.pc = "port" => ~entry.live
    /\ Listens /\ pub = "start" => port
    /\ Listens /\ entry.live => port

\* launch starts the one ffmpeg when none is at work.
LEMMA LaunchSingle ==
    ASSUME TypeOK, NEW e \in Entry, e.live, ~e.timer, Running = {},
           Launch(e)
    PROVE  /\ \A p \in Running' : p = entry'.child
           /\ entry'.child # NoPid => ~entry'.timer
           /\ entry'.live
           /\ entry'.st \notin {"absent", "off"}
<1>1. CASE UNCHANGED proc /\ entry' = OnExit(e, TRUE)
  BY <1>1 DEF OnExit, Entry, Running
<1>2. ASSUME NEW p \in Pid,
             proc' = [q \in Pid |->
                        IF q = p THEN [st |-> "up", how |-> "clean",
                                       role |-> "newest"]
                        ELSE IF proc[q].role = "newest"
                        THEN [proc[q] EXCEPT !.role = "replaced"]
                        ELSE proc[q]],
             entry' = [e EXCEPT !.child = p, !.st = "live"]
      PROVE  /\ \A q \in Running' : q = entry'.child
             /\ entry'.child # NoPid => ~entry'.timer
             /\ entry'.live
             /\ entry'.st \notin {"absent", "off"}
  <2>1. entry'.child = p /\ entry'.timer = e.timer /\ entry'.live
        /\ entry'.st = "live"
    BY <1>2 DEF Entry
  <2>2. ASSUME NEW q \in Pid, q # p PROVE proc'[q].st # "up"
    BY <1>2, <2>2 DEF TypeOK, Process, Running
  <2> QED
    BY <2>1, <2>2 DEF Running
<1> QED
  BY <1>1, <1>2, Zenon DEF Launch

\* After SIGTERM of the entry's child no ffmpeg is at work.
LEMMA TerminateAll ==
    TypeOK /\ Single => \A p \in Pid : Terminate[p].st # "up"
  BY Zenon DEF TypeOK, Single, Terminate, Running, Process

\* The timer and the exit callback keep one ffmpeg.
LEMMA ManagerSingle ==
    ASSUME InOrder, TypeOK, Single,
           \/ TimerFires \/ CloseAndBoot
           \/ \E p \in Pid :
                ExitCallback(p) \/ \E how \in Exit : ProcessEnds(p, how)
    PROVE  Single'
<1>e. entry \in Entry
  BY DEF TypeOK
<1>1. CASE TimerFires
  <2> DEFINE e == [entry EXCEPT !.timer = FALSE]
  <2>1. e \in Entry /\ e.live /\ ~e.timer
    BY <1>1, <1>e, Zenon DEF TimerFires, Single, Entry
  <2>2. Running = {}
    BY <1>1, PidAssumption DEF TimerFires, Single, Running
  <2>3. Launch(e)
    BY <1>1 DEF TimerFires, Single
  <2> HIDE DEF e
  <2>4. /\ \A p \in Running' : p = entry'.child
        /\ entry'.child # NoPid => ~entry'.timer
        /\ entry'.live
        /\ entry'.st \notin {"absent", "off"}
    BY <2>1, <2>2, <2>3, LaunchSingle
  <2> QED
    BY <1>1, <2>4 DEF TimerFires, Single
<1>2. CASE CloseAndBoot
  <2>1. Running' = {}
    BY <1>2, TerminateAll DEF CloseAndBoot, Running
  <2> QED
    BY <1>2, <2>1 DEF CloseAndBoot, NoEntry, NoFin, Single
<1>3. ASSUME NEW p \in Pid, ExitCallback(p) PROVE Single'
  <2>1. \A q \in Running' : q \in Running /\ q # p
    BY <1>3 DEF ExitCallback, Running, TypeOK
  <2>2. CASE entry.child \notin {NoPid, p}
    BY <1>3, <2>1, <2>2 DEF ExitCallback, Single
  <2>3. CASE entry.child \in {NoPid, p}
    <3>1. Running' = {}
      BY <2>1, <2>3, PidAssumption, SMTT(40) DEF Single, Running
    <3>2. /\ entry'.child = NoPid
          /\ entry'.live = entry.live
          /\ entry'.timer => entry.timer \/ entry.live
          /\ entry'.st \in {"absent", "off"} => ~entry.live
      BY <1>3, <1>e, <2>3, Zenon DEF ExitCallback, OnExit, Entry
    <3> QED
      BY <1>3, <3>1, <3>2 DEF ExitCallback, Single
  <2> QED
    BY <2>2, <2>3
<1>4. ASSUME NEW p \in Pid, NEW how \in Exit, ProcessEnds(p, how)
      PROVE  Single'
  <2>1. \A q \in Running' : q \in Running
    BY <1>4 DEF ProcessEnds, Running, TypeOK, Process
  <2> QED
    BY <1>4, <2>1 DEF ProcessEnds, Single
<1> QED
  BY <1>1, <1>2, <1>3, <1>4

\* The handlers keep one ffmpeg and its port.
LEMMA HandlersSingle == InOrder /\ TypeOK /\ Single /\ Handlers => Single'
<1> SUFFICES ASSUME InOrder, TypeOK, Single, Handlers PROVE Single'
  OBVIOUS
<1>e. entry \in Entry
  BY DEF TypeOK
<1>1. CASE PublishLookup
  BY <1>1 DEF PublishLookup, InOrder, Single, Running
<1>2. CASE AcquirePort
  BY <1>2 DEF AcquirePort, Single, Running
<1>3. CASE PublishStart
  <2>1. pub = "start" /\ ~entry.live /\ entry.child = NoPid /\ ~entry.timer
        /\ fin.pc = "idle" /\ (Listens => port)
    BY <1>3 DEF PublishStart, Single
  <2>2. CASE entry.st = "live"
    BY <1>3, <2>1, <2>2 DEF PublishStart, Start, Single, Running
  <2>3. CASE entry.st # "live"
    <3> DEFINE e == [entry EXCEPT !.live = TRUE, !.failures = 0,
                                  !.st = "idle"]
    <3>1. e \in Entry /\ e.live /\ ~e.timer
      BY <1>e, <2>1, Bounds, Zenon DEF Entry, RemuxStatus
    <3>2. Running = {}
      BY <2>1, PidAssumption DEF Single, Running
    <3>3. Launch(e)
      BY <1>3, <2>1, <2>3 DEF PublishStart, Start
    <3> HIDE DEF e
    <3>4. /\ \A p \in Running' : p = entry'.child
          /\ entry'.child # NoPid => ~entry'.timer
          /\ entry'.live
          /\ entry'.st \notin {"absent", "off"}
      BY <3>1, <3>2, <3>3, LaunchSingle
    <3> QED
      BY <1>3, <2>1, <3>4 DEF PublishStart, Single
  <2> QED
    BY <2>2, <2>3
<1>4. ASSUME NEW op \in {"done", "remove"}, FinishLookup(op) PROVE Single'
  BY <1>4 DEF FinishLookup, InOrder, Single, Running
<1>5. CASE FinishStop
  <2>1. CASE entry.st = "absent"
    BY <1>5, <2>1 DEF FinishStop, Stop, Single, Running, TypeOK, Fin
  <2>2. CASE entry.st # "absent"
    <3>1. Running' = {}
      BY <1>5, <2>2, TerminateAll DEF FinishStop, Stop, Running
    <3>2. entry'.child = NoPid /\ ~entry'.live /\ ~entry'.timer
      BY <1>5, <1>e, <2>2, Zenon DEF FinishStop, Stop, Entry
    <3> QED
      BY <1>5, <3>1, <3>2 DEF FinishStop, Single
  <2> QED
    BY <2>1, <2>2
<1>6. CASE ReleasePort
  BY <1>6 DEF ReleasePort, Single, Running, NoFin, TypeOK, Fin
<1>7. CASE RemoveKey \/ RemoveForget \/ RemoveEnd
  BY <1>7 DEF RemoveKey, RemoveForget, RemoveEnd, Single, Running, NoFin,
              TypeOK, Fin
<1> QED
  BY <1>1, <1>2, <1>3, <1>4, <1>5, <1>6, <1>7 DEF Handlers

\* Every step keeps one ffmpeg and its port when publishes come in order.
LEMMA SingleNext == InOrder /\ TypeOK /\ Single /\ [Next]_vars => Single'
<1> SUFFICES ASSUME InOrder, TypeOK, Single, [Next]_vars PROVE Single'
  OBVIOUS
<1>1. CASE Syncing
  BY <1>1 DEF Syncing, SyncList, SyncRead, SyncUpsert, SyncMark, SyncEnd,
              SyncUnmark, Single, Running
<1>2. CASE Segment \/ PlaylistAges
  BY <1>2 DEF Segment, PlaylistAges, Single, Running
<1>3. CASE UNCHANGED vars
  BY <1>3 DEF vars, Single, Running
<1> QED
  BY <1>1, <1>2, <1>3, ManagerSingle, HandlersSingle DEF Next

\* The invariant behind the three theorems below.
LEMMA SingleHolds == ASSUME InOrder PROVE Spec => []Single
<1>1. Init => Single
  BY PidAssumption DEF Init, NoEntry, NoFin, Single, Running
<1>2. TypeOK /\ Single /\ [Next]_vars => Single'
  BY SingleNext
<1> QED
  BY <1>1, <1>2, Typing, TypeInit, TypeNext, PTL DEF Spec

\* When publishes come in order, two ffmpeg are never at work for one
\* ingress, through any crash, restart, stop and stale exit (RemuxManager).
THEOREM SingleRemux == ASSUME InOrder PROVE Spec => []OneRemux
<1>1. Single => OneRemux
  BY DEF Single, OneRemux
<1> QED
  BY <1>1, SingleHolds, PTL

\* When publishes come in order, no ffmpeg is at work once Stop or Close
\* has returned (Stop, Close).
THEOREM StoppedIsQuiet == ASSUME InOrder PROVE Spec => []StoppedHasNoChild
<1>1. Single => StoppedHasNoChild
  BY PidAssumption DEF Single, StoppedHasNoChild, Running
<1> QED
  BY <1>1, SingleHolds, PTL

\* When publishes come in order, an armed ingress holds the port its ffmpeg
\* listens on (acquirePort, releasePort).
THEOREM PortHeld == ASSUME InOrder PROVE Spec => []ArmedHoldsPort
<1>1. Single => ArmedHoldsPort
  BY DEF Single, ArmedHoldsPort
<1> QED
  BY <1>1, SingleHolds, PTL
=============================================================================
