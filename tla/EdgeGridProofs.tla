--------------------------- MODULE EdgeGridProofs ---------------------------
(***************************************************************************)
(* Type correctness of the edge grid, that a row in play names a node, and *)
(* that the gateway holds the session an agent is in, for any number of    *)
(* nodes, assignments, sessions and restarts, and any set of faults.       *)
(***************************************************************************)
EXTENDS EdgeGrid, TLAPS

\* Zenon is the prover of a leaf that names none; the leaves with arithmetic,
\* records or many cases name SMT.
USE Zenon

(* Type correctness needs to know that the placement thread and Revoke push *)
(* only to a node.                                                          *)
ThreadOK == /\ thread.pc = "send" => thread.tgt \in Node
            /\ revoker.pc = "tell" => revoker.node \in Node

TInv == TypeOK /\ ThreadOK

USE DEF Idle

\* What a step leaves alone keeps its type.
LEMMA Unmoved ==
    /\ RowsOK /\ UNCHANGED rows => RowsOK'
    /\ LinksOK /\ UNCHANGED links => LinksOK'
    /\ LoopsOK /\ UNCHANGED loops => LoopsOK'
    /\ CallsOK /\ UNCHANGED calls => CallsOK'
    /\ AgentsOK /\ UNCHANGED agent => AgentsOK'
    /\ FramesOK /\ UNCHANGED <<down, up>> => FramesOK'
BY DEF rows, links, loops, calls, agent, RowsOK, LinksOK, LoopsOK, CallsOK, AgentsOK,
       FramesOK

\* An update of one entry of a two-level map keeps its type.
LEMMA NestedUpdate ==
    ASSUME NEW S, NEW T, NEW R, NEW f \in [S -> [T -> R]],
           NEW x \in S, NEW y \in T, NEW v \in R
    PROVE  [f EXCEPT ![x][y] = v] \in [S -> [T -> R]]
OBVIOUS

\* A one-frame sequence is a sequence of frames.
LEMMA OneFrame ==
    ASSUME NEW S, NEW e \in S
    PROVE  <<e>> \in Seq(S)
BY SMT

\* Gateway.Send keeps the frames in flight well typed.
LEMMA SendType ==
    ASSUME TypeOK, NEW n \in Node, NEW f \in DownFrame, NEW ok,
           Send(n, f, ok)
    PROVE  down' \in [Node -> [Sess -> Seq(DownFrame)]]
<1>1. CASE UNCHANGED down
  BY <1>1 DEF TypeOK, FramesOK
<1>2. CASE conn[n] # 0 /\ down' = [down EXCEPT ![n][conn[n]] = Append(@, f)]
  <2>1. conn[n] \in Sess
    BY SMT, <1>2, BoundAssumption DEF TypeOK, LinksOK, Sess
  <2>2. down[n] \in [Sess -> Seq(DownFrame)]
    BY DEF TypeOK, FramesOK
  <2>3. Append(down[n][conn[n]], f) \in Seq(DownFrame)
    BY <2>1, <2>2, SMTT(40)
  <2> QED
    BY <1>2, <2>1, <2>2, <2>3 DEF TypeOK, FramesOK
<1> QED
  BY <1>1, <1>2 DEF Send

\* report_status keeps the reports in flight well typed.
LEMMA ReportType ==
    ASSUME TypeOK, NEW n \in Node, NEW fs \in Seq(UpFrame), Report(n, fs)
    PROVE  up' \in [Node -> [Sess -> Seq(UpFrame)]]
<1>1. CASE up' = up
  BY <1>1 DEF TypeOK, FramesOK
<1>2. CASE sess[n] # 0 /\ up' = [up EXCEPT ![n][sess[n]] = @ \o fs]
  <2>1. sess[n] \in Sess
    BY SMT, <1>2, BoundAssumption DEF TypeOK, AgentsOK, Sess
  <2>2. up[n] \in [Sess -> Seq(UpFrame)]
    BY DEF TypeOK, FramesOK
  <2>3. up[n][sess[n]] \o fs \in Seq(UpFrame)
    BY SMT, <2>1, <2>2
  <2> QED
    BY <1>2, <2>1, <2>2, <2>3 DEF TypeOK, FramesOK
<1> QED
  BY <1>1, <1>2 DEF Report

\* A session the agent leaves keeps a prefix of its reports.
LEMMA LeaveType ==
    ASSUME TypeOK, NEW n \in Node, LeaveSession(n)
    PROVE  /\ down' \in [Node -> [Sess -> Seq(DownFrame)]]
           /\ up' \in [Node -> [Sess -> Seq(UpFrame)]]
           /\ sess' \in [Node -> 0 .. MaxSess]
           /\ ann' \in [Node -> SUBSET Asg]
<1>1. sess' \in [Node -> 0 .. MaxSess] /\ ann' \in [Node -> SUBSET Asg]
  BY SMT, BoundAssumption DEF LeaveSession, TypeOK, AgentsOK
<1>2. CASE sess[n] = 0
  BY <1>1, <1>2 DEF LeaveSession, TypeOK, FramesOK
<1>3. CASE sess[n] # 0
  <2>1. sess[n] \in Sess
    BY SMT, <1>3, BoundAssumption DEF TypeOK, AgentsOK, Sess
  <2>2. /\ down[n] \in [Sess -> Seq(DownFrame)]
        /\ up[n] \in [Sess -> Seq(UpFrame)]
    BY DEF TypeOK, FramesOK
  <2>3. PICK k \in 0 .. Len(up[n][sess[n]]) :
           up' = [up EXCEPT ![n][sess[n]] = SubSeq(@, 1, k)]
    BY <1>3 DEF LeaveSession
  <2>4. SubSeq(up[n][sess[n]], 1, k) \in Seq(UpFrame)
    BY SMT, <2>1, <2>2
  <2>5. up' \in [Node -> [Sess -> Seq(UpFrame)]]
    BY <2>1, <2>2, <2>3, <2>4 DEF TypeOK, FramesOK
  <2>6. down' \in [Node -> [Sess -> Seq(DownFrame)]]
    <3>1. down' = [down EXCEPT ![n][sess[n]] = <<>>]
      BY <1>3 DEF LeaveSession
    <3>2. << >> \in Seq(DownFrame)
      BY SMT
    <3> QED
      BY <2>1, <2>2, <3>1, <3>2 DEF TypeOK, FramesOK
  <2> QED
    BY <1>1, <2>5, <2>6
<1> QED
  BY <1>2, <1>3

\* Every frame the master pushes and the agent reports has its type.
LEMMA FrameType ==
    /\ \A a \in Asg : Assign(a) \in DownFrame /\ Revoke(a) \in DownFrame
    /\ \A a \in Asg, k \in Reported : [kind |-> k, asg |-> a] \in UpFrame
BY DEF Assign, Revoke, DownFrame, UpFrame

\* The thread goes on with the next row, or lets the lock go.
LEMMA ResumeType ==
    ASSUME TypeOK, thread \in Busy
    PROVE  Resume \in Busy \cup {Idle} /\ Resume.pc # "send"
BY DEF Resume, Busy

\* Placement: the steps made under Scheduler.mu keep the types.
LEMMA PlacementType == TInv /\ Placement => TInv'
<1> SUFFICES ASSUME TInv, Placement PROVE TInv'
  OBVIOUS
<1> USE DEF TInv, ThreadOK, rows, links, loops, agent
<1>0. ASSUME thread.pc # "idle" PROVE thread \in Busy
  BY SMT, <1>0 DEF TypeOK, CallsOK
<1>1. ASSUME NEW a \in Asg, ScheduleDecide(a) PROVE TInv'
  BY SMT, <1>1, Unmoved DEF ScheduleDecide, TypeOK, CallsOK, Place, Eligible, Busy
<1>2. CASE PlacementWrite
  <2>1. thread \in Busy
    BY <1>0, <1>2 DEF PlacementWrite
  <2>2. thread' \in Busy \cup {Idle} /\ ThreadOK'
    BY <1>2, <2>1, ResumeType DEF PlacementWrite, Busy
  <2>3. /\ owner' \in [Asg -> Node \cup {NoNode}]
        /\ status' \in [Asg -> Status]
        /\ placed' \in [Asg -> SUBSET Node]
    BY <1>2, <2>1 DEF PlacementWrite, PlacementStatus, TypeOK, RowsOK, Busy, Status
  <2> QED
    BY <1>2, <2>2, <2>3, Unmoved DEF PlacementWrite, TypeOK, RowsOK, CallsOK
<1>3. CASE PlacementSend
  <2>1. thread \in Busy /\ thread.tgt \in Node /\ Assign(thread.cur) \in DownFrame
    BY <1>0, <1>3, FrameType DEF PlacementSend, Busy
  <2>2. thread' \in Busy \cup {Idle} /\ ThreadOK'
    BY SMT, <1>3, <2>1, ResumeType DEF PlacementSend, Busy
  <2>3. down' \in [Node -> [Sess -> Seq(DownFrame)]]
    BY <1>3, <2>1, SendType DEF PlacementSend
  <2> QED
    BY <1>3, <2>2, <2>3, Unmoved DEF PlacementSend, TypeOK, CallsOK, FramesOK
<1>4. CASE PlacementPark
  <2>1. thread \in Busy
    BY <1>0, <1>4 DEF PlacementPark
  <2>2. thread' \in Busy \cup {Idle} /\ ThreadOK'
    BY <1>4, <2>1, ResumeType DEF PlacementPark
  <2>3. status' \in [Asg -> Status]
    BY <1>4, <2>1 DEF PlacementPark, TypeOK, RowsOK, Busy, Status
  <2> QED
    BY <1>4, <2>2, <2>3, Unmoved DEF PlacementPark, TypeOK, RowsOK, CallsOK
<1>5. CASE RetryStart
  BY <1>5, Unmoved DEF RetryStart, PendingUnplaced, TypeOK, CallsOK, Busy
<1>6. CASE RetryDecide
  <2>1. thread \in Busy
    BY <1>0, <1>6, SMTT(40) DEF RetryDecide
  <2>2. PICK a \in thread.left, n \in Place :
           thread' = IF n = NoNode
                     THEN [thread EXCEPT !.left = @ \ {a}]
                     ELSE [thread EXCEPT !.left = @ \ {a}, !.pc = "write",
                                         !.cur = a, !.tgt = n]
    BY <1>6 DEF RetryDecide
  <2>3. a \in Asg /\ n \in Node \cup {NoNode} /\ thread.left \ {a} \in SUBSET Asg
    BY <2>1, <2>2 DEF Busy, Place, Eligible
  <2>4. thread' \in Busy /\ thread'.pc # "send"
    BY <1>6, <2>1, <2>2, <2>3 DEF RetryDecide, Busy
  <2> QED
    BY <1>6, <2>4, Unmoved DEF RetryDecide, TypeOK, CallsOK
<1>7. CASE PlacementDone
  BY <1>7, Unmoved DEF PlacementDone, TypeOK, CallsOK
<1>8. CASE FailoverList
  BY SMT, <1>8, Unmoved DEF FailoverList, ActiveByNode, TypeOK, CallsOK, Busy
<1>9. CASE FailoverPlan
  <2>1. thread \in Busy
    BY <1>0, <1>9 DEF FailoverPlan
  <2>2. PICK p \in PlanFailover(thread.left) :
          thread' = [thread EXCEPT !.pc = "failover", !.plan =
                       [a \in Asg |-> IF a \in thread.left THEN p[a] ELSE NoNode]]
    BY <1>9 DEF FailoverPlan
  <2>3. p \in [thread.left -> Node \cup {NoNode}]
    BY <2>2 DEF PlanFailover, Eligible
  <2>4. thread' \in Busy /\ thread'.pc # "send"
    BY <2>1, <2>2, <2>3 DEF Busy
  <2> QED
    BY <1>9, <2>4, Unmoved DEF FailoverPlan, TypeOK, CallsOK
<1>10. CASE FailoverMove
  <2>1. thread \in Busy
    BY <1>0, <1>10, SMTT(40) DEF FailoverMove
  <2>2. PICK a \in thread.left :
          LET n == thread.plan[a]
          IN  IF n = NoNode
              THEN /\ status' = [status EXCEPT ![a] = "pending"]
                   /\ thread' = [thread EXCEPT !.left = @ \ {a}]
                   /\ UNCHANGED <<owner, placed>>
              ELSE /\ status' = [status EXCEPT ![a] = "offered"]
                   /\ owner' = [owner EXCEPT ![a] = n]
                   /\ placed' = [placed EXCEPT ![a] = @ \cup {n}]
                   /\ thread' = [thread EXCEPT !.left = @ \ {a}, !.pc = "send",
                                               !.cur = a, !.tgt = n]
    BY <1>10 DEF FailoverMove
  <2>3. a \in Asg /\ thread.plan[a] \in Node \cup {NoNode}
    BY <2>1, <2>2 DEF Busy
  <2>4. CASE thread.plan[a] = NoNode
    <3>1. /\ status' = [status EXCEPT ![a] = "pending"]
          /\ thread' = [thread EXCEPT !.left = @ \ {a}]
          /\ UNCHANGED <<owner, placed>>
      BY <2>2, <2>4
    <3>2. thread' \in Busy /\ thread'.pc # "send"
      BY <1>10, <2>1, <3>1 DEF FailoverMove, Busy
    <3>3. status' \in [Asg -> Status]
      BY <2>3, <3>1 DEF TypeOK, RowsOK, Status
    <3> QED
      BY <1>10, <3>1, <3>2, <3>3, Unmoved DEF FailoverMove, TypeOK, RowsOK, CallsOK
  <2>5. CASE thread.plan[a] # NoNode
    <3>1. PICK n \in Node :
             /\ status' = [status EXCEPT ![a] = "offered"]
             /\ owner' = [owner EXCEPT ![a] = n]
             /\ placed' = [placed EXCEPT ![a] = @ \cup {n}]
             /\ thread' = [thread EXCEPT !.left = @ \ {a}, !.pc = "send",
                                         !.cur = a, !.tgt = n]
      BY <2>2, <2>3, <2>5
    <3>2. thread' \in Busy /\ thread'.tgt \in Node
      BY <2>1, <2>3, <3>1 DEF Busy
    <3>3. /\ owner' \in [Asg -> Node \cup {NoNode}]
          /\ status' \in [Asg -> Status]
          /\ placed' \in [Asg -> SUBSET Node]
      BY <2>3, <3>1 DEF TypeOK, RowsOK, Status
    <3> QED
      BY <1>10, <3>2, <3>3, Unmoved, SMTT(40) DEF FailoverMove, TypeOK, RowsOK, CallsOK
  <2> QED
    BY <2>4, <2>5
<1> QED
  BY <1>1, <1>2, <1>3, <1>4, <1>5, <1>6, <1>7, <1>8, <1>9, <1>10 DEF Placement

\* Revoke and the watchdog keep the types.
LEMMA RevocationType ==
    TInv /\ (Revocation \/ \E n \in Node : WatchdogCheck(n)) => TInv'
<1> SUFFICES ASSUME TInv, Revocation \/ \E n \in Node : WatchdogCheck(n)
             PROVE  TInv'
  OBVIOUS
<1> USE DEF TInv, ThreadOK, rows, links, loops, agent
<1>1. ASSUME NEW a \in Asg, RevokeGet(a) PROVE TInv'
  <2>1. owner[a] \in Node \cup {NoNode}
    BY DEF TypeOK, RowsOK
  <2> QED
    BY <1>1, <2>1, Unmoved DEF RevokeGet, TypeOK, CallsOK, Revoking
<1>2. CASE RevokeTell
  <2>1. revoker \in Revoking
    BY SMT, <1>2 DEF RevokeTell, TypeOK, CallsOK
  <2>2. revoker' \in Revoking /\ revoker'.pc # "tell"
    BY <1>2, <2>1 DEF RevokeTell, Revoking
  <2>3. down' \in [Node -> [Sess -> Seq(DownFrame)]]
    BY <1>2, <2>1, SendType, FrameType DEF RevokeTell, Revoking
  <2> QED
    BY <1>2, <2>2, <2>3, Unmoved DEF RevokeTell, TypeOK, CallsOK, FramesOK
<1>3. CASE RevokeMark
  BY <1>3, Unmoved DEF RevokeMark, TypeOK, RowsOK, CallsOK, Revoking, Status
<1>4. ASSUME NEW n \in Node, WatchdogCheck(n) PROVE TInv'
  BY <1>4, Unmoved DEF WatchdogCheck, TypeOK, CallsOK
<1> QED
  BY <1>1, <1>2, <1>3, <1>4 DEF Revocation

\* onClose keeps the gateway's maps well typed.
LEMMA OnCloseType ==
    ASSUME TypeOK, NEW n \in Node, NEW s, OnClose(n, s)
    PROVE  /\ conn' \in [Node -> 0 .. MaxSess]
           /\ flapped' \in SUBSET Node /\ aged' \in SUBSET Node
<1>1. CASE conn[n] = s
  <2>1. 0 \in 0 .. MaxSess
    BY SMT, BoundAssumption
  <2>2. /\ conn' = [conn EXCEPT ![n] = 0]
        /\ flapped' = flapped \cup {n} /\ aged' = aged \ {n}
    BY <1>1 DEF OnClose
  <2> QED
    BY <2>1, <2>2 DEF TypeOK, LinksOK
<1>2. CASE conn[n] # s
  BY <1>2, SMTT(40) DEF OnClose, TypeOK, LinksOK, links
<1> QED
  BY <1>1, <1>2

\* The read loops, the ping loops and a restart of the master keep the types.
LEMMA GatewayType ==
    ASSUME TInv,
           \/ \E n \in Node : PingTimeout(n) \/ GracePassed(n)
           \/ \E n \in Node, s \in Sess : ReadLoop(n, s)
           \/ MasterRestart
    PROVE  TInv'
<1> USE DEF TInv, ThreadOK, rows, links, loops, calls, agent
<1>1. ASSUME NEW n \in Node, PingTimeout(n) PROVE TInv'
  <2>1. /\ conn' \in [Node -> 0 .. MaxSess]
        /\ flapped' \in SUBSET Node /\ aged' \in SUBSET Node
    BY <1>1, OnCloseType, SMTT(40) DEF PingTimeout
  <2> QED
    BY <1>1, <2>1, Unmoved DEF PingTimeout, TypeOK, LinksOK
<1>2. ASSUME NEW n \in Node, GracePassed(n) PROVE TInv'
  BY <1>2, Unmoved, SMTT(40) DEF GracePassed, TypeOK, LinksOK
<1>3. ASSUME NEW n \in Node, NEW s \in Sess, OnRegister(n, s) PROVE TInv'
  BY <1>3, Unmoved, SMTT(40) DEF OnRegister, PendingOrOfferedByNode, TypeOK, LoopsOK
<1>4. ASSUME NEW n \in Node, NEW s \in Sess, ReofferSend(n, s) PROVE TInv'
  <2>1. PICK a \in todo[n][s], ok \in BOOLEAN :
          /\ todo' = [todo EXCEPT ![n][s] = @ \ {a}]
          /\ Send(n, Assign(a), ok)
          /\ sent' = [sent EXCEPT ![n][s] = IF ok THEN {a} ELSE {}]
    BY <1>4 DEF ReofferSend
  <2>2. a \in Asg
    BY DEF TypeOK, LoopsOK
  <2>3. down' \in [Node -> [Sess -> Seq(DownFrame)]]
    BY <2>1, <2>2, SendType, FrameType, SMTT(40)
  <2>4. /\ todo \in [Node -> [Sess -> SUBSET Asg]]
        /\ sent \in [Node -> [Sess -> SUBSET Asg]]
    BY DEF TypeOK, LoopsOK
  <2>5. todo' \in [Node -> [Sess -> SUBSET Asg]]
    <3>1. todo[n][s] \ {a} \in SUBSET Asg
      BY <2>4
    <3> QED
      BY <2>1, <2>4, <3>1
  <2>6. sent' \in [Node -> [Sess -> SUBSET Asg]]
    <3>1. (IF ok THEN {a} ELSE {}) \in SUBSET Asg
      BY <2>2, SMTT(40)
    <3> QED
      BY <2>1, <2>4, <3>1
  <2> QED
    BY <1>4, <2>3, <2>5, <2>6, Unmoved DEF ReofferSend, TypeOK, LoopsOK, FramesOK
<1>5. ASSUME NEW n \in Node, NEW s \in Sess, ReofferMark(n, s) PROVE TInv'
  <2>1. PICK a \in sent[n][s] : status' = [status EXCEPT ![a] = "offered"]
    BY <1>5 DEF ReofferMark
  <2>2. status' \in [Asg -> Status]
    BY <2>1 DEF TypeOK, RowsOK, Status
  <2> QED
    BY <1>5, <2>2, Unmoved DEF ReofferMark, TypeOK, RowsOK, LoopsOK
<1>6. ASSUME NEW n \in Node, NEW s \in Sess, OnStatus(n, s) PROVE TInv'
  <2>1. up[n][s] \in Seq(UpFrame) /\ up[n][s] # <<>>
    BY <1>6 DEF OnStatus, TypeOK, FramesOK
  <2>2. Head(up[n][s]) \in UpFrame /\ Tail(up[n][s]) \in Seq(UpFrame)
    BY <2>1, SMTT(40)
  <2>3. status' \in [Asg -> Status]
    BY <1>6, <2>2, SMTT(40) DEF OnStatus, UpdateStatusForNode, TypeOK, RowsOK, UpFrame, Reported,
                      Status
  <2>4. up' \in [Node -> [Sess -> Seq(UpFrame)]]
    BY <1>6, <2>2, SMTT(40) DEF OnStatus, TypeOK, FramesOK
  <2> QED
    BY <1>6, <2>3, <2>4, Unmoved DEF OnStatus, TypeOK, RowsOK, FramesOK
<1>7. ASSUME NEW n \in Node, NEW s \in Sess, ReaderEnd(n, s) PROVE TInv'
  <2>1. /\ conn' \in [Node -> 0 .. MaxSess]
        /\ flapped' \in SUBSET Node /\ aged' \in SUBSET Node
    BY <1>7, OnCloseType DEF ReaderEnd
  <2>2. << >> \in Seq(UpFrame)
    BY SMT
  <2>3. /\ up' \in [Node -> [Sess -> Seq(UpFrame)]]
        /\ reader' \in [Node -> [Sess -> {"off", "opened", "reading"}]]
    BY <1>7, <2>2 DEF ReaderEnd, TypeOK, LoopsOK, FramesOK
  <2> QED
    BY <1>7, <2>1, <2>3, Unmoved DEF ReaderEnd, TypeOK, LinksOK, LoopsOK, FramesOK
<1>8. CASE MasterRestart
  <2>1. << >> \in Seq(UpFrame)
    BY SMT
  <2>0. /\ up' = [m \in Node |-> [t \in Sess |-> << >>]]
        /\ todo' = [m \in Node |-> [t \in Sess |-> {}]]
        /\ sent' = [m \in Node |-> [t \in Sess |-> {}]]
        /\ reader' = [m \in Node |-> [t \in Sess |-> "off"]]
        /\ conn' = [m \in Node |-> 0]
    BY <1>8 DEF MasterRestart
  <2>2. up' \in [Node -> [Sess -> Seq(UpFrame)]]
    BY <2>0, <2>1
  <2>3. /\ todo' \in [Node -> [Sess -> SUBSET Asg]]
        /\ sent' \in [Node -> [Sess -> SUBSET Asg]]
    BY <2>0
  <2>4. reader' \in [Node -> [Sess -> {"off", "opened", "reading"}]]
    BY <2>0
  <2>5. conn' \in [Node -> 0 .. MaxSess]
    BY SMT, <2>0, BoundAssumption
  <2> QED
    BY <1>8, <2>2, <2>3, <2>4, <2>5, Unmoved, SMTT(40)
       DEF MasterRestart, TypeOK, LinksOK, LoopsOK, CallsOK, FramesOK
<1> QED
  BY <1>1, <1>2, <1>3, <1>4, <1>5, <1>6, <1>7, <1>8, SMTT(40) DEF ReadLoop

\* A step of the supervisor's restart policy keeps the types.
LEMMA MaybeRestartType ==
    ASSUME TypeOK, NEW n \in Node, NEW a \in Asg, NEW f \in Seq(UpFrame),
           MaybeRestart(n, a, f)
    PROVE  /\ child' \in [Node -> [Asg -> {"none", "running", "failed"}]]
           /\ restarts' \in [Node -> [Asg -> Nat]]
           /\ launched' \in [Asg -> SUBSET Node]
           /\ up' \in [Node -> [Sess -> Seq(UpFrame)]]
<1>1. child' \in [Node -> [Asg -> {"none", "running", "failed"}]]
  <2>1. \E k \in {"running", "failed"} : child' = [child EXCEPT ![n][a] = k]
    BY DEF MaybeRestart
  <2> QED
    BY SMT, <2>1 DEF TypeOK, AgentsOK
<1>2. /\ restarts' \in [Node -> [Asg -> Nat]]
      /\ launched' \in [Asg -> SUBSET Node]
  <2>1. /\ restarts' = restarts \/ restarts' = [restarts EXCEPT ![n][a] = @ + 1]
        /\ launched' = launched \/ launched' = [launched EXCEPT ![a] = @ \cup {n}]
    BY DEF MaybeRestart
  <2>2. /\ restarts \in [Node -> [Asg -> Nat]] /\ restarts[n][a] + 1 \in Nat
        /\ launched \in [Asg -> SUBSET Node]
    BY SMT DEF TypeOK, AgentsOK
  <2>3. restarts' \in [Node -> [Asg -> Nat]]
    <3>1. [restarts EXCEPT ![n][a] = @ + 1] \in [Node -> [Asg -> Nat]]
      BY <2>2
    <3> QED
      BY <2>1, <2>2, <3>1
  <2>4. launched' \in [Asg -> SUBSET Node]
    BY SMT, <2>1, <2>2
  <2> QED
    BY <2>3, <2>4
<1>3. /\ f \o <<[kind |-> "failed", asg |-> a]>> \in Seq(UpFrame)
      /\ f \o <<[kind |-> "running", asg |-> a]>> \in Seq(UpFrame)
  <2>1. /\ [kind |-> "failed", asg |-> a] \in UpFrame
        /\ [kind |-> "running", asg |-> a] \in UpFrame
    BY FrameType DEF Reported
  <2>2. /\ <<[kind |-> "failed", asg |-> a]>> \in Seq(UpFrame)
        /\ <<[kind |-> "running", asg |-> a]>> \in Seq(UpFrame)
    BY <2>1, OneFrame
  <2> QED
    BY SMT, <2>2
<1>4. \/ Report(n, f)
      \/ Report(n, f \o <<[kind |-> "failed", asg |-> a]>>)
      \/ Report(n, f \o <<[kind |-> "running", asg |-> a]>>)
  BY DEF MaybeRestart
<1>5. up' \in [Node -> [Sess -> Seq(UpFrame)]]
  BY <1>3, <1>4, ReportType
<1> QED
  BY <1>1, <1>2, <1>5

\* The agent's inbox holds frames, and reading one leaves frames.
LEMMA InboxType ==
    ASSUME TypeOK, NEW n \in Node, Inbox(n) # <<>>
    PROVE  /\ sess[n] \in Sess /\ Inbox(n) = down[n][sess[n]]
           /\ Inbox(n) \in Seq(DownFrame)
           /\ Head(Inbox(n)) \in DownFrame
           /\ Pop(n) => down' \in [Node -> [Sess -> Seq(DownFrame)]]
<1>1. sess[n] \in Sess /\ Inbox(n) = down[n][sess[n]]
  BY SMT, BoundAssumption DEF Inbox, TypeOK, AgentsOK, FramesOK, Sess
<1>2. Inbox(n) \in Seq(DownFrame) /\ down[n] \in [Sess -> Seq(DownFrame)]
  BY SMT, <1>1 DEF TypeOK, AgentsOK, FramesOK
<1>3. Head(Inbox(n)) \in DownFrame /\ Tail(Inbox(n)) \in Seq(DownFrame)
  BY SMT, <1>2
<1>4. Pop(n) => down' \in [Node -> [Sess -> Seq(DownFrame)]]
  BY <1>1, <1>2, <1>3, SMTT(40) DEF Pop, TypeOK, AgentsOK, FramesOK
<1> QED
  BY <1>1, <1>2, <1>3, <1>4

\* The agent keeps the types.
LEMMA AgentType ==
    ASSUME TInv, NEW n \in Node, Agent(n)
    PROVE  TInv'
<1> USE DEF TInv, ThreadOK, rows, links, loops, calls, agent
<1> DEFINE Frame(k, a) == <<[kind |-> k, asg |-> a]>>
<1>0. ASSUME NEW a \in Asg, NEW k \in Reported PROVE Frame(k, a) \in Seq(UpFrame)
  <2>1. [kind |-> k, asg |-> a] \in UpFrame
    BY FrameType, SMTT(40)
  <2> QED
    BY <2>1, OneFrame
<1>1. CASE AgentConnect(n)
  <2>1. used[n] + 1 \in Sess
    <3>1. /\ MaxSess \in Nat /\ used[n] \in 0 .. MaxSess
          /\ Opens[n] \in 0 .. MaxSess /\ used[n] < Opens[n]
      BY <1>1, BoundAssumption DEF AgentConnect, TypeOK, AgentsOK
    <3> QED
      BY SMT, <3>1 DEF Sess
  <2>2. /\ used' \in [Node -> 0 .. MaxSess] /\ sess' \in [Node -> 0 .. MaxSess]
        /\ conn' \in [Node -> 0 .. MaxSess]
    <3>1. used[n] + 1 \in 0 .. MaxSess
      BY <2>1, BoundAssumption, SMTT(40) DEF Sess
    <3> QED
      BY <1>1, <3>1, Unmoved DEF AgentConnect, TypeOK, LinksOK, LoopsOK, AgentsOK
  <2>3. /\ reader' \in [Node -> [Sess -> {"off", "opened", "reading"}]]
        /\ ann' \in [Node -> SUBSET Asg]
    BY <1>1, <2>1 DEF AgentConnect, TypeOK, LoopsOK, AgentsOK
  <2> QED
    BY <1>1, <2>2, <2>3, Unmoved DEF AgentConnect, TypeOK, LinksOK, LoopsOK, AgentsOK
<1>2. CASE AgentAnnounce(n)
  <2>1. PICK a \in ann[n] :
          /\ ann' = [ann EXCEPT ![n] = @ \ {a}]
          /\ IF child[n][a] = "none" THEN UNCHANGED up
                                     ELSE Report(n, <<StatusOf(n, a)>>)
    BY <1>2 DEF AgentAnnounce
  <2>2. a \in Asg /\ child[n][a] \in {"none", "running", "failed"}
    BY DEF TypeOK, AgentsOK
  <2>3. child[n][a] # "none" => <<StatusOf(n, a)>> \in Seq(UpFrame)
    BY <2>2, <1>0 DEF StatusOf, Reported
  <2>4. up' \in [Node -> [Sess -> Seq(UpFrame)]]
    BY <2>1, <2>3, ReportType DEF TypeOK, FramesOK
  <2>5. ann' \in [Node -> SUBSET Asg]
    BY <2>1 DEF TypeOK, AgentsOK
  <2> QED
    BY <1>2, <2>4, <2>5, Unmoved DEF AgentAnnounce, TypeOK, AgentsOK, FramesOK
<1>3. CASE AgentDrop(n)
  BY <1>3, LeaveType, Unmoved DEF AgentDrop, TypeOK, AgentsOK, FramesOK
<1>4. CASE AgentRestart(n)
  <2>1. child' \in [Node -> [Asg -> {"none", "running", "failed"}]]
    BY <1>4 DEF AgentRestart, TypeOK, AgentsOK
  <2> QED
    BY <1>4, <2>1, LeaveType, Unmoved DEF AgentRestart, TypeOK, AgentsOK, FramesOK
<1>5. CASE AgentAssign(n)
  <2>0. PICK a \in Asg : a = Head(Inbox(n)).asg
    BY <1>5, InboxType, SMTT(40) DEF AgentAssign, DownFrame
  <2>1. down' \in [Node -> [Sess -> Seq(DownFrame)]]
    BY <1>5, InboxType, SMTT(40) DEF AgentAssign
  <2>2. Report(n, Frame("running", a)) \/ Report(n, Frame("failed", a))
    BY <1>5, <2>0 DEF AgentAssign
  <2>3. up' \in [Node -> [Sess -> Seq(UpFrame)]]
    BY <1>0, <2>1, <2>2, ReportType DEF Reported
  <2>4. /\ \/ child' = child
           \/ child' = [child EXCEPT ![n][a] = "running"]
           \/ child' = [child EXCEPT ![n][a] = "failed"]
        /\ restarts' = restarts \/ restarts' = [restarts EXCEPT ![n][a] = 0]
        /\ launched' = launched \/ launched' = [launched EXCEPT ![a] = @ \cup {n}]
    BY <1>5, <2>0 DEF AgentAssign
  <2>8. /\ child \in [Node -> [Asg -> {"none", "running", "failed"}]]
        /\ restarts \in [Node -> [Asg -> Nat]] /\ launched \in [Asg -> SUBSET Node]
    BY DEF TypeOK, AgentsOK
  <2>5. child' \in [Node -> [Asg -> {"none", "running", "failed"}]]
    <3>1. \A k \in {"none", "running", "failed"} :
             [child EXCEPT ![n][a] = k]
               \in [Node -> [Asg -> {"none", "running", "failed"}]]
      BY <2>8, NestedUpdate
    <3> QED
      BY <2>4, <2>8, <3>1
  <2>6. restarts' \in [Node -> [Asg -> Nat]]
    <3>1. [restarts EXCEPT ![n][a] = 0] \in [Node -> [Asg -> Nat]]
      BY <2>8, NestedUpdate
    <3> QED
      BY <2>4, <2>8, <3>1
  <2>7. launched' \in [Asg -> SUBSET Node]
    <3>1. [launched EXCEPT ![a] = @ \cup {n}] \in [Asg -> SUBSET Node]
      BY <2>8, SMTT(40)
    <3> QED
      BY <2>4, <2>8, <3>1
  <2> QED
    BY <1>5, <2>1, <2>3, <2>5, <2>6, <2>7, Unmoved
       DEF AgentAssign, TypeOK, AgentsOK, FramesOK
<1>6. CASE AgentRevoke(n)
  <2>0. PICK a \in Asg : a = Head(Inbox(n)).asg
    BY <1>6, InboxType DEF AgentRevoke, DownFrame
  <2>1. down' \in [Node -> [Sess -> Seq(DownFrame)]]
    BY <1>6, InboxType DEF AgentRevoke
  <2>2. UNCHANGED up \/ Report(n, Frame("stopped", a))
    BY <1>6, <2>0, SMTT(40) DEF AgentRevoke
  <2>3. up' \in [Node -> [Sess -> Seq(UpFrame)]]
    BY <1>0, <2>1, <2>2, ReportType DEF Reported, TypeOK, FramesOK
  <2>4. child' = child \/ child' = [child EXCEPT ![n][a] = "none"]
    BY <1>6, <2>0 DEF AgentRevoke
  <2>6. child \in [Node -> [Asg -> {"none", "running", "failed"}]]
    BY DEF TypeOK, AgentsOK
  <2>5. child' \in [Node -> [Asg -> {"none", "running", "failed"}]]
    <3>1. [child EXCEPT ![n][a] = "none"]
            \in [Node -> [Asg -> {"none", "running", "failed"}]]
      BY <2>6, NestedUpdate
    <3> QED
      BY <2>4, <2>6, <3>1
  <2> QED
    BY <1>6, <2>1, <2>3, <2>5, Unmoved DEF AgentRevoke, TypeOK, AgentsOK, FramesOK
<1>7. ASSUME NEW a \in Asg, ReapExit(n, a) PROVE TInv'
  <2>1. up' \in [Node -> [Sess -> Seq(UpFrame)]]
    BY <1>0, <1>7, ReportType DEF ReapExit, Reported
  <2>2. child' \in [Node -> [Asg -> {"none", "running", "failed"}]]
    BY <1>7 DEF ReapExit, TypeOK, AgentsOK
  <2> QED
    BY <1>7, <2>1, <2>2, Unmoved DEF ReapExit, TypeOK, AgentsOK, FramesOK
<1>8. ASSUME NEW a \in Asg, ReapCrash(n, a) PROVE TInv'
  <2>1. Frame("failed", a) \in Seq(UpFrame)
    BY <1>0 DEF Reported
  <2> QED
    BY <1>8, <2>1, MaybeRestartType, Unmoved DEF ReapCrash, TypeOK, AgentsOK, FramesOK
<1>9. ASSUME NEW a \in Asg, ReapFailed(n, a) PROVE TInv'
  <2>1. << >> \in Seq(UpFrame)
    BY SMT
  <2> QED
    BY <1>9, <2>1, MaybeRestartType, Unmoved DEF ReapFailed, TypeOK, AgentsOK, FramesOK
<1> QED
  BY <1>1, <1>2, <1>3, <1>4, <1>5, <1>6, <1>7, <1>8, <1>9, SMTT(40) DEF Agent

\* A master with an empty table and agents that never connected are well typed.
LEMMA TypeInit == Init => TInv
<1> SUFFICES ASSUME Init PROVE TInv
  OBVIOUS
<1>1. << >> \in Seq(UpFrame) /\ << >> \in Seq(DownFrame)
  BY SMT
<1>2. /\ up \in [Node -> [Sess -> Seq(UpFrame)]]
      /\ down \in [Node -> [Sess -> Seq(DownFrame)]]
  BY <1>1 DEF Init
<1>3. /\ conn \in [Node -> 0 .. MaxSess] /\ sess \in [Node -> 0 .. MaxSess]
      /\ used \in [Node -> 0 .. MaxSess]
  BY SMT, BoundAssumption DEF Init
<1> QED
  <2>1. RowsOK /\ LinksOK /\ LoopsOK
    BY <1>3, SMTT(40) DEF Init, RowsOK, LinksOK, LoopsOK, Status
  <2>2. CallsOK /\ ThreadOK
    BY DEF Init, CallsOK, ThreadOK
  <2>3. AgentsOK /\ FramesOK
    BY <1>2, <1>3 DEF Init, AgentsOK, FramesOK
  <2> QED
    BY <2>1, <2>2, <2>3 DEF TInv, TypeOK

\* Every step of the master, of a read loop or of an agent keeps the types.
LEMMA TypeNext == TInv /\ [Next]_vars => TInv'
<1> SUFFICES ASSUME TInv, [Next]_vars PROVE TInv'
  BY SMTT(40)
<1>1. CASE UNCHANGED vars
  BY <1>1, Unmoved DEF TInv, TypeOK, ThreadOK, vars, calls
<1> QED
  BY <1>1, PlacementType, RevocationType, GatewayType, AgentType DEF Next

\* The rows, the gateway's maps, the threads, the agents and the frames in
\* flight keep their types through every interleaving and fault.
THEOREM Typing == Spec => []TypeOK
<1>1. Spec => []TInv
  BY TypeInit, TypeNext, PTL DEF Spec
<1>2. TInv => TypeOK
  BY DEF TInv
<1> QED
  BY <1>1, <1>2, PTL

-----------------------------------------------------------------------------

USE DEF Idle

(* PlacedHasOwner.  Only Schedule writes a row without a node, and only when *)
(* it creates it; nothing else can touch the row before that.                *)

NewInv == \A a \in Asg : status[a] = "none" => owner[a] = NoNode

LoopOwnerInv == \A n \in Node, s \in Sess : \A a \in todo[n][s] \cup sent[n][s] :
    owner[a] # NoNode

WriteInv ==
    thread.pc = "write" =>
        IF thread.op = "schedule" THEN status[thread.cur] = "none"
                                  ELSE thread.tgt # NoNode

RevokerInv == revoker.pc # "idle" => status[revoker.asg] # "none"

\* Inside the loop of RetryPending the operation is not Schedule's.
LoopPc == thread.pc = "retry" => thread.op # "schedule"

HasOwnerInv ==
    TInv /\ NewInv /\ LoopOwnerInv /\ WriteInv /\ RevokerInv /\ PlacedHasOwner

\* Steps that write no row and list none.
LEMMA QuietOwner ==
    ASSUME HasOwnerInv, TInv', UNCHANGED <<status, owner>>,
           thread' = thread \/ thread'.pc # "write",
           revoker' = revoker \/ revoker'.pc = "idle",
           \A n \in Node, s \in Sess :
              todo'[n][s] \cup sent'[n][s] \subseteq todo[n][s] \cup sent[n][s]
    PROVE  HasOwnerInv'
<1>1. LoopOwnerInv'
  BY DEF HasOwnerInv, LoopOwnerInv, TInv, TypeOK, RowsOK, LoopsOK
<1>2. WriteInv' /\ RevokerInv' /\ NewInv' /\ PlacedHasOwner'
  BY DEF HasOwnerInv, WriteInv, RevokerInv, NewInv, PlacedHasOwner
<1> QED
  BY <1>1, <1>2 DEF HasOwnerInv

\* A status written on a row that has left "none" keeps the invariant when
\* the row has a node, or the status asks for none.
LEMMA StatusOwner ==
    ASSUME HasOwnerInv, TInv', UNCHANGED owner, NEW a \in Asg, NEW k \in Status,
           status' = [status EXCEPT ![a] = k], k # "none",
           owner[a] # NoNode \/ k \in {"pending", "revoked"},
           thread' = thread \/ thread'.pc # "write",
           thread' = thread => status[a] # "none",
           revoker' = revoker \/ revoker'.pc = "idle",
           \A n \in Node, s \in Sess :
              todo'[n][s] \cup sent'[n][s] \subseteq todo[n][s] \cup sent[n][s]
    PROVE  HasOwnerInv'
<1> USE DEF HasOwnerInv, TInv
<1>1. \A b \in Asg : status'[b] = IF b = a THEN k ELSE status[b]
  BY DEF TypeOK, RowsOK
<1>2. NewInv' /\ PlacedHasOwner'
  BY <1>1, SMTT(40) DEF NewInv, PlacedHasOwner
<1>3. LoopOwnerInv'
  BY SMTT(40) DEF LoopOwnerInv, TypeOK, RowsOK, LoopsOK
<1>4. WriteInv'
  <2>1. CASE thread' = thread
    <3>1. CASE thread.pc = "write"
      <4>1. thread \in Busy
        BY <3>1, SMTT(40) DEF TypeOK, CallsOK
      <4> QED
        BY <1>1, <2>1, <4>1, SMTT(40) DEF WriteInv, Busy
    <3>2. CASE thread.pc # "write"
      BY <2>1, <3>2, SMTT(40) DEF WriteInv
    <3> QED
      BY <3>1, <3>2, SMTT(40)
  <2>2. CASE thread'.pc # "write"
    BY <2>2 DEF WriteInv
  <2> QED
    BY <2>1, <2>2
<1>5. RevokerInv'
  <2>1. CASE revoker' = revoker /\ revoker.pc # "idle"
    <3>1. revoker \in Revoking
      BY <2>1, SMTT(40) DEF TypeOK, CallsOK
    <3> QED
      BY <1>1, <2>1, <3>1, SMTT(40) DEF RevokerInv, Revoking
  <2>2. CASE revoker'.pc = "idle"
    BY <2>2 DEF RevokerInv
  <2> QED
    BY <2>1, <2>2, SMTT(40)
<1> QED
  BY <1>2, <1>3, <1>4, <1>5

\* A row that is given a node keeps the invariant.
LEMMA PlaceOwner ==
    ASSUME HasOwnerInv, TInv', NEW a \in Asg, NEW n \in Node,
           owner' = [owner EXCEPT ![a] = n],
           status' = [status EXCEPT ![a] = "offered"],
           thread'.pc # "write", UNCHANGED <<revoker, todo, sent>>
    PROVE  HasOwnerInv'
<1> USE DEF HasOwnerInv, TInv
<1>0. n # NoNode
  BY NodeAssumption, SMTT(40)
<1>1. \A b \in Asg : /\ status'[b] = IF b = a THEN "offered" ELSE status[b]
                     /\ owner'[b] = IF b = a THEN n ELSE owner[b]
  BY DEF TypeOK, RowsOK
<1>2. NewInv' /\ PlacedHasOwner'
  BY <1>0, <1>1, SMTT(40) DEF NewInv, PlacedHasOwner
<1>3. LoopOwnerInv'
  <2> SUFFICES ASSUME NEW m \in Node, NEW s \in Sess,
                      NEW b \in todo[m][s] \cup sent[m][s]
               PROVE  owner'[b] # NoNode
    BY DEF LoopOwnerInv
  <2>1. owner[b] # NoNode
    BY DEF LoopOwnerInv
  <2>2. b \in Asg
    BY SMTT(40) DEF TypeOK, LoopsOK
  <2> QED
    BY <1>0, <1>1, <2>1, <2>2, SMTT(40)
<1>4. WriteInv'
  BY DEF WriteInv
<1>5. RevokerInv'
  <2>1. CASE revoker.pc # "idle"
    <3>1. revoker \in Revoking
      BY SMT, <2>1 DEF TypeOK, CallsOK
    <3> QED
      BY SMT, <1>1, <3>1 DEF RevokerInv, Revoking
  <2>2. CASE revoker.pc = "idle"
    BY <2>2, SMTT(40) DEF RevokerInv
  <2> QED
    BY <2>1, <2>2
<1> QED
  BY <1>2, <1>3, <1>4, <1>5

\* The placement thread writes a row without a node only when it creates it.
LEMMA PlacementOwner ==
    ASSUME HasOwnerInv, LoopPc, TInv', Placement
    PROVE  HasOwnerInv'
<1> USE DEF HasOwnerInv, TInv, rows, links, loops, agent
<1>0. ASSUME thread.pc # "idle" PROVE thread \in Busy
  <2>1. thread \in Busy \cup {Idle}
    BY DEF TypeOK, CallsOK
  <2> QED
    BY SMT, <1>0, <2>1
<1>1. CASE /\ UNCHANGED <<status, owner, revoker, todo, sent>>
           /\ thread'.pc # "write"
  BY <1>1, QuietOwner, SMTT(40)
<1>2. ASSUME NEW a \in Asg, ScheduleDecide(a) PROVE HasOwnerInv'
  BY <1>2, SMTT(40) DEF ScheduleDecide, NewInv, LoopOwnerInv, WriteInv, RevokerInv,
              PlacedHasOwner
<1>3. CASE PlacementWrite
  <2>1. thread \in Busy
    BY <1>0, <1>3 DEF PlacementWrite
  <2>2. PICK a \in Asg, n \in Node \cup {NoNode} :
          /\ a = thread.cur /\ n = thread.tgt
          /\ owner' = [owner EXCEPT ![a] = n]
          /\ status' = [status EXCEPT ![a] = PlacementStatus(n)]
          /\ thread' = IF n = NoNode THEN Resume
                                     ELSE [thread EXCEPT !.pc = "send"]
    BY <1>3, <2>1 DEF PlacementWrite, Busy
  <2>3. thread'.pc # "write"
    BY <2>1, <2>2 DEF Resume, Busy
  <2>4. CASE n = NoNode
    <3>1. status[a] = "none" /\ owner[a] = NoNode
      BY <1>3, <2>2, <2>4 DEF PlacementWrite, WriteInv, NewInv
    <3>2. owner' = owner /\ status' = [status EXCEPT ![a] = "pending"]
      BY SMT, <2>2, <2>4, <3>1 DEF PlacementStatus, TypeOK, RowsOK
    <3>3. thread' # thread
      BY <1>3, <2>3 DEF PlacementWrite
    <3> QED
      BY <1>3, <2>3, <3>2, <3>3, StatusOwner DEF PlacementWrite, Status
  <2>5. CASE n # NoNode
    BY <1>3, <2>2, <2>3, <2>5, PlaceOwner DEF PlacementWrite, PlacementStatus
  <2> QED
    BY <2>4, <2>5
<1>4. CASE PlacementSend
  <2>1. thread'.pc # "write"
    BY <1>0, <1>4, SMTT(40) DEF PlacementSend, Resume, Busy
  <2> QED
    BY <1>1, <1>4, <2>1 DEF PlacementSend
<1>5. CASE PlacementPark
  <2>1. thread \in Busy
    BY <1>0, <1>5 DEF PlacementPark
  <2>2. /\ thread.cur \in Asg /\ thread'.pc # "write" /\ thread'.pc # "park"
        /\ thread' # thread
    BY SMT, <1>5, <2>1 DEF PlacementPark, Resume, Busy
  <2> QED
    BY <1>5, <2>2, StatusOwner DEF PlacementPark, Status
<1>6. CASE RetryStart
  BY <1>1, <1>6 DEF RetryStart
<1>7. CASE RetryDecide
  <2>1. thread \in Busy
    BY <1>0, <1>7, SMTT(40) DEF RetryDecide
  <2>2. PICK a \in thread.left, n \in Place :
           thread' = IF n = NoNode
                     THEN [thread EXCEPT !.left = @ \ {a}]
                     ELSE [thread EXCEPT !.left = @ \ {a}, !.pc = "write",
                                         !.cur = a, !.tgt = n]
    BY <1>7 DEF RetryDecide
  <2>3. CASE n = NoNode
    BY <1>1, <1>7, <2>1, <2>2, <2>3 DEF RetryDecide, Busy
  <2>4. CASE n # NoNode
    <3>1. thread.op # "schedule"
      BY <1>7 DEF RetryDecide, LoopPc
    <3>2. WriteInv'
      BY <2>1, <2>2, <2>4, <3>1 DEF WriteInv, Busy
    <3> QED
      BY <1>7, <3>2 DEF RetryDecide, NewInv, LoopOwnerInv, RevokerInv, PlacedHasOwner
  <2> QED
    BY <2>3, <2>4
<1>8. CASE PlacementDone
  BY <1>1, <1>8 DEF PlacementDone
<1>9. CASE FailoverList
  BY <1>9, QuietOwner, SMTT(40) DEF FailoverList
<1>10. CASE FailoverPlan
  <2>1. thread \in Busy
    BY <1>0, <1>10 DEF FailoverPlan
  <2>2. thread'.pc # "write"
    BY <1>10, <2>1, SMTT(40) DEF FailoverPlan, Busy
  <2> QED
    BY <1>1, <1>10, <2>2 DEF FailoverPlan
<1>11. CASE FailoverMove
  <2>1. thread \in Busy
    BY <1>0, <1>11, SMTT(40) DEF FailoverMove
  <2>2. PICK a \in thread.left :
          LET n == thread.plan[a]
          IN  IF n = NoNode
              THEN /\ status' = [status EXCEPT ![a] = "pending"]
                   /\ thread' = [thread EXCEPT !.left = @ \ {a}]
                   /\ UNCHANGED <<owner, placed>>
              ELSE /\ status' = [status EXCEPT ![a] = "offered"]
                   /\ owner' = [owner EXCEPT ![a] = n]
                   /\ placed' = [placed EXCEPT ![a] = @ \cup {n}]
                   /\ thread' = [thread EXCEPT !.left = @ \ {a}, !.pc = "send",
                                               !.cur = a, !.tgt = n]
    BY <1>11 DEF FailoverMove
  <2>3. a \in Asg /\ thread.plan[a] \in Node \cup {NoNode}
    BY <2>1, <2>2, SMTT(40) DEF Busy
  <2>4. CASE thread.plan[a] = NoNode
    <3>1. /\ status' = [status EXCEPT ![a] = "pending"]
          /\ thread' = [thread EXCEPT !.left = @ \ {a}]
          /\ UNCHANGED owner
      BY <2>2, <2>4
    <3>2. thread'.pc # "write" /\ thread'.left # thread.left
      BY <1>11, <2>1, <2>2, <3>1 DEF FailoverMove, Busy
    <3> QED
      BY <1>11, <2>3, <3>1, <3>2, StatusOwner DEF FailoverMove, Status
  <2>5. CASE thread.plan[a] # NoNode
    <3>1. PICK n \in Node :
             /\ owner' = [owner EXCEPT ![a] = n]
             /\ status' = [status EXCEPT ![a] = "offered"]
             /\ thread' = [thread EXCEPT !.left = @ \ {a}, !.pc = "send",
                                         !.cur = a, !.tgt = n]
      BY <2>2, <2>3, <2>5
    <3>2. thread'.pc # "write"
      BY <2>1, <3>1, SMTT(40) DEF Busy
    <3> QED
      BY <1>11, <2>3, <3>1, <3>2, PlaceOwner DEF FailoverMove
  <2> QED
    BY <2>4, <2>5
<1> QED
  BY <1>2, <1>3, <1>4, <1>5, <1>6, <1>7, <1>8, <1>9, <1>10, <1>11 DEF Placement

\* Revoke marks a row that exists; a read loop marks a row of its node.
LEMMA OthersOwner ==
    ASSUME HasOwnerInv, TInv',
           \/ Revocation \/ MasterRestart
           \/ \E n \in Node : WatchdogCheck(n) \/ PingTimeout(n) \/ GracePassed(n)
           \/ \E n \in Node, s \in Sess : ReadLoop(n, s)
           \/ \E n \in Node : Agent(n)
    PROVE  HasOwnerInv'
<1> USE DEF HasOwnerInv, TInv, rows, links, loops, calls, agent
<1>1. CASE UNCHANGED <<status, owner, thread, revoker, todo, sent>>
  BY <1>1, QuietOwner
<1>2. ASSUME NEW a \in Asg, RevokeGet(a) PROVE HasOwnerInv'
  <2>1. RevokerInv'
    BY <1>2 DEF RevokeGet, RevokerInv
  <2> QED
    BY <1>2, <2>1 DEF RevokeGet, NewInv, LoopOwnerInv, WriteInv, PlacedHasOwner
<1>3. CASE RevokeTell
  <2>1. revoker \in Revoking
    BY SMT, <1>3 DEF RevokeTell, TypeOK, CallsOK
  <2>2. RevokerInv'
    BY <1>3, <2>1, SMTT(40) DEF RevokeTell, RevokerInv, Revoking
  <2> QED
    BY <1>3, <2>2 DEF RevokeTell, NewInv, LoopOwnerInv, WriteInv, PlacedHasOwner
<1>4. CASE RevokeMark
  <2>1. revoker \in Revoking
    BY SMT, <1>4 DEF RevokeMark, TypeOK, CallsOK
  <2>2. revoker.asg \in Asg /\ status[revoker.asg] # "none"
    BY <1>4, <2>1 DEF RevokeMark, RevokerInv, Revoking
  <2> QED
    BY <1>4, <2>2, StatusOwner DEF RevokeMark, Status
<1>5. CASE MasterRestart
  <2>1. LoopOwnerInv' /\ WriteInv' /\ RevokerInv'
    BY <1>5 DEF MasterRestart, LoopOwnerInv, WriteInv, RevokerInv
  <2> QED
    BY <1>5, <2>1 DEF MasterRestart, NewInv, PlacedHasOwner
<1>6. ASSUME NEW n \in Node, WatchdogCheck(n) \/ PingTimeout(n) \/ GracePassed(n)
      PROVE  HasOwnerInv'
  BY <1>1, <1>6 DEF WatchdogCheck, PingTimeout, GracePassed
<1>7. ASSUME NEW n \in Node, NEW s \in Sess, OnRegister(n, s) PROVE HasOwnerInv'
  <2>1. LoopOwnerInv'
    BY <1>7, NodeAssumption, SMTT(40)
       DEF OnRegister, PendingOrOfferedByNode, LoopOwnerInv, TypeOK, RowsOK, LoopsOK
  <2> QED
    BY <1>7, <2>1, SMTT(40) DEF OnRegister, NewInv, WriteInv, RevokerInv, PlacedHasOwner
<1>8. ASSUME NEW n \in Node, NEW s \in Sess, ReofferSend(n, s) PROVE HasOwnerInv'
  <2>1. PICK a \in todo[n][s], ok \in BOOLEAN :
          /\ todo' = [todo EXCEPT ![n][s] = @ \ {a}]
          /\ sent' = [sent EXCEPT ![n][s] = IF ok THEN {a} ELSE {}]
    BY <1>8 DEF ReofferSend
  <2>2. \A m \in Node, t \in Sess :
           todo'[m][t] \cup sent'[m][t] \subseteq todo[m][t] \cup sent[m][t]
    <3> SUFFICES ASSUME NEW m \in Node, NEW t \in Sess
                 PROVE  todo'[m][t] \cup sent'[m][t] \subseteq todo[m][t] \cup sent[m][t]
      BY SMTT(40)
    <3>1. todo'[m][t] \subseteq todo[m][t]
      BY <2>1, SMTT(40) DEF TypeOK, LoopsOK
    <3>2. sent'[m][t] \subseteq todo[m][t] \cup sent[m][t]
      <4>1. CASE m = n /\ t = s
        BY <2>1, <4>1, SMTT(40) DEF TypeOK, LoopsOK
      <4>2. CASE ~(m = n /\ t = s)
        <5>1. sent' = [sent EXCEPT ![n] = [@ EXCEPT ![s] = IF ok THEN {a} ELSE {}]]
          BY <2>1, SMTT(40)
        <5> QED
          BY <4>2, <5>1 DEF TypeOK, LoopsOK
      <4> QED
        BY <4>1, <4>2
    <3> QED
      BY SMT, <3>1, <3>2
  <2> QED
    BY <1>8, <2>2, QuietOwner, SMTT(40) DEF ReofferSend
<1>9. ASSUME NEW n \in Node, NEW s \in Sess, ReofferMark(n, s) PROVE HasOwnerInv'
  <2>1. PICK a \in sent[n][s] : status' = [status EXCEPT ![a] = "offered"]
    BY <1>9 DEF ReofferMark
  <2>2. a \in Asg /\ owner[a] # NoNode /\ status[a] # "none"
    BY SMT DEF LoopOwnerInv, NewInv, TypeOK, RowsOK, LoopsOK
  <2>3. \A m \in Node, t \in Sess : sent'[m][t] \subseteq sent[m][t]
    BY <1>9 DEF ReofferMark, TypeOK, LoopsOK
  <2> QED
    BY <1>9, <2>1, <2>2, <2>3, StatusOwner DEF ReofferMark, Status
<1>10. ASSUME NEW n \in Node, NEW s \in Sess, OnStatus(n, s) PROVE HasOwnerInv'
  <2>1. Head(up[n][s]) \in UpFrame
    <3>1. up[n][s] \in Seq(UpFrame) /\ up[n][s] # << >>
      BY <1>10, SMTT(40) DEF OnStatus, TypeOK, FramesOK
    <3> QED
      BY <3>1, SMTT(40)
  <2>2. PICK a \in Asg, k \in Reported :
          status' = IF owner[a] = n THEN [status EXCEPT ![a] = k] ELSE status
    <3>1. Head(up[n][s]).asg \in Asg /\ Head(up[n][s]).kind \in Reported
      BY <2>1 DEF UpFrame
    <3> QED
      BY <1>10, <3>1 DEF OnStatus, UpdateStatusForNode
  <2>3. CASE owner[a] # n
    BY <1>1, <1>10, <2>2, <2>3, SMTT(40) DEF OnStatus
  <2>4. CASE owner[a] = n
    <3>1. owner[a] # NoNode /\ status[a] # "none"
      BY <2>4, NodeAssumption DEF NewInv
    <3> QED
      BY <1>10, <2>2, <2>4, <3>1, StatusOwner DEF OnStatus, Reported, Status
  <2> QED
    BY <2>3, <2>4
<1>11. ASSUME NEW n \in Node, NEW s \in Sess, ReaderEnd(n, s) PROVE HasOwnerInv'
  BY <1>1, <1>11 DEF ReaderEnd
<1>12. ASSUME NEW n \in Node, Agent(n) PROVE HasOwnerInv'
  BY <1>1, <1>12
     DEF Agent, AgentConnect, AgentAnnounce, AgentDrop, AgentRestart, AgentAssign,
         AgentRevoke, ReapExit, ReapCrash, ReapFailed
<1> QED
  BY <1>2, <1>3, <1>4, <1>5, <1>6, <1>7, <1>8, <1>9, <1>10, <1>11, <1>12
     DEF Revocation, ReadLoop

\* RetryPending's loop is never entered by Schedule.
LEMMA LoopPcNext == TInv /\ LoopPc /\ [Next]_vars => LoopPc'
<1> SUFFICES ASSUME TInv, LoopPc, [Next]_vars PROVE LoopPc'
  OBVIOUS
<1>0. ASSUME thread.pc # "idle" PROVE thread \in Busy
  <2>1. thread \in Busy \cup {Idle}
    BY DEF TInv, TypeOK, CallsOK
  <2> QED
    BY SMT, <1>0, <2>1
<1>1. CASE UNCHANGED thread
  BY <1>1 DEF LoopPc
<1>2. CASE Placement
  <2>1. ASSUME NEW a \in Asg, ScheduleDecide(a) PROVE LoopPc'
    BY SMT, <2>1 DEF ScheduleDecide, LoopPc
  <2>2. CASE PlacementWrite \/ PlacementSend \/ PlacementPark
    <3>1. thread \in Busy
      BY <1>0, <2>2 DEF PlacementWrite, PlacementSend, PlacementPark
    <3>2. \/ thread' = Resume
          \/ thread' = [thread EXCEPT !.pc = "send"]
          \/ thread' = [thread EXCEPT !.pc = "park"]
      BY <2>2, SMTT(40) DEF PlacementWrite, PlacementSend, PlacementPark
    <3> QED
      BY SMT, <3>1, <3>2 DEF LoopPc, Resume, Busy
  <2>3. CASE RetryStart \/ PlacementDone \/ FailoverList
    BY SMT, <2>3 DEF RetryStart, PlacementDone, FailoverList, LoopPc
  <2>4. CASE RetryDecide
    BY <1>0, <2>4 DEF RetryDecide, LoopPc, Busy
  <2>5. CASE FailoverPlan
    BY <1>0, <2>5 DEF FailoverPlan, LoopPc, Busy
  <2>6. CASE FailoverMove
    BY <1>0, <2>6 DEF FailoverMove, LoopPc, Busy
  <2> QED
    BY <1>2, <2>1, <2>2, <2>3, <2>4, <2>5, <2>6, SMTT(40) DEF Placement
<1>3. CASE Revocation \/ MasterRestart
  BY SMT, <1>3 DEF Revocation, RevokeGet, RevokeTell, RevokeMark, MasterRestart, LoopPc
<1>4. ASSUME NEW n \in Node,
             WatchdogCheck(n) \/ PingTimeout(n) \/ GracePassed(n) \/ Agent(n)
      PROVE  LoopPc'
  <2>1. UNCHANGED thread
    BY <1>4
       DEF WatchdogCheck, PingTimeout, GracePassed, Agent, AgentConnect, AgentAnnounce,
           AgentDrop, AgentRestart, AgentAssign, AgentRevoke, ReapExit, ReapCrash,
           ReapFailed, calls
  <2> QED
    BY <1>1, <2>1
<1>5. ASSUME NEW n \in Node, NEW s \in Sess, ReadLoop(n, s) PROVE LoopPc'
  <2>1. UNCHANGED thread
    BY <1>5
       DEF ReadLoop, OnRegister, ReofferSend, ReofferMark, OnStatus, ReaderEnd, calls
  <2> QED
    BY <1>1, <2>1
<1>6. CASE UNCHANGED vars
  BY <1>1, <1>6 DEF vars, calls
<1> QED
  BY <1>2, <1>3, <1>4, <1>5, <1>6 DEF Next

\* Every step keeps a node on the rows in play.
LEMMA HasOwnerNext == HasOwnerInv /\ LoopPc /\ [Next]_vars => HasOwnerInv'
<1> SUFFICES ASSUME HasOwnerInv, LoopPc, [Next]_vars PROVE HasOwnerInv'
  OBVIOUS
<1>1. TInv'
  BY TypeNext, SMTT(40) DEF HasOwnerInv
<1>2. CASE UNCHANGED vars
  BY <1>1, <1>2, QuietOwner DEF vars, rows, loops, calls
<1> QED
  BY <1>1, <1>2, PlacementOwner, OthersOwner DEF Next

\* Every row in play names a node, so the queries by node_id find it.
THEOREM RowsHaveOwner == Spec => []PlacedHasOwner
<1>1. Init => HasOwnerInv /\ LoopPc
  <2> SUFFICES ASSUME Init PROVE HasOwnerInv /\ LoopPc
    OBVIOUS
  <2>1. TInv
    BY TypeInit
  <2> QED
    BY <2>1
       DEF Init, HasOwnerInv, NewInv, LoopOwnerInv, WriteInv, RevokerInv,
           PlacedHasOwner, LoopPc
<1>2. HasOwnerInv /\ LoopPc /\ [Next]_vars => (HasOwnerInv /\ LoopPc)'
  BY HasOwnerNext, LoopPcNext DEF HasOwnerInv
<1>3. HasOwnerInv => PlacedHasOwner
  BY SMTT(40) DEF HasOwnerInv
<1> QED
  BY <1>1, <1>2, <1>3, PTL DEF Spec

-----------------------------------------------------------------------------
(* LiveSessionHeld speaks of one step: it needs the types and a look at     *)
(* every step that writes conn.                                             *)

\* A step that takes a node's connection from it while the agent is on it is
\* that connection's ping timeout or a restart of the master.
LEMMA HeldNext ==
    ASSUME TInv, Next, NEW m \in Node,
           sess[m] # 0, conn[m] = sess[m], conn'[m] # conn[m]
    PROVE  PingTimeout(m) \/ MasterRestart
<1> USE DEF TInv, links
<1>T. conn \in [Node -> 0 .. MaxSess] /\ sess \in [Node -> 0 .. MaxSess]
  BY SMTT(40) DEF TypeOK, LinksOK, AgentsOK
<1>1. ASSUME UNCHANGED conn PROVE FALSE
  BY <1>1
<1>2. CASE Placement
  BY <1>1, <1>2
     DEF Placement, ScheduleDecide, PlacementWrite, PlacementSend, PlacementPark,
         RetryStart, RetryDecide, PlacementDone, FailoverList, FailoverPlan,
         FailoverMove
<1>3. CASE Revocation
  BY <1>1, <1>3, SMTT(40) DEF Revocation, RevokeGet, RevokeTell, RevokeMark
<1>5. ASSUME NEW n \in Node, NEW s, OnClose(n, s),
             n = m => sess[n] # s
      PROVE  FALSE
  <2>1. CASE conn[n] = s
    <3>1. conn' = [conn EXCEPT ![n] = 0] /\ n # m
      BY <1>5, <2>1, SMTT(40) DEF OnClose
    <3> QED
      BY <1>T, <3>1, SMTT(40)
  <2>2. CASE conn[n] # s
    BY <1>1, <1>5, <2>2, SMTT(40) DEF OnClose
  <2> QED
    BY <2>1, <2>2
<1>6. ASSUME NEW n \in Node, PingTimeout(n) PROVE PingTimeout(m)
  BY <1>5, <1>6, SMTT(40) DEF PingTimeout
<1>7. ASSUME NEW n \in Node, WatchdogCheck(n) \/ GracePassed(n) PROVE FALSE
  BY <1>1, <1>7 DEF WatchdogCheck, GracePassed
<1>8. ASSUME NEW n \in Node, NEW s \in Sess, ReadLoop(n, s) PROVE FALSE
  <2>1. CASE ReaderEnd(n, s)
    BY <1>5, <2>1, SMTT(40) DEF ReaderEnd
  <2> QED
    BY <1>1, <1>8, <2>1, SMTT(40) DEF ReadLoop, OnRegister, ReofferSend, ReofferMark, OnStatus
<1>9. ASSUME NEW n \in Node, Agent(n) PROVE FALSE
  <2>1. CASE AgentConnect(n)
    <3>1. PICK s : conn' = [conn EXCEPT ![n] = s]
      BY <2>1 DEF AgentConnect
    <3>2. sess[n] = 0
      BY <2>1 DEF AgentConnect
    <3> QED
      BY <1>T, <3>1, <3>2, SMTT(40)
  <2>2. CASE AgentDrop(n) \/ AgentRestart(n)
    BY <1>1, <2>2 DEF AgentDrop, AgentRestart, LeaveSession
  <2> QED
    BY <1>1, <1>9, <2>1, <2>2
       DEF Agent, AgentAnnounce, AgentAssign, AgentRevoke, ReapExit, ReapCrash,
           ReapFailed
<1> QED
  BY <1>2, <1>3, <1>6, <1>7, <1>8, <1>9 DEF Next

\* onClose's identity check: no close of an older connection, and no ping
\* loop of one, ever drops the connection of the session the agent is in.
THEOREM LiveSessionKept == Spec => LiveSessionHeld
<1> DEFINE Held == \A n \in Node :
                     sess[n] # 0 /\ conn[n] = sess[n] /\ conn'[n] # conn[n] =>
                         PingTimeout(n) \/ MasterRestart
<1>1. Spec => []TInv
  BY TypeInit, TypeNext, PTL DEF Spec
<1>2. TInv /\ [Next]_vars => [Held]_vars
  BY HeldNext
<1>3. Spec => [][Held]_vars
  BY <1>1, <1>2, PTL DEF Spec
<1> QED
  BY <1>3 DEF LiveSessionHeld
=============================================================================
