-------------------------- MODULE EdgeWorkerProofs --------------------------
(***************************************************************************)
(* Workers run only where the scheduler placed them, and a row that says   *)
(* running was launched by the node it names, proved for every instance of *)
(* the edge grid.                                                          *)
(***************************************************************************)
EXTENDS EdgeGridProofs

\* Zenon is the prover of a leaf that names none; the leaves with arithmetic,
\* records or many cases name SMT.
USE Zenon

USE DEF Idle

(* OnlyPlacedNodesRun.  A worker is started by a frame, a frame by the       *)
(* placement thread or by a reoffer loop, and both act on a row that names   *)
(* the node: the inductive invariant follows the assignment along that way.  *)

DownInv == \A n \in Node, s \in Sess : \A i \in 1 .. Len(down[n][s]) :
    down[n][s][i].kind = "assign" => n \in placed[down[n][s][i].asg]

OwnerInv == \A a \in Asg : owner[a] # NoNode => owner[a] \in placed[a]

LoopInv == \A n \in Node, s \in Sess : \A a \in todo[n][s] \cup sent[n][s] :
    n \in placed[a]

PushInv == thread.pc = "send" => thread.tgt \in placed[thread.cur]

PlacedInv == TInv /\ DownInv /\ OwnerInv /\ LoopInv /\ PushInv /\ OnlyPlacedNodesRun

\* Gateway.Send appends at most the frame it is given.
LEMMA SendFrames ==
    ASSUME TypeOK, DownInv, NEW n \in Node, NEW f \in DownFrame, NEW ok,
           Send(n, f, ok), UNCHANGED placed,
           f.kind = "assign" => n \in placed[f.asg]
    PROVE  DownInv'
<1>1. CASE UNCHANGED down
  BY <1>1, SMTT(40) DEF DownInv
<1>2. CASE conn[n] # 0 /\ down' = [down EXCEPT ![n][conn[n]] = Append(@, f)]
  <2>1. conn[n] \in Sess
    BY <1>2, BoundAssumption, SMTT(40) DEF TypeOK, LinksOK, Sess
  <2> SUFFICES ASSUME NEW m \in Node, NEW s \in Sess, NEW i \in 1 .. Len(down'[m][s]),
                      down'[m][s][i].kind = "assign"
               PROVE  m \in placed[down'[m][s][i].asg]
    BY SMTT(40) DEF DownInv
  <2>2. CASE m = n /\ s = conn[n]
    <3>1. down[n][s] \in Seq(DownFrame)
      BY SMTT(40) DEF TypeOK, FramesOK
    <3>2. down'[m][s] = Append(down[n][s], f)
      BY <1>2, <2>1, <2>2, SMTT(40) DEF TypeOK, FramesOK
    <3>3. CASE i \in 1 .. Len(down[n][s])
      <4>1. down'[m][s][i] = down[n][s][i]
        BY SMT, <3>1, <3>2, <3>3
      <4> QED
        BY <2>2, <3>3, <4>1, SMTT(40) DEF DownInv
    <3>4. CASE i = Len(down[n][s]) + 1
      <4>1. down'[m][s][i] = f
        BY <3>1, <3>2, <3>4, SMTT(40)
      <4> QED
        BY <2>2, <4>1, SMTT(40)
    <3> QED
      BY SMT, <3>1, <3>2, <3>3, <3>4
  <2>3. CASE ~(m = n /\ s = conn[n])
    <3>1. down'[m][s] = down[m][s]
      BY <1>2, <2>1, <2>3 DEF TypeOK, FramesOK
    <3> QED
      BY <3>1, SMTT(40) DEF DownInv
  <2> QED
    BY <2>2, <2>3
<1> QED
  BY <1>1, <1>2 DEF Send

\* The session the agent leaves loses its frames; the others keep theirs.
LEMMA LeaveFrames ==
    ASSUME TypeOK, DownInv, NEW n \in Node, LeaveSession(n), UNCHANGED placed
    PROVE  DownInv'
<1>1. CASE sess[n] = 0
  BY <1>1 DEF DownInv, LeaveSession
<1>2. CASE sess[n] # 0
  <2>1. sess[n] \in Sess
    BY SMT, <1>2, BoundAssumption DEF TypeOK, AgentsOK, Sess
  <2>2. down' = [down EXCEPT ![n][sess[n]] = <<>>]
    BY <1>2, SMTT(40) DEF LeaveSession
  <2> SUFFICES ASSUME NEW m \in Node, NEW s \in Sess, NEW i \in 1 .. Len(down'[m][s]),
                      down'[m][s][i].kind = "assign"
               PROVE  m \in placed[down'[m][s][i].asg]
    BY SMTT(40) DEF DownInv
  <2>3. CASE m = n /\ s = sess[n]
    <3>1. down'[m][s] = << >>
      BY <2>1, <2>2, <2>3, SMTT(40) DEF TypeOK, FramesOK
    <3> QED
      BY SMT, <3>1
  <2>4. CASE ~(m = n /\ s = sess[n])
    <3>1. down'[m][s] = down[m][s]
      BY <2>1, <2>2, <2>4 DEF TypeOK, FramesOK
    <3> QED
      BY <3>1 DEF DownInv
  <2> QED
    BY <2>3, <2>4
<1> QED
  BY <1>1, <1>2, SMTT(40)

\* Reading a frame leaves the others; an assign frame names a placed node.
LEMMA PopFrames ==
    ASSUME TypeOK, DownInv, NEW n \in Node, Inbox(n) # <<>>, Pop(n),
           UNCHANGED placed
    PROVE  /\ DownInv'
           /\ Head(Inbox(n)).kind = "assign" => n \in placed[Head(Inbox(n)).asg]
<1>1. /\ sess[n] \in Sess /\ Inbox(n) = down[n][sess[n]]
      /\ Inbox(n) \in Seq(DownFrame)
  BY InboxType
<1> DEFINE q == Inbox(n)
<1>2. Len(q) \in Nat /\ Len(q) > 0 /\ Head(q) = q[1]
  BY <1>1, SMTT(40)
<1>3. Head(q).kind = "assign" => n \in placed[Head(q).asg]
  <2>1. 1 \in 1 .. Len(q)
    BY <1>2, SMTT(40)
  <2> QED
    BY <1>1, <1>2, <2>1 DEF DownInv
<1>4. DownInv'
  <2> SUFFICES ASSUME NEW m \in Node, NEW s \in Sess, NEW i \in 1 .. Len(down'[m][s]),
                      down'[m][s][i].kind = "assign"
               PROVE  m \in placed[down'[m][s][i].asg]
    BY SMTT(40) DEF DownInv
  <2>1. CASE m = n /\ s = sess[n]
    <3>1. down'[m][s] = Tail(q)
      BY <1>1, <2>1, SMTT(40) DEF Pop, TypeOK, FramesOK
    <3>2. i + 1 \in 1 .. Len(q) /\ Tail(q)[i] = q[i + 1]
      BY <1>1, <1>2, <3>1, SMTT(40)
    <3> QED
      BY <1>1, <2>1, <3>1, <3>2, SMTT(40) DEF DownInv
  <2>2. CASE ~(m = n /\ s = sess[n])
    <3>1. down'[m][s] = down[m][s]
      BY <1>1, <2>2 DEF Pop, TypeOK, FramesOK
    <3> QED
      BY <3>1, SMTT(40) DEF DownInv
  <2> QED
    BY <2>1, <2>2, SMTT(40)
<1> QED
  BY <1>3, <1>4

\* placed only grows, so what does not move with it is kept.
LEMMA PlacedGrows ==
    ASSUME DownInv, OwnerInv, LoopInv, OnlyPlacedNodesRun, TypeOK, TypeOK',
           \A a \in Asg : placed[a] \subseteq placed'[a],
           UNCHANGED <<down, todo, sent, child>>,
           \A a \in Asg : owner'[a] = owner[a] \/ owner'[a] \in placed'[a] \cup {NoNode}
    PROVE  DownInv' /\ OwnerInv' /\ LoopInv' /\ OnlyPlacedNodesRun'
<1>1. DownInv'
  <2> SUFFICES ASSUME NEW n \in Node, NEW s \in Sess, NEW i \in 1 .. Len(down[n][s]),
                      down[n][s][i].kind = "assign"
               PROVE  n \in placed'[down[n][s][i].asg]
    BY SMTT(40) DEF DownInv
  <2>1. n \in placed[down[n][s][i].asg]
    BY SMTT(40) DEF DownInv
  <2>2. down[n][s][i] \in DownFrame
    BY SMT DEF TypeOK, FramesOK
  <2> QED
    BY <2>1, <2>2, SMTT(40) DEF DownFrame
<1>2. OwnerInv'
  BY DEF OwnerInv, TypeOK, RowsOK
<1>3. LoopInv'
  BY SMT DEF LoopInv, TypeOK, RowsOK, LoopsOK
<1>4. OnlyPlacedNodesRun'
  BY SMTT(40) DEF OnlyPlacedNodesRun
<1> QED
  BY <1>1, <1>2, <1>3, <1>4, SMTT(40)

\* The placement thread records every node it names before it pushes to it.
LEMMA PlacementPlaced ==
    ASSUME PlacedInv, TInv', Placement
    PROVE  PlacedInv'
<1> USE DEF PlacedInv, TInv, rows, links, loops, agent
<1>0. ASSUME thread.pc # "idle" PROVE thread \in Busy
  BY <1>0, SMTT(40) DEF TypeOK, CallsOK
<1>1. CASE UNCHANGED <<rows, down, todo, sent, child>> /\ thread'.pc # "send"
  BY <1>1 DEF DownInv, OwnerInv, LoopInv, OnlyPlacedNodesRun, PushInv
<1>2. CASE PlacementWrite
  <2>1. thread \in Busy
    BY <1>0, <1>2 DEF PlacementWrite
  <2>2. PICK a \in Asg, n \in Node \cup {NoNode} :
          /\ a = thread.cur /\ n = thread.tgt
          /\ owner' = [owner EXCEPT ![a] = n]
          /\ placed' = [placed EXCEPT ![a] = @ \cup ({n} \ {NoNode})]
          /\ thread' = IF n = NoNode THEN Resume
                                     ELSE [thread EXCEPT !.pc = "send"]
    BY <1>2, <2>1 DEF PlacementWrite, Busy
  <2>3. \A b \in Asg : placed[b] \subseteq placed'[b]
    BY <2>2 DEF TypeOK, RowsOK
  <2>4. \A b \in Asg : owner'[b] = owner[b] \/ owner'[b] \in placed'[b] \cup {NoNode}
    BY <2>2 DEF TypeOK, RowsOK
  <2>5. PushInv'
    <3>1. CASE n = NoNode
      BY <2>1, <2>2, <3>1, ResumeType DEF PushInv
    <3>2. CASE n # NoNode
      <4>1. thread' = [thread EXCEPT !.pc = "send"] /\ n \in placed'[a]
        BY <2>2, <3>2 DEF TypeOK, RowsOK, CallsOK
      <4>2. thread'.tgt = n /\ thread'.cur = a
        BY <2>1, <2>2, <4>1 DEF Busy
      <4> QED
        BY <4>1, <4>2 DEF PushInv
    <3> QED
      BY <3>1, <3>2
  <2> QED
    BY <1>2, <2>3, <2>4, <2>5, PlacedGrows DEF PlacementWrite
<1>3. CASE PlacementSend
  <2>1. /\ thread \in Busy /\ thread.tgt \in Node
        /\ thread.tgt \in placed[thread.cur]
        /\ Assign(thread.cur) \in DownFrame
        /\ Assign(thread.cur).asg = thread.cur
    BY <1>0, <1>3, FrameType DEF PlacementSend, Busy, ThreadOK, PushInv, Assign
  <2>2. PICK ok \in BOOLEAN : Send(thread.tgt, Assign(thread.cur), ok)
    BY <1>3 DEF PlacementSend
  <2>3. DownInv'
    BY <1>3, <2>1, <2>2, SendFrames DEF PlacementSend
  <2>4. PushInv'
    BY <1>3, <2>1, ResumeType, SMTT(40) DEF PlacementSend, PushInv, Busy
  <2> QED
    BY <1>3, <2>3, <2>4 DEF PlacementSend, OwnerInv, LoopInv, OnlyPlacedNodesRun
<1>4. CASE PlacementPark
  <2>1. PushInv'
    BY <1>0, <1>4, ResumeType, SMTT(40) DEF PlacementPark, PushInv
  <2> QED
    BY <1>4, <2>1, SMTT(40) DEF PlacementPark, DownInv, OwnerInv, LoopInv, OnlyPlacedNodesRun
<1>5. CASE FailoverMove
  <2>1. thread \in Busy
    BY <1>0, <1>5, SMTT(40) DEF FailoverMove
  <2>2. PICK a \in thread.left :
          LET n == thread.plan[a]
          IN  IF n = NoNode
              THEN /\ status' = [status EXCEPT ![a] = "pending"]
                   /\ thread' = [thread EXCEPT !.left = @ \ {a}]
                   /\ UNCHANGED <<owner, placed>>
              ELSE /\ status' = [status EXCEPT ![a] = "offered"]
                   /\ owner' = [owner EXCEPT ![a] = n]
                   /\ placed' = [placed EXCEPT ![a] = @ \cup {n}]
                   /\ thread' = [thread EXCEPT !.left = @ \ {a}, !.pc = "send",
                                               !.cur = a, !.tgt = n]
    BY <1>5 DEF FailoverMove
  <2>3. a \in Asg /\ thread.plan[a] \in Node \cup {NoNode}
    BY <2>1, <2>2 DEF Busy
  <2>4. CASE thread.plan[a] = NoNode
    <3>1. /\ thread' = [thread EXCEPT !.left = @ \ {a}]
          /\ UNCHANGED <<owner, placed>>
      BY <2>2, <2>4
    <3>2. thread'.pc # "send"
      BY <1>5, <2>1, <3>1 DEF FailoverMove, Busy
    <3> QED
      BY <1>5, <3>1, <3>2
         DEF FailoverMove, DownInv, OwnerInv, LoopInv, OnlyPlacedNodesRun, PushInv
  <2>5. CASE thread.plan[a] # NoNode
    <3>1. PICK n \in Node :
             /\ owner' = [owner EXCEPT ![a] = n]
             /\ placed' = [placed EXCEPT ![a] = @ \cup {n}]
             /\ thread' = [thread EXCEPT !.left = @ \ {a}, !.pc = "send",
                                         !.cur = a, !.tgt = n]
      BY <2>2, <2>3, <2>5
    <3>2. \A b \in Asg : placed[b] \subseteq placed'[b]
      BY <2>3, <3>1 DEF TypeOK, RowsOK
    <3>3. \A b \in Asg : owner'[b] = owner[b] \/ owner'[b] \in placed'[b] \cup {NoNode}
      BY <2>3, <3>1 DEF TypeOK, RowsOK
    <3>4. thread'.tgt = n /\ thread'.cur = a /\ n \in placed'[a]
      BY <2>1, <2>3, <3>1, SMTT(40) DEF Busy, TypeOK, RowsOK, CallsOK
    <3> QED
      BY <1>5, <3>2, <3>3, <3>4, PlacedGrows, SMTT(40) DEF FailoverMove, PushInv
  <2> QED
    BY <2>4, <2>5
<1>6. ASSUME NEW a \in Asg, ScheduleDecide(a) PROVE PlacedInv'
  BY <1>1, <1>6, SMTT(40) DEF ScheduleDecide
<1>7. CASE RetryStart
  BY <1>1, <1>7 DEF RetryStart
<1>8. CASE RetryDecide
  <2>1. thread \in Busy
    BY <1>0, <1>8 DEF RetryDecide
  <2>2. thread'.pc # "send"
    BY <1>8, <2>1, SMTT(40) DEF RetryDecide, Busy
  <2> QED
    BY <1>1, <1>8, <2>2 DEF RetryDecide
<1>9. CASE PlacementDone
  BY <1>1, <1>9, SMTT(40) DEF PlacementDone
<1>10. CASE FailoverList
  BY SMT, <1>1, <1>10 DEF FailoverList
<1>11. CASE FailoverPlan
  <2>1. thread \in Busy
    BY <1>0, <1>11 DEF FailoverPlan
  <2>2. thread'.pc # "send"
    BY <1>11, <2>1, SMTT(40) DEF FailoverPlan, Busy
  <2> QED
    BY <1>1, <1>11, <2>2 DEF FailoverPlan
<1> QED
  BY <1>2, <1>3, <1>4, <1>5, <1>6, <1>7, <1>8, <1>9, <1>10, <1>11, SMTT(40) DEF Placement

\* Steps that move no frame down, list no row and start no worker.
LEMMA QuietPlaced ==
    ASSUME PlacedInv, TInv', UNCHANGED <<owner, placed, down, todo, sent, thread>>,
           \A n \in Node, a \in Asg : child'[n][a] # "none" => child[n][a] # "none"
    PROVE  PlacedInv'
BY DEF PlacedInv, DownInv, OwnerInv, LoopInv, PushInv, OnlyPlacedNodesRun

\* Revoke pushes no assign frame; the watchdog pushes nothing.
LEMMA RevocationPlaced ==
    ASSUME PlacedInv, TInv', Revocation \/ \E n \in Node : WatchdogCheck(n)
    PROVE  PlacedInv'
<1> USE DEF PlacedInv, TInv, rows, links, loops, agent
<1>1. ASSUME NEW a \in Asg, RevokeGet(a) PROVE PlacedInv'
  BY <1>1, QuietPlaced DEF RevokeGet
<1>2. CASE RevokeTell
  <2>1. revoker \in Revoking /\ revoker.node \in Node
    BY SMT, <1>2 DEF RevokeTell, TypeOK, CallsOK, ThreadOK
  <2>2. Revoke(revoker.asg) \in DownFrame /\ Revoke(revoker.asg).kind # "assign"
    BY <2>1, FrameType DEF Revoking, Revoke
  <2>3. DownInv'
    BY <1>2, <2>1, <2>2, SendFrames, SMTT(40) DEF RevokeTell
  <2> QED
    BY <1>2, <2>3 DEF RevokeTell, OwnerInv, LoopInv, PushInv, OnlyPlacedNodesRun
<1>3. CASE RevokeMark
  BY <1>3, QuietPlaced, SMTT(40) DEF RevokeMark
<1>4. ASSUME NEW n \in Node, WatchdogCheck(n) PROVE PlacedInv'
  BY <1>4, QuietPlaced, SMTT(40) DEF WatchdogCheck
<1> QED
  BY <1>1, <1>2, <1>3, <1>4, SMTT(40) DEF Revocation

\* A reoffer loop lists the rows of its own node and pushes them to it.
LEMMA GatewayPlaced ==
    ASSUME PlacedInv, TInv',
           \/ \E n \in Node : PingTimeout(n) \/ GracePassed(n)
           \/ \E n \in Node, s \in Sess : ReadLoop(n, s)
           \/ MasterRestart
    PROVE  PlacedInv'
<1> USE DEF PlacedInv, TInv, rows, links, loops, calls, agent
<1>1. ASSUME NEW n \in Node, PingTimeout(n) \/ GracePassed(n) PROVE PlacedInv'
  BY <1>1, QuietPlaced DEF PingTimeout, GracePassed
<1>2. ASSUME NEW n \in Node, NEW s \in Sess, OnRegister(n, s) PROVE PlacedInv'
  <2>1. LoopInv'
    BY <1>2, NodeAssumption, SMTT(40)
       DEF OnRegister, PendingOrOfferedByNode, LoopInv, OwnerInv, TypeOK, RowsOK, LoopsOK
  <2> QED
    BY <1>2, <2>1, SMTT(40) DEF OnRegister, DownInv, OwnerInv, PushInv, OnlyPlacedNodesRun
<1>3. ASSUME NEW n \in Node, NEW s \in Sess, ReofferSend(n, s) PROVE PlacedInv'
  <2>1. PICK a \in todo[n][s], ok \in BOOLEAN :
          /\ todo' = [todo EXCEPT ![n][s] = @ \ {a}]
          /\ Send(n, Assign(a), ok)
          /\ sent' = [sent EXCEPT ![n][s] = IF ok THEN {a} ELSE {}]
    BY <1>3 DEF ReofferSend
  <2>2. a \in Asg /\ n \in placed[a]
    BY SMT DEF TypeOK, RowsOK, LoopsOK, LoopInv
  <2>3. Assign(a) \in DownFrame /\ Assign(a).asg = a
    BY <2>2, FrameType DEF Assign
  <2>4. DownInv'
    BY <1>3, <2>1, <2>2, <2>3, SendFrames DEF ReofferSend
  <2>5. LoopInv'
    <3> SUFFICES ASSUME NEW m \in Node, NEW t \in Sess,
                        NEW b \in todo'[m][t] \cup sent'[m][t]
                 PROVE  m \in placed[b]
      BY <1>3, SMTT(40) DEF ReofferSend, LoopInv
    <3>1. CASE m = n /\ t = s
      <4>1. todo'[m][t] \subseteq todo[m][t] /\ sent'[m][t] \subseteq {a}
        BY <2>1, <3>1, SMTT(40) DEF TypeOK, LoopsOK
      <4> QED
        BY <2>2, <3>1, <4>1 DEF LoopInv
    <3>2. CASE ~(m = n /\ t = s)
      <4>1. todo'[m][t] = todo[m][t]
        BY <2>1, <3>2, SMTT(40) DEF TypeOK, LoopsOK
      <4>2. sent'[m][t] = sent[m][t]
        <5>1. sent' = [sent EXCEPT ![n] = [@ EXCEPT ![s] = IF ok THEN {a} ELSE {}]]
          BY <2>1, SMTT(40)
        <5> QED
          BY <3>2, <5>1 DEF TypeOK, LoopsOK
      <4> QED
        BY <4>1, <4>2 DEF LoopInv
    <3> QED
      BY <3>1, <3>2, SMTT(40)
  <2> QED
    BY <1>3, <2>4, <2>5, SMTT(40) DEF ReofferSend, OwnerInv, PushInv, OnlyPlacedNodesRun
<1>4. ASSUME NEW n \in Node, NEW s \in Sess, ReofferMark(n, s) PROVE PlacedInv'
  <2>1. LoopInv'
    BY <1>4, SMTT(40) DEF ReofferMark, LoopInv, TypeOK, RowsOK, LoopsOK
  <2> QED
    BY <1>4, <2>1, SMTT(40) DEF ReofferMark, DownInv, OwnerInv, PushInv, OnlyPlacedNodesRun
<1>5. ASSUME NEW n \in Node, NEW s \in Sess, OnStatus(n, s) PROVE PlacedInv'
  BY <1>5, QuietPlaced, SMTT(40) DEF OnStatus
<1>6. ASSUME NEW n \in Node, NEW s \in Sess, ReaderEnd(n, s) PROVE PlacedInv'
  BY <1>6, QuietPlaced, SMTT(40) DEF ReaderEnd
<1>7. CASE MasterRestart
  <2>1. /\ todo' = [m \in Node |-> [t \in Sess |-> {}]]
        /\ sent' = [m \in Node |-> [t \in Sess |-> {}]]
        /\ thread' = Idle
    BY <1>7 DEF MasterRestart
  <2>2. LoopInv'
    BY <2>1 DEF LoopInv
  <2>3. PushInv'
    BY <2>1 DEF PushInv
  <2> QED
    BY <1>7, <2>2, <2>3 DEF MasterRestart, DownInv, OwnerInv, OnlyPlacedNodesRun
<1> QED
  BY <1>1, <1>2, <1>3, <1>4, <1>5, <1>6, <1>7, SMTT(40) DEF ReadLoop

\* An agent starts a worker from an assign frame, and restarts its own.
LEMMA AgentPlaced ==
    ASSUME PlacedInv, TInv', NEW n \in Node, Agent(n)
    PROVE  PlacedInv'
<1> USE DEF PlacedInv, TInv, rows, links, loops, calls, agent
<1>1. CASE AgentConnect(n) \/ AgentAnnounce(n)
  BY <1>1, QuietPlaced, SMTT(40) DEF AgentConnect, AgentAnnounce
<1>2. CASE AgentDrop(n)
  BY <1>2, LeaveFrames DEF AgentDrop, OwnerInv, LoopInv, PushInv, OnlyPlacedNodesRun
<1>3. CASE AgentRestart(n)
  <2>1. DownInv'
    BY <1>3, LeaveFrames, SMTT(40) DEF AgentRestart
  <2>2. OnlyPlacedNodesRun'
    BY <1>3, SMTT(40) DEF AgentRestart, OnlyPlacedNodesRun, TypeOK, RowsOK, AgentsOK
  <2> QED
    BY <1>3, <2>1, <2>2 DEF AgentRestart, OwnerInv, LoopInv, PushInv
<1>4. CASE AgentAssign(n)
  <2>1. PICK a \in Asg : a = Head(Inbox(n)).asg
    BY <1>4, InboxType, SMTT(40) DEF AgentAssign, DownFrame
  <2>2. DownInv' /\ n \in placed[a]
    BY <1>4, <2>1, PopFrames, SMTT(40) DEF AgentAssign
  <2>3. \A m \in Node, b \in Asg :
           child'[m][b] # "none" => child[m][b] # "none" \/ (m = n /\ b = a)
    <3>1. \/ child' = child
          \/ child' = [child EXCEPT ![n][a] = "running"]
          \/ child' = [child EXCEPT ![n][a] = "failed"]
      BY <1>4, <2>1, SMTT(40) DEF AgentAssign
    <3>2. child \in [Node -> [Asg -> {"none", "running", "failed"}]]
      BY SMTT(40) DEF TypeOK, AgentsOK
    <3>3. CASE child' = child
      BY <3>3
    <3>4. CASE child' = [child EXCEPT ![n][a] = "running"]
      BY <3>2, <3>4
    <3>5. CASE child' = [child EXCEPT ![n][a] = "failed"]
      BY <3>2, <3>5, SMTT(40)
    <3> QED
      BY <3>1, <3>3, <3>4, <3>5, SMTT(40)
  <2>4. OnlyPlacedNodesRun'
    BY <1>4, <2>2, <2>3, SMTT(40) DEF AgentAssign, OnlyPlacedNodesRun
  <2> QED
    BY <1>4, <2>2, <2>4, SMTT(40) DEF AgentAssign, OwnerInv, LoopInv, PushInv
<1>5. CASE AgentRevoke(n)
  <2>1. PICK a \in Asg : a = Head(Inbox(n)).asg
    BY <1>5, InboxType, SMTT(40) DEF AgentRevoke, DownFrame
  <2>2. DownInv'
    BY <1>5, PopFrames, SMTT(40) DEF AgentRevoke
  <2>3. child' = child \/ child' = [child EXCEPT ![n][a] = "none"]
    BY <1>5, <2>1 DEF AgentRevoke
  <2>4. \A m \in Node, b \in Asg : child'[m][b] # "none" => child[m][b] # "none"
    <3>1. child \in [Node -> [Asg -> {"none", "running", "failed"}]]
      BY DEF TypeOK, AgentsOK
    <3>2. CASE child' = child
      BY <3>2
    <3>3. CASE child' = [child EXCEPT ![n][a] = "none"]
      BY <3>1, <3>3, SMTT(40)
    <3> QED
      BY <2>3, <3>2, <3>3, SMTT(40)
  <2>5. OnlyPlacedNodesRun'
    BY <1>5, <2>4, SMTT(40) DEF AgentRevoke, OnlyPlacedNodesRun
  <2> QED
    BY <1>5, <2>2, <2>5, SMTT(40) DEF AgentRevoke, OwnerInv, LoopInv, PushInv
<1>6. ASSUME NEW a \in Asg, ReapExit(n, a) PROVE PlacedInv'
  BY <1>6, QuietPlaced, SMTT(40) DEF ReapExit, TypeOK
<1>7. ASSUME NEW a \in Asg, ReapCrash(n, a) \/ ReapFailed(n, a) PROVE PlacedInv'
  <2>1. child[n][a] # "none"
    BY <1>7 DEF ReapCrash, ReapFailed
  <2>2. PICK k \in {"running", "failed"} : child' = [child EXCEPT ![n][a] = k]
    BY <1>7 DEF ReapCrash, ReapFailed, MaybeRestart
  <2>3. \A m \in Node, b \in Asg : child'[m][b] # "none" => child[m][b] # "none"
    BY SMT, <2>1, <2>2 DEF TypeOK, AgentsOK
  <2> QED
    BY <1>7, <2>3, QuietPlaced DEF ReapCrash, ReapFailed
<1> QED
  BY <1>1, <1>2, <1>3, <1>4, <1>5, <1>6, <1>7, SMTT(40) DEF Agent

\* Every step keeps the assignment's way from row to worker on placed nodes.
LEMMA PlacedNext == PlacedInv /\ [Next]_vars => PlacedInv'
<1> SUFFICES ASSUME PlacedInv, [Next]_vars PROVE PlacedInv'
  OBVIOUS
<1>1. TInv'
  BY TypeNext, SMTT(40) DEF PlacedInv
<1>2. CASE UNCHANGED vars
  BY <1>1, <1>2, QuietPlaced DEF vars, rows, loops, calls, agent
<1> QED
  BY <1>1, <1>2, PlacementPlaced, RevocationPlaced, GatewayPlaced, AgentPlaced DEF Next

\* No agent ever runs a worker for an assignment that was not placed on its
\* node, whatever the order of failovers, reoffers, reconnects and restarts.
THEOREM PlacedNodesRun == Spec => []OnlyPlacedNodesRun
<1>1. Init => PlacedInv
  <2> SUFFICES ASSUME Init PROVE PlacedInv
    OBVIOUS
  <2>1. TInv
    BY TypeInit
  <2>2. DownInv
    BY SMTT(40) DEF Init, DownInv
  <2>3. OwnerInv
    BY SMTT(40) DEF Init, OwnerInv
  <2>4. LoopInv
    BY SMTT(40) DEF Init, LoopInv
  <2>5. PushInv
    BY SMTT(40) DEF Init, PushInv
  <2>6. OnlyPlacedNodesRun
    BY SMTT(40) DEF Init, OnlyPlacedNodesRun
  <2> QED
    BY <2>1, <2>2, <2>3, <2>4, <2>5, <2>6 DEF PlacedInv
<1>2. PlacedInv => OnlyPlacedNodesRun
  BY DEF PlacedInv
<1> QED
  BY <1>1, <1>2, PlacedNext, PTL DEF Spec

-----------------------------------------------------------------------------

(* RunningWasLaunched.  A row becomes running by a report of its own node,   *)
(* and a node reports running only a worker it launched.                     *)

UpInv == \A n \in Node, s \in Sess : \A i \in 1 .. Len(up[n][s]) :
    up[n][s][i].kind = "running" => n \in launched[up[n][s][i].asg]

ChildInv == \A n \in Node, a \in Asg : child[n][a] = "running" => n \in launched[a]

LaunchedInv == TInv /\ UpInv /\ ChildInv /\ RunningWasLaunched

\* Every running frame in the sequence fs is of a worker launched on n.
Launched(n, fs) == \A i \in 1 .. Len(fs) :
    fs[i].kind = "running" => n \in launched'[fs[i].asg]

\* A frame past the end of the frames already in flight is one of those added.
LEMMA AddedFrame ==
    ASSUME NEW q \in Seq(UpFrame), NEW fs \in Seq(UpFrame),
           NEW i \in 1 .. Len(q \o fs), i > Len(q)
    PROVE  \E j \in 1 .. Len(fs) : (q \o fs)[i] = fs[j]
<1>1. i - Len(q) \in 1 .. Len(fs)
  BY SMT
<1>2. (q \o fs)[i] = fs[i - Len(q)]
  BY SMT
<1> QED
  BY <1>1, <1>2

\* report_status appends the frames it is given, or drops them.
LEMMA ReportFrames ==
    ASSUME TypeOK, UpInv, NEW n \in Node, NEW fs \in Seq(UpFrame), Report(n, fs),
           \A a \in Asg : launched[a] \subseteq launched'[a], Launched(n, fs)
    PROVE  UpInv'
<1> SUFFICES ASSUME NEW m \in Node, NEW s \in Sess, NEW i \in 1 .. Len(up'[m][s]),
                    up'[m][s][i].kind = "running"
             PROVE  m \in launched'[up'[m][s][i].asg]
  BY DEF UpInv
<1>0. up[m][s] \in Seq(UpFrame)
  BY DEF TypeOK, FramesOK
<1>1. CASE up'[m][s] = up[m][s]
  <2>1. m \in launched[up[m][s][i].asg]
    BY <1>1 DEF UpInv
  <2>2. up[m][s][i].asg \in Asg
    <3>1. up[m][s][i] \in UpFrame
      BY <1>0, <1>1, SMTT(40)
    <3> QED
      BY <3>1 DEF UpFrame
  <2> QED
    BY <1>1, <2>1, <2>2
<1>2. CASE m = n /\ up'[m][s] = up[m][s] \o fs
  <2>1. CASE i \in 1 .. Len(up[m][s])
    <3>1. up'[m][s][i] = up[m][s][i]
      BY SMT, <1>0, <1>2, <2>1
    <3>2. m \in launched[up[m][s][i].asg]
      BY <2>1, <3>1 DEF UpInv
    <3>3. up[m][s][i].asg \in Asg
      <4>1. up[m][s][i] \in UpFrame
        BY SMT, <1>0, <2>1
      <4> QED
        BY SMT, <4>1 DEF UpFrame
    <3> QED
      BY <3>1, <3>2, <3>3
  <2>2. CASE i > Len(up[m][s])
    <3>1. PICK j \in 1 .. Len(fs) : up'[m][s][i] = fs[j]
      <4>1. i \in 1 .. Len(up[m][s] \o fs)
        BY <1>2
      <4>2. \E j \in 1 .. Len(fs) : (up[m][s] \o fs)[i] = fs[j]
        BY <1>0, <2>2, <4>1, AddedFrame
      <4> QED
        BY <1>2, <4>2
    <3> QED
      BY <1>2, <3>1 DEF Launched
  <2> QED
    BY SMT, <1>0, <1>2, <2>1, <2>2
<1>3. up'[m][s] = up[m][s] \/ (m = n /\ up'[m][s] = up[m][s] \o fs)
  <2>1. CASE up' = up
    BY <2>1, SMTT(40)
  <2>2. CASE sess[n] # 0 /\ up' = [up EXCEPT ![n][sess[n]] = @ \o fs]
    <3>1. sess[n] \in Sess
      BY <2>2, BoundAssumption, SMTT(40) DEF TypeOK, AgentsOK, Sess
    <3> QED
      BY <2>2, <3>1 DEF TypeOK, FramesOK
  <2> QED
    BY <2>1, <2>2 DEF Report
<1> QED
  BY <1>1, <1>2, <1>3

\* Frames that are lost or read leave frames that were there.
LEMMA FewerFrames ==
    ASSUME TypeOK, UpInv, UNCHANGED launched, NEW n \in Node, NEW s \in Sess,
           NEW q \in Seq(UpFrame), up' = [up EXCEPT ![n][s] = q],
           \A i \in 1 .. Len(q) : \E j \in 1 .. Len(up[n][s]) : q[i] = up[n][s][j]
    PROVE  UpInv'
<1> SUFFICES ASSUME NEW m \in Node, NEW t \in Sess, NEW i \in 1 .. Len(up'[m][t]),
                    up'[m][t][i].kind = "running"
             PROVE  m \in launched[up'[m][t][i].asg]
  BY DEF UpInv
<1>1. CASE m = n /\ t = s
  <2>1. up'[m][t] = q
    BY <1>1 DEF TypeOK, FramesOK
  <2>2. PICK j \in 1 .. Len(up[n][s]) : q[i] = up[n][s][j]
    BY <2>1
  <2>3. up[n][s][j].kind = "running"
    BY <2>1, <2>2
  <2>4. n \in launched[up[n][s][j].asg]
    BY <2>3 DEF UpInv
  <2> QED
    BY <1>1, <2>1, <2>2, <2>4
<1>2. CASE ~(m = n /\ t = s)
  <2>1. up'[m][t] = up[m][t]
    BY <1>2 DEF TypeOK, FramesOK
  <2> QED
    BY <2>1 DEF UpInv
<1> QED
  BY <1>1, <1>2

\* The session the agent leaves keeps a prefix of its reports.
LEMMA LeaveReports ==
    ASSUME TypeOK, UpInv, NEW n \in Node, LeaveSession(n), UNCHANGED launched
    PROVE  UpInv'
<1>1. CASE sess[n] = 0
  BY <1>1 DEF LeaveSession, UpInv
<1>2. CASE sess[n] # 0
  <2>1. sess[n] \in Sess
    BY SMT, <1>2, BoundAssumption DEF TypeOK, AgentsOK, Sess
  <2>2. PICK k \in 0 .. Len(up[n][sess[n]]) :
           up' = [up EXCEPT ![n][sess[n]] = SubSeq(@, 1, k)]
    BY <1>2 DEF LeaveSession
  <2>3. PICK q : q = SubSeq(up[n][sess[n]], 1, k)
    OBVIOUS
  <2>4. up[n][sess[n]] \in Seq(UpFrame)
    BY <2>1 DEF TypeOK, FramesOK
  <2>5. /\ q \in Seq(UpFrame)
        /\ \A i \in 1 .. Len(q) : i \in 1 .. Len(up[n][sess[n]]) /\ q[i] = up[n][sess[n]][i]
    BY SMT, <2>3, <2>4
  <2>6. up' = [up EXCEPT ![n][sess[n]] = q]
    BY <2>2, <2>3
  <2>7. \A i \in 1 .. Len(q) :
           \E j \in 1 .. Len(up[n][sess[n]]) : q[i] = up[n][sess[n]][j]
    BY <2>5
  <2>8. q \in Seq(UpFrame)
    BY <2>5
  <2> QED
    BY <2>1, <2>6, <2>7, <2>8, FewerFrames
<1> QED
  BY <1>1, <1>2

\* A one-frame report of a worker that is not running, or was launched here.
LEMMA OneLaunched ==
    ASSUME NEW n, NEW a, NEW k, k = "running" => n \in launched'[a]
    PROVE  Launched(n, <<[kind |-> k, asg |-> a]>>)
BY SMT DEF Launched

\* Steps of the master that write no row running and read no report.
LEMMA QuietLaunched ==
    ASSUME LaunchedInv, TInv', UNCHANGED <<up, child, launched>>,
           \A a \in Asg : \/ status'[a] = status[a] /\ owner'[a] = owner[a]
                          \/ status'[a] # "running"
    PROVE  LaunchedInv'
BY DEF LaunchedInv, UpInv, ChildInv, RunningWasLaunched

\* Placement and Revoke never write a row running.
LEMMA MasterLaunched ==
    ASSUME LaunchedInv, TInv',
           Placement \/ Revocation \/ \E n \in Node : WatchdogCheck(n)
    PROVE  LaunchedInv'
<1> USE DEF LaunchedInv, TInv, rows, links, loops, agent
<1>0. ASSUME thread.pc # "idle" PROVE thread \in Busy
  <2>1. thread \in Busy \cup {Idle}
    BY DEF TypeOK, CallsOK
  <2> QED
    BY SMT, <1>0, <2>1
<1>1. CASE UNCHANGED <<status, owner, up, child, launched>>
  BY <1>1, QuietLaunched
<1>2. CASE PlacementWrite
  <2>1. \A a \in Asg : \/ status'[a] = status[a] /\ owner'[a] = owner[a]
                       \/ status'[a] # "running"
    BY <1>0, <1>2 DEF PlacementWrite, PlacementStatus, TypeOK, RowsOK, Busy
  <2> QED
    BY <1>2, <2>1, QuietLaunched DEF PlacementWrite
<1>3. CASE PlacementSend
  BY <1>1, <1>3, SMTT(40) DEF PlacementSend
<1>4. CASE PlacementPark
  BY <1>4, QuietLaunched, Unmoved DEF PlacementPark, TypeOK, RowsOK, CallsOK
<1>5. CASE FailoverMove
  <2>1. thread \in Busy
    BY <1>0, <1>5 DEF FailoverMove
  <2>2. PICK a \in thread.left :
          LET n == thread.plan[a]
          IN  \/ /\ status' = [status EXCEPT ![a] = "pending"]
                 /\ owner' = owner
              \/ /\ status' = [status EXCEPT ![a] = "offered"]
                 /\ owner' = [owner EXCEPT ![a] = n]
    BY <1>5 DEF FailoverMove
  <2>3. \A b \in Asg : \/ status'[b] = status[b] /\ owner'[b] = owner[b]
                       \/ status'[b] # "running"
    BY <2>1, <2>2 DEF TypeOK, RowsOK, Busy
  <2> QED
    BY <1>5, <2>3, QuietLaunched DEF FailoverMove
<1>6. ASSUME NEW a \in Asg, ScheduleDecide(a) PROVE LaunchedInv'
  BY <1>1, <1>6, SMTT(40) DEF ScheduleDecide
<1>7. CASE RetryStart \/ RetryDecide \/ PlacementDone
  BY <1>1, <1>7 DEF RetryStart, RetryDecide, PlacementDone
<1>8. CASE FailoverList \/ FailoverPlan
  BY <1>1, <1>8 DEF FailoverList, FailoverPlan
<1>9. ASSUME NEW a \in Asg, RevokeGet(a) PROVE LaunchedInv'
  BY <1>1, <1>9 DEF RevokeGet
<1>10. CASE RevokeTell
  BY <1>1, <1>10, SMTT(40) DEF RevokeTell
<1>11. CASE RevokeMark
  BY <1>11, QuietLaunched, Unmoved DEF RevokeMark, TypeOK, RowsOK, CallsOK
<1>12. ASSUME NEW n \in Node, WatchdogCheck(n) PROVE LaunchedInv'
  BY <1>1, <1>12 DEF WatchdogCheck
<1> QED
  BY <1>2, <1>3, <1>4, <1>5, <1>6, <1>7, <1>8, <1>9, <1>10, <1>11, <1>12
     DEF Placement, Revocation

\* A report marks a row running only when the row names the reporting node.
LEMMA GatewayLaunched ==
    ASSUME LaunchedInv, TInv',
           \/ \E n \in Node : PingTimeout(n) \/ GracePassed(n)
           \/ \E n \in Node, s \in Sess : ReadLoop(n, s)
           \/ MasterRestart
    PROVE  LaunchedInv'
<1> USE DEF LaunchedInv, TInv, rows, links, loops, calls, agent
<1>1. ASSUME NEW n \in Node, PingTimeout(n) \/ GracePassed(n) PROVE LaunchedInv'
  BY <1>1, QuietLaunched DEF PingTimeout, GracePassed
<1>2. ASSUME NEW n \in Node, NEW s \in Sess, OnRegister(n, s) \/ ReofferSend(n, s)
      PROVE  LaunchedInv'
  BY <1>2, QuietLaunched DEF OnRegister, ReofferSend
<1>3. ASSUME NEW n \in Node, NEW s \in Sess, ReofferMark(n, s) PROVE LaunchedInv'
  <2>1. PICK a : status' = [status EXCEPT ![a] = "offered"]
    BY <1>3 DEF ReofferMark
  <2>2. \A b \in Asg : status'[b] = status[b] \/ status'[b] # "running"
    BY <2>1 DEF TypeOK, RowsOK
  <2> QED
    BY <1>3, <2>2, QuietLaunched DEF ReofferMark
<1>4. ASSUME NEW n \in Node, NEW s \in Sess, OnStatus(n, s) PROVE LaunchedInv'
  <2>1. up[n][s] \in Seq(UpFrame) /\ up[n][s] # << >>
    BY <1>4 DEF OnStatus, TypeOK, FramesOK
  <2>2. /\ Len(up[n][s]) > 0 /\ Head(up[n][s]) = up[n][s][1]
        /\ Head(up[n][s]) \in UpFrame
    BY SMT, <2>1
  <2>3. Head(up[n][s]).kind = "running" => n \in launched[Head(up[n][s]).asg]
    <3>1. 1 \in 1 .. Len(up[n][s])
      BY SMT, <2>1, <2>2
    <3> QED
      BY <2>2, <3>1 DEF UpInv
  <2>a. PICK a \in Asg, k \in Reported : a = Head(up[n][s]).asg /\ k = Head(up[n][s]).kind
    BY <2>2 DEF UpFrame
  <2>b. /\ status' = IF owner[a] = n THEN [status EXCEPT ![a] = k] ELSE status
        /\ owner' = owner /\ launched' = launched
    BY <1>4, <2>a DEF OnStatus, UpdateStatusForNode
  <2>c. k = "running" => n \in launched[a]
    BY <2>3, <2>a
  <2>d. status \in [Asg -> Status]
    BY DEF TypeOK, RowsOK
  <2>4. RunningWasLaunched'
    BY <2>b, <2>c, <2>d DEF RunningWasLaunched
  <2>5. PICK q : q = Tail(up[n][s])
    OBVIOUS
  <2>6. /\ q \in Seq(UpFrame)
        /\ \A i \in 1 .. Len(q) : i + 1 \in 1 .. Len(up[n][s]) /\ q[i] = up[n][s][i + 1]
    BY SMT, <2>1, <2>5
  <2>7. \A i \in 1 .. Len(q) : \E j \in 1 .. Len(up[n][s]) : q[i] = up[n][s][j]
    BY <2>6
  <2>8. UpInv'
    BY <1>4, <2>5, <2>6, <2>7, FewerFrames DEF OnStatus
  <2> QED
    BY <1>4, <2>4, <2>8 DEF OnStatus, ChildInv
<1>5. ASSUME NEW n \in Node, NEW s \in Sess, ReaderEnd(n, s) PROVE LaunchedInv'
  <2>1. PICK q : q = << >>
    OBVIOUS
  <2>2. q \in Seq(UpFrame) /\ Len(q) = 0
    BY SMT, <2>1
  <2>3. up' = [up EXCEPT ![n][s] = q] /\ UNCHANGED launched
    BY <1>5, <2>1 DEF ReaderEnd
  <2>4. \A i \in 1 .. Len(q) : \E j \in 1 .. Len(up[n][s]) : q[i] = up[n][s][j]
    BY SMT, <2>2
  <2>5. UpInv'
    BY <2>2, <2>3, <2>4, FewerFrames
  <2> QED
    BY <1>5, <2>5 DEF ReaderEnd, ChildInv, RunningWasLaunched
<1>6. CASE MasterRestart
  <2>1. UpInv'
    BY <1>6, SMTT(40) DEF MasterRestart, UpInv
  <2> QED
    BY <1>6, <2>1 DEF MasterRestart, ChildInv, RunningWasLaunched
<1> QED
  BY <1>1, <1>2, <1>3, <1>4, <1>5, <1>6, SMTT(40) DEF ReadLoop

\* Steps of an agent: launched grows with the running children, and what is
\* reported running was launched.
LEMMA ReportsLaunched ==
    ASSUME LaunchedInv, TInv', NEW n \in Node, NEW fs \in Seq(UpFrame),
           Report(n, fs), Launched(n, fs), UNCHANGED <<status, owner>>,
           \A a \in Asg : launched[a] \subseteq launched'[a],
           \A m \in Node, a \in Asg :
              child'[m][a] = "running" => child[m][a] = "running" \/ m \in launched'[a]
    PROVE  LaunchedInv'
<1>1. UpInv'
  BY ReportFrames DEF LaunchedInv, TInv
<1>2. ChildInv'
  BY DEF LaunchedInv, ChildInv
<1>3. RunningWasLaunched'
  BY DEF LaunchedInv, RunningWasLaunched
<1> QED
  BY <1>1, <1>2, <1>3 DEF LaunchedInv

\* An agent reports running what it launches, and re-announces what it runs.
LEMMA AgentLaunched ==
    ASSUME LaunchedInv, TInv', NEW n \in Node, Agent(n)
    PROVE  LaunchedInv'
<1> USE DEF LaunchedInv, TInv, rows, links, loops, calls, agent
<1> DEFINE Frame(k, a) == <<[kind |-> k, asg |-> a]>>
<1>0. ASSUME NEW a \in Asg, NEW k \in Reported PROVE Frame(k, a) \in Seq(UpFrame)
  BY FrameType, OneFrame
<1>T. /\ child \in [Node -> [Asg -> {"none", "running", "failed"}]]
      /\ launched \in [Asg -> SUBSET Node]
  BY DEF TypeOK, AgentsOK
<1>1. CASE AgentConnect(n)
  BY <1>1, QuietLaunched DEF AgentConnect
<1>2. CASE AgentAnnounce(n)
  <2>1. PICK a \in ann[n] :
          IF child[n][a] = "none" THEN UNCHANGED up
                                  ELSE Report(n, <<StatusOf(n, a)>>)
    BY <1>2 DEF AgentAnnounce
  <2>2. a \in Asg /\ child[n][a] \in {"none", "running", "failed"}
    BY SMT DEF TypeOK, AgentsOK
  <2>3. CASE child[n][a] = "none"
    BY <1>2, <2>1, <2>3, QuietLaunched, SMTT(40) DEF AgentAnnounce
  <2>4. CASE child[n][a] # "none"
    <3>1. PICK k \in Reported : k = child[n][a]
      BY <2>2, <2>4 DEF Reported
    <3>2. Report(n, Frame(k, a))
      BY <2>1, <2>4, <3>1 DEF StatusOf
    <3>3. UNCHANGED <<status, owner, child, launched>>
      BY <1>2 DEF AgentAnnounce
    <3>4. Launched(n, Frame(k, a))
      BY <2>2, <3>1, <3>3, OneLaunched DEF ChildInv
    <3> QED
      BY <1>0, <2>2, <3>2, <3>3, <3>4, ReportsLaunched
  <2> QED
    BY <2>3, <2>4, SMTT(40)
<1>3. CASE AgentDrop(n)
  BY <1>3, LeaveReports DEF AgentDrop, ChildInv, RunningWasLaunched
<1>4. CASE AgentRestart(n)
  <2>1. UpInv'
    BY <1>4, LeaveReports DEF AgentRestart
  <2>2. ChildInv'
    BY <1>4, <1>T, SMTT(40) DEF AgentRestart, ChildInv
  <2> QED
    BY <1>4, <2>1, <2>2 DEF AgentRestart, RunningWasLaunched
<1>5. CASE AgentAssign(n)
  <2>1. PICK a \in Asg : a = Head(Inbox(n)).asg
    BY <1>5, InboxType, SMTT(40) DEF AgentAssign, DownFrame
  <2>2. UNCHANGED <<status, owner>>
    BY <1>5 DEF AgentAssign
  <2>3. CASE /\ child' = [child EXCEPT ![n][a] = "running"]
             /\ launched' = [launched EXCEPT ![a] = @ \cup {n}]
             /\ Report(n, Frame("running", a))
    <3>1. n \in launched'[a] /\ \A b \in Asg : launched[b] \subseteq launched'[b]
      BY <1>T, <2>3
    <3>2. Launched(n, Frame("running", a)) /\ Frame("running", a) \in Seq(UpFrame)
      BY <1>0, <3>1, OneLaunched DEF Reported
    <3>3. \A m \in Node, b \in Asg : child'[m][b] = "running" =>
             child[m][b] = "running" \/ m \in launched'[b]
      BY <1>T, <2>3, <3>1
    <3> QED
      BY <2>2, <2>3, <3>1, <3>2, <3>3, ReportsLaunched
  <2>4. CASE /\ child' = [child EXCEPT ![n][a] = "failed"] \/ child' = child
             /\ UNCHANGED launched
             /\ Report(n, Frame("failed", a))
    <3>1. Launched(n, Frame("failed", a)) /\ Frame("failed", a) \in Seq(UpFrame)
      BY <1>0, OneLaunched DEF Reported
    <3>2. \A m \in Node, b \in Asg : child'[m][b] = "running" =>
             child[m][b] = "running" \/ m \in launched'[b]
      <4>1. CASE child' = child
        BY <4>1
      <4>2. CASE child' = [child EXCEPT ![n][a] = "failed"]
        BY <1>T, <4>2, SMTT(40)
      <4> QED
        BY <2>4, <4>1, <4>2
    <3> QED
      BY <2>2, <2>4, <3>1, <3>2, ReportsLaunched
  <2> QED
    BY <1>5, <2>1, <2>3, <2>4, SMTT(40) DEF AgentAssign
<1>6. CASE AgentRevoke(n)
  <2>1. PICK a \in Asg : a = Head(Inbox(n)).asg
    BY <1>6, InboxType DEF AgentRevoke, DownFrame
  <2>2. UNCHANGED <<status, owner, launched>>
    BY <1>6 DEF AgentRevoke
  <2>3. CASE UNCHANGED <<child, up>>
    BY <2>2, <2>3, QuietLaunched
  <2>4. CASE /\ child' = [child EXCEPT ![n][a] = "none"]
             /\ Report(n, Frame("stopped", a))
    <3>1. Launched(n, Frame("stopped", a)) /\ Frame("stopped", a) \in Seq(UpFrame)
      BY <1>0, OneLaunched DEF Reported
    <3>2. \A m \in Node, b \in Asg : child'[m][b] = "running" => child[m][b] = "running"
      BY <1>T, <2>4
    <3> QED
      BY <2>2, <2>4, <3>1, <3>2, ReportsLaunched
  <2> QED
    BY <1>6, <2>1, <2>3, <2>4 DEF AgentRevoke
<1>7. ASSUME NEW a \in Asg, ReapExit(n, a) PROVE LaunchedInv'
  <2>1. /\ child' = [child EXCEPT ![n][a] = "none"]
        /\ Report(n, Frame("stopped", a))
        /\ UNCHANGED <<status, owner, launched>>
    BY <1>7 DEF ReapExit
  <2>2. Launched(n, Frame("stopped", a)) /\ Frame("stopped", a) \in Seq(UpFrame)
    BY <1>0, OneLaunched DEF Reported
  <2>3. \A m \in Node, b \in Asg : child'[m][b] = "running" => child[m][b] = "running"
    BY <1>T, <2>1
  <2> QED
    BY <2>1, <2>2, <2>3, ReportsLaunched
<1>8. ASSUME NEW a \in Asg, ReapCrash(n, a) \/ ReapFailed(n, a) PROVE LaunchedInv'
  <2>1. PICK f : /\ f = << >> \/ f = Frame("failed", a)
                 /\ MaybeRestart(n, a, f) /\ UNCHANGED <<status, owner>>
    BY <1>8, SMTT(40) DEF ReapCrash, ReapFailed
  <2>2. /\ f \in Seq(UpFrame)
        /\ \A i \in 1 .. Len(f) : f[i].kind # "running"
    <3>1. CASE f = << >>
      BY SMT, <3>1
    <3>2. CASE f = Frame("failed", a)
      <4>1. f \in Seq(UpFrame)
        BY <1>0, <3>2 DEF Reported
      <4>2. \A i \in 1 .. Len(f) : f[i].kind # "running"
        BY SMT, <3>2
      <4> QED
        BY <4>1, <4>2
    <3> QED
      BY <2>1, <3>1, <3>2
  <2>3. ASSUME NEW k \in {"running", "failed"}, k = "running" => n \in launched'[a]
        PROVE  f \o Frame(k, a) \in Seq(UpFrame) /\ Launched(n, f \o Frame(k, a))
    <3>1. Frame(k, a) \in Seq(UpFrame)
      BY <1>0 DEF Reported
    <3>2. PICK g \in Seq(UpFrame) : g = Frame(k, a)
      BY <3>1
    <3>3. Len(g) = 1 /\ g[1] = [kind |-> k, asg |-> a]
      BY <3>2
    <3>4. PICK h : h = f \o g
      OBVIOUS
    <3>5. /\ h \in Seq(UpFrame) /\ Len(h) = Len(f) + 1
          /\ \A i \in 1 .. Len(f) : h[i] = f[i]
          /\ h[Len(f) + 1] = g[1]
      BY SMT, <2>2, <3>2, <3>3, <3>4
    <3>6. Launched(n, h)
      <4> SUFFICES ASSUME NEW i \in 1 .. Len(h), h[i].kind = "running"
                   PROVE  n \in launched'[h[i].asg]
        BY DEF Launched
      <4>1. i \in 1 .. Len(f) \/ i = Len(f) + 1
        BY SMT, <2>2, <3>5
      <4>2. h[i] = [kind |-> k, asg |-> a]
        BY <2>2, <3>3, <3>5, <4>1, SMTT(40)
      <4> QED
        BY SMT, <2>3, <4>2
    <3> QED
      BY <3>2, <3>4, <3>5, <3>6
  <2>4. CASE /\ child' = [child EXCEPT ![n][a] = "running"]
             /\ launched' = [launched EXCEPT ![a] = @ \cup {n}]
             /\ Report(n, f \o Frame("running", a))
    <3>1. n \in launched'[a] /\ \A b \in Asg : launched[b] \subseteq launched'[b]
      BY <1>T, <2>4
    <3>2. \A m \in Node, b \in Asg : child'[m][b] = "running" =>
             child[m][b] = "running" \/ m \in launched'[b]
      BY <1>T, <2>4, <3>1
    <3>3. /\ f \o Frame("running", a) \in Seq(UpFrame)
          /\ Launched(n, f \o Frame("running", a))
      BY <2>3, <3>1
    <3> QED
      BY <2>1, <2>4, <3>1, <3>2, <3>3, ReportsLaunched
  <2>5. CASE /\ child' = [child EXCEPT ![n][a] = "failed"]
             /\ UNCHANGED launched
             /\ Report(n, f) \/ Report(n, f \o Frame("failed", a))
    <3>1. \A m \in Node, b \in Asg : child'[m][b] = "running" => child[m][b] = "running"
      BY <1>T, <2>5
    <3>2. Launched(n, f)
      BY <2>2, SMTT(40) DEF Launched
    <3>3. /\ f \o Frame("failed", a) \in Seq(UpFrame)
          /\ Launched(n, f \o Frame("failed", a))
      BY <2>3
    <3>4. \A b \in Asg : launched[b] \subseteq launched'[b]
      BY <2>5, SMTT(40)
    <3>5. CASE Report(n, f)
      BY <2>1, <2>2, <3>1, <3>2, <3>4, <3>5, ReportsLaunched, ZenonT(30)
    <3>6. CASE Report(n, f \o Frame("failed", a))
      BY <2>1, <3>1, <3>3, <3>4, <3>6, ReportsLaunched
    <3> QED
      BY <2>5, <3>5, <3>6
  <2> QED
    BY <2>1, <2>4, <2>5 DEF MaybeRestart
<1> QED
  BY <1>1, <1>2, <1>3, <1>4, <1>5, <1>6, <1>7, <1>8 DEF Agent

\* Every step keeps running rows, running reports and running workers launched.
LEMMA LaunchedNext == LaunchedInv /\ [Next]_vars => LaunchedInv'
<1> SUFFICES ASSUME LaunchedInv, [Next]_vars PROVE LaunchedInv'
  BY SMT
<1>1. TInv'
  BY TypeNext DEF LaunchedInv
<1>2. CASE UNCHANGED vars
  BY <1>1, <1>2, QuietLaunched DEF vars, rows, agent
<1> QED
  BY <1>1, <1>2, MasterLaunched, GatewayLaunched, AgentLaunched DEF Next

\* A row never says running unless the node it names launched the worker:
\* UpdateStatusForNode's check of the node is enough, however late a report.
THEOREM RunningLaunched == Spec => []RunningWasLaunched
<1>1. Init => LaunchedInv
  <2> SUFFICES ASSUME Init PROVE LaunchedInv
    BY SMT
  <2>1. TInv
    BY SMT, TypeInit
  <2>2. UpInv
    BY SMTT(40) DEF Init, UpInv
  <2>3. ChildInv
    BY SMTT(40) DEF Init, ChildInv
  <2>4. RunningWasLaunched
    BY SMTT(40) DEF Init, RunningWasLaunched
  <2> QED
    BY <2>1, <2>2, <2>3, <2>4 DEF LaunchedInv
<1>2. LaunchedInv => RunningWasLaunched
  BY DEF LaunchedInv
<1> QED
  BY <1>1, <1>2, LaunchedNext, PTL DEF Spec
=============================================================================
