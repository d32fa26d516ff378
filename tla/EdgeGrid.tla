------------------------------ MODULE EdgeGrid ------------------------------
(***************************************************************************)
(* The edge compute grid: the master's assignment table, its scheduler,    *)
(* its WebSocket gateway and its watchdog                                  *)
(* (streamhub-core-go/internal/edge), composed with the agent every edge   *)
(* node runs (plugins-vendor/*/worker/vision_edge).                        *)
(*                                                                         *)
(* The goroutines of the master interleave at every database statement     *)
(* and at every frame they push.  Placement (Schedule, RetryPending,       *)
(* HandleNodeDown) runs under Scheduler.mu, so there is one placement      *)
(* thread; Revoke does not take that lock, and every connection has a read *)
(* loop of its own.                                                        *)
(*                                                                         *)
(* A connection of node n is a session s: the agent opens session 1, 2,    *)
(* ... and the gateway keeps the newest.  The read loop of a session that  *)
(* was replaced goes on until it notices, beside the newer one.            *)
(***************************************************************************)
EXTENDS Naturals, Sequences, FiniteSets

CONSTANTS
    Node,        \* edge nodes: registered, active, of type "edge"
    Asg,         \* assignment ids (uuids)
    NoNode,      \* node_id = ''
    Cap,         \* Cap[n]: VramMaxStreams of node n
    MaxSess,     \* bound: sessions any agent opens
    Opens,       \* bound: sessions the agent of node n opens
    MaxUp,       \* bound: unread frames beyond which the reaper is not run
    MaxRestarts, \* restart cap of a child in an hour; a run is one hour
    Flaky,       \* nodes whose link to the master may break
    Faults       \* the other faults, and requests, a run considers

FaultKinds == {"revoke", "exit", "crash", "spawn", "pong",
               "agentRestart", "masterRestart"}

ASSUME NodeAssumption == NoNode \notin Node
ASSUME CapAssumption == Cap \in [Node -> Nat]
ASSUME BoundAssumption ==
    /\ MaxSess \in Nat /\ MaxUp \in Nat /\ MaxRestarts \in Nat
    /\ Opens \in [Node -> 0 .. MaxSess]
ASSUME FaultAssumption == Flaky \subseteq Node /\ Faults \subseteq FaultKinds

Sess == 1 .. MaxSess

\* "none" stands for an id no row has yet.
Status == {"none", "pending", "offered", "running", "stopped", "failed",
           "revoked"}

\* ActiveByNode and ActiveCountByNode: what counts as load and fails over.
Active == {"offered", "running"}

\* What an agent may report; onFrame ignores any other status.
Reported == {"running", "stopped", "failed"}

DownFrame == [kind : {"assign", "revoke"}, asg : Asg]
UpFrame == [kind : Reported, asg : Asg]

VARIABLES
    status, owner,       \* the edge_assignments table: status and node_id
    conn,                \* Gateway.conns: the current session, 0 = none
    flapped,             \* nodes with a lastDisconnect entry
    aged,                \* nodes whose current link state outlived its grace
    reader, todo, sent,  \* per session: read loop, and its reoffer loop
    thread,              \* the placement thread, holder of Scheduler.mu
    wd,                  \* the node the watchdog is failing over
    revoker, asked,      \* the Revoke call, and the ids ever given to one
    sess, used,          \* the agent's open session (0 = none), last number
    ann,                 \* children the agent has yet to re-announce
    child, restarts,     \* the agent's supervisor: children and restarts
    down, up,            \* frames in flight, per session
    placed, launched     \* history: nodes an assignment was placed on, ran on

rows == <<status, owner, placed>>
links == <<conn, flapped, aged>>
loops == <<reader, todo, sent>>
calls == <<thread, wd, revoker, asked>>
agent == <<sess, used, ann, child, restarts, launched>>
vars == <<rows, links, loops, calls, agent, down, up>>

Idle == [pc |-> "idle"]

-----------------------------------------------------------------------------
(* Placement: NodeViews, EligibleNodes, Place and PlanFailover.             *)

Load(n) == Cardinality({a \in Asg : owner[a] = n /\ status[a] \in Active})

\* eligibleConnected: connected and, after a flap, past the failback grace.
EligibleConnected(n) == conn[n] # 0 /\ (n \in flapped => n \in aged)

Eligible == {n \in Node : EligibleConnected(n) /\ Load(n) < Cap[n]}

\* Place: some eligible node (which one is the policy's choice), or none.
Place == IF Eligible = {} THEN {NoNode} ELSE Eligible

\* PlanFailover: every orphan goes to a node that still has room once the
\* orphans before it are counted, and is parked only when none has.
PlanFailover(orphans) ==
    {p \in [orphans -> Eligible \cup {NoNode}] :
        LET Moved(n) == {a \in orphans : p[a] = n}
        IN  /\ \A n \in Eligible : Load(n) + Cardinality(Moved(n)) <= Cap[n]
            /\ Moved(NoNode) # {} =>
                 \A n \in Eligible : Load(n) + Cardinality(Moved(n)) = Cap[n]}

-----------------------------------------------------------------------------
(* Gateway.Send: false without a connection; a write on a socket the agent  *)
(* has left may fail, or succeed and be lost.  A socket that breaks under a *)
(* write, or under the gateway's read, is one the agent left just before:   *)
(* what it does until it notices, it could as well have done first.         *)

Send(n, f, ok) ==
    \/ /\ conn[n] = 0
       /\ ok = FALSE
       /\ UNCHANGED down
    \/ /\ conn[n] # 0 /\ sess[n] = conn[n]
       /\ ok = TRUE
       /\ down' = [down EXCEPT ![n][conn[n]] = Append(@, f)]
    \/ /\ conn[n] # 0 /\ sess[n] # conn[n]
       /\ ok \in BOOLEAN
       /\ UNCHANGED down

Assign(a) == [kind |-> "assign", asg |-> a]
Revoke(a) == [kind |-> "revoke", asg |-> a]

-----------------------------------------------------------------------------
(* Schedule: place, persist, push; a failed push parks the row.             *)

ScheduleDecide(a) ==
    /\ thread = Idle /\ status[a] = "none"
    /\ \E n \in Place :
          thread' = [pc |-> "write", op |-> "schedule", cur |-> a, tgt |-> n,
                     left |-> {}, plan |-> [b \in Asg |-> NoNode]]
    /\ UNCHANGED <<rows, links, loops, wd, revoker, asked, agent, down, up>>

\* Mutant: Schedule taken for a loop over rows.
ResumeLoop == [thread EXCEPT !.pc = thread.op]

\* Where the thread goes on once it is done with the current row.
Resume == IF thread.op = "schedule" THEN Idle
                                    ELSE [thread EXCEPT !.pc = thread.op]

\* Mutant: the status is written before it is known whether a node fits.
PlacementStatusOffered(n) == "offered"

PlacementStatus(n) == IF n = NoNode THEN "pending" ELSE "offered"

\* Create for a new row, Reassign for an existing one: both write node and
\* status, whatever the row holds by then.
PlacementWrite ==
    /\ thread.pc = "write"
    /\ LET a == thread.cur
           n == thread.tgt
       IN  /\ owner' = [owner EXCEPT ![a] = n]
           /\ status' = [status EXCEPT ![a] = PlacementStatus(n)]
           /\ placed' = [placed EXCEPT ![a] = @ \cup ({n} \ {NoNode})]
           /\ thread' = IF n = NoNode THEN Resume
                                      ELSE [thread EXCEPT !.pc = "send"]
    /\ UNCHANGED <<links, loops, wd, revoker, asked, agent, down, up>>

PlacementSend ==
    /\ thread.pc = "send"
    /\ \E ok \in BOOLEAN :
          /\ Send(thread.tgt, Assign(thread.cur), ok)
          /\ thread' = IF ok \/ thread.op = "failover"
                       THEN Resume ELSE [thread EXCEPT !.pc = "park"]
    /\ UNCHANGED <<rows, links, loops, wd, revoker, asked, agent, up>>

\* UpdateStatus(pending, "push failed"): node_id keeps naming the node.
PlacementPark ==
    /\ thread.pc = "park"
    /\ status' = [status EXCEPT ![thread.cur] = "pending"]
    /\ thread' = Resume
    /\ UNCHANGED <<owner, placed, links, loops, wd, revoker, asked, agent,
                   down, up>>

(* RetryPending: every pending row without a node is placed again.          *)

\* Mutant: the retry looks for rows with a node.
PendingPlaced == {a \in Asg : status[a] = "pending" /\ owner[a] # NoNode}

PendingUnplaced == {a \in Asg : status[a] = "pending" /\ owner[a] = NoNode}

RetryStart ==
    /\ thread = Idle /\ PendingUnplaced # {}
    /\ thread' = [pc |-> "retry", op |-> "retry", tgt |-> NoNode,
                  cur |-> CHOOSE a \in PendingUnplaced : TRUE,
                  left |-> PendingUnplaced, plan |-> [b \in Asg |-> NoNode]]
    /\ UNCHANGED <<rows, links, loops, wd, revoker, asked, agent, down, up>>

RetryDecide ==
    /\ thread.pc = "retry"
    /\ \E a \in thread.left, n \in Place :
          thread' = IF n = NoNode
                    THEN [thread EXCEPT !.left = @ \ {a}]
                    ELSE [thread EXCEPT !.left = @ \ {a}, !.pc = "write",
                                        !.cur = a, !.tgt = n]
    /\ UNCHANGED <<rows, links, loops, wd, revoker, asked, agent, down, up>>

PlacementDone ==
    /\ thread.pc \in {"retry", "failover"} /\ thread.left = {}
    /\ thread' = Idle
    /\ wd' = IF thread.op = "failover" THEN NoNode ELSE wd
    /\ UNCHANGED <<rows, links, loops, revoker, asked, agent, down, up>>

(* Watchdog.maybeFailover decides without the lock; HandleNodeDown then     *)
(* waits for it, lists the node's active rows, plans, and moves them.       *)

WatchdogCheck(n) ==
    /\ wd = NoNode
    /\ conn[n] = 0 /\ n \in flapped /\ n \in aged
    /\ wd' = n
    /\ UNCHANGED <<rows, links, loops, thread, revoker, asked, agent, down, up>>

\* Mutant: failover forgets the rows not reported running yet.
RunningByNode(n) == {a \in Asg : owner[a] = n /\ status[a] = "running"}

ActiveByNode(n) == {a \in Asg : owner[a] = n /\ status[a] \in Active}

FailoverList ==
    /\ thread = Idle /\ wd # NoNode
    /\ IF ActiveByNode(wd) = {}
       THEN wd' = NoNode /\ UNCHANGED thread
       ELSE /\ thread' = [pc |-> "plan", op |-> "failover", tgt |-> NoNode,
                          cur |-> CHOOSE a \in ActiveByNode(wd) : TRUE,
                          left |-> ActiveByNode(wd),
                          plan |-> [b \in Asg |-> NoNode]]
            /\ UNCHANGED wd
    /\ UNCHANGED <<rows, links, loops, revoker, asked, agent, down, up>>

FailoverPlan ==
    /\ thread.pc = "plan"
    /\ \E p \in PlanFailover(thread.left) :
          thread' = [thread EXCEPT !.pc = "failover", !.plan =
                       [a \in Asg |-> IF a \in thread.left THEN p[a] ELSE NoNode]]
    /\ UNCHANGED <<rows, links, loops, wd, revoker, asked, agent, down, up>>

\* One move: UpdateStatus(pending) when nothing fits, else Reassign.
FailoverMove ==
    /\ thread.pc = "failover"
    /\ \E a \in thread.left :
          LET n == thread.plan[a]
          IN  IF n = NoNode
              THEN /\ status' = [status EXCEPT ![a] = "pending"]
                   /\ thread' = [thread EXCEPT !.left = @ \ {a}]
                   /\ UNCHANGED <<owner, placed>>
              ELSE /\ status' = [status EXCEPT ![a] = "offered"]
                   /\ owner' = [owner EXCEPT ![a] = n]
                   /\ placed' = [placed EXCEPT ![a] = @ \cup {n}]
                   /\ thread' = [thread EXCEPT !.left = @ \ {a}, !.pc = "send",
                                               !.cur = a, !.tgt = n]
    /\ UNCHANGED <<links, loops, wd, revoker, asked, agent, down, up>>

-----------------------------------------------------------------------------
(* Scheduler.Revoke: read the row, tell the node it names, mark the row.    *)

RevokeGet(a) ==
    /\ "revoke" \in Faults
    /\ revoker = Idle /\ status[a] # "none" /\ a \notin asked
    /\ asked' = asked \cup {a}
    /\ revoker' = [pc |-> IF owner[a] = NoNode THEN "mark" ELSE "tell",
                   asg |-> a, node |-> owner[a]]
    /\ UNCHANGED <<rows, links, loops, thread, wd, agent, down, up>>

RevokeTell ==
    /\ revoker.pc = "tell"
    /\ \E ok \in BOOLEAN : Send(revoker.node, Revoke(revoker.asg), ok)
    /\ revoker' = [revoker EXCEPT !.pc = "mark"]
    /\ UNCHANGED <<rows, links, loops, thread, wd, asked, agent, up>>

RevokeMark ==
    /\ revoker.pc = "mark"
    /\ status' = [status EXCEPT ![revoker.asg] = "revoked"]
    /\ revoker' = Idle
    /\ UNCHANGED <<owner, placed, links, loops, thread, wd, asked, agent,
                   down, up>>

-----------------------------------------------------------------------------
(* Gateway: the read loop of session s of node n.                           *)

\* Mutant: the node is missing from the WHERE clause.
PendingOrOffered(n) == {a \in Asg : status[a] \in {"pending", "offered"}}

PendingOrOfferedByNode(n) ==
    {a \in Asg : owner[a] = n /\ status[a] \in {"pending", "offered"}}

\* The first frame is register: Heartbeat, then reoffer lists the rows.
OnRegister(n, s) ==
    /\ reader[n][s] = "opened"
    /\ reader' = [reader EXCEPT ![n][s] = "reading"]
    /\ todo' = [todo EXCEPT ![n][s] = PendingOrOfferedByNode(n)]
    /\ UNCHANGED <<sent, rows, links, calls, agent, down, up>>

\* reoffer pushes on whatever connection of n is current by then ...
ReofferSend(n, s) ==
    /\ sent[n][s] = {}
    /\ \E a \in todo[n][s] :
          /\ todo' = [todo EXCEPT ![n][s] = @ \ {a}]
          /\ \E ok \in BOOLEAN :
                /\ Send(n, Assign(a), ok)
                /\ sent' = [sent EXCEPT ![n][s] = IF ok THEN {a} ELSE {}]
    /\ UNCHANGED <<reader, rows, links, calls, agent, up>>

\* ... and then marks the row offered, whatever it holds by then.
ReofferMark(n, s) ==
    /\ \E a \in sent[n][s] : status' = [status EXCEPT ![a] = "offered"]
    /\ sent' = [sent EXCEPT ![n][s] = {}]
    /\ UNCHANGED <<owner, placed, reader, todo, links, calls, agent, down, up>>

Reading(n, s) == reader[n][s] = "reading" /\ todo[n][s] = {} /\ sent[n][s] = {}

\* Mutant: a report is applied whoever sends it.
UpdateStatusAny(a, n, st) == status' = [status EXCEPT ![a] = st]

\* A no-op on a row of another node.
UpdateStatusForNode(a, n, st) ==
    status' = IF owner[a] = n THEN [status EXCEPT ![a] = st] ELSE status

\* assignment_status.
OnStatus(n, s) ==
    /\ Reading(n, s) /\ up[n][s] # <<>>
    /\ UpdateStatusForNode(Head(up[n][s]).asg, n, Head(up[n][s]).kind)
    /\ up' = [up EXCEPT ![n][s] = Tail(@)]
    /\ UNCHANGED <<owner, placed, links, loops, calls, agent, down>>

\* Mutant: a close drops whatever connection the node has.
OnCloseAny(n, s) ==
    /\ conn' = [conn EXCEPT ![n] = 0]
    /\ flapped' = flapped \cup {n} /\ aged' = aged \ {n}

\* onClose drops the connection, and remembers when, only if it is still
\* the node's current one.
OnClose(n, s) ==
    IF conn[n] = s
    THEN /\ conn' = [conn EXCEPT ![n] = 0]
         /\ flapped' = flapped \cup {n} /\ aged' = aged \ {n}
    ELSE UNCHANGED links

\* pingLoop: three pongs missed, by an agent that is gone or merely slow.
PingTimeout(n) ==
    /\ conn[n] # 0
    /\ sess[n] # conn[n] \/ "pong" \in Faults
    /\ OnClose(n, conn[n])
    /\ UNCHANGED <<rows, loops, calls, agent, down, up>>

\* readLoop ends: its socket was closed, by the gateway or by the agent.
ReaderEnd(n, s) ==
    /\ reader[n][s] # "off" /\ todo[n][s] = {} /\ sent[n][s] = {}
    /\ conn[n] # s \/ (sess[n] # s /\ up[n][s] = <<>>)
    /\ reader' = [reader EXCEPT ![n][s] = "off"]
    /\ up' = [up EXCEPT ![n][s] = <<>>]
    /\ OnClose(n, s)
    /\ UNCHANGED <<todo, sent, rows, calls, agent, down>>

\* Time: a connection outlives FailbackGrace, a disconnection FailoverGrace.
GracePassed(n) ==
    /\ n \in flapped /\ n \notin aged
    /\ aged' = aged \cup {n}
    /\ UNCHANGED <<conn, flapped, rows, loops, calls, agent,
                   down, up>>

\* The master process restarts: the table survives, everything else is lost.
MasterRestart ==
    /\ "masterRestart" \in Faults
    /\ conn' = [n \in Node |-> 0] /\ flapped' = {} /\ aged' = {}
    /\ reader' = [n \in Node |-> [s \in Sess |-> "off"]]
    /\ todo' = [n \in Node |-> [s \in Sess |-> {}]]
    /\ sent' = [n \in Node |-> [s \in Sess |-> {}]]
    /\ up' = [n \in Node |-> [s \in Sess |-> <<>>]]
    /\ thread' = Idle /\ wd' = NoNode /\ revoker' = Idle
    /\ UNCHANGED <<rows, asked, agent, down>>

-----------------------------------------------------------------------------
(* The agent of node n: WsClient and AssignmentSupervisor, one asyncio loop. *)

\* report_status: sent on the open session, dropped while there is none.
Report(n, frames) ==
    up' = IF sess[n] # 0 /\ reader[n][sess[n]] # "off"
          THEN [up EXCEPT ![n][sess[n]] = @ \o frames] ELSE up

StatusOf(n, a) == [kind |-> child[n][a], asg |-> a]

\* run/_session: a new socket, accepted as the newest connection; register
\* is its first frame and every child is announced before frames are read.
AgentConnect(n) ==
    /\ sess[n] = 0 /\ used[n] < Opens[n]
    /\ LET s == used[n] + 1
       IN  /\ used' = [used EXCEPT ![n] = s]
           /\ sess' = [sess EXCEPT ![n] = s]
           /\ conn' = [conn EXCEPT ![n] = s]
           /\ reader' = [reader EXCEPT ![n][s] = "opened"]
    /\ aged' = aged \ {n}
    /\ ann' = [ann EXCEPT ![n] = {a \in Asg : child[n][a] # "none"}]
    /\ UNCHANGED <<flapped, todo, sent, rows, calls, child,
                   restarts, launched, down, up>>

AgentAnnounce(n) ==
    /\ sess[n] # 0
    /\ \E a \in ann[n] :
          /\ ann' = [ann EXCEPT ![n] = @ \ {a}]
          /\ IF child[n][a] = "none" THEN UNCHANGED up
                                     ELSE Report(n, <<StatusOf(n, a)>>)
    /\ UNCHANGED <<rows, links, loops, calls, sess, used, child,
                   restarts, launched, down>>

\* The session is over for the agent: what it had not read is lost, and so
\* is any suffix of what it had sent.
LeaveSession(n) ==
    /\ sess' = [sess EXCEPT ![n] = 0]
    /\ ann' = [ann EXCEPT ![n] = {}]
    /\ IF sess[n] = 0 THEN UNCHANGED <<down, up>>
       ELSE /\ down' = [down EXCEPT ![n][sess[n]] = <<>>]
            /\ \E k \in 0 .. Len(up[n][sess[n]]) :
                  up' = [up EXCEPT ![n][sess[n]] = SubSeq(@, 1, k)]

AgentDrop(n) ==
    /\ sess[n] # 0
    /\ conn[n] # sess[n] \/ n \in Flaky
    /\ LeaveSession(n)
    /\ UNCHANGED <<rows, links, loops, calls, used, child, restarts,
                   launched>>

\* The daemon restarts (a restart command, or a crash): stop_all reports
\* nothing, and the new daemon has no children.
AgentRestart(n) ==
    /\ "agentRestart" \in Faults
    /\ LeaveSession(n)
    /\ child' = [child EXCEPT ![n] = [a \in Asg |-> "none"]]
    /\ UNCHANGED <<rows, links, loops, calls, used, restarts, launched>>

Inbox(n) == IF sess[n] = 0 \/ ann[n] # {} THEN <<>> ELSE down[n][sess[n]]

Pop(n) == down' = [down EXCEPT ![n][sess[n]] = Tail(@)]

\* _apply_assign: an existing child is replaced.  The bundle may fail to
\* prepare, which touches no child, or the spawn may fail.
AgentAssign(n) ==
    /\ Inbox(n) # <<>> /\ Head(Inbox(n)).kind = "assign"
    /\ LET a == Head(Inbox(n)).asg
       IN  \/ /\ child' = [child EXCEPT ![n][a] = "running"]
              /\ restarts' = [restarts EXCEPT ![n][a] = 0]
              /\ launched' = [launched EXCEPT ![a] = @ \cup {n}]
              /\ Report(n, <<[kind |-> "running", asg |-> a]>>)
           \/ /\ "spawn" \in Faults
              /\ child' = [child EXCEPT ![n][a] = "failed"]
              /\ restarts' = [restarts EXCEPT ![n][a] = 0]
              /\ Report(n, <<[kind |-> "failed", asg |-> a]>>)
              /\ UNCHANGED launched
           \/ /\ "spawn" \in Faults
              /\ Report(n, <<[kind |-> "failed", asg |-> a]>>)
              /\ UNCHANGED <<child, restarts, launched>>
    /\ Pop(n)
    /\ UNCHANGED <<rows, links, loops, calls, sess, used, ann>>

\* AssignmentSupervisor.revoke: only a known child is killed and reported.
AgentRevoke(n) ==
    /\ Inbox(n) # <<>> /\ Head(Inbox(n)).kind = "revoke"
    /\ LET a == Head(Inbox(n)).asg
       IN  IF child[n][a] = "none" THEN UNCHANGED <<child, up>>
           ELSE /\ child' = [child EXCEPT ![n][a] = "none"]
                /\ Report(n, <<[kind |-> "stopped", asg |-> a]>>)
    /\ Pop(n)
    /\ UNCHANGED <<rows, links, loops, calls, sess, used, ann, restarts,
                   launched>>

\* The reaper's poll bound: with MaxUp frames unread it is not run.
CanReap(n) == sess[n] # 0 => Len(up[n][sess[n]]) < MaxUp

\* reap, exit code 0: the child is forgotten and reported stopped.
ReapExit(n, a) ==
    /\ "exit" \in Faults /\ CanReap(n) /\ child[n][a] = "running"
    /\ child' = [child EXCEPT ![n][a] = "none"]
    /\ Report(n, <<[kind |-> "stopped", asg |-> a]>>)
    /\ UNCHANGED <<rows, links, loops, calls, sess, used, ann, restarts,
                   launched, down>>

\* Mutant: running is reported before the spawn, which fails.
MaybeRestartEarly(n, a, f) ==
    /\ restarts[n][a] < MaxRestarts
    /\ child' = [child EXCEPT ![n][a] = "failed"]
    /\ Report(n, f \o <<[kind |-> "running", asg |-> a]>>)
    /\ restarts' = [restarts EXCEPT ![n][a] = @ + 1]
    /\ UNCHANGED launched

\* _maybe_restart of a dead child, the frames f reported before it included:
\* give up at the cap, wait out the backoff, or launch again.
MaybeRestart(n, a, f) ==
    LET Now(k) == [kind |-> k, asg |-> a]
        Again == [restarts EXCEPT ![n][a] = @ + 1]
    IN  \/ /\ restarts[n][a] >= MaxRestarts
           /\ child' = [child EXCEPT ![n][a] = "failed"]
           /\ Report(n, f \o <<Now("failed")>>)
           /\ UNCHANGED <<restarts, launched>>
        \/ /\ restarts[n][a] < MaxRestarts
           /\ child' = [child EXCEPT ![n][a] = "failed"]
           /\ Report(n, f)
           /\ UNCHANGED <<restarts, launched>>
        \/ /\ restarts[n][a] < MaxRestarts
           /\ child' = [child EXCEPT ![n][a] = "running"]
           /\ launched' = [launched EXCEPT ![a] = @ \cup {n}]
           /\ Report(n, f \o <<Now("running")>>)
           /\ restarts' = Again
        \/ /\ restarts[n][a] < MaxRestarts /\ "spawn" \in Faults
           /\ child' = [child EXCEPT ![n][a] = "failed"]
           /\ Report(n, f \o <<Now("failed")>>)
           /\ restarts' = Again
           /\ UNCHANGED launched

\* reap, non-zero exit code: reported failed, then perhaps restarted.
ReapCrash(n, a) ==
    /\ "crash" \in Faults /\ CanReap(n) /\ child[n][a] = "running"
    /\ MaybeRestart(n, a, <<[kind |-> "failed", asg |-> a]>>)
    /\ UNCHANGED <<rows, links, loops, calls, sess, used, ann, down>>

\* reap of a child without a process.
ReapFailed(n, a) ==
    /\ CanReap(n) /\ child[n][a] = "failed"
    /\ MaybeRestart(n, a, <<>>)
    /\ UNCHANGED <<rows, links, loops, calls, sess, used, ann, down>>

-----------------------------------------------------------------------------
Init ==
    /\ status = [a \in Asg |-> "none"] /\ owner = [a \in Asg |-> NoNode]
    /\ conn = [n \in Node |-> 0] /\ flapped = {} /\ aged = {}
    /\ reader = [n \in Node |-> [s \in Sess |-> "off"]]
    /\ todo = [n \in Node |-> [s \in Sess |-> {}]]
    /\ sent = [n \in Node |-> [s \in Sess |-> {}]]
    /\ thread = Idle /\ wd = NoNode /\ revoker = Idle /\ asked = {}
    /\ sess = [n \in Node |-> 0] /\ used = [n \in Node |-> 0]
    /\ ann = [n \in Node |-> {}]
    /\ child = [n \in Node |-> [a \in Asg |-> "none"]]
    /\ restarts = [n \in Node |-> [a \in Asg |-> 0]]
    /\ down = [n \in Node |-> [s \in Sess |-> <<>>]]
    /\ up = [n \in Node |-> [s \in Sess |-> <<>>]]
    /\ placed = [a \in Asg |-> {}] /\ launched = [a \in Asg |-> {}]

Placement ==
    \/ \E a \in Asg : ScheduleDecide(a)
    \/ PlacementWrite \/ PlacementSend \/ PlacementPark
    \/ RetryStart \/ RetryDecide \/ PlacementDone
    \/ FailoverList \/ FailoverPlan \/ FailoverMove

Revocation == (\E a \in Asg : RevokeGet(a)) \/ RevokeTell \/ RevokeMark

ReadLoop(n, s) ==
    \/ OnRegister(n, s) \/ ReofferSend(n, s) \/ ReofferMark(n, s)
    \/ OnStatus(n, s) \/ ReaderEnd(n, s)

Agent(n) ==
    \/ AgentConnect(n) \/ AgentAnnounce(n) \/ AgentDrop(n) \/ AgentRestart(n)
    \/ AgentAssign(n) \/ AgentRevoke(n)
    \/ \E a \in Asg : ReapExit(n, a) \/ ReapCrash(n, a) \/ ReapFailed(n, a)

Next ==
    \/ Placement \/ Revocation \/ MasterRestart
    \/ \E n \in Node :
          \/ WatchdogCheck(n) \/ PingTimeout(n) \/ GracePassed(n) \/ Agent(n)
          \/ \E s \in Sess : ReadLoop(n, s)

Spec == Init /\ [][Next]_vars

-----------------------------------------------------------------------------
(* Safety.                                                                  *)

Busy == [pc : {"write", "send", "park", "retry", "plan", "failover"},
         op : {"schedule", "retry", "failover"}, cur : Asg,
         tgt : Node \cup {NoNode}, left : SUBSET Asg,
         plan : [Asg -> Node \cup {NoNode}]]

Revoking == [pc : {"tell", "mark"}, asg : Asg, node : Node \cup {NoNode}]

RowsOK ==
    /\ status \in [Asg -> Status] /\ owner \in [Asg -> Node \cup {NoNode}]
    /\ placed \in [Asg -> SUBSET Node]

LinksOK ==
    /\ conn \in [Node -> 0 .. MaxSess]
    /\ flapped \in SUBSET Node /\ aged \in SUBSET Node

LoopsOK ==
    /\ reader \in [Node -> [Sess -> {"off", "opened", "reading"}]]
    /\ todo \in [Node -> [Sess -> SUBSET Asg]]
    /\ sent \in [Node -> [Sess -> SUBSET Asg]]

CallsOK ==
    /\ thread \in Busy \cup {Idle} /\ wd \in Node \cup {NoNode}
    /\ revoker \in Revoking \cup {Idle} /\ asked \in SUBSET Asg

AgentsOK ==
    /\ sess \in [Node -> 0 .. MaxSess] /\ used \in [Node -> 0 .. MaxSess]
    /\ ann \in [Node -> SUBSET Asg]
    /\ child \in [Node -> [Asg -> {"none", "running", "failed"}]]
    /\ restarts \in [Node -> [Asg -> Nat]]
    /\ launched \in [Asg -> SUBSET Node]

FramesOK ==
    /\ down \in [Node -> [Sess -> Seq(DownFrame)]]
    /\ up \in [Node -> [Sess -> Seq(UpFrame)]]

\* Every variable has its type: the table, the gateway's maps, the threads'
\* local state, the agents and the frames in flight.
TypeOK ==
    RowsOK /\ LinksOK /\ LoopsOK /\ CallsOK /\ AgentsOK /\ FramesOK

\* A row without a node is pending or revoked: nothing that is offered, runs,
\* stopped or failed lacks an owner, so the capacity count, failover and
\* reoffer, which all select by node_id, can see it.
PlacedHasOwner ==
    \A a \in Asg : owner[a] = NoNode => status[a] \in {"none", "pending", "revoked"}

\* An agent runs a worker only for an assignment the scheduler placed on its
\* node, however stale the reoffer list or the frame that started it.
OnlyPlacedNodesRun ==
    \A n \in Node, a \in Asg : child[n][a] # "none" => n \in placed[a]

\* A row says running only if the node it names did launch the worker: a
\* report of a node that lost the assignment to failover cannot mark the row
\* of its new owner.
RunningWasLaunched ==
    \A a \in Asg : status[a] = "running" => owner[a] \in launched[a]

\* onClose's identity check: the gateway lets go of the connection an agent is
\* on, if its socket is whole, only when that connection misses its pong or
\* the master restarts.  The close of an older connection of the node,
\* however late, never does it.
LiveSessionHeld ==
    [][\A n \in Node :
          sess[n] # 0 /\ conn[n] = sess[n] /\ conn'[n] # conn[n] =>
              PingTimeout(n) \/ MasterRestart]_vars

-----------------------------------------------------------------------------
(* Fairness.  The holder of Scheduler.mu finishes; the two loops that wait  *)
(* for it get it, since a Go mutex hands itself to a starved waiter.  A     *)
(* Tick visits every node, whatever it does for the others.  Timers         *)
(* fire, read loops and agents keep running, a dead socket is noticed.      *)
(* Nothing makes a request, a fault or a first connection happen.           *)

HolderStep ==
    \/ PlacementWrite \/ PlacementSend \/ PlacementPark \/ RetryDecide
    \/ PlacementDone \/ FailoverPlan \/ FailoverMove

AgentStep(n) ==
    \/ AgentAnnounce(n) \/ AgentAssign(n) \/ AgentRevoke(n)
    \/ AgentDrop(n) /\ conn[n] # sess[n]

Fairness ==
    /\ WF_vars(HolderStep) /\ SF_vars(RetryStart) /\ SF_vars(FailoverList)
    /\ WF_vars(RevokeTell \/ RevokeMark)
    /\ \A n \in Node :
          /\ SF_vars(WatchdogCheck(n)) /\ WF_vars(GracePassed(n))
          /\ WF_vars(AgentStep(n))
          /\ \A s \in Sess : WF_vars(ReadLoop(n, s))

FairSpec == Spec /\ Fairness

Down(n) == conn[n] = 0
InSession(n) == conn[n] # 0 /\ sess[n] = conn[n]

\* Watchdog.Tick + HandleNodeDown: work of a node whose connection was lost
\* and never comes back does not stay offered or running there.
DownNodeLosesWork ==
    \A n \in Node : <>[](Down(n) /\ n \in flapped) => <>[](Load(n) = 0)

\* RetryPending: a row no node was ever found for is placed once a node with
\* room stays eligible.
UnplacedIsPlaced ==
    \A a \in Asg : <>[](Eligible # {}) =>
        []<>~(status[a] = "pending" /\ owner[a] = NoNode)

\* The documented promise of the retry loop: with a healthy node past its
\* grace at hand, no assignment stays pending for ever.
NoForeverPending ==
    \A a \in Asg : <>[](Eligible # {}) =>
        []<>(status[a] # "pending")
=============================================================================
