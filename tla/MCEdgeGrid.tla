----------------------------- MODULE MCEdgeGrid -----------------------------
(* Instances of EdgeGrid, and statements of the documentation and of the    *)
(* code's comments that TLC refutes on them: README, "Where the code        *)
(* departs from its word".                                                  *)
EXTENDS EdgeGrid

CONSTANTS n1, n2

CapOne == [n \in Node |-> 1]
OneSession == [n \in Node |-> 1]
OneReconnect == [n \in Node |-> IF n = n1 THEN 2 ELSE 1]

-----------------------------------------------------------------------------
\* The documented promise of the VRAM guard: no node is given more active
\* rows than it has room for.
NeverOverAssigns == \A n \in Node : Load(n) <= Cap[n]

\* The documented promise of failover: the work of a node that stays
\* disconnected does not stay on it (whatever the master remembers).
DownNodeFailsOver ==
    \A n \in Node : <>[]Down(n) => <>[](Load(n) = 0)

\* The re-announcement of an agent's children: once a node stays connected,
\* what the table says runs on it has a child there.
ViewSurvivesDrop ==
    \A n \in Node, a \in Asg :
        <>[]InSession(n) =>
          <>[](status[a] = "running" /\ owner[a] = n => child[n][a] # "none")

\* One worker per assignment: once every node stays connected, no two nodes
\* go on running the same one.
OneWorkerInTheEnd ==
    \A a \in Asg :
        <>[](\A n \in Node : InSession(n)) =>
          <>[](\A m, n \in Node : child[m][a] = "running" /\ child[n][a] = "running"
                                    => m = n)

\* Revoke: once it was called and every node stays connected, the worker ends.
RevokeStopsWorker ==
    \A a \in Asg :
        <>[](a \in asked /\ \A n \in Node : InSession(n)) =>
          <>[](\A n \in Node : child[n][a] = "none")

\* The documented lifecycle ends in revoked.
RevokedIsFinal ==
    [][\A a \in Asg : status[a] = "revoked" => status'[a] = "revoked"]_vars
=============================================================================
