----------------------------- MODULE MCRestream -----------------------------
(* Statements of the comments, tests and documents of restream that TLC     *)
(* refutes on instances of Restream: README, "Where the code departs from   *)
(* its word".                                                               *)
EXTENDS Restream

\* "Terminal rows never move again (e.g. stop-by-user already recorded)"
\* (onEgressEvent, service.go:390).
TerminalNeverMoves ==
    [][\A i \in Id : row[i].st = "stopped" => row'[i].st = "stopped"]_vars

\* A removed destination is no longer pushed to: "Remove stops ONE
\* destination by egress id" (service.go:315), its calls all answered.
RemovedIsSilent ==
    (\A p \in Slot : h[p].pc = "idle") =>
        \A e \in Egress : Running(e) /\ egress[e].id # 0
                          => row[egress[e].id].st # "stopped"

\* The egress_ended of an egress that Remove stopped does not fire
\* restream_stopped again: "Mark terminal FIRST so the egress_ended webhook
\* (fired by stopEgress) sees a stopped row" (service.go:332).
StopEventSilent == \A p \in Slot : h[p].pc = "fire" => ~h[p].ours

\* A destination has one egress: "caps simultaneous live destinations (one
\* egress each)" (service.go:19), those of failed start calls included.
OneEgressEach ==
    \A i \in Id :
       Cardinality({e \in Egress : Running(e)
                      /\ i \in {egress[e].id, egress[e].lost}}) <= 1

\* One live destination per URL: "Duplicado (misma URL viva en la misma
\* sala) -> 409" (restream.md:60).
OneLivePerUrl ==
    \A i, j \in Id : row[i].st \in Live /\ row[j].st \in Live
                     /\ row[i].url = row[j].url => i = j
=============================================================================
