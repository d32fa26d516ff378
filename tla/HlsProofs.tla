------------------------------ MODULE HlsProofs ------------------------------
(***************************************************************************)
(* What is proved of the live HLS egress of a room, for any number of      *)
(* egresses and requests and however many upsets a behaviour meets:        *)
(*                                                                         *)
(*   Typing     the types;                                                 *)
(*   Reached    no egress at work is in abandoned (StopReaches);           *)
(*   Single     one egress is at work (OneWriter);                         *)
(*   DeadGo     Start replaces only what is dead (OnlyTheDeadGo).          *)
(*                                                                         *)
(* The three rest on what a caller can tell of an egress (Looks) and on    *)
(* what its listing still says when it comes to use it (SeenTrue), then    *)
(* on what a Start has cleared away before it launches (Cleared).          *)
(***************************************************************************)
EXTENDS Hls, TLAPS

\* Zenon is the prover of a leaf that names none; the leaves with arithmetic,
\* records or many cases name SMT.
USE Zenon

-----------------------------------------------------------------------------
(* Types *)

St == AtWork \cup {"none", "ending", "dead"}
Info == [st : St, stamped : BOOLEAN, young : BOOLEAN, wrote : BOOLEAN]
Call == [pc : {"idle", "list", "stop", "launch"},
         op : {"none", "check", "start", "stop"}, seen : SUBSET Line]

\* The types, and what a caller holds where: a launch is a Start's, and a
\* loop over a listing is not yet at its end.
Typed ==
    /\ eg \in [Egress -> Info]
    /\ order \subseteq Egress \X Egress
    /\ list \in {"none", "fresh", "frozen"}
    /\ abandoned \subseteq Egress /\ launched \subseteq Egress
    /\ call \in [Caller -> Call]
    /\ \A c \in Caller : /\ call[c].pc = "stop" => call[c].seen # {}
                         /\ call[c].pc = "launch" => call[c].op = "start"
                         /\ call[c].pc # "stop" => call[c].seen = {}
                         /\ call[c].pc = "idle" => call[c].op = "none"
    /\ noise \subseteq Noise

\* The empty call.
LEMMA IdleCall == /\ Idle \in Call /\ Idle.pc = "idle" /\ Idle.op = "none"
                  /\ Idle.seen = {}
  BY DEF Idle, Call

\* The empty egress.
LEMMA NoneInfo == /\ None \in Info /\ None.st = "none" /\ ~None.stamped
                  /\ ~None.young /\ ~None.wrote
  BY DEF None, Info, St, AtWork

\* Upsets are only added.
LEMMA Upset ==
    ASSUME Typed, NEW kind, Once(kind)
    PROVE  noise' \subseteq Noise /\ noise \subseteq noise' /\ kind \in noise'
  BY EnvAssumption DEF Typed, Once

\* The lines of a listing are of listed egresses, and say what is active.
LEMMA Lines ==
    /\ LiveForRoom \subseteq Line
    /\ \A l \in LiveForRoom : /\ l.id \in Listed /\ l.id \notin abandoned
                              /\ l.active <=> eg[l.id].st \in {"active", "writing", "dead"}
    /\ \A e \in Listed \ abandoned : e \in Ids(LiveForRoom)
<1>1. \A e \in Listed : /\ [id |-> e, active |-> eg[e].st \in {"active", "writing", "dead"}] \in Line
                        /\ e \in Egress
  BY SMT DEF Listed, Line
<1>2. LiveForRoom \subseteq Line
  BY <1>1 DEF LiveForRoom, ListHlsEgress
<1>3. \A l \in LiveForRoom : /\ l.id \in Listed /\ l.id \notin abandoned
                             /\ l.active <=> eg[l.id].st \in {"active", "writing", "dead"}
  <2> SUFFICES ASSUME NEW l \in LiveForRoom
               PROVE  /\ l.id \in Listed /\ l.id \notin abandoned
                      /\ l.active <=> eg[l.id].st \in {"active", "writing", "dead"}
    OBVIOUS
  <2>1. PICK e \in Listed :
          l = [id |-> e, active |-> eg[e].st \in {"active", "writing", "dead"}]
    BY DEF LiveForRoom, ListHlsEgress
  <2>2. l.id = e /\ l.id \notin abandoned
    BY <2>1 DEF LiveForRoom
  <2>3. l.active = (eg[e].st \in {"active", "writing", "dead"})
    BY <2>1
  <2> QED
    BY <2>2, <2>3
<1>4. ASSUME NEW e \in Listed \ abandoned PROVE e \in Ids(LiveForRoom)
  <2> DEFINE l == [id |-> e, active |-> eg[e].st \in {"active", "writing", "dead"}]
  <2>1. l \in ListHlsEgress /\ l.id = e
    BY DEF ListHlsEgress
  <2> HIDE DEF l
  <2> QED
    BY <2>1 DEF LiveForRoom, Ids
<1> QED
  BY <1>2, <1>3, <1>4

\* The newest of a listing is one of its lines.
LEMMA NewestIsListed == \A lines : Newest(lines) \subseteq lines
  BY DEF Newest

\* What a caller becomes when it goes on or returns.
LEMMA GotoMoves ==
    ASSUME Typed, NEW c \in Caller, NEW pc, NEW op, NEW seen, Goto(c, pc, op, seen)
    PROVE  /\ \A d \in Caller : d # c => call'[d] = call[d]
           /\ call'[c].pc = pc /\ call'[c].op = op /\ call'[c].seen = seen
           /\ pc \in {"idle", "list", "stop", "launch"}
              /\ op \in {"none", "check", "start", "stop"} /\ seen \subseteq Line
              => call' \in [Caller -> Call]
<1> DEFINE g == [pc |-> pc, op |-> op, seen |-> seen]
<1>1. call' = [call EXCEPT ![c] = g] /\ g.pc = pc /\ g.op = op /\ g.seen = seen
  BY DEF Goto
<1>2. pc \in {"idle", "list", "stop", "launch"}
      /\ op \in {"none", "check", "start", "stop"} /\ seen \subseteq Line => g \in Call
  BY DEF Call
<1> HIDE DEF g
<1> QED
  BY <1>1, <1>2 DEF Typed

\* One that returns.
LEMMA ReturnMoves ==
    ASSUME Typed, NEW c \in Caller, Return(c)
    PROVE  /\ \A d \in Caller : d # c => call'[d] = call[d]
           /\ call'[c] = Idle /\ call' \in [Caller -> Call]
  BY IdleCall DEF Typed, Return

\* The next step of a loop over a listing.
LEMMA StoppedMoves ==
    ASSUME Typed, NEW c \in Caller, call[c].pc = "stop", NEW l \in call[c].seen,
           Stopped(c, l)
    PROVE  /\ \A d \in Caller : d # c => call'[d] = call[d]
           /\ call' \in [Caller -> Call]
           /\ \/ /\ call'[c].pc = "stop" /\ call'[c].op = call[c].op
                 /\ call'[c].seen = call[c].seen \ {l} /\ call'[c].seen # {}
              \/ /\ call[c].op = "start" /\ call[c].seen = {l}
                 /\ call'[c].pc = "launch" /\ call'[c].op = "start" /\ call'[c].seen = {}
              \/ call'[c] = Idle
<1>0. call[c] \in Call
  BY DEF Typed
<1>1. CASE call[c].seen \ {l} # {}
  <2>1. Goto(c, "stop", call[c].op, call[c].seen \ {l})
    BY <1>1 DEF Stopped
  <2>2. call[c].op \in {"none", "check", "start", "stop"} /\ call[c].seen \ {l} \subseteq Line
    BY <1>0 DEF Call
  <2> QED
    BY SMT, <1>1, <2>1, <2>2, GotoMoves
<1>2. CASE call[c].seen \ {l} = {} /\ call[c].op = "start"
  <2>1. Goto(c, "launch", "start", {})
    BY <1>2 DEF Stopped
  <2> QED
    BY SMT, <1>2, <2>1, GotoMoves
<1>3. CASE call[c].seen \ {l} = {} /\ call[c].op # "start"
  BY <1>3, ReturnMoves DEF Stopped
<1> QED
  BY <1>1, <1>2, <1>3

\* Every step keeps the types.
LEMMA TypeNext == Typed /\ [Next]_vars => Typed'
<1> SUFFICES ASSUME Typed, [Next]_vars PROVE Typed'
  OBVIOUS
<1>0. eg \in [Egress -> Info] /\ call \in [Caller -> Call]
  BY DEF Typed
<1>h. ASSUME NEW c \in Caller, call' \in [Caller -> Call],
             \A d \in Caller : d # c => call'[d] = call[d],
             \/ call'[c] = Idle
             \/ call'[c].pc = "list" /\ call'[c].seen = {}
             \/ call'[c].pc = "stop" /\ call'[c].seen # {}
             \/ call'[c].pc = "launch" /\ call'[c].op = "start" /\ call'[c].seen = {}
      PROVE  \A d \in Caller : /\ call'[d].pc = "stop" => call'[d].seen # {}
                               /\ call'[d].pc = "launch" => call'[d].op = "start"
                               /\ call'[d].pc # "stop" => call'[d].seen = {}
                               /\ call'[d].pc = "idle" => call'[d].op = "none"
  BY SMT, <1>h, IdleCall DEF Typed
<1>n. ASSUME UNCHANGED noise \/ \E kind : Once(kind) PROVE noise' \subseteq Noise
  BY <1>n, Upset DEF Typed
<1>s. ASSUME NEW e, NEW s \in St, eg' = [eg EXCEPT ![e].st = s]
      PROVE  eg' \in [Egress -> Info]
  <2>1. ASSUME NEW d \in Egress PROVE [eg[d] EXCEPT !.st = s] \in Info
    <3>1. eg[d] \in Info
      BY <1>0
    <3> QED
      BY <3>1 DEF Info
  <2>2. eg' = [eg EXCEPT ![e] = [eg[e] EXCEPT !.st = s]]
    BY <1>s
  <2> QED
    BY <1>0, <2>1, <2>2
<1>u. {"active", "ending", "dead", "starting", "none", "writing"} \subseteq St
  BY DEF St, AtWork
<1>1. ASSUME NEW c \in Caller, StartRequest(c) \/ StopRequest(c) PROVE Typed'
  <2>1. /\ UNCHANGED <<livekit, list, memory>>
        /\ \E op \in {"start", "stop"} : Goto(c, "list", op, {})
        /\ UNCHANGED noise \/ Once("overlap")
    BY <1>1 DEF StartRequest, StopRequest, Enters
  <2>2. /\ \A d \in Caller : d # c => call'[d] = call[d]
        /\ call'[c].pc = "list" /\ call'[c].seen = {} /\ call' \in [Caller -> Call]
    BY SMT, <2>1, GotoMoves
  <2> QED
    BY <1>0, <1>h, <1>n, <2>1, <2>2 DEF Typed, livekit, memory
<1>2. CASE Tick
  <2>1. "watchdog" \in Caller
    BY DEF Caller
  <2>2. /\ \A d \in Caller : d # "watchdog" => call'[d] = call[d]
        /\ call'["watchdog"].pc = "list" /\ call'["watchdog"].seen = {}
        /\ call' \in [Caller -> Call]
    BY SMT, <1>2, <2>1, GotoMoves DEF Tick
  <2> QED
    BY <1>0, <1>2, <1>h, <2>1, <2>2 DEF Typed, Tick, livekit, memory
<1>3. ASSUME NEW c \in Caller, ListFails(c) PROVE Typed'
  BY <1>0, <1>3, <1>h, <1>n, ReturnMoves DEF Typed, ListFails, livekit, memory
<1>4. ASSUME NEW c \in Caller, Check(c) \/ Start(c) \/ Stop(c) PROVE Typed'
  <2>1. \/ Return(c)
        \/ Goto(c, "list", "start", {})
        \/ Goto(c, "launch", "start", {})
        \/ \E op \in {"start", "stop"} :
             LiveForRoom # {} /\ Goto(c, "stop", op, LiveForRoom)
    <3>1. \A l \in Newest(LiveForRoom) : LiveForRoom # {}
      BY NewestIsListed
    <3> QED
      BY <1>4, <3>1 DEF Check, Start, Stop, Enters
  <2>2. /\ \A d \in Caller : d # c => call'[d] = call[d]
        /\ call' \in [Caller -> Call]
        /\ \/ call'[c] = Idle
           \/ call'[c].pc = "list" /\ call'[c].seen = {}
           \/ call'[c].pc = "stop" /\ call'[c].seen # {}
           \/ call'[c].pc = "launch" /\ call'[c].op = "start" /\ call'[c].seen = {}
    BY SMT, <2>1, ReturnMoves, GotoMoves, Lines
  <2>3. abandoned' \subseteq Egress /\ UNCHANGED <<eg, order, list, launched>>
        /\ (UNCHANGED noise \/ Once("overlap"))
    BY <1>4 DEF Check, Start, Stop, Enters, Prune, Typed, livekit
  <2> QED
    BY <1>0, <1>h, <1>n, <2>2, <2>3 DEF Typed
<1>5. ASSUME NEW c \in Caller, Replace(c) \/ StopOne(c) PROVE Typed'
  <2>1. PICK l \in call[c].seen :
          /\ call[c].pc = "stop" /\ Stopped(c, l)
          /\ \E ok \in BOOLEAN, kind \in Noise : StopEgress(l.id, ok, kind)
          /\ UNCHANGED memory \/ Abandon(l.id)
    BY <1>5 DEF Replace, StopOne, Noise
  <2>2. l.id \in Egress
    BY <1>0, <2>1 DEF Call, Line
  <2>3. eg' \in [Egress -> Info]
    BY <1>0, <1>s, <1>u, <2>1 DEF StopEgress
  <2>4. UNCHANGED noise \/ \E kind : Once(kind)
    BY <2>1 DEF StopEgress
  <2>5. abandoned' \subseteq Egress /\ launched' \subseteq Egress
    BY <2>1, <2>2 DEF Typed, memory, Abandon
  <2>6. UNCHANGED <<order, list>>
    BY <1>5 DEF Replace, StopOne
  <2>7. /\ \A d \in Caller : d # c => call'[d] = call[d]
        /\ call' \in [Caller -> Call]
        /\ \/ call'[c] = Idle
           \/ call'[c].pc = "stop" /\ call'[c].seen # {}
           \/ call'[c].pc = "launch" /\ call'[c].op = "start" /\ call'[c].seen = {}
    BY <2>1, StoppedMoves
  <2> QED
    BY <1>h, <1>n, <2>3, <2>4, <2>5, <2>6, <2>7 DEF Typed
<1>6. ASSUME NEW c \in Caller, Launch(c) PROVE Typed'
  <2>1. PICK e \in Egress, st \in {"none", "starting"} :
          /\ eg' = [eg EXCEPT ![e] = [None EXCEPT !.st = st]]
          /\ launched' \subseteq launched \cup {e}
          /\ abandoned' = abandoned \ {e}
          /\ UNCHANGED noise \/ Once("start")
    BY <1>6 DEF Launch, Fresh
  <2>2. [None EXCEPT !.st = st] \in Info
    BY <1>u, NoneInfo DEF Info
  <2>3. eg' \in [Egress -> Info]
    BY <1>0, <2>1, <2>2
  <2>4. Return(c) /\ UNCHANGED <<order, list>>
    BY <1>6 DEF Launch
  <2> QED
    BY <1>h, <1>n, <2>1, <2>3, <2>4, ReturnMoves DEF Typed
<1>7. CASE Restart
  <2>1. /\ abandoned' = {} /\ launched' = {} /\ UNCHANGED <<eg, order, list>>
        /\ call' = [c \in Caller |-> Idle] /\ Once("crash")
    BY <1>7 DEF Restart, livekit
  <2> QED
    BY <1>0, <1>n, <2>1, IdleCall DEF Typed
<1>8. CASE Freeze
  BY <1>8 DEF Freeze, Typed, livekit, core, memory
<1>9. ASSUME NEW e \in Egress, Activate(e) PROVE Typed'
  <2>1. /\ UNCHANGED <<list, abandoned, launched, call>>
        /\ UNCHANGED noise \/ Once("unstamped")
        /\ order' \subseteq order \cup ({d \in Egress : eg[d].stamped} \X {e})
    BY <1>9 DEF Activate, core, memory
  <2>2. eg' \in [Egress -> Info]
    <3>1. [st |-> "active", stamped |-> TRUE, young |-> TRUE, wrote |-> FALSE] \in Info
      BY <1>u DEF Info
    <3> QED
      BY <1>0, <1>9, <1>s, <1>u, <3>1 DEF Activate
  <2>3. order' \subseteq Egress \X Egress
    BY <2>1 DEF Typed
  <2> QED
    BY <1>n, <2>1, <2>2, <2>3 DEF Typed
<1>10. ASSUME NEW e \in Egress, Segment(e) PROVE Typed'
  <2>1. ASSUME NEW d \in Egress
        PROVE  [eg[d] EXCEPT !.st = IF d = e THEN "writing" ELSE @,
                             !.wrote = eg[d].stamped] \in Info
    <3>1. eg[d] \in Info
      BY <1>0
    <3> QED
      BY <1>u, <3>1 DEF Info
  <2>2. eg' \in [Egress -> Info]
    BY <1>10, <2>1 DEF Segment
  <2>3. list' = "fresh" /\ UNCHANGED <<order, abandoned, launched, call, noise>>
    BY <1>10 DEF Segment, core, memory
  <2> QED
    BY <2>2, <2>3 DEF Typed
<1>11. ASSUME NEW e \in Egress, GracePassed(e) PROVE Typed'
  <2>1. [eg[e] EXCEPT !.young = FALSE] \in Info
    <3>1. eg[e] \in Info
      BY <1>0
    <3> QED
      BY <3>1 DEF Info
  <2>2. eg' = [eg EXCEPT ![e] = [eg[e] EXCEPT !.young = FALSE]]
    BY <1>11 DEF GracePassed
  <2>3. eg' \in [Egress -> Info]
    BY <1>0, <2>1, <2>2
  <2> QED
    BY <1>11, <2>3 DEF GracePassed, Typed
<1>12. ASSUME NEW e \in Egress, Die(e) PROVE Typed'
  BY <1>12, <1>s, <1>u DEF Die, Typed, core, memory
<1>13. ASSUME NEW e \in Egress, Gone(e) PROVE Typed'
  <2>1. eg' \in [Egress -> Info]
    BY <1>0, <1>13, NoneInfo DEF Gone
  <2> QED
    BY <1>13, <2>1 DEF Gone, Typed
<1>14. CASE UNCHANGED vars
  BY <1>14 DEF Typed, vars, livekit, memory
<1> QED
  BY <1>1, <1>2, <1>3, <1>4, <1>5, <1>6, <1>7, <1>8, <1>9, <1>10, <1>11, <1>12, <1>13,
     <1>14
     DEF Next, Step, Passing, Ended

\* What LiveKit's workers and time do to an egress.
Worker(e) == Activate(e) \/ Segment(e) \/ GracePassed(e) \/ Die(e) \/ Gone(e)

\* So an egress goes from starting to active to writing, dies or is gone.
LEMMA WorkerMoves ==
    ASSUME Typed, NEW e \in Egress, Worker(e)
    PROVE  /\ UNCHANGED <<abandoned, call>> /\ noise \subseteq noise'
           /\ list' \in {list, "fresh"}
           /\ \A d \in Egress : d # e => /\ eg'[d].st = eg[d].st
                                         /\ eg'[d].stamped = eg[d].stamped
                                         /\ eg'[d].young = eg[d].young
                                         /\ d \in launched' <=> d \in launched
           /\ \/ /\ eg[e].st = "starting" /\ eg'[e].st = "active"
                 /\ UNCHANGED <<list, launched>>
                 /\ \/ eg'[e].stamped /\ eg'[e].young
                    \/ eg'[e].stamped = eg[e].stamped /\ "unstamped" \in noise'
              \/ /\ eg[e].st \in {"active", "writing"} /\ eg'[e].st = "writing"
                 /\ eg'[e].stamped = eg[e].stamped
                 /\ list' = "fresh" /\ UNCHANGED launched
              \/ /\ eg[e].st \notin {"starting", "active"} /\ eg'[e].st = eg[e].st
                 /\ eg'[e].stamped = eg[e].stamped /\ UNCHANGED list
              \/ /\ eg[e].st \in {"active", "writing"} /\ eg'[e].st = "dead"
                 /\ eg'[e].stamped = eg[e].stamped /\ UNCHANGED list
              \/ /\ eg'[e].st = "none" /\ ~eg'[e].stamped /\ UNCHANGED list
<1>0. eg \in [Egress -> Info] /\ \A d \in Egress : eg[d] \in Info
  BY DEF Typed
<1>1. CASE Activate(e)
  <2>1. CASE eg' = [eg EXCEPT ![e] = [st |-> "active", stamped |-> TRUE,
                                      young |-> TRUE, wrote |-> FALSE]]
    BY <1>0, <1>1, <2>1, Upset DEF Activate, core, memory
  <2>2. CASE Once("unstamped") /\ eg' = [eg EXCEPT ![e].st = "active"]
    <3>1. eg' = [eg EXCEPT ![e] = [eg[e] EXCEPT !.st = "active"]]
      BY <2>2
    <3>2. /\ [eg[e] EXCEPT !.st = "active"].st = "active"
          /\ [eg[e] EXCEPT !.st = "active"].stamped = eg[e].stamped
      BY <1>0 DEF Info
    <3> QED
      BY <1>0, <1>1, <2>2, <3>1, <3>2, Upset DEF Activate, core, memory
  <2> QED
    BY <1>1, <2>1, <2>2 DEF Activate
<1>2. CASE Segment(e)
  <2>1. ASSUME NEW d \in Egress
        PROVE  /\ eg'[d].st = IF d = e THEN "writing" ELSE eg[d].st
               /\ eg'[d].stamped = eg[d].stamped /\ eg'[d].young = eg[d].young
    <3>1. eg'[d] = [eg[d] EXCEPT !.st = IF d = e THEN "writing" ELSE eg[d].st,
                                 !.wrote = eg[d].stamped]
      BY <1>2 DEF Segment
    <3> QED
      BY <1>0, <3>1 DEF Info
  <2> QED
    BY <1>2, <2>1 DEF Segment, core, memory
<1>3. CASE GracePassed(e)
  <2>1. eg' = [eg EXCEPT ![e] = [eg[e] EXCEPT !.young = FALSE]]
    BY <1>3 DEF GracePassed
  <2>2. /\ [eg[e] EXCEPT !.young = FALSE].st = eg[e].st
        /\ [eg[e] EXCEPT !.young = FALSE].stamped = eg[e].stamped
    BY <1>0 DEF Info
  <2> QED
    BY <1>0, <1>3, <2>1, <2>2 DEF GracePassed
<1>4. CASE Die(e)
  <2>1. eg' = [eg EXCEPT ![e] = [eg[e] EXCEPT !.st = "dead"]]
    BY <1>4 DEF Die
  <2>2. /\ [eg[e] EXCEPT !.st = "dead"].st = "dead"
        /\ [eg[e] EXCEPT !.st = "dead"].stamped = eg[e].stamped
    BY <1>0 DEF Info
  <2> QED
    BY <1>0, <1>4, <2>1, <2>2 DEF Die, core, memory
<1>5. CASE Gone(e)
  BY <1>0, <1>5, NoneInfo DEF Gone
<1> QED
  BY <1>1, <1>2, <1>3, <1>4, <1>5 DEF Worker

\* What StopEgress does to the egresses.
LEMMA StopMoves ==
    ASSUME Typed, NEW e \in Egress, NEW ok, NEW kind, StopEgress(e, ok, kind)
    PROVE  /\ \A d \in Egress : /\ eg'[d].stamped = eg[d].stamped
                                /\ eg'[d].young = eg[d].young
                                /\ d # e => eg'[d].st = eg[d].st
           /\ noise \subseteq noise'
           /\ \/ eg'[e].st = "ending" /\ eg[e].st \in AtWork \cup {"ending"} /\ ok
              \/ eg'[e].st = eg[e].st /\ eg[e].st \in {"none", "dead"} /\ ~ok
              \/ /\ eg'[e].st = eg[e].st /\ eg[e].st \in AtWork /\ ~ok
                 /\ kind \in noise'
<1>0. eg \in [Egress -> Info] /\ eg[e] \in Info
  BY DEF Typed
<1>1. CASE /\ UNCHANGED eg /\ ~ok
           /\ \/ eg[e].st \in {"none", "dead"} /\ UNCHANGED noise
              \/ eg[e].st \in AtWork /\ Once(kind)
  BY <1>1, Upset
<1>2. CASE /\ ok /\ eg[e].st \in AtWork \cup {"ending"}
           /\ eg' = [eg EXCEPT ![e].st = "ending"] /\ UNCHANGED noise
  <2>1. eg' = [eg EXCEPT ![e] = [eg[e] EXCEPT !.st = "ending"]]
    BY <1>2
  <2>2. /\ [eg[e] EXCEPT !.st = "ending"].st = "ending"
        /\ [eg[e] EXCEPT !.st = "ending"].stamped = eg[e].stamped
        /\ [eg[e] EXCEPT !.st = "ending"].young = eg[e].young
    BY <1>0 DEF Info
  <2> QED
    BY <1>0, <1>2, <2>1, <2>2
<1> QED
  BY <1>1, <1>2 DEF StopEgress

\* What a launch does.
LEMMA LaunchMoves ==
    ASSUME Typed, NEW c \in Caller, Launch(c)
    PROVE  \E e \in Fresh :
             /\ \A d \in Egress : d # e => eg'[d] = eg[d]
             /\ eg'[e].st \in {"none", "starting"} /\ ~eg'[e].stamped
             /\ abandoned' = abandoned \ {e} /\ launched \subseteq launched'
             /\ e \in launched' \/ "start" \in noise'
             /\ noise \subseteq noise' /\ UNCHANGED <<order, list>>
             /\ call[c].pc = "launch" /\ Return(c)
<1>1. PICK e \in Fresh, st \in {"none", "starting"} :
        /\ \/ launched' = launched \cup {e} /\ UNCHANGED noise
           \/ Once("start") /\ UNCHANGED launched
        /\ eg' = [eg EXCEPT ![e] = [None EXCEPT !.st = st]]
        /\ abandoned' = abandoned \ {e}
  BY DEF Launch
<1>2. [None EXCEPT !.st = st].st = st /\ ~[None EXCEPT !.st = st].stamped
  BY DEF None
<1>3. e \in Egress
  BY DEF Fresh
<1>4. eg'[e] = [None EXCEPT !.st = st] /\ \A d \in Egress : d # e => eg'[d] = eg[d]
  BY <1>1, <1>3 DEF Typed
<1>5. /\ noise \subseteq noise' /\ launched \subseteq launched'
      /\ e \in launched' \/ "start" \in noise'
  BY <1>1, Upset
<1> QED
  BY <1>1, <1>2, <1>4, <1>5 DEF Launch

\* Two egresses that LiveKit dates are dated one before the other.
Dated ==
    \A d, e \in Egress : eg[d].stamped /\ eg[e].stamped /\ d # e
                         => <<d, e>> \in order \/ <<e, d>> \in order

\* Every step keeps them so.
LEMMA DatedNext == Typed /\ Dated /\ [Next]_vars => Dated'
<1> SUFFICES ASSUME Typed, Dated, [Next]_vars PROVE Dated'
  OBVIOUS
<1>a. ASSUME order \subseteq order', \A d \in Egress : eg'[d].stamped => eg[d].stamped
      PROVE  Dated'
  BY <1>a DEF Dated
<1>1. ASSUME NEW e \in Egress, Activate(e) PROVE Dated'
  <2>1. \A d \in Egress : d # e => (eg'[d].stamped <=> eg[d].stamped)
    BY <1>1, WorkerMoves DEF Worker
  <2>2. CASE order' = order \cup ({d \in Egress : eg[d].stamped} \X {e})
    BY <2>1, <2>2 DEF Dated
  <2>3. CASE eg' = [eg EXCEPT ![e].st = "active"] /\ UNCHANGED order
    <3>1. eg' = [eg EXCEPT ![e] = [eg[e] EXCEPT !.st = "active"]]
      BY <2>3
    <3>2. eg[e] \in Info /\ eg \in [Egress -> Info]
      BY DEF Typed
    <3>3. [eg[e] EXCEPT !.st = "active"].stamped = eg[e].stamped
      BY <3>2 DEF Info
    <3> QED
      BY <1>a, <2>1, <2>3, <3>1, <3>2, <3>3
  <2> QED
    BY <1>1, <2>2, <2>3 DEF Activate
<1>2. ASSUME NEW e \in Egress, Segment(e) \/ GracePassed(e) \/ Die(e) PROVE Dated'
  <2>1. UNCHANGED order /\ (eg[e].st = "starting" => eg'[e].st # "active")
    BY <1>2, WorkerMoves DEF Worker, Segment, GracePassed, Die
  <2>2. \A d \in Egress : eg'[d].stamped => eg[d].stamped
    BY <1>2, <2>1, WorkerMoves DEF Worker
  <2> QED
    BY <1>a, <2>1, <2>2
<1>3. ASSUME NEW e \in Egress, Gone(e) PROVE Dated'
  <2>1. ~eg'[e].stamped /\ \A d \in Egress : d # e => eg'[d] = eg[d]
    BY <1>3, NoneInfo DEF Gone, Typed
  <2>2. order' = {pair \in order : pair[1] # e /\ pair[2] # e}
    BY <1>3 DEF Gone
  <2> QED
    BY <2>1, <2>2 DEF Dated
<1>4. ASSUME NEW c \in Caller, Replace(c) \/ StopOne(c) PROVE Dated'
  <2>1. PICK l \in call[c].seen, ok \in BOOLEAN, kind \in {"replace", "stop"} :
           StopEgress(l.id, ok, kind)
    BY <1>4 DEF Replace, StopOne
  <2>2. l.id \in Egress
    BY DEF Typed, Call, Line
  <2>3. UNCHANGED order
    BY <1>4 DEF Replace, StopOne
  <2> QED
    BY <1>a, <2>1, <2>2, <2>3, StopMoves
<1>5. ASSUME NEW c \in Caller, Launch(c) PROVE Dated'
  <2>1. PICK e \in Fresh : /\ \A d \in Egress : d # e => eg'[d] = eg[d]
                           /\ ~eg'[e].stamped /\ UNCHANGED order
    BY <1>5, LaunchMoves
  <2> QED
    BY <1>a, <2>1
<1>6. ASSUME NEW c \in Caller,
             \/ StartRequest(c) \/ StopRequest(c) \/ ListFails(c)
             \/ Check(c) \/ Start(c) \/ Stop(c)
      PROVE  Dated'
  BY <1>a, <1>6 DEF StartRequest, StopRequest, ListFails, Check, Start, Stop, livekit
<1>7. CASE Tick \/ Restart \/ Freeze \/ UNCHANGED vars
  BY <1>a, <1>7 DEF Tick, Restart, Freeze, vars, livekit
<1> QED
  BY <1>1, <1>2, <1>3, <1>4, <1>5, <1>6, <1>7 DEF Next, Step, Passing, Ended

\* The types hold initially.
LEMMA TypeInit == Init => Typed /\ Dated
  BY IdleCall, NoneInfo DEF Init, Typed, Dated

\* The egresses, the maps, the listing a caller holds and the place it is at
\* keep their types, and LiveKit's dates tell the newest egress.
THEOREM Typing == Spec => []TypeOK
<1>1. Typed /\ Dated => TypeOK
  BY DEF Typed, Dated, TypeOK, Info, St, Call
<1> QED
  BY TypeInit, TypeNext, DatedNext, <1>1, PTL DEF Spec

-----------------------------------------------------------------------------
(* What a caller can tell of an egress *)

\* A writing egress keeps the playlist fresh; one that has not written yet is
\* young or, if LiveKit does not date it, in launched, unless it was given up
\* or the map lost it.
Looks(e) ==
    /\ eg[e].st = "writing" => list = "fresh"
    /\ eg[e].st = "starting" => ~eg[e].stamped
    /\ eg[e].st = "active" /\ eg[e].stamped => eg[e].young
    /\ eg[e].st = "active" /\ ~eg[e].stamped => "unstamped" \in noise
    /\ eg[e].st \in {"starting", "active"} /\ ~eg[e].stamped
         => e \in launched \cup abandoned \/ noise \cap {"start", "crash"} # {}

\* What was active when it was listed is not starting up: ids that a caller
\* holds are not given out again.
SeenTrue == \A c \in Caller : \A l \in call[c].seen : l.active => eg[l.id].st # "starting"

Told == (\A e \in Egress : Looks(e)) /\ SeenTrue /\ StopReaches

\* An egress at work that looks stale is one nothing tells from a corpse.
LEMMA StaleAtWork ==
    ASSUME Typed, NEW l \in Line, l.active => eg[l.id].st # "starting",
           Looks(l.id), Stale(l), eg[l.id].st \in AtWork
    PROVE  l.id \in abandoned \/ Unknown
<1>1. l.id \in Egress /\ l.active /\ l.id \notin launched /\ list = "frozen"
      /\ (eg[l.id].stamped => ~eg[l.id].young)
  BY DEF Line, Stale
<1>2. eg[l.id].st = "active" /\ ~eg[l.id].stamped
  BY <1>1 DEF Looks, AtWork
<1> QED
  BY <1>1, <1>2 DEF Looks, Unknown

\* The exemptions stay.
LEMMA NoiseStays ==
    ASSUME noise \subseteq noise'
    PROVE  /\ Unknown => Unknown'
           /\ \A kind \in noise : kind \in noise'
           /\ \A kinds : noise \cap kinds # {} => noise' \cap kinds # {}
  BY DEF Unknown

\* A step that leaves the egresses and what is known of them alone.
LEMMA TalkTold ==
    ASSUME Typed, Told, UNCHANGED <<eg, list, launched>>, noise \subseteq noise',
           abandoned' = abandoned \cap Listed \/ UNCHANGED abandoned,
           \A c \in Caller : \A l \in call'[c].seen :
              l \in call[c].seen \/ l \in LiveForRoom
    PROVE  Told'
<1>1. \A e \in Egress : Looks(e)'
  <2> SUFFICES ASSUME NEW e \in Egress PROVE Looks(e)'
    OBVIOUS
  <2>1. eg[e].st # "none" /\ e \in abandoned => e \in abandoned'
    BY DEF Listed
  <2>2. Looks(e)
    BY DEF Told
  <2> QED
    BY <2>1, <2>2, NoiseStays DEF Looks
<1>2. SeenTrue'
  BY Lines DEF Told, SeenTrue
<1>3. StopReaches'
  <2>1. Alive' = Alive /\ abandoned' \subseteq abandoned
    BY DEF Alive
  <2> QED
    BY <2>1, NoiseStays DEF Told, StopReaches
<1> QED
  BY <1>1, <1>2, <1>3 DEF Told

\* Replacing and stopping.
LEMMA StopTold ==
    ASSUME Typed, Told, NEW c \in Caller, Replace(c) \/ StopOne(c)
    PROVE  Told'
<1>1. PICK l \in call[c].seen, ok \in BOOLEAN, kind \in {"replace", "stop"} :
        /\ StopEgress(l.id, ok, kind) /\ Stopped(c, l)
        /\ \/ kind = "replace" /\ Abandon(l.id)
           \/ kind = "stop" /\ ~ok /\ Stale(l) /\ Abandon(l.id)
           \/ UNCHANGED memory /\ kind = "stop"
  BY DEF Replace, StopOne
<1>2. l \in Line /\ l.id \in Egress /\ call[c].pc = "stop" /\ UNCHANGED list
  BY DEF Typed, Call, Line, Replace, StopOne
<1>3. /\ \A d \in Egress : /\ eg'[d].stamped = eg[d].stamped
                           /\ eg'[d].young = eg[d].young
                           /\ d # l.id => eg'[d].st = eg[d].st
      /\ noise \subseteq noise'
      /\ \/ eg'[l.id].st = "ending" /\ eg[l.id].st \in AtWork \cup {"ending"} /\ ok
         \/ eg'[l.id].st = eg[l.id].st /\ eg[l.id].st \in {"none", "dead"} /\ ~ok
         \/ /\ eg'[l.id].st = eg[l.id].st /\ eg[l.id].st \in AtWork /\ ~ok
            /\ kind \in noise'
  BY <1>1, <1>2, StopMoves
<1>4. /\ \A d \in Egress : eg'[d].st \in AtWork => eg'[d].st = eg[d].st
      /\ abandoned \subseteq abandoned'
      /\ \A d \in Egress : d \in launched \cup abandoned => d \in launched' \cup abandoned'
  BY <1>1, <1>2, <1>3 DEF AtWork, Abandon, memory
<1>5. \A e \in Egress : Looks(e)'
  <2> SUFFICES ASSUME NEW e \in Egress PROVE Looks(e)'
    OBVIOUS
  <2>1. Looks(e)
    BY DEF Told
  <2> QED
    BY <1>2, <1>3, <1>4, <2>1, NoiseStays DEF Looks, AtWork
<1>6. SeenTrue'
  <2>1. \A d \in Caller : call'[d].seen \subseteq call[d].seen
    BY <1>1, <1>2, StoppedMoves, IdleCall
  <2>2. \A d \in Egress : eg'[d].st = "starting" => eg[d].st = "starting"
    BY <1>4 DEF AtWork
  <2>3. \A d \in Caller : \A k \in call[d].seen : k.id \in Egress
    BY DEF Typed, Call, Line
  <2> QED
    BY <2>1, <2>2, <2>3 DEF Told, SeenTrue
<1>7. StopReaches'
  <2>1. Alive' \subseteq Alive
    BY <1>4 DEF Alive
  <2>2. CASE UNCHANGED abandoned
    BY <1>3, <2>1, <2>2, NoiseStays DEF Told, StopReaches
  <2>3. CASE Abandon(l.id) /\ l.id \notin Alive'
    BY <1>3, <2>1, <2>3, NoiseStays DEF Told, StopReaches, Abandon
  <2>4. CASE kind = "replace" /\ l.id \in Alive'
    BY <1>3, <2>4 DEF StopReaches, Alive, AtWork
  <2>5. CASE kind = "stop" /\ Stale(l) /\ l.id \in Alive'
    <3>1. eg[l.id].st \in AtWork /\ "stop" \in noise'
      BY <1>3, <2>5 DEF Alive, AtWork
    <3>2. l.id \in abandoned \/ Unknown
      BY <1>2, <3>1, <2>5, StaleAtWork DEF Told, SeenTrue
    <3>3. l.id \in abandoned => abandoned \cap Alive # {}
      BY <1>2, <3>1 DEF Alive
    <3> QED
      BY <1>3, <3>1, <3>2, <3>3, NoiseStays DEF Told, StopReaches
  <2> QED
    BY <1>1, <2>2, <2>3, <2>4, <2>5 DEF memory
<1> QED
  BY <1>5, <1>6, <1>7 DEF Told

\* Launching.
LEMMA LaunchTold ==
    ASSUME Typed, Told, NEW c \in Caller, Launch(c)
    PROVE  Told'
<1>1. PICK e \in Fresh :
        /\ \A d \in Egress : d # e => eg'[d] = eg[d]
        /\ eg'[e].st \in {"none", "starting"} /\ ~eg'[e].stamped
        /\ abandoned' = abandoned \ {e} /\ launched \subseteq launched'
        /\ e \in launched' \/ "start" \in noise'
        /\ noise \subseteq noise' /\ UNCHANGED <<order, list>>
        /\ call[c].pc = "launch" /\ Return(c)
  BY LaunchMoves
<1>2. e \in Egress /\ \A d \in Caller : e \notin Ids(call[d].seen)
  BY DEF Fresh
<1>3. \A d \in Egress : Looks(d)'
  <2>1. Looks(e)'
    BY <1>1 DEF Looks
  <2>2. ASSUME NEW d \in Egress, d # e PROVE Looks(d)'
    <3>1. Looks(d)
      BY DEF Told
    <3> QED
      BY <1>1, <2>2, <3>1, NoiseStays DEF Looks
  <2> QED
    BY <2>1, <2>2
<1>4. SeenTrue'
  <2>1. \A d \in Caller : call'[d].seen \subseteq call[d].seen
    BY <1>1, ReturnMoves, IdleCall
  <2>2. \A d \in Caller : \A l \in call[d].seen : l.id \in Egress /\ l.id # e
    BY <1>2 DEF Typed, Call, Line, Ids
  <2> QED
    BY <1>1, <2>1, <2>2 DEF Told, SeenTrue
<1>5. StopReaches'
  <2>1. Alive' \subseteq Alive \cup {e}
    BY <1>1 DEF Alive
  <2> QED
    BY <1>1, <2>1, NoiseStays DEF Told, StopReaches
<1> QED
  BY <1>3, <1>4, <1>5 DEF Told

\* What happens to the egresses and to the core.
LEMMA WorkerTold ==
    ASSUME Typed, Told, NEW e \in Egress, Worker(e)
    PROVE  Told'
<1>0. noise \subseteq noise' /\ UNCHANGED <<abandoned, call>>
  BY WorkerMoves
<1>1. ASSUME NEW d \in Egress PROVE Looks(d)'
  <2>1. Looks(d)
    BY DEF Told
  <2> QED
    BY <1>0, <2>1, NoiseStays, WorkerMoves DEF Looks
<1>2. \A d \in Egress : /\ eg'[d].st = "starting" => eg[d].st = "starting"
                        /\ eg'[d].st \in AtWork => eg[d].st \in AtWork
  BY WorkerMoves DEF AtWork
<1>3. SeenTrue'
  <2>1. \A c \in Caller : \A l \in call[c].seen : l.id \in Egress
    BY DEF Typed, Call, Line
  <2> QED
    BY <1>0, <1>2, <2>1 DEF Told, SeenTrue
<1>4. StopReaches'
  <2>1. Alive' \subseteq Alive
    BY <1>2 DEF Alive
  <2> QED
    BY <1>0, <2>1, NoiseStays DEF Told, StopReaches
<1> QED
  BY <1>1, <1>3, <1>4 DEF Told

\* Every step keeps it true.
LEMMA ToldNext == Typed /\ Told /\ [Next]_vars => Told'
<1> SUFFICES ASSUME Typed, Told, [Next]_vars PROVE Told'
  BY SMT
<1>1. ASSUME NEW c \in Caller,
             \/ StartRequest(c) \/ StopRequest(c) \/ ListFails(c)
             \/ Check(c) \/ Start(c) \/ Stop(c)
      PROVE  Told'
  <2>1. UNCHANGED <<eg, list, launched>>
    BY <1>1
       DEF StartRequest, StopRequest, ListFails, Check, Start, Stop, livekit, memory
  <2>2. abandoned' = abandoned \cap Listed \/ UNCHANGED abandoned
    BY <1>1 DEF StartRequest, StopRequest, ListFails, Check, Start, Stop, Prune, memory
  <2>3. noise \subseteq noise'
    BY <1>1, Upset DEF StartRequest, StopRequest, ListFails, Check, Start, Stop, Enters
  <2>4. \/ Return(c)
        \/ \E pc, op : Goto(c, pc, op, {})
        \/ \E op : Goto(c, "stop", op, LiveForRoom)
    BY <1>1 DEF StartRequest, StopRequest, ListFails, Check, Start, Stop, Enters
  <2>5. \A d \in Caller : \A l \in call'[d].seen :
           l \in call[d].seen \/ l \in LiveForRoom
    BY SMT, <2>4, ReturnMoves, GotoMoves, IdleCall
  <2> QED
    BY <2>1, <2>2, <2>3, <2>5, TalkTold
<1>2. CASE Tick
  <2>1. UNCHANGED <<eg, list, launched, abandoned, noise>> /\ "watchdog" \in Caller
        /\ Goto("watchdog", "list", "check", {})
    BY <1>2 DEF Tick, Caller, livekit, memory
  <2>2. \A d \in Caller : \A l \in call'[d].seen : l \in call[d].seen
    BY SMT, <2>1, GotoMoves
  <2> QED
    BY <2>1, <2>2, TalkTold
<1>3. CASE Restart
  <2>1. /\ UNCHANGED <<eg, list>> /\ abandoned' = {} /\ noise \subseteq noise'
        /\ "crash" \in noise' /\ \A c \in Caller : call'[c] = Idle
    BY <1>3, Upset DEF Restart, livekit
  <2>2. ASSUME NEW e \in Egress PROVE Looks(e)'
    <3>1. Looks(e)
      BY DEF Told
    <3> QED
      BY <2>1, <3>1 DEF Looks
  <2>3. SeenTrue' /\ StopReaches'
    BY <2>1, IdleCall DEF SeenTrue, StopReaches
  <2> QED
    BY <2>2, <2>3 DEF Told
<1>4. CASE Freeze
  <2>1. /\ UNCHANGED <<eg, launched, abandoned, call, noise>>
        /\ \A e \in Egress : eg[e].st # "writing"
    BY <1>4 DEF Freeze, livekit, core, memory
  <2> QED
    BY <2>1 DEF Told, Looks, SeenTrue, StopReaches, Alive, Unknown
<1>5. CASE UNCHANGED vars
  BY <1>5 DEF vars, livekit, memory, Told, Looks, SeenTrue, StopReaches, Alive, Unknown
<1> QED
  BY <1>1, <1>2, <1>3, <1>4, <1>5, StopTold, LaunchTold, WorkerTold
     DEF Next, Step, Passing, Ended, Worker

\* A Stop reaches what runs, whatever fails (hls.go, Stop and liveForRoom):
\* what abandoned hides is dead, unless a failed stop left it at work.
THEOREM Reached == Spec => []StopReaches
<1>1. Init => Told
  BY IdleCall, NoneInfo DEF Init, Told, Looks, SeenTrue, StopReaches, Alive, AtWork
<1>2. Told => StopReaches
  BY DEF Told
<1> QED
  BY TypeInit, TypeNext, ToldNext, <1>1, <1>2, PTL DEF Spec

-----------------------------------------------------------------------------
(* What a Start has cleared away *)

\* A Start that loops over its listing has in it all that is not given up;
\* when it comes to launch, everything listed is given up.
Clear(c) ==
    call[c].op = "start" =>
        /\ call[c].pc = "stop" => Listed \subseteq abandoned \cup Ids(call[c].seen)
        /\ call[c].pc = "launch" => Listed \subseteq abandoned

\* One Start at a time, and what it has cleared stays cleared.
Cleared ==
    \/ "overlap" \in noise
    \/ /\ \A c, d \in Caller : call[c].op = "start" /\ call[d].op = "start" => c = d
       /\ \A c \in Caller : Clear(c)

\* No step but a launch and a restart lists an egress or takes a listed one
\* out of abandoned, or puts one to work.
Shrinks ==
    /\ Listed' \subseteq Listed /\ Alive' \subseteq Alive
    /\ abandoned \cap Listed \subseteq abandoned' /\ noise \subseteq noise'

\* So it is.
LEMMA Shrinking ==
    ASSUME Typed, [Next]_vars, \A c \in Caller : ~Launch(c), ~Restart
    PROVE  Shrinks
<1>1. ASSUME NEW c \in Caller,
             \/ StartRequest(c) \/ StopRequest(c) \/ ListFails(c)
             \/ Check(c) \/ Start(c) \/ Stop(c)
      PROVE  Shrinks
  <2>1. UNCHANGED eg /\ (Prune \/ UNCHANGED abandoned)
    BY <1>1
       DEF StartRequest, StopRequest, ListFails, Check, Start, Stop, livekit, memory
  <2>2. noise \subseteq noise'
    BY <1>1, Upset DEF StartRequest, StopRequest, ListFails, Check, Start, Stop, Enters
  <2> QED
    BY <2>1, <2>2 DEF Shrinks, Listed, Alive, Prune
<1>2. ASSUME NEW c \in Caller, Replace(c) \/ StopOne(c) PROVE Shrinks
  <2>1. PICK l \in call[c].seen, ok \in BOOLEAN, kind \in {"replace", "stop"} :
          StopEgress(l.id, ok, kind) /\ (Abandon(l.id) \/ UNCHANGED memory)
    BY <1>2 DEF Replace, StopOne
  <2>2. l.id \in Egress
    BY DEF Typed, Call, Line
  <2>3. \A d \in Egress : /\ eg'[d].st # "none" => eg[d].st # "none"
                          /\ eg'[d].st \in AtWork => eg[d].st \in AtWork
    BY <2>1, <2>2, StopMoves DEF AtWork
  <2>4. noise \subseteq noise'
    BY <2>1, <2>2, StopMoves
  <2> QED
    BY <2>1, <2>3, <2>4 DEF Shrinks, Listed, Alive, Abandon, memory
<1>3. ASSUME NEW e \in Egress, Worker(e) PROVE Shrinks
  <2>1. \A d \in Egress : /\ eg'[d].st # "none" => eg[d].st # "none"
                          /\ eg'[d].st \in AtWork => eg[d].st \in AtWork
    BY <1>3, WorkerMoves DEF AtWork
  <2>2. UNCHANGED abandoned /\ noise \subseteq noise'
    BY <1>3, WorkerMoves
  <2> QED
    BY <2>1, <2>2 DEF Shrinks, Listed, Alive
<1>4. CASE Tick \/ Freeze \/ UNCHANGED vars
  BY <1>4 DEF Tick, Freeze, vars, livekit, core, memory, Shrinks, Listed, Alive
<1> QED
  BY <1>1, <1>2, <1>3, <1>4 DEF Next, Step, Passing, Ended, Worker

\* What such a step leaves to a Start that does not move in it.
LEMMA ClearStays ==
    ASSUME NEW c \in Caller, Clear(c), Shrinks, call'[c] = call[c]
    PROVE  Clear(c)'
  BY DEF Clear, Shrinks

\* Every step keeps it so.
LEMMA ClearedNext == Typed /\ Cleared /\ [Next]_vars => Cleared'
<1> SUFFICES ASSUME Typed, Cleared, [Next]_vars, "overlap" \notin noise' PROVE Cleared'
  BY DEF Cleared
<1>1. CASE Restart
  BY <1>1, IdleCall DEF Restart, Cleared, Clear
<1>2. ASSUME NEW c \in Caller, Launch(c) PROVE Cleared'
  <2>1. /\ noise \subseteq noise' /\ call[c].pc = "launch" /\ Return(c)
    BY <1>2, LaunchMoves
  <2>2. /\ call[c].op = "start" /\ call'[c] = Idle
        /\ \A d \in Caller : d # c => call'[d] = call[d]
    BY <2>1, ReturnMoves DEF Typed
  <2>3. \A d \in Caller : call'[d].op # "start"
    BY <2>1, <2>2, IdleCall DEF Cleared
  <2> QED
    BY <2>3 DEF Cleared, Clear
<1>3. CASE ~Restart /\ \A c \in Caller : ~Launch(c)
  <2>0. Shrinks
    BY <1>3, Shrinking
  <2>1. /\ \A c, d \in Caller : call[c].op = "start" /\ call[d].op = "start" => c = d
        /\ \A c \in Caller : Clear(c)
    BY <2>0 DEF Cleared, Shrinks
  <2>2. ASSUME NEW c \in Caller, \A d \in Caller : d # c => call'[d] = call[d],
               call'[c].op = "start" =>
                  call[c].op = "start" \/ \A d \in Caller : d # c => call[d].op # "start",
               Clear(c)'
        PROVE  Cleared'
    <3>1. \A d \in Caller : Clear(d)'
      BY <2>0, <2>1, <2>2, ClearStays
    <3>2. \A b, d \in Caller : call'[b].op = "start" /\ call'[d].op = "start" => b = d
      BY <2>1, <2>2
    <3> QED
      BY <3>1, <3>2 DEF Cleared
  <2>3. ASSUME NEW c \in Caller, Enters(c) PROVE Cleared'
    <3>1. Goto(c, "list", "start", {})
      BY <2>3 DEF Enters
    <3>2. \A d \in Caller : d # c => call[d].op # "start"
      BY <2>3, Upset DEF Enters
    <3>3. /\ \A d \in Caller : d # c => call'[d] = call[d]
          /\ call'[c].pc = "list"
      BY <3>1, GotoMoves
    <3>4. Clear(c)'
      BY <3>3 DEF Clear
    <3> QED
      BY <2>2, <3>2, <3>3, <3>4
  <2>4. ASSUME NEW c \in Caller, Return(c) PROVE Cleared'
    <3>1. \A d \in Caller : d # c => call'[d] = call[d]
      BY <2>4, ReturnMoves
    <3>2. call'[c].op # "start"
      BY <2>4, ReturnMoves, IdleCall
    <3> QED
      BY <2>2, <3>1, <3>2 DEF Clear
  <2>5. ASSUME NEW c \in Caller, NEW pc, NEW op, NEW seen, Goto(c, pc, op, seen),
               op # "start"
        PROVE  Cleared'
    <3>1. \A d \in Caller : d # c => call'[d] = call[d]
      BY <2>5, GotoMoves
    <3>2. call'[c].op # "start"
      BY <2>5, GotoMoves
    <3> QED
      BY SMT, <2>2, <3>1, <3>2 DEF Clear
  <2>6. ASSUME NEW c \in Caller, StartRequest(c) \/ StopRequest(c) \/ ListFails(c)
        PROVE  Cleared'
    BY <2>3, <2>4, <2>5, <2>6 DEF StartRequest, StopRequest, ListFails
  <2>7. ASSUME NEW c \in Caller, Check(c) \/ Stop(c) PROVE Cleared'
    BY <2>3, <2>4, <2>5, <2>7 DEF Check, Stop
  <2>8. ASSUME NEW c \in Caller, Start(c) PROVE Cleared'
    <3>0. call[c].op = "start"
      BY <2>8 DEF Start
    <3>1. CASE Goto(c, "stop", "start", LiveForRoom)
      <4>1. /\ \A d \in Caller : d # c => call'[d] = call[d]
            /\ call'[c].pc = "stop" /\ call'[c].seen = LiveForRoom
        BY SMT, <3>1, GotoMoves
      <4>2. Listed' \subseteq abandoned' \cup Ids(LiveForRoom)
        BY <2>0, Lines DEF Shrinks
      <4>3. Clear(c)'
        BY <4>1, <4>2 DEF Clear, Ids
      <4> QED
        BY <2>2, <3>0, <4>1, <4>3
    <3>2. CASE LiveForRoom = {} /\ Goto(c, "launch", "start", {})
      <4>1. /\ \A d \in Caller : d # c => call'[d] = call[d]
            /\ call'[c].pc = "launch"
        BY <3>2, GotoMoves
      <4>2. Listed' \subseteq abandoned'
        BY <2>0, <3>2, Lines DEF Shrinks, Ids
      <4>3. Clear(c)'
        BY <4>1, <4>2 DEF Clear
      <4> QED
        BY <2>2, <3>0, <4>1, <4>3
    <3> QED
      BY <2>4, <2>8, <3>1, <3>2 DEF Start
  <2>9. ASSUME NEW c \in Caller, Replace(c) PROVE Cleared'
    <3>1. PICK l \in call[c].seen : Abandon(l.id) /\ Stopped(c, l)
      BY <2>9 DEF Replace
    <3>2. call[c].pc = "stop" /\ call[c].op = "start"
      BY <2>9 DEF Replace
    <3>3. Listed' \subseteq abandoned' \cup Ids(call[c].seen \ {l})
      BY SMT, <2>0, <2>1, <3>1, <3>2 DEF Clear, Ids, Abandon, Shrinks
    <3>4. Clear(c)'
      <4>1. CASE call'[c].pc = "stop" /\ call'[c].seen = call[c].seen \ {l}
        BY <3>3, <4>1 DEF Clear, Ids
      <4>2. CASE call[c].seen = {l} /\ call'[c].pc = "launch"
        BY <3>3, <4>2 DEF Clear, Ids
      <4>3. CASE call'[c] = Idle
        BY <4>3, IdleCall DEF Clear
      <4> QED
        BY <3>1, <3>2, <4>1, <4>2, <4>3, StoppedMoves
    <3> QED
      BY <2>2, <3>1, <3>2, <3>4, StoppedMoves
  <2>10. ASSUME NEW c \in Caller, StopOne(c) PROVE Cleared'
    <3>1. PICK l \in call[c].seen : Stopped(c, l)
      BY <2>10 DEF StopOne
    <3>2. call[c].pc = "stop" /\ call[c].op = "stop"
      BY <2>10 DEF StopOne
    <3>3. call'[c].op # "start" /\ \A d \in Caller : d # c => call'[d] = call[d]
      BY <3>1, <3>2, StoppedMoves, IdleCall
    <3> QED
      BY <2>2, <3>3 DEF Clear
  <2>11. CASE Tick
    BY <2>5, <2>11 DEF Tick, Caller
  <2>12. ASSUME UNCHANGED call PROVE Cleared'
    BY <2>0, <2>1, <2>12, ClearStays DEF Cleared
  <2>13. ASSUME NEW e \in Egress, Worker(e) PROVE Cleared'
    BY <2>12, <2>13, WorkerMoves
  <2>14. CASE Freeze \/ UNCHANGED vars
    BY <2>12, <2>14 DEF Freeze, core, vars
  <2> QED
    BY <1>3, <2>6, <2>7, <2>8, <2>9, <2>10, <2>11, <2>13, <2>14
       DEF Next, Step, Passing, Ended, Worker
<1> QED
  BY <1>1, <1>2, <1>3

\* No two egresses are at work, as OneWriter says.
Lone ==
    \/ noise \cap {"overlap", "replace"} # {}
    \/ Unknown /\ "stop" \in noise
    \/ \A d, e \in Alive : d = e

\* Every step keeps it so: where a Start launches, nothing is at work.
LEMMA LoneNext == Typed /\ Told /\ Cleared /\ Lone /\ [Next]_vars => Lone'
<1> SUFFICES ASSUME Typed, Told, Cleared, Lone, [Next]_vars PROVE Lone'
  OBVIOUS
<1>1. CASE Restart
  <2>1. Alive' = Alive /\ noise \subseteq noise'
    BY <1>1, Upset DEF Restart, livekit, Alive
  <2> QED
    BY <2>1, NoiseStays DEF Lone
<1>2. ASSUME NEW c \in Caller, Launch(c) PROVE Lone'
  <2>1. PICK e \in Fresh : /\ \A d \in Egress : d # e => eg'[d] = eg[d]
                           /\ noise \subseteq noise' /\ call[c].pc = "launch"
    BY <1>2, LaunchMoves
  <2>2. "overlap" \in noise \/ Listed \subseteq abandoned
    BY <2>1 DEF Cleared, Clear, Typed
  <2>3. Alive' \subseteq Alive \cup {e} /\ Alive \subseteq Listed
    BY <2>1 DEF Alive, Listed, AtWork
  <2>4. \/ noise \cap {"overlap", "replace"} # {}
        \/ Unknown /\ "stop" \in noise
        \/ Alive = {}
    BY <2>2, <2>3 DEF Told, StopReaches
  <2> QED
    BY <2>1, <2>3, <2>4, NoiseStays DEF Lone
<1>3. CASE ~Restart /\ \A c \in Caller : ~Launch(c)
  BY <1>3, Shrinking, NoiseStays DEF Shrinks, Lone
<1> QED
  BY <1>1, <1>2, <1>3

INSTANCE FiniteSetTheorems

\* A set whose members are all the same has at most one.
LEMMA AtMostOne ==
    ASSUME NEW S, \A d, e \in S : d = e
    PROVE  Cardinality(S) <= 1
<1>1. CASE S = {}
  BY SMT, <1>1, FS_EmptySet
<1>2. CASE S # {}
  <2>1. PICK e : S = {e}
    BY SMT, <1>2
  <2> QED
    BY SMT, <2>1, FS_Singleton
<1> QED
  BY <1>1, <1>2

\* "Never two egresses writing one room" (hls.go, Start): with any number of
\* corpses, slow starts, stops in between, failed calls and restarts.
THEOREM Single == Spec => []OneWriter
<1>1. Init => Told /\ Cleared /\ Lone
  BY IdleCall, NoneInfo
     DEF Init, Told, Looks, SeenTrue, StopReaches, Alive, AtWork, Cleared, Clear, Lone
<1>2. Lone => OneWriter
  BY AtMostOne DEF Lone, OneWriter
<1> QED
  BY TypeInit, TypeNext, ToldNext, ClearedNext, LoneNext, <1>1, <1>2, PTL DEF Spec

-----------------------------------------------------------------------------
(* What a Start replaces *)

\* Beside an egress at work that is not given up, all that is listed is.
Sole ==
    \/ noise \cap {"overlap", "crash"} # {}
    \/ \A e \in Alive \ abandoned : Listed \ {e} \subseteq abandoned

\* What a Start is about to stop is not at work.
DeadOnly ==
    \/ noise \cap {"overlap", "crash"} # {}
    \/ Unknown
    \/ \A c \in Caller : call[c].op = "start" /\ call[c].pc = "stop"
                         => Ids(call[c].seen) \cap Alive = {}

\* Every step keeps the first.
LEMMA SoleNext == Typed /\ Cleared /\ Sole /\ [Next]_vars => Sole'
<1> SUFFICES ASSUME Typed, Cleared, Sole, [Next]_vars PROVE Sole'
  OBVIOUS
<1>0. Alive \subseteq Listed /\ Alive' \subseteq Listed'
  BY DEF Alive, Listed, AtWork
<1>1. CASE Restart
  BY <1>1, Upset DEF Restart, Sole
<1>2. ASSUME NEW c \in Caller, Launch(c) PROVE Sole'
  <2>1. PICK e \in Fresh : /\ \A d \in Egress : d # e => eg'[d] = eg[d]
                           /\ abandoned' = abandoned \ {e}
                           /\ noise \subseteq noise' /\ call[c].pc = "launch"
    BY <1>2, LaunchMoves
  <2>2. "overlap" \in noise \/ Listed \subseteq abandoned
    BY <2>1 DEF Cleared, Clear, Typed
  <2>3. Listed' \subseteq Listed \cup {e}
    BY <2>1 DEF Listed
  <2> QED
    BY <1>0, <2>1, <2>2, <2>3, NoiseStays DEF Sole
<1>3. CASE ~Restart /\ \A c \in Caller : ~Launch(c)
  <2>1. Shrinks
    BY <1>3, Shrinking
  <2> QED
    BY <1>0, <2>1, NoiseStays DEF Shrinks, Sole
<1> QED
  BY <1>1, <1>2, <1>3

\* What a Start that finds a stale egress lists is not at work.
LEMMA StaleStart ==
    ASSUME Typed, Told, Sole, NEW l \in LiveForRoom, Stale(l)
    PROVE  \/ noise \cap {"overlap", "crash"} # {}
           \/ Unknown
           \/ Ids(LiveForRoom) \cap Alive = {}
<1>1. l \in Line /\ l.id \in Egress /\ l.id \in Listed /\ l.id \notin abandoned
      /\ (l.active => eg[l.id].st # "starting")
  BY Lines DEF Listed
<1>2. Unknown \/ l.id \notin Alive
  BY <1>1, StaleAtWork DEF Told, Alive
<1>3. \A e \in Ids(LiveForRoom) : e \notin abandoned
  BY Lines DEF Ids
<1> QED
  BY <1>1, <1>2, <1>3 DEF Sole

\* Every step keeps the second.
LEMMA DeadOnlyNext == Typed /\ Told /\ Sole /\ DeadOnly /\ [Next]_vars => DeadOnly'
<1> SUFFICES ASSUME Typed, Told, Sole, DeadOnly, [Next]_vars,
                    noise' \cap {"overlap", "crash"} = {}, ~Unknown'
             PROVE  DeadOnly'
  BY DEF DeadOnly
<1>1. CASE Restart
  BY <1>1, Upset DEF Restart
<1>2. ASSUME NEW c \in Caller, Launch(c) PROVE DeadOnly'
  <2>1. PICK e \in Fresh : /\ \A d \in Egress : d # e => eg'[d] = eg[d]
                           /\ noise \subseteq noise' /\ Return(c)
    BY <1>2, LaunchMoves
  <2>2. \A d \in Caller : call'[d] = call[d] \/ call'[d] = Idle
    BY <2>1, ReturnMoves
  <2>3. Alive' \subseteq Alive \cup {e}
    BY <2>1 DEF Alive
  <2>4. \A d \in Caller : e \notin Ids(call[d].seen)
    BY DEF Fresh
  <2>5. \A d \in Caller : call[d].op = "start" /\ call[d].pc = "stop"
                          => Ids(call[d].seen) \cap Alive = {}
    BY <2>1, NoiseStays DEF DeadOnly
  <2>6. ASSUME NEW d \in Caller, call'[d].op = "start", call'[d].pc = "stop"
        PROVE  Ids(call'[d].seen) \cap Alive' = {}
    <3>1. call'[d] = call[d]
      BY <2>2, <2>6, IdleCall
    <3> QED
      BY <2>3, <2>4, <2>5, <2>6, <3>1
  <2> QED
    BY <2>6 DEF DeadOnly, Ids
<1>3. CASE ~Restart /\ \A c \in Caller : ~Launch(c)
  <2>0. Shrinks
    BY <1>3, Shrinking
  <2>1. \A d \in Caller : call[d].op = "start" /\ call[d].pc = "stop"
                          => Ids(call[d].seen) \cap Alive = {}
    BY <2>0, NoiseStays DEF DeadOnly, Shrinks
  <2>2. ASSUME \A d \in Caller :
                  \/ call'[d].op # "start"
                  \/ call'[d].pc # "stop"
                  \/ /\ call'[d].op = call[d].op /\ call'[d].pc = call[d].pc
                     /\ call'[d].seen \subseteq call[d].seen
                  \/ Ids(call'[d].seen) \cap Alive = {}
        PROVE  DeadOnly'
    BY <2>0, <2>1, <2>2 DEF DeadOnly, Ids, Shrinks
  <2>3. ASSUME NEW c \in Caller, Start(c) PROVE DeadOnly'
    <3>1. CASE Return(c) \/ Goto(c, "launch", "start", {})
      <4>1. call'[c].pc # "stop" /\ \A d \in Caller : d # c => call'[d] = call[d]
        BY SMT, <3>1, ReturnMoves, GotoMoves, IdleCall
      <4> QED
        BY <2>2, <4>1
    <3>2. CASE /\ \E l \in Newest(LiveForRoom) : Stale(l)
               /\ Goto(c, "stop", "start", LiveForRoom)
      <4>1. call'[c].seen = LiveForRoom /\ \A d \in Caller : d # c => call'[d] = call[d]
        BY <3>2, GotoMoves
      <4>2. Ids(LiveForRoom) \cap Alive = {}
        BY <2>0, <3>2, StaleStart, NewestIsListed, NoiseStays DEF Shrinks
      <4>3. Ids(call'[c].seen) \cap Alive = {}
        BY <4>1, <4>2
      <4> QED
        BY <2>2, <4>1, <4>3
    <3> QED
      BY <2>3, <3>1, <3>2 DEF Start
  <2>4. ASSUME NEW c \in Caller,
               \/ StartRequest(c) \/ StopRequest(c) \/ ListFails(c) \/ Check(c) \/ Stop(c)
        PROVE  DeadOnly'
    <3>1. \/ Return(c)
          \/ \E op : Goto(c, "list", op, {})
          \/ Goto(c, "stop", "stop", LiveForRoom)
      BY <2>4 DEF StartRequest, StopRequest, ListFails, Check, Stop, Enters
    <3>2. /\ \A d \in Caller : d # c => call'[d] = call[d]
          /\ call'[c].pc # "stop" \/ call'[c].op # "start"
      BY SMT, <3>1, ReturnMoves, GotoMoves, IdleCall
    <3> QED
      BY <2>2, <3>2
  <2>5. ASSUME NEW c \in Caller, Replace(c) \/ StopOne(c) PROVE DeadOnly'
    <3>1. PICK l \in call[c].seen : Stopped(c, l) /\ call[c].pc = "stop"
      BY <2>5 DEF Replace, StopOne
    <3>2. /\ \A d \in Caller : d # c => call'[d] = call[d]
          /\ \/ /\ call'[c].op = call[c].op /\ call'[c].pc = call[c].pc
                /\ call'[c].seen \subseteq call[c].seen
             \/ call'[c].pc # "stop"
      BY <3>1, StoppedMoves, IdleCall
    <3> QED
      BY <2>2, <3>2
  <2>6. CASE Tick
    <3>1. "watchdog" \in Caller /\ Goto("watchdog", "list", "check", {})
      BY <2>6 DEF Tick, Caller
    <3>2. /\ \A d \in Caller : d # "watchdog" => call'[d] = call[d]
          /\ call'["watchdog"].pc # "stop"
      BY SMT, <3>1, GotoMoves
    <3> QED
      BY <2>2, <3>2
  <2>7. ASSUME NEW e \in Egress, Worker(e) PROVE DeadOnly'
    BY <2>2, <2>7, WorkerMoves
  <2>8. CASE Freeze \/ UNCHANGED vars
    BY <2>2, <2>8 DEF Freeze, core, vars
  <2> QED
    BY <1>3, <2>3, <2>4, <2>5, <2>6, <2>7, <2>8 DEF Next, Step, Passing, Ended, Worker
<1> QED
  BY <1>1, <1>2, <1>3

\* Start replaces what is dead and never stops an egress at work (hls.go, Start
\* and stale), however late it comes to use its listing.
THEOREM DeadGo == Spec => OnlyTheDeadGo
<1>1. Init => Told /\ Cleared /\ Sole /\ DeadOnly
  BY IdleCall, NoneInfo
     DEF Init, Told, Looks, SeenTrue, StopReaches, Alive, AtWork, Cleared, Clear, Sole,
         DeadOnly
<1> DEFINE Goes == \A c \in Caller, e \in Egress :
              Replace(c) /\ eg[e].st \in AtWork /\ eg'[e].st = "ending" =>
                  noise \cap {"overlap", "crash"} # {} \/ Unknown
<1>2. Typed /\ DeadOnly => Goes
  <2> SUFFICES ASSUME Typed, DeadOnly, NEW c \in Caller, NEW e \in Egress,
                      Replace(c), eg[e].st \in AtWork, eg'[e].st = "ending"
               PROVE  noise \cap {"overlap", "crash"} # {} \/ Unknown
    OBVIOUS
  <2>1. PICK l \in call[c].seen, ok \in BOOLEAN : StopEgress(l.id, ok, "replace")
    BY DEF Replace
  <2>2. l.id \in Egress
    BY DEF Typed, Call, Line
  <2>3. e = l.id
    BY <2>1, <2>2, StopMoves DEF AtWork
  <2>4. e \in Ids(call[c].seen) \cap Alive
    BY <2>3 DEF Ids, Alive
  <2> QED
    BY <2>4 DEF DeadOnly, Replace
<1>3. Spec => [](Typed /\ DeadOnly)
  BY TypeInit, TypeNext, ToldNext, ClearedNext, SoleNext, DeadOnlyNext, <1>1, PTL DEF Spec
<1> QED
  BY <1>2, <1>3, PTL DEF OnlyTheDeadGo
==============================================================================
