--------------------------------- MODULE Hls ---------------------------------
(* The live HLS egress of one room: Hls.Start and Hls.Stop, called by        *)
(* requests, and the watchdog of an always-on app, over LiveKit's egresses   *)
(* and the playlist they write (internal/streams: hls.go, watchdog.go).      *)
(*                                                                           *)
(* No lock spans a call: a caller lists the egresses and judges them by its  *)
(* maps and the disk, then stops and launches one LiveKit call at a time.    *)
(* LiveKit goes on listing as active an egress whose worker died (a corpse)  *)
(* and cannot stop it; only the playlist tells.                              *)
EXTENDS Naturals, FiniteSets

CONSTANTS
    Egress,      \* egress ids; one nobody knows any more is used again
    Request,     \* callers of the API
    MaxCorpses,  \* corpses LiveKit lists at a time
    Env,         \* kinds of upset a run considers
    MaxNoise     \* how many of them a behaviour meets, each once

Noise == {"overlap", "list", "start", "stop", "replace", "crash",
          "unstamped"}
Caller == Request \cup {"watchdog"}

ASSUME EnvAssumption == Env \subseteq Noise /\ MaxNoise \in Nat
ASSUME RequestAssumption == "watchdog" \notin Request

VARIABLES
    eg,          \* LiveKit: the egresses
    order,       \* LiveKit: <<d, e>> when the started_at of d is before e's
    list,        \* disk: index.m3u8 and whether it was written lately
    abandoned,   \* Hls.abandoned
    launched,    \* Hls.launched, the entries within the startup grace
    call,        \* per caller: where it is and what it holds
    noise        \* upsets met so far

livekit == <<eg, order>>
memory == <<abandoned, launched>>
vars == <<livekit, list, memory, call, noise>>

\* An egress: stamped says LiveKit reports a started_at, young that it is
\* within the startup grace, wrote that the playlist changed after it.
None == [st |-> "none", stamped |-> FALSE, young |-> FALSE, wrote |-> FALSE]

\* Starting up, running without a segment yet, writing, being stopped, and
\* dead without LiveKit's noticing.
Listed == {e \in Egress : eg[e].st # "none"}
AtWork == {"starting", "active", "writing"}
Alive == {e \in Egress : eg[e].st \in AtWork}

\* A line of a listing, and the status in it.
Line == [id : Egress, active : BOOLEAN]
Ids(lines) == {l.id : l \in lines}

Idle == [pc |-> "idle", op |-> "none", seen |-> {}]

Init ==
    /\ eg = [e \in Egress |-> None] /\ order = {}
    /\ list = "none"
    /\ abandoned = {} /\ launched = {}
    /\ call = [c \in Caller |-> Idle]
    /\ noise = {}

Once(kind) ==
    /\ kind \in Env \ noise /\ Cardinality(noise) < MaxNoise
    /\ noise' = noise \cup {kind}

-----------------------------------------------------------------------------
(* What a caller makes of a listing.                                         *)

\* newestEgress: the latest started_at; without one, whichever is listed first.
Newest(lines) ==
    LET dated == {l \in lines : eg[l.id].stamped}
    IN  IF dated = {} THEN lines
        ELSE {l \in dated : \A k \in dated : <<l.id, k.id>> \notin order}

\* Mutant: the startup grace is not looked at.
StaleAtOnce(l) ==
    /\ l.active /\ list = "frozen" /\ (eg[l.id].stamped => eg[l.id].wrote)

\* stale: an active egress past its grace whose playlist, changed since it
\* started (if LiveKit says when), is not changing any more.
Stale(l) ==
    /\ l.active
    /\ l.id \notin launched
    /\ eg[l.id].stamped => ~eg[l.id].young /\ eg[l.id].wrote
    /\ list = "frozen"

-----------------------------------------------------------------------------
(* The callers.                                                              *)

Goto(c, pc, op, seen) ==
    call' = [call EXCEPT ![c] = [pc |-> pc, op |-> op, seen |-> seen]]
Return(c) == call' = [call EXCEPT ![c] = Idle]

\* A Start begins, beside another one perhaps.
Enters(c) ==
    /\ Goto(c, "list", "start", {})
    /\ IF \A d \in Caller \ {c} : call[d].op # "start"
       THEN UNCHANGED noise ELSE Once("overlap")

StartRequest(c) ==
    /\ c \in Request /\ call[c] = Idle
    /\ Enters(c)
    /\ UNCHANGED <<livekit, list, memory>>

StopRequest(c) ==
    /\ c \in Request /\ call[c] = Idle
    /\ Goto(c, "list", "stop", {})
    /\ UNCHANGED <<livekit, list, memory, noise>>

\* ReconcileOnce: passes never overlap, the one caller stands for them all.
Tick ==
    /\ call["watchdog"] = Idle
    /\ Goto("watchdog", "list", "check", {})
    /\ UNCHANGED <<livekit, list, memory, noise>>

\* ListHlsEgress, as LiveKit answers it.
ListHlsEgress ==
    {[id |-> e, active |-> eg[e].st \in {"active", "writing", "dead"}] :
        e \in Listed}

\* liveForRoom: what is listed and not abandoned; an abandoned egress that is
\* listed no more is forgotten.
LiveForRoom == {l \in ListHlsEgress : l.id \notin abandoned}
Prune == abandoned' = abandoned \cap Listed

\* Mutant: a failed listing is taken for an empty one.
ListFailsEmpty(c) ==
    /\ call[c].pc = "list" /\ Once("list")
    /\ IF call[c].op = "start" THEN Goto(c, "launch", "start", {}) ELSE Return(c)
    /\ UNCHANGED <<livekit, list, memory>>

\* A failed listing: Start answers the error, Stop finds nothing to stop, the
\* watchdog counts the room as served.
ListFails(c) ==
    /\ call[c].pc = "list" /\ Once("list")
    /\ Return(c)
    /\ UNCHANGED <<livekit, list, memory>>

\* Mutant: whatever is listed is alive.
CheckListed(c) ==
    /\ call[c].pc = "list" /\ call[c].op = "check"
    /\ IF LiveForRoom # {} THEN Return(c) /\ UNCHANGED noise ELSE Enters(c)
    /\ Prune
    /\ UNCHANGED <<livekit, list, launched>>

\* hasActiveHls: the watchdog starts where there is no egress or a stale one.
Check(c) ==
    /\ call[c].pc = "list" /\ call[c].op = "check"
    /\ \/ /\ \E l \in Newest(LiveForRoom) : ~Stale(l)
          /\ Return(c) /\ UNCHANGED noise
       \/ /\ LiveForRoom = {} \/ \E l \in Newest(LiveForRoom) : Stale(l)
          /\ Enters(c)
    /\ Prune
    /\ UNCHANGED <<livekit, list, launched>>

\* Start reuses the newest egress unless it is stale; then all of them go.
Start(c) ==
    /\ call[c].pc = "list" /\ call[c].op = "start"
    /\ \/ /\ \E l \in Newest(LiveForRoom) : ~Stale(l)
          /\ Return(c)
       \/ /\ \E l \in Newest(LiveForRoom) : Stale(l)
          /\ Goto(c, "stop", "start", LiveForRoom)
       \/ /\ LiveForRoom = {}
          /\ Goto(c, "launch", "start", {})
    /\ Prune
    /\ UNCHANGED <<livekit, list, launched, noise>>

\* Mutant: without the early return for an empty listing.
StopAll(c) ==
    /\ call[c].pc = "list" /\ call[c].op = "stop"
    /\ Goto(c, "stop", "stop", LiveForRoom)
    /\ Prune
    /\ UNCHANGED <<livekit, list, launched, noise>>

Stop(c) ==
    /\ call[c].pc = "list" /\ call[c].op = "stop"
    /\ IF LiveForRoom = {} THEN Return(c)
                           ELSE Goto(c, "stop", "stop", LiveForRoom)
    /\ Prune
    /\ UNCHANGED <<livekit, list, launched, noise>>

\* The loop over the listing: what follows the last egress is the launch, or
\* the answer.
Stopped(c, l) ==
    LET rest == call[c].seen \ {l}
    IN  IF rest # {} THEN Goto(c, "stop", call[c].op, rest)
        ELSE IF call[c].op = "start" THEN Goto(c, "launch", "start", {})
        ELSE Return(c)

\* StopEgress ends an egress at work, and fails for one that is gone or that
\* has no worker to hear it; LiveKit may fail for one at work too.
StopEgress(e, ok, kind) ==
    \/ /\ ok /\ eg[e].st \in AtWork \cup {"ending"}
       /\ eg' = [eg EXCEPT ![e].st = "ending"]
       /\ UNCHANGED noise
    \/ /\ ~ok /\ eg[e].st \in {"none", "dead"}
       /\ UNCHANGED <<eg, noise>>
    \/ /\ ~ok /\ eg[e].st \in AtWork /\ Once(kind)
       /\ UNCHANGED eg

Abandon(e) ==
    /\ abandoned' = abandoned \cup {e}
    /\ launched' = launched \ {e}

\* Start: stopped as far as LiveKit can, and given up in any case.  A listing
\* between the two would show an egress that is ending, or one no stop has
\* changed: its caller returns, or does what it would have done before.
Replace(c) ==
    /\ call[c].pc = "stop" /\ call[c].op = "start"
    /\ \E l \in call[c].seen :
          /\ \E ok \in BOOLEAN : StopEgress(l.id, ok, "replace")
          /\ Abandon(l.id)
          /\ Stopped(c, l)
    /\ UNCHANGED <<order, list>>

\* Mutant: Stop gives up an egress that did not stop, whatever its playlist.
StopOneGiveUp(c) ==
    /\ call[c].pc = "stop" /\ call[c].op = "stop"
    /\ \E l \in call[c].seen, ok \in BOOLEAN :
          /\ StopEgress(l.id, ok, "stop")
          /\ IF ~ok THEN Abandon(l.id) ELSE UNCHANGED memory
          /\ Stopped(c, l)
    /\ UNCHANGED <<order, list>>

\* Stop: an egress that does not stop is given up only if it is stale.
StopOne(c) ==
    /\ call[c].pc = "stop" /\ call[c].op = "stop"
    /\ \E l \in call[c].seen, ok \in BOOLEAN :
          /\ StopEgress(l.id, ok, "stop")
          /\ IF ~ok /\ Stale(l) THEN Abandon(l.id) ELSE UNCHANGED memory
          /\ Stopped(c, l)
    /\ UNCHANGED <<order, list>>

\* An id no caller holds; what the maps still say of it is about an egress
\* that is gone.
Fresh == {e \in Egress : /\ eg[e].st = "none"
                         /\ \A c \in Caller : e \notin Ids(call[c].seen)}

\* StartHlsEgress and the mark in launched.  A call that fails may have
\* started an egress all the same.
Launch(c) ==
    /\ call[c].pc = "launch" /\ Fresh # {}
    /\ LET e == CHOOSE f \in Fresh : TRUE
       IN  \E st \in {"none", "starting"} :
             /\ \/ /\ st = "starting" /\ launched' = launched \cup {e}
                   /\ UNCHANGED noise
                \/ Once("start") /\ UNCHANGED launched
             /\ eg' = [eg EXCEPT ![e] = [None EXCEPT !.st = st]]
             /\ abandoned' = abandoned \ {e}
    /\ Return(c)
    /\ UNCHANGED <<order, list>>

Step(c) ==
    \/ ListFails(c) \/ Check(c) \/ Start(c) \/ Stop(c)
    \/ Replace(c) \/ StopOne(c) \/ Launch(c)

\* The core restarts: its maps and its calls are gone.
Restart ==
    /\ Once("crash")
    /\ abandoned' = {} /\ launched' = {}
    /\ call' = [c \in Caller |-> Idle]
    /\ UNCHANGED <<livekit, list>>

-----------------------------------------------------------------------------
(* LiveKit, its egress workers and time.                                     *)

core == <<memory, call>>

\* The worker has joined the room; started_at is set, as a rule.
Activate(e) ==
    /\ eg[e].st = "starting"
    /\ \/ /\ eg' = [eg EXCEPT ![e] = [st |-> "active", stamped |-> TRUE,
                                      young |-> TRUE, wrote |-> FALSE]]
          /\ order' = order \cup ({d \in Egress : eg[d].stamped} \X {e})
          /\ UNCHANGED noise
       \/ /\ Once("unstamped")
          /\ eg' = [eg EXCEPT ![e].st = "active"]
          /\ UNCHANGED order
    /\ UNCHANGED <<list, core>>

\* A segment lands and the playlist with it, after every start there was.
Segment(e) ==
    /\ eg[e].st \in {"active", "writing"}
    /\ eg' = [d \in Egress |->
                [eg[d] EXCEPT !.st = IF d = e THEN "writing" ELSE @,
                              !.wrote = eg[d].stamped]]
    /\ list' = "fresh"
    /\ UNCHANGED <<order, core, noise>>

\* Three segment durations without a segment: no egress is writing.
Freeze ==
    /\ list = "fresh" /\ \A e \in Egress : eg[e].st # "writing"
    /\ list' = "frozen"
    /\ UNCHANGED <<livekit, core, noise>>

\* The startup grace passes, since started_at or, where there is none, since
\* the launch: an egress at work has its first segment by then.
GracePassed(e) ==
    /\ eg[e].young \/ e \in launched
    /\ eg[e].st \notin {"starting", "active"}
    /\ eg' = [eg EXCEPT ![e].young = FALSE]
    /\ launched' = launched \ {e}
    /\ UNCHANGED <<order, list, abandoned, call, noise>>

\* The worker dies and LiveKit does not notice.
Die(e) ==
    /\ eg[e].st \in {"active", "writing"}
    /\ Cardinality({d \in Egress : eg[d].st = "dead"}) < MaxCorpses
    /\ eg' = [eg EXCEPT ![e].st = "dead"]
    /\ UNCHANGED <<order, list, core, noise>>

\* LiveKit stops listing an egress: it ended, failed, or was found dead.
Gone(e) ==
    /\ eg[e].st # "none"
    /\ eg' = [eg EXCEPT ![e] = None]
    /\ order' = {pair \in order : pair[1] # e /\ pair[2] # e}
    /\ launched' = launched \ {e}
    /\ UNCHANGED <<list, abandoned, call, noise>>

Ended(e) == eg[e].st = "ending" /\ Gone(e)

\* What LiveKit and time do sooner or later.
Passing(e) == Activate(e) \/ Segment(e) \/ GracePassed(e) \/ Ended(e)

Next ==
    \/ \E c \in Caller : StartRequest(c) \/ StopRequest(c) \/ Step(c)
    \/ Tick \/ Restart \/ Freeze
    \/ \E e \in Egress : Passing(e) \/ Die(e) \/ Gone(e)

Spec == Init /\ [][Next]_vars

\* Goroutines go on, the ticker ticks, LiveKit starts and ends what it was
\* asked to, and time passes.  Nothing makes a request come.
Fairness ==
    /\ WF_vars(Tick \/ Step("watchdog"))
    /\ WF_vars(\E c \in Request : Step(c))
    /\ WF_vars(Freeze \/ \E e \in Egress : Passing(e))

FairSpec == Spec /\ Fairness

-----------------------------------------------------------------------------
(* Properties.                                                               *)

TypeOK ==
    /\ eg \in [Egress -> [st : AtWork \cup {"none", "ending", "dead"},
                          stamped : BOOLEAN, young : BOOLEAN, wrote : BOOLEAN]]
    /\ order \subseteq Egress \X Egress
    /\ \A d, e \in Egress : eg[d].stamped /\ eg[e].stamped /\ d # e
                            => <<d, e>> \in order \/ <<e, d>> \in order
    /\ list \in {"none", "fresh", "frozen"}
    /\ abandoned \subseteq Egress /\ launched \subseteq Egress
    /\ \A c \in Caller :
          /\ call[c].pc \in {"idle", "list", "stop", "launch"}
          /\ call[c].op \in {"none", "check", "start", "stop"}
          /\ call[c].seen \subseteq Line
          /\ call[c].pc = "stop" => call[c].seen # {}
    /\ noise \subseteq Noise

\* LiveKit reported an active egress without its started_at, and launched,
\* which would tell that it is starting up, has lost it or never had it.
Unknown == "unstamped" \in noise /\ noise \cap {"start", "crash"} # {}

\* "Never two egresses writing one room", as long as Starts do not overlap
\* and no stop fails of an egress at work that is being replaced or that
\* nothing tells from a corpse: not through corpses, slow starts, stops in
\* between, failed calls or a restart of the core.
OneWriter ==
    \/ noise \cap {"overlap", "replace"} # {}
    \/ Unknown /\ "stop" \in noise
    \/ Cardinality(Alive) <= 1

\* Start replaces what is dead: it never stops an egress that is at work,
\* unless the maps that tell it apart were lost, two Starts overlapped or
\* nothing says when the egress started.
OnlyTheDeadGo ==
    [][\A c \in Caller, e \in Egress :
          Replace(c) /\ eg[e].st \in AtWork /\ eg'[e].st = "ending" =>
              noise \cap {"overlap", "crash"} # {} \/ Unknown]_vars

\* A Stop reaches what runs: no egress at work is in abandoned, the map every
\* lookup skips, unless LiveKit failed to stop it when it was replaced.  A
\* Stop that fails does not give up an egress at work, but for one that
\* nothing tells from a corpse.
StopReaches ==
    \/ abandoned \cap Alive = {}
    \/ "replace" \in noise
    \/ Unknown /\ "stop" \in noise

\* A corpse nothing on the disk tells from a live egress: it died before it
\* changed the playlist.
NoEvidence ==
    \E e \in Egress \ abandoned :
        /\ eg[e].st = "dead"
        /\ list = "none" \/ (eg[e].stamped /\ ~eg[e].wrote)

\* An always-on room is served again after every death, stop and failure:
\* again and again an egress is at work, or one died leaving no evidence.
RoomServed == []<>(Alive # {} \/ NoEvidence)
=============================================================================
