------------------------- MODULE RestreamPushProofs -------------------------
(***************************************************************************)
(* How a restream destination passes from one holder to the next.          *)
(*                                                                         *)
(* A destination is held by one thing at a time: the egress that pushes to *)
(* it, the webhook that reports its failure, the handler of that webhook,  *)
(* the timer it arms and the retry the timer starts.  Held says so; it is  *)
(* the inductive invariant behind OnePush and RetriesBounded.  The lemmas  *)
(* here say what each kind of step does to it, whatever the number of      *)
(* rows, egresses and handlers; RestreamProofs takes the actions through   *)
(* them one by one.                                                        *)
(*                                                                         *)
(* A webhook delivered twice would hold its destination twice, so the      *)
(* lemmas assume that none is.                                             *)
(***************************************************************************)
EXTENDS Restream, TLAPS

\* Zenon is the prover of a leaf that names none; the leaves with arithmetic,
\* records or many cases name SMT.
USE Zenon

-----------------------------------------------------------------------------
(* What a step moves *)

\* The steps and what is held at them are stated in terms of the fields read.
\* Of handler p:
At(p) == h[p].pc
RowOf(p) == h[p].id
EgressOf(p) == h[p].eg
EventOf(p) == h[p].ev
TriesOf(p) == h[p].n
\* Of egress e, of row i and of its timers:
StateOf(e) == egress[e].st
ForRow(e) == egress[e].id
StatusOf(i) == row[i].st
PushOf(i) == row[i].eg
RetriesOf(i) == row[i].retries
Armed(i) == timers[i]

\* What a step leaves as it was.
Stays(p) == /\ At(p)' = At(p) /\ RowOf(p)' = RowOf(p) /\ EgressOf(p)' = EgressOf(p)
            /\ EventOf(p)' = EventOf(p) /\ TriesOf(p)' = TriesOf(p)
EgressStays(e) == StateOf(e)' = StateOf(e) /\ ForRow(e)' = ForRow(e)
RowStays(i) == /\ StatusOf(i)' = StatusOf(i) /\ PushOf(i)' = PushOf(i)
               /\ RetriesOf(i)' = RetriesOf(i)
Others(p) == \A q \in Slot : q # p => Stays(q)

\* Handler p goes on at pc with row i and egress e.
Moves(p, pc, i, e) == Others(p) /\ At(p)' = pc /\ RowOf(p)' = i /\ EgressOf(p)' = e

\* Where a handler knows its egress, and where it knows its row.
WithEgress == {"insert", "map", "mark", "stop", "app", "row", "active", "failed",
               "drop", "stopped", "fire", "setEgress"}
WithRow == {"failed", "drop", "retry", "relaunch", "bump", "again", "setEgress"}

\* Add, Remove and a retry use an egress that LiveKit gave or a row names; a
\* webhook and a retry write a row they found.
Knows ==
    \A p \in Slot : /\ At(p) \in WithEgress => EgressOf(p) \in Egress
                    /\ At(p) \in WithRow => RowOf(p) \in Id

\* Handler p goes on with the egress LiveKit started.
Takes(p, pc, e) == h' = [h EXCEPT ![p].pc = pc, ![p].eg = e]

\* The fields of the empty handler.
LEMMA IdleFields ==
    Idle.pc = "idle" /\ Idle.id = 0 /\ Idle.eg = 0 /\ Idle.ev = "active"
  BY DEF Idle

\* What a handler that ends, goes on or takes an egress becomes.
LEMMA EndMoves ==
    ASSUME h \in [Slot -> Handler], NEW p \in Slot, End(p)
    PROVE  Moves(p, "idle", 0, 0) /\ EventOf(p)' = "active"
  BY IdleFields DEF End, Moves, Others, Stays, At, RowOf, EgressOf, EventOf, TriesOf

\* One that goes to its next step, pc.
LEMMA GoMoves ==
    ASSUME h \in [Slot -> Handler], NEW p \in Slot, NEW pc, Go(p, pc)
    PROVE  /\ Moves(p, pc, RowOf(p), EgressOf(p))
           /\ EventOf(p)' = EventOf(p) /\ TriesOf(p)' = TriesOf(p)
<1>1. h[p] \in Handler
  OBVIOUS
<1>2. h' = [h EXCEPT ![p] = [h[p] EXCEPT !.pc = pc]]
  BY DEF Go
<1>3. /\ [h[p] EXCEPT !.pc = pc].pc = pc
      /\ [h[p] EXCEPT !.pc = pc].id = h[p].id
      /\ [h[p] EXCEPT !.pc = pc].eg = h[p].eg
      /\ [h[p] EXCEPT !.pc = pc].ev = h[p].ev
      /\ [h[p] EXCEPT !.pc = pc].n = h[p].n
  BY <1>1 DEF Handler
<1> QED
  BY <1>2, <1>3 DEF Moves, Others, Stays, At, RowOf, EgressOf, EventOf, TriesOf

\* One that takes the egress LiveKit started.
LEMMA LaunchMoves ==
    ASSUME h \in [Slot -> Handler], NEW p \in Slot, NEW pc, NEW e, Takes(p, pc, e)
    PROVE  /\ Moves(p, pc, RowOf(p), e)
           /\ EventOf(p)' = EventOf(p) /\ TriesOf(p)' = TriesOf(p)
<1>1. h[p] \in Handler
  OBVIOUS
<1>2. h' = [h EXCEPT ![p] = [h[p] EXCEPT !.pc = pc, !.eg = e]]
  BY DEF Takes
<1>3. /\ [h[p] EXCEPT !.pc = pc, !.eg = e].pc = pc
      /\ [h[p] EXCEPT !.pc = pc, !.eg = e].id = h[p].id
      /\ [h[p] EXCEPT !.pc = pc, !.eg = e].eg = e
      /\ [h[p] EXCEPT !.pc = pc, !.eg = e].ev = h[p].ev
      /\ [h[p] EXCEPT !.pc = pc, !.eg = e].n = h[p].n
  BY <1>1 DEF Handler
<1> QED
  BY <1>2, <1>3 DEF Moves, Others, Stays, At, RowOf, EgressOf, EventOf, TriesOf

\* What the handlers that arrive begin with.
LEMMA ReceiveMoves ==
    ASSUME h \in [Slot -> Handler], NEW p \in Slot, NEW m, Receive(p, m)
    PROVE  Moves(p, "app", 0, m.eg) /\ EventOf(p)' = m.ev
<1> DEFINE g == [Idle EXCEPT !.pc = "app", !.eg = m.eg, !.ev = m.ev,
                             !.ours = m.ours]
<1>1. g.pc = "app" /\ g.id = 0 /\ g.eg = m.eg /\ g.ev = m.ev
  BY DEF Idle
<1>2. h' = [h EXCEPT ![p] = g]
  BY DEF Receive
<1> HIDE DEF g
<1> QED
  BY <1>1, <1>2 DEF Moves, Others, Stays, At, RowOf, EgressOf, EventOf, TriesOf

\* Remove holds the newest row of the egress.
LEMMA RemoveMoves ==
    ASSUME h \in [Slot -> Handler], NEW p \in Slot, NEW e \in Egress, Remove(p, e)
    PROVE  \E i \in ByEgressID(e) : Moves(p, "mark", i, e)
<1>1. PICK i \in ByEgressID(e) :
        h' = [h EXCEPT ![p] = [Idle EXCEPT !.pc = "mark", !.id = i, !.eg = e,
                                           !.live = row[i].st \in Live]]
  BY DEF Remove
<1> DEFINE g == [Idle EXCEPT !.pc = "mark", !.id = i, !.eg = e,
                             !.live = row[i].st \in Live]
<1>2. g.pc = "mark" /\ g.id = i /\ g.eg = e
  BY DEF Idle
<1>3. h' = [h EXCEPT ![p] = g]
  BY <1>1
<1> HIDE DEF g
<1> QED
  BY <1>2, <1>3 DEF Moves, Others, Stays, At, RowOf, EgressOf, EventOf, TriesOf

\* A retry ends at once unless its row is failed.
LEMMA RetryMoves ==
    ASSUME h \in [Slot -> Handler], NEW p \in Slot, NEW i \in Id, Retry(p, i)
    PROVE  \/ End(p)
           \/ /\ StatusOf(i) = "failed" /\ Moves(p, "relaunch", i, 0)
              /\ TriesOf(p)' = RetriesOf(i) + 1
<1>1. CASE row[i].st # "failed"
  BY <1>1 DEF Retry, End
<1>2. CASE row[i].st = "failed"
  <2> DEFINE g == [Idle EXCEPT !.pc = "relaunch", !.id = i,
                               !.url = row[i].url, !.n = row[i].retries + 1]
  <2>1. g.pc = "relaunch" /\ g.id = i /\ g.eg = 0 /\ g.n = row[i].retries + 1
    BY DEF Idle
  <2>2. h' = [h EXCEPT ![p] = g]
    BY <1>2 DEF Retry
  <2> HIDE DEF g
  <2> QED
    BY <1>2, <2>1, <2>2
       DEF StatusOf, RetriesOf, Moves, Others, Stays, At, RowOf, EgressOf, EventOf,
           TriesOf
<1> QED
  BY <1>1, <1>2

\* Add holds nothing yet.
LEMMA AddMoves ==
    ASSUME h \in [Slot -> Handler], NEW p \in Slot, NEW u, Add(p, u)
    PROVE  Moves(p, "count", 0, 0)
<1> DEFINE g == [Idle EXCEPT !.pc = "count", !.url = u]
<1>1. g.pc = "count" /\ g.id = 0 /\ g.eg = 0
  BY DEF Idle
<1>2. h' = [h EXCEPT ![p] = g]
  BY DEF Add
<1> HIDE DEF g
<1> QED
  BY <1>1, <1>2 DEF Moves, Others, Stays, At, RowOf, EgressOf, EventOf, TriesOf

\* The handlers of List know no row and no egress of their own.
LEMMA ListMoves ==
    ASSUME h \in [Slot -> Handler], NEW p \in Slot,
           List(p) \/ ListLive(p) \/ ListSet(p)
    PROVE  \/ End(p)
           \/ \E pc \in {"listLive", "listSet"} :
                \/ Moves(p, pc, 0, 0)
                \/ Moves(p, pc, RowOf(p), EgressOf(p))
<1>0. h[p] \in Handler
  OBVIOUS
<1>1. CASE List(p)
  <2> DEFINE todo == {<<i, row[i].eg>> : i \in {j \in Id : row[j].st = "starting"}}
             g == [Idle EXCEPT !.pc = "listLive", !.todo = todo]
  <2>1. h' = [h EXCEPT ![p] = g]
    BY <1>1 DEF List
  <2> HIDE DEF todo
  <2>2. g.pc = "listLive" /\ g.id = 0 /\ g.eg = 0
    BY DEF Idle
  <2> HIDE DEF g
  <2> QED
    BY <2>1, <2>2 DEF Moves, Others, Stays, At, RowOf, EgressOf, EventOf, TriesOf
<1>2. CASE ListLive(p)
  <2> DEFINE todo == {t \in h[p].todo : egress[t[2]].st = "active"}
             g == [h[p] EXCEPT !.pc = "listSet", !.todo = todo]
  <2>1. End(p) \/ h' = [h EXCEPT ![p] = g]
    BY <1>2 DEF ListLive, End
  <2> HIDE DEF todo
  <2>2. g.pc = "listSet" /\ g.id = h[p].id /\ g.eg = h[p].eg
    BY <1>0 DEF Handler
  <2> HIDE DEF g
  <2> QED
    BY <2>1, <2>2 DEF Moves, Others, Stays, At, RowOf, EgressOf, EventOf, TriesOf
<1>3. CASE ListSet(p)
  <2>1. PICK t \in h[p].todo :
          h' = [h EXCEPT ![p] = IF h[p].todo = {t} THEN Idle
                                ELSE [h[p] EXCEPT !.todo = h[p].todo \ {t}]]
    BY <1>3 DEF ListSet
  <2> DEFINE g == [h[p] EXCEPT !.todo = h[p].todo \ {t}]
  <2>2. End(p) \/ h' = [h EXCEPT ![p] = g]
    BY <2>1 DEF End
  <2>3. g.pc = "listSet" /\ g.id = h[p].id /\ g.eg = h[p].eg
    BY <1>0, <1>3 DEF Handler, ListSet
  <2> HIDE DEF g
  <2> QED
    BY <2>2, <2>3 DEF Moves, Others, Stays, At, RowOf, EgressOf, EventOf, TriesOf
<1> QED
  BY <1>1, <1>2, <1>3

\* What onEgressEvent goes on with: nothing, or the newest row of the egress.
LEMMA HookRowMoves ==
    ASSUME h \in [Slot -> Handler], NEW p \in Slot, HookRow(p)
    PROVE  \/ End(p)
           \/ \E i \in ByEgressID(EgressOf(p)) :
                /\ \E pc \in {"active", "failed", "stopped"} :
                     Moves(p, pc, i, EgressOf(p))
                /\ EventOf(p)' = EventOf(p) /\ TriesOf(p)' = RetriesOf(i)
<1>0. h[p] \in Handler
  OBVIOUS
<1>1. CASE End(p)
  BY <1>1
<1>2. ASSUME NEW i \in ByEgressID(h[p].eg),
             OnEgressEvent(h[p].ev, row[i].st) # "idle",
             h' = [h EXCEPT ![p] =
                     [h[p] EXCEPT !.pc = OnEgressEvent(h[p].ev, row[i].st),
                                  !.id = i, !.n = row[i].retries]]
      PROVE  /\ \E pc \in {"active", "failed", "stopped"} :
                  Moves(p, pc, i, EgressOf(p))
             /\ EventOf(p)' = EventOf(p) /\ TriesOf(p)' = RetriesOf(i)
  <2> DEFINE pc == OnEgressEvent(h[p].ev, row[i].st)
             g == [h[p] EXCEPT !.pc = pc, !.id = i, !.n = row[i].retries]
  <2>1. pc \in {"active", "failed", "stopped"}
    BY <1>0, <1>2 DEF OnEgressEvent, Handler, Event
  <2>2. h' = [h EXCEPT ![p] = g]
    BY <1>2
  <2> HIDE DEF pc
  <2>3. /\ g.pc = pc /\ g.id = i /\ g.eg = h[p].eg /\ g.ev = h[p].ev
        /\ g.n = row[i].retries
    BY <1>0 DEF Handler
  <2> HIDE DEF g
  <2> QED
    BY <2>1, <2>2, <2>3
       DEF RetriesOf, Moves, Others, Stays, At, RowOf, EgressOf, EventOf, TriesOf
<1> QED
  BY <1>1, <1>2 DEF HookRow, End, EgressOf

-----------------------------------------------------------------------------
(* What holds a destination *)

\* The steps of the handler of a webhook up to the retry, and those from
\* which a retry is armed or served.
Reporting == {"app", "row", "failed", "drop"}
Serving == {"retry", "relaunch", "bump", "again"}

\* Handler p carries the failure of its egress.
Failing(p) == At(p) \in Reporting /\ EventOf(p) = "failed"

\* Egress e runs, or its failure has not come to its row yet.
Busy(e) ==
    \/ Running(e)
    \/ \E m \in hooks : m.eg = e /\ m.ev = "failed"
    \/ \E p \in Slot : Failing(p) /\ EgressOf(p) = e

\* What is named exists: the egress of a webhook, a handler or a row was
\* started, the egress of a row was started for it, and nothing belongs to a
\* row that is not there.
Known ==
    /\ \A m \in hooks : StateOf(m.eg) # "none"
    /\ \A p \in Slot : EgressOf(p) # 0 => StateOf(EgressOf(p)) # "none"
    /\ \A i \in Id : PushOf(i) # 0 => /\ StateOf(PushOf(i)) # "none"
                                      /\ ForRow(PushOf(i)) = i
    /\ \A i \in Id : StatusOf(i) = "none" => /\ Armed(i) = 0
                                             /\ \A e \in Egress : ForRow(e) # i
                                             /\ \A p \in Slot : RowOf(p) # i

\* A handler works on the row of its egress; Add gives its own egress a row.
Paired ==
    /\ \A p \in Slot : At(p) = "insert" => ForRow(EgressOf(p)) = 0
    /\ \A p, q \in Slot : At(p) = "insert" /\ At(q) = "insert"
                          /\ EgressOf(p) = EgressOf(q) => p = q
    /\ \A p \in Slot : At(p) \in {"setEgress", "failed", "drop"}
                         => ForRow(EgressOf(p)) = RowOf(p)

\* An egress runs, or one webhook reports its failure, or one handler
\* carries it.
OneReport ==
    /\ \A m \in hooks : m.ev = "failed" => ~Running(m.eg)
    /\ \A p \in Slot : Failing(p) => ~Running(EgressOf(p))
    /\ \A m \in hooks, p \in Slot : m.ev = "failed" /\ Failing(p) => m.eg # EgressOf(p)
    /\ \A m, o \in hooks : m.ev = "failed" /\ o.ev = "failed" /\ m.eg = o.eg => m = o
    /\ \A p, q \in Slot : Failing(p) /\ Failing(q) /\ EgressOf(p) = EgressOf(q) => p = q

\* A row has one busy egress, or one timer, or one retry.
OneHolder ==
    /\ \A i \in Id : Armed(i) <= 1
    /\ \A p \in Slot : At(p) \in Serving => Armed(RowOf(p)) = 0
    /\ \A p, q \in Slot : At(p) \in Serving /\ At(q) \in Serving
                          /\ RowOf(p) = RowOf(q) => p = q
    /\ \A e \in Egress : ForRow(e) # 0 /\ Busy(e)
         => /\ Armed(ForRow(e)) = 0
            /\ \A p \in Slot : At(p) \in Serving => RowOf(p) # ForRow(e)
            /\ \A f \in Egress : Busy(f) /\ ForRow(f) = ForRow(e) => f = e

\* While a retry has yet to write the row its egress was launched for, no
\* other handler holds the row, and a failure of the egress finds no row.
SetAlone ==
    \A p \in Slot : At(p) = "setEgress" =>
       /\ Armed(RowOf(p)) = 0
       /\ \A q \in Slot : At(q) \in Serving => RowOf(q) # RowOf(p)
       /\ \A q \in Slot : At(q) = "setEgress" /\ RowOf(q) = RowOf(p) => q = p
       /\ \A f \in Egress : Busy(f) /\ ForRow(f) = RowOf(p) => f = EgressOf(p)
       /\ \A j \in Id : PushOf(j) # EgressOf(p)
       /\ \A q \in Slot : At(q) \in {"failed", "drop"} => EgressOf(q) # EgressOf(p)

\* What a handler read of the retries still holds of the row.
Counted ==
    /\ \A i \in Id : /\ RetriesOf(i) <= RetryLimit
                     /\ Armed(i) > 0 => RetriesOf(i) < RetryLimit
    /\ \A p \in Slot :
         /\ At(p) \in {"failed", "drop"} /\ EventOf(p) = "failed"
              => TriesOf(p) = RetriesOf(RowOf(p))
         /\ At(p) \in {"retry", "again"} => RetriesOf(RowOf(p)) < RetryLimit
         /\ At(p) \in {"relaunch", "bump", "setEgress"}
              => RetriesOf(RowOf(p)) < TriesOf(p) /\ TriesOf(p) <= RetryLimit

\* What a step leaves alone: all rows, timers, egresses or handlers.
RowsStay == \A i \in Id : RowStays(i)
TimersStay == \A i \in Id : Armed(i)' = Armed(i)
PushesStay == \A e \in Egress : EgressStays(e)
HandlersStay == \A p \in Slot : Stays(p)

Base == TypeOK /\ Knows
Held == Known /\ Paired /\ OneReport /\ OneHolder /\ SetAlone /\ Counted

\* A handler goes on to a step that holds as much as the one before.
Forward(q) ==
    /\ \/ At(q) = "app" /\ At(q)' = "row"
       \/ At(q) = "failed" /\ At(q)' = "drop"
       \/ At(q) = "relaunch" /\ At(q)' = "bump"
    /\ RowOf(q)' = RowOf(q) /\ EgressOf(q)' = EgressOf(q)
    /\ EventOf(q)' = EventOf(q) /\ TriesOf(q)' = TriesOf(q)

\* A handler goes on to a step that holds nothing.
Aside(q) ==
    /\ At(q)' \notin Serving \cup {"insert", "setEgress", "failed", "drop"}
    /\ At(q)' \in {"app", "row"} => EventOf(q)' # "failed"
    /\ EgressOf(q)' # 0 => StateOf(EgressOf(q)') # "none"
    /\ RowOf(q)' # 0 => StatusOf(RowOf(q)') # "none"

\* The parts of a step that holds no more than before.  An egress may start,
\* as long as it is no row's.
QuietRows ==
    \A i \in Id : /\ PushOf(i)' = PushOf(i) /\ RetriesOf(i)' = RetriesOf(i)
                  /\ StatusOf(i)' = "none" => StatusOf(i) = "none"
QuietTimers == \A i \in Id : Armed(i)' <= Armed(i)
QuietEgress ==
    \A e \in Egress :
       \/ /\ ForRow(e)' = ForRow(e) /\ (Running(e)' => Running(e))
          /\ StateOf(e) # "none" => StateOf(e)' # "none"
       \/ StateOf(e) = "none" /\ StateOf(e)' # "none" /\ ForRow(e)' = 0
QuietHooks ==
    \A m \in hooks' : m \in hooks \/ (m.ev # "failed" /\ StateOf(m.eg) # "none")
QuietHandlers == \A q \in Slot : Stays(q) \/ Forward(q) \/ Aside(q)

\* An egress runs by its state.
LEMMA RunningIs ==
    \A e \in Egress : /\ Running(e) <=> StateOf(e) \in {"starting", "active"}
                      /\ Running(e)' <=> StateOf(e)' \in {"starting", "active"}
  BY DEF Running, StateOf

\* What does not change stays.
LEMMA Unmoved ==
    /\ UNCHANGED row => RowsStay
    /\ UNCHANGED timers => TimersStay
    /\ UNCHANGED egress => PushesStay
    /\ UNCHANGED h => HandlersStay
<1>1. UNCHANGED row => RowsStay
  BY DEF RowsStay, RowStays, StatusOf, PushOf, RetriesOf
<1>2. UNCHANGED timers => TimersStay
  BY DEF TimersStay, Armed
<1>3. UNCHANGED egress => PushesStay
  BY DEF PushesStay, EgressStays, StateOf, ForRow
<1>4. UNCHANGED h => HandlersStay
  BY DEF HandlersStay, Stays, At, RowOf, EgressOf, EventOf, TriesOf
<1> QED
  BY <1>1, <1>2, <1>3, <1>4

\* The ranges of what the lemmas below look at.
LEMMA Ranges ==
    ASSUME Base, Base'
    PROVE  /\ 0 \notin Id /\ 0 \notin Egress
           /\ \A q \in Slot : /\ At(q) \in WithEgress => EgressOf(q) \in Egress
                              /\ At(q) \in WithRow => RowOf(q) \in Id
                              /\ At(q)' \in WithEgress => EgressOf(q)' \in Egress
                              /\ At(q)' \in WithRow => RowOf(q)' \in Id
                              /\ EgressOf(q) \in Egress \cup {0}
                              /\ EgressOf(q)' \in Egress \cup {0}
                              /\ RowOf(q) \in Id \cup {0} /\ RowOf(q)' \in Id \cup {0}
           /\ \A i \in Id : /\ Armed(i) \in Nat /\ Armed(i)' \in Nat
                            /\ PushOf(i) \in Egress \cup {0}
                            /\ RetriesOf(i) \in Nat
           /\ \A q \in Slot : TriesOf(q) \in Nat /\ TriesOf(q)' \in Nat
           /\ \A m \in hooks \cup hooks' : m.eg \in Egress
           /\ \A e \in Egress : ForRow(e) \in Id \cup {0}
<1>1. 0 \notin Id /\ 0 \notin Egress
  BY SMT, BoundsAssumption DEF Id, Egress
<1>2. TypeOK /\ TypeOK' /\ Knows /\ Knows'
  BY DEF Base
<1> USE <1>2
<1>3. \A q \in Slot : /\ EgressOf(q) \in Egress \cup {0}
                      /\ EgressOf(q)' \in Egress \cup {0}
                      /\ RowOf(q) \in Id \cup {0} /\ RowOf(q)' \in Id \cup {0}
  BY DEF TypeOK, Handler, EgressOf, RowOf, TriesOf
<1>4. \A i \in Id : /\ Armed(i) \in Nat /\ Armed(i)' \in Nat
                    /\ PushOf(i) \in Egress \cup {0} /\ RetriesOf(i) \in Nat
  BY DEF TypeOK, Target, Armed, PushOf, RetriesOf
<1>5. \A q \in Slot : TriesOf(q) \in Nat /\ TriesOf(q)' \in Nat
  BY DEF TypeOK, Handler, EgressOf, RowOf, TriesOf
<1>6. /\ \A m \in hooks \cup hooks' : m.eg \in Egress
      /\ \A e \in Egress : ForRow(e) \in Id \cup {0}
  BY DEF TypeOK, Webhook, Push, ForRow
<1> QED
  BY <1>1, <1>3, <1>4, <1>5, <1>6 DEF Knows

\* Such a step keeps the destinations held once.
LEMMA QuietKeeps ==
    ASSUME Base, Base', Held,
           QuietRows, QuietTimers, QuietEgress, QuietHooks, QuietHandlers
    PROVE  Held'
<1> USE DEF Reporting, Serving, Stays
<1> USE Ranges
<1>0. \A i \in Id : /\ Armed(i) = 0 => Armed(i)' = 0
                    /\ Armed(i) <= 1 => Armed(i)' <= 1
                    /\ Armed(i)' > 0 => Armed(i) > 0
  BY SMT DEF QuietTimers
<1>1. \A q \in Slot : At(q)' \in {"insert", "setEgress"} => Stays(q)
  BY DEF QuietHandlers, Forward, Aside
<1>2. \A q \in Slot : At(q)' \in Serving => At(q) \in Serving /\ RowOf(q)' = RowOf(q)
  BY DEF QuietHandlers, Forward, Aside
<1>3. \A q \in Slot : At(q)' \in {"failed", "drop"}
        => /\ At(q) \in {"failed", "drop"} /\ RowOf(q)' = RowOf(q)
           /\ EgressOf(q)' = EgressOf(q) /\ EventOf(q)' = EventOf(q)
           /\ TriesOf(q)' = TriesOf(q)
  BY DEF QuietHandlers, Forward, Aside
<1>4. \A q \in Slot : Failing(q)' => Failing(q) /\ EgressOf(q)' = EgressOf(q)
  BY DEF QuietHandlers, Forward, Aside, Failing
<1>5. \A e \in Egress : ForRow(e)' # 0 /\ Busy(e)' => Busy(e) /\ ForRow(e)' = ForRow(e)
  BY <1>4 DEF Busy, QuietEgress, QuietHooks
<1>6. \A m \in hooks' : m.ev = "failed" => m \in hooks
  BY DEF QuietHooks
<1>7. Known'
  <2>1. \A m \in hooks' : StateOf(m.eg)' # "none"
    BY DEF QuietHooks, QuietEgress, Known, Held
  <2>2. \A q \in Slot : EgressOf(q)' # 0 => StateOf(EgressOf(q))' # "none"
    BY DEF QuietHandlers, Forward, Aside, QuietEgress, Known, Held
  <2>3. \A i \in Id : PushOf(i)' # 0 => /\ StateOf(PushOf(i))' # "none"
                                        /\ ForRow(PushOf(i))' = i
    BY DEF QuietRows, QuietEgress, Known, Held
  <2>4. ASSUME NEW i \in Id, StatusOf(i)' = "none"
        PROVE  /\ Armed(i)' = 0
               /\ \A e \in Egress : ForRow(e)' # i
               /\ \A q \in Slot : RowOf(q)' # i
    <3>1. StatusOf(i) = "none"
      BY <2>4 DEF QuietRows
    <3>2. Armed(i) = 0 /\ (\A e \in Egress : ForRow(e) # i)
                        /\ (\A q \in Slot : RowOf(q) # i)
      BY <3>1 DEF Known, Held
    <3> QED
      BY SMT, <3>1, <3>2 DEF QuietTimers, QuietEgress, QuietHandlers, Forward, Aside
  <2> QED
    BY <2>1, <2>2, <2>3, <2>4 DEF Known
<1> USE <1>3
<1>8. Paired'
  BY SMT, <1>1 DEF Paired, Known, Held, QuietEgress, WithEgress
<1>9. OneReport'
  BY SMT, <1>4, <1>6 DEF OneReport, Known, Held, QuietEgress, Failing, WithEgress
<1> USE <1>0, <1>2, <1>5
<1>10. OneHolder'
  <2>1. /\ \A i \in Id : Armed(i)' <= 1
        /\ \A p \in Slot : At(p)' \in Serving => Armed(RowOf(p))' = 0
    BY SMT DEF OneHolder, Held, WithRow
  <2>2. \A p, q \in Slot : At(p)' \in Serving /\ At(q)' \in Serving
                           /\ RowOf(p)' = RowOf(q)' => p = q
    BY SMT DEF OneHolder, Held
  <2>3. ASSUME NEW e \in Egress, ForRow(e)' # 0, Busy(e)'
        PROVE  /\ Armed(ForRow(e))' = 0
               /\ \A p \in Slot : At(p)' \in Serving => RowOf(p)' # ForRow(e)'
               /\ \A f \in Egress : Busy(f)' /\ ForRow(f)' = ForRow(e)' => f = e
    <3>1. Busy(e) /\ ForRow(e) # 0 /\ ForRow(e)' = ForRow(e)
      BY <2>3
    <3>2. /\ Armed(ForRow(e)) = 0 /\ ForRow(e) \in Id
          /\ \A p \in Slot : At(p) \in Serving => RowOf(p) # ForRow(e)
          /\ \A f \in Egress : Busy(f) /\ ForRow(f) = ForRow(e) => f = e
      BY <3>1 DEF OneHolder, Held
    <3> QED
      BY <2>3, <3>1, <3>2
  <2> QED
    BY <2>1, <2>2, <2>3 DEF OneHolder
<1>11. SetAlone'
  BY SMT, <1>1 DEF SetAlone, Held, QuietEgress, QuietRows, WithRow, WithEgress
<1>12. Counted'
  <2>1. \A q \in Slot : At(q)' \in {"retry", "again"} =>
           At(q) \in {"retry", "again"} /\ RowOf(q)' = RowOf(q)
    BY DEF QuietHandlers, Forward, Aside
  <2>2. \A q \in Slot : At(q)' \in {"relaunch", "bump", "setEgress"} =>
           /\ At(q) \in {"relaunch", "bump", "setEgress"}
           /\ RowOf(q)' = RowOf(q) /\ TriesOf(q)' = TriesOf(q)
    BY DEF QuietHandlers, Forward, Aside
  <2> QED
    BY <2>1, <2>2 DEF Counted, Held, QuietRows, WithRow
<1> QED
  BY <1>7, <1>8, <1>9, <1>10, <1>11, <1>12 DEF Held

\* Add starts an egress that has no row yet.
LEMMA AddLaunchKeeps ==
    ASSUME Base, Base', Held, NEW p \in Slot, At(p) = "launch",
           NEW e \in Unused, StartStreamEgress(e, h[p].url, 0),
           Takes(p, "insert", e), UNCHANGED <<row, timers, hooks>>
    PROVE  Held'
<1> USE DEF Reporting, Serving, WithEgress, WithRow, Moves, Others, Stays, RowStays,
            EgressStays, RowsStay, TimersStay, PushesStay
<1>0. RowsStay /\ TimersStay
  BY Unmoved
<1>1. Moves(p, "insert", RowOf(p), e)
  BY LaunchMoves DEF Base, TypeOK
<1>2. /\ e \in Egress /\ StateOf(e) = "none"
      /\ StateOf(e)' = "starting" /\ ForRow(e)' = 0
      /\ \A f \in Egress : f # e => EgressStays(f)
  BY DEF StartStreamEgress, Unused, Base, TypeOK, StateOf, ForRow, EgressStays
<1> USE <1>2, Ranges
<1>3. /\ \A m \in hooks : m.eg # e
      /\ \A q \in Slot : EgressOf(q) # e
      /\ \A i \in Id : PushOf(i) # e
  BY SMT DEF Held, Known
<1> USE <1>1
<1>4. \A q \in Slot : Failing(q)' <=> Failing(q)
  BY DEF Failing
<1>5. \A f \in Egress : f # e => (Busy(f)' => Busy(f))
  BY <1>4, RunningIs DEF Busy
<1> USE <1>0, <1>3
<1>6. Known'
  BY SMT DEF Held, Known
<1>7. Paired'
  BY SMT DEF Held, Paired
<1>8. OneReport'
  BY SMT, <1>4, RunningIs DEF Held, OneReport, Failing
<1>9. OneHolder'
  BY SMT, <1>5 DEF Held, OneHolder
<1>10. SetAlone'
  BY SMT, <1>5 DEF Held, SetAlone
<1>11. Counted'
  BY SMT DEF Held, Counted
<1> QED
  BY <1>6, <1>7, <1>8, <1>9, <1>10, <1>11 DEF Held

\* Add inserts the row of its egress.
LEMMA AddInsertKeeps ==
    ASSUME Base, Base', Held, NEW p \in Slot, AddInsert(p)
    PROVE  Held'
<1> USE DEF Reporting, Serving, WithEgress, WithRow, Moves, Others, Stays, RowStays,
            EgressStays, RowsStay, TimersStay, PushesStay
<1>0. TimersStay /\ UNCHANGED hooks
  BY Unmoved DEF AddInsert, memory
<1> USE Ranges
<1>1. At(p) = "insert" /\ EgressOf(p) \in Egress
  BY DEF AddInsert, At
<1> USE <1>1
<1>e. PICK e \in Egress : e = EgressOf(p)
  OBVIOUS
<1>2. PICK i \in Id :
        /\ StatusOf(i) = "none"
        /\ row' = [row EXCEPT ![i] =
                     [NoRow EXCEPT !.st = "starting", !.url = h[p].url, !.eg = e]]
        /\ egress' = [egress EXCEPT ![e].id = i]
  BY <1>e DEF AddInsert, NewId, StatusOf, EgressOf
<1>3. /\ Others(p) /\ At(p)' \in {"map", "idle"}
      /\ RowOf(p)' \in {0, RowOf(p)} /\ EgressOf(p)' \in {0, e}
  <2>1. Go(p, "map") \/ End(p)
    BY DEF AddInsert
  <2> QED
    BY <1>e, <2>1, GoMoves, EndMoves DEF Base, TypeOK
<1> USE <1>2
<1>4. /\ StatusOf(i)' = "starting" /\ PushOf(i)' = e /\ RetriesOf(i)' = 0
      /\ \A j \in Id : j # i => RowStays(j)
  BY DEF NoRow, Base, TypeOK, StatusOf, PushOf, RetriesOf
<1>5. /\ ForRow(e)' = i /\ StateOf(e)' = StateOf(e)
      /\ \A f \in Egress : f # e => EgressStays(f)
  <2>1. egress \in [Egress -> Push] /\ egress[e] \in Push
    BY DEF Base, TypeOK
  <2>2. /\ [egress[e] EXCEPT !.id = i].id = i
        /\ [egress[e] EXCEPT !.id = i].st = egress[e].st
    BY <2>1 DEF Push
  <2> QED
    BY <2>1, <2>2 DEF StateOf, ForRow
<1>6. ForRow(e) = 0 /\ StateOf(e) # "none" /\ EgressOf(p) = e
  BY <1>e DEF Held, Paired, Known
<1>7. /\ Armed(i) = 0
      /\ \A f \in Egress : ForRow(f) # i
      /\ \A q \in Slot : RowOf(q) # i
  BY DEF Held, Known
<1> USE <1>6
<1>8. /\ \A j \in Id : PushOf(j) # e
      /\ \A q \in Slot : At(q) \in {"setEgress", "failed", "drop"} => EgressOf(q) # e
      /\ \A q \in Slot : q # p /\ At(q) = "insert" => EgressOf(q) # e
  BY SMT DEF Held, Known, Paired
<1> USE <1>3
<1>9. \A q \in Slot : Failing(q)' <=> Failing(q)
  BY DEF Failing
<1> USE <1>0, <1>5
<1>10. \A f \in Egress : (Running(f)' <=> Running(f)) /\ (Busy(f)' => Busy(f))
  BY <1>9, RunningIs DEF Busy, Failing
<1> USE <1>4, <1>8
<1>11. Known'
  <2>1. /\ \A m \in hooks' : StateOf(m.eg)' # "none"
        /\ \A q \in Slot : EgressOf(q)' # 0 => StateOf(EgressOf(q))' # "none"
    BY DEF Held, Known
  <2>2. \A j \in Id : PushOf(j)' # 0 => /\ StateOf(PushOf(j))' # "none"
                                        /\ ForRow(PushOf(j))' = j
    BY SMT DEF Held, Known
  <2>3. \A j \in Id : StatusOf(j)' = "none"
          => /\ Armed(j)' = 0 /\ \A f \in Egress : ForRow(f)' # j
             /\ \A q \in Slot : RowOf(q)' # j
    BY SMT DEF Held, Known
  <2> QED
    BY <2>1, <2>2, <2>3 DEF Known
<1>12. Paired'
  BY SMT DEF Held, Paired
<1> USE <1>10
<1>13. OneReport'
  BY SMT, <1>9 DEF Held, OneReport, Failing
<1> USE <1>7
<1>14. OneHolder'
  BY SMT DEF Held, OneHolder
<1>15. SetAlone'
  BY SMT DEF Held, SetAlone
<1>16. Counted'
  BY SMT, BoundsAssumption DEF Held, Counted
<1> QED
  BY <1>11, <1>12, <1>13, <1>14, <1>15, <1>16 DEF Held

\* A running egress fails: its webhook takes over.
LEMMA FailureKeeps ==
    ASSUME Base, Base', Held, NEW e \in Egress, Running(e),
           egress' = [egress EXCEPT ![e].st = "ended"],
           hooks' = hooks \cup {[eg |-> e, ev |-> "failed", ours |-> FALSE]},
           UNCHANGED <<row, timers, h>>
    PROVE  Held'
<1> USE DEF Reporting, Serving, WithEgress, WithRow, Moves, Others, Stays, RowStays,
            EgressStays, RowsStay, TimersStay, PushesStay
<1>0. RowsStay /\ TimersStay /\ HandlersStay
  BY Unmoved
<1> DEFINE w == [eg |-> e, ev |-> "failed", ours |-> FALSE]
<1>1. /\ \A f \in Egress : ForRow(f)' = ForRow(f)
      /\ ~Running(e)' /\ StateOf(e)' # "none" /\ StateOf(e) # "none"
      /\ \A f \in Egress : f # e => EgressStays(f)
  <2>1. egress \in [Egress -> Push] /\ egress[e] \in Push
    BY DEF Base, TypeOK
  <2>2. /\ [egress[e] EXCEPT !.st = "ended"].id = egress[e].id
        /\ [egress[e] EXCEPT !.st = "ended"].st = "ended"
    BY <2>1 DEF Push
  <2> QED
    BY <2>1, <2>2 DEF Running, StateOf, ForRow
<1>2. hooks' = hooks \cup {w} /\ w.eg = e /\ w.ev = "failed"
  OBVIOUS
<1> HIDE DEF w
<1> USE <1>0
<1>3. \A q \in Slot : Failing(q)' <=> Failing(q)
  BY DEF Failing, HandlersStay
<1> USE <1>1
<1>4. \A f \in Egress : Running(f)' => Running(f)
  BY RunningIs
<1> USE <1>2
<1>5. \A f \in Egress : Busy(f)' => Busy(f)
  BY <1>3, <1>4 DEF Busy, HandlersStay
<1> USE Ranges
<1>6. Known'
  BY SMT DEF Held, Known, HandlersStay
<1>7. Paired'
  BY SMT DEF Held, Paired, HandlersStay
<1>8. OneReport'
  <2>1. /\ \A m \in hooks : m.ev = "failed" => m.eg # e
        /\ \A q \in Slot : Failing(q) => EgressOf(q) # e
    BY DEF Held, OneReport
  <2> QED
    BY SMT, <1>3, <1>4, <2>1 DEF Held, OneReport, Failing, HandlersStay
<1>9. OneHolder'
  BY SMT, <1>5 DEF Held, OneHolder, HandlersStay
<1>10. SetAlone'
  BY SMT, <1>5 DEF Held, SetAlone, HandlersStay
<1>11. Counted'
  BY DEF Held, Counted, HandlersStay
<1> QED
  BY <1>6, <1>7, <1>8, <1>9, <1>10, <1>11 DEF Held

\* The webhook of a failure is delivered: its handler takes over.
LEMMA ReceiveKeeps ==
    ASSUME Base, Base', Held, NEW p \in Slot, NEW m \in hooks, Receive(p, m),
           hooks' = hooks \ {m}, m.ev = "failed"
    PROVE  Held'
<1> USE DEF Reporting, Serving, WithEgress, WithRow, Moves, Others, Stays, RowStays,
            EgressStays, RowsStay, TimersStay, PushesStay
<1>1. Moves(p, "app", 0, m.eg) /\ EventOf(p)' = "failed"
  BY ReceiveMoves DEF Base, TypeOK
<1>2. RowsStay /\ TimersStay /\ PushesStay /\ At(p) = "idle"
  BY Unmoved DEF Receive, memory, Free, At
<1> USE <1>1, <1>2
<1>3. /\ Failing(p)' /\ ~Failing(p)
      /\ \A q \in Slot : q # p => (Failing(q)' <=> Failing(q))
  BY DEF Failing
<1>4. \A e \in Egress : (Running(e)' <=> Running(e)) /\ (Busy(e)' => Busy(e))
  BY <1>3, RunningIs DEF Busy
<1> USE Ranges
<1>5. Known'
  BY SMT DEF Held, Known
<1>6. Paired'
  BY SMT DEF Held, Paired
<1> USE <1>4
<1>7. OneReport'
  <2>1. /\ ~Running(m.eg) /\ m.eg \in Egress
        /\ \A q \in Slot : Failing(q) => EgressOf(q) # m.eg
        /\ \A o \in hooks' : o.ev = "failed" => o.eg # m.eg
    BY DEF Held, OneReport
  <2> QED
    BY SMT, <1>3, <2>1 DEF Held, OneReport, Failing
<1>8. OneHolder'
  BY SMT DEF Held, OneHolder
<1>9. SetAlone'
  BY SMT DEF Held, SetAlone
<1>10. Counted'
  BY DEF Held, Counted
<1> QED
  BY <1>5, <1>6, <1>7, <1>8, <1>9, <1>10 DEF Held

\* onEgressEvent finds the row of the egress that failed.
LEMMA HookFoundKeeps ==
    ASSUME Base, Base', Held, NEW p \in Slot, At(p) = "row",
           NEW i \in ByEgressID(EgressOf(p)), Moves(p, "failed", i, EgressOf(p)),
           EventOf(p)' = EventOf(p), TriesOf(p)' = RetriesOf(i),
           UNCHANGED <<row, timers, egress, hooks>>
    PROVE  Held'
<1> USE DEF Reporting, Serving, WithEgress, WithRow, Moves, Others, Stays, RowStays,
            EgressStays, RowsStay, TimersStay, PushesStay
<1>0. RowsStay /\ TimersStay /\ PushesStay
  BY Unmoved
<1> USE Ranges
<1>1. /\ i \in Id /\ StatusOf(i) # "none"
      /\ PushOf(i) = EgressOf(p) /\ EgressOf(p) \in Egress
  BY DEF ByEgressID, StatusOf, PushOf
<1>2. \A q \in Slot : Failing(q)' <=> Failing(q)
  BY DEF Failing
<1> USE <1>0
<1>3. \A e \in Egress : (Running(e)' <=> Running(e)) /\ (Busy(e)' => Busy(e))
  BY <1>2, RunningIs DEF Busy, Failing
<1> USE <1>1
<1>4. ForRow(EgressOf(p)) = i
  BY SMT DEF Held, Known
<1>5. Known'
  BY SMT DEF Held, Known
<1>6. Paired'
  BY SMT, <1>4 DEF Held, Paired
<1> USE <1>3
<1>7. OneReport'
  BY SMT, <1>2 DEF Held, OneReport, Failing
<1>8. OneHolder'
  BY SMT DEF Held, OneHolder
<1>9. SetAlone'
  BY SMT DEF Held, SetAlone
<1>10. Counted'
  BY SMT DEF Held, Counted
<1> QED
  BY <1>5, <1>6, <1>7, <1>8, <1>9, <1>10 DEF Held

\* onFailed decides on a retry.
LEMMA HookDropKeeps ==
    ASSUME Base, Base', Held, NEW p \in Slot, At(p) = "drop",
           EventOf(p) = "failed", TriesOf(p) < RetryLimit, Go(p, "retry"),
           UNCHANGED <<row, timers, egress, hooks>>
    PROVE  Held'
<1> USE DEF Reporting, Serving, WithEgress, WithRow, Moves, Others, Stays, RowStays,
            EgressStays, RowsStay, TimersStay, PushesStay
<1>0. RowsStay /\ TimersStay /\ PushesStay
  BY Unmoved
<1>1. Moves(p, "retry", RowOf(p), EgressOf(p))
  BY GoMoves DEF Base, TypeOK
<1> USE Ranges
<1>2. /\ RowOf(p) \in Id /\ EgressOf(p) \in Egress /\ ForRow(EgressOf(p)) = RowOf(p)
      /\ RetriesOf(RowOf(p)) < RetryLimit
  BY DEF Held, Paired, Counted
<1> USE <1>1
<1>3. Failing(p) /\ \A q \in Slot : Failing(q)' <=> (q # p /\ Failing(q))
  BY DEF Failing
<1> USE <1>0, <1>2, <1>3
<1>4. Busy(EgressOf(p)) /\ ~Busy(EgressOf(p))'
  BY SMT, RunningIs DEF Busy, Held, OneReport
<1>5. \A e \in Egress : (Running(e)' <=> Running(e)) /\ (Busy(e)' => Busy(e))
  BY RunningIs DEF Busy
<1> USE <1>4, <1>5
<1>6. /\ Armed(RowOf(p)) = 0
      /\ \A q \in Slot : At(q) \in Serving => RowOf(q) # RowOf(p)
      /\ \A f \in Egress : ForRow(f) = RowOf(p) => ~Busy(f)'
      /\ \A q \in Slot : At(q) = "setEgress" => RowOf(q) # RowOf(p)
  <2>1. /\ Armed(RowOf(p)) = 0
        /\ \A q \in Slot : At(q) \in Serving => RowOf(q) # RowOf(p)
        /\ \A f \in Egress : ForRow(f) = RowOf(p) /\ Busy(f) => f = EgressOf(p)
    BY DEF Held, OneHolder
  <2>2. \A q \in Slot : At(q) = "setEgress" => RowOf(q) # RowOf(p)
    <3> SUFFICES ASSUME NEW q \in Slot, At(q) = "setEgress" PROVE RowOf(q) # RowOf(p)
      OBVIOUS
    <3>1. /\ \A f \in Egress : Busy(f) /\ ForRow(f) = RowOf(q) => f = EgressOf(q)
          /\ EgressOf(p) # EgressOf(q)
      BY DEF Held, SetAlone
    <3> QED
      BY <3>1
  <2> QED
    BY <2>1, <2>2
<1>7. Known'
  BY SMT DEF Held, Known
<1>8. Paired'
  BY SMT DEF Held, Paired
<1>9. OneReport'
  BY SMT DEF Held, OneReport, Failing
<1>10. OneHolder'
  BY SMT, <1>6 DEF Held, OneHolder
<1>11. SetAlone'
  BY SMT, <1>6 DEF Held, SetAlone
<1>12. Counted'
  BY DEF Held, Counted
<1> QED
  BY <1>7, <1>8, <1>9, <1>10, <1>11, <1>12 DEF Held

\* A handler arms the timer of its row.
LEMMA ArmKeeps ==
    ASSUME Base, Base', Held, NEW p \in Slot, At(p) \in {"retry", "again"},
           timers' = [timers EXCEPT ![RowOf(p)] = @ + 1], End(p),
           UNCHANGED <<row, egress, hooks>>
    PROVE  Held'
<1> USE DEF Reporting, Serving, WithEgress, WithRow, Moves, Others, Stays, RowStays,
            EgressStays, RowsStay, TimersStay, PushesStay
<1>0. RowsStay /\ PushesStay
  BY Unmoved
<1>1. Moves(p, "idle", 0, 0) /\ EventOf(p)' = "active"
  BY EndMoves DEF Base, TypeOK
<1> USE Ranges
<1>2. PICK i \in Id : i = RowOf(p) /\ StatusOf(i) # "none"
  BY DEF Held, Known
<1> USE <1>2
<1>3. /\ Armed(i) = 0 /\ Armed(i)' = 1
      /\ \A j \in Id : j # i => Armed(j)' = Armed(j)
  <2>1. Armed(i) = 0
    BY DEF Held, OneHolder
  <2> QED
    BY SMT, <2>1 DEF Base, TypeOK, Armed
<1> USE <1>1
<1>4. \A q \in Slot : Failing(q)' <=> Failing(q)
  BY DEF Failing
<1> USE <1>0
<1>5. \A e \in Egress : (Running(e)' <=> Running(e)) /\ (Busy(e)' => Busy(e))
  BY <1>4, RunningIs DEF Busy, Failing
<1>6. /\ \A q \in Slot : q # p /\ At(q) \in Serving => RowOf(q) # i
      /\ \A e \in Egress : ForRow(e) = i => ~Busy(e)
      /\ \A q \in Slot : At(q) = "setEgress" => RowOf(q) # i
  BY DEF Held, OneHolder, SetAlone
<1> USE <1>3
<1>7. Known'
  BY SMT DEF Held, Known
<1>8. Paired'
  BY SMT DEF Held, Paired
<1> USE <1>5
<1>9. OneReport'
  BY SMT, <1>4 DEF Held, OneReport, Failing
<1>10. OneHolder'
  BY SMT, <1>6 DEF Held, OneHolder
<1>11. SetAlone'
  BY SMT, <1>6 DEF Held, SetAlone
<1>12. Counted'
  BY DEF Held, Counted
<1> QED
  BY <1>7, <1>8, <1>9, <1>10, <1>11, <1>12 DEF Held

\* A timer fires: its retry takes over.
LEMMA FireKeeps ==
    ASSUME Base, Base', Held, NEW p \in Slot, NEW i \in Id, Armed(i) > 0,
           At(p) = "idle", StatusOf(i) = "failed",
           timers' = [timers EXCEPT ![i] = @ - 1],
           Moves(p, "relaunch", i, 0), TriesOf(p)' = RetriesOf(i) + 1,
           UNCHANGED <<row, egress, hooks>>
    PROVE  Held'
<1> USE DEF Reporting, Serving, WithEgress, WithRow, Moves, Others, Stays, RowStays,
            EgressStays, RowsStay, TimersStay, PushesStay
<1>0. RowsStay /\ PushesStay
  BY Unmoved
<1> USE Ranges
<1>1. /\ Armed(i) = 1 /\ Armed(i)' = 0
      /\ \A j \in Id : j # i => Armed(j)' = Armed(j)
  <2>1. Armed(i) <= 1 /\ Armed(i) \in Nat
    BY DEF Held, OneHolder
  <2> QED
    BY SMT, <2>1 DEF Base, TypeOK, Armed
<1>2. \A q \in Slot : Failing(q)' <=> Failing(q)
  BY DEF Failing
<1> USE <1>0
<1>3. \A e \in Egress : (Running(e)' <=> Running(e)) /\ (Busy(e)' => Busy(e))
  BY <1>2, RunningIs DEF Busy, Failing
<1> USE <1>1
<1>4. /\ \A q \in Slot : At(q) \in Serving \cup {"setEgress"} => RowOf(q) # i
      /\ \A e \in Egress : ForRow(e) = i => ~Busy(e)
  BY SMT DEF Held, OneHolder, SetAlone
<1>5. Known'
  BY SMT DEF Held, Known
<1>6. Paired'
  BY SMT DEF Held, Paired
<1> USE <1>3
<1>7. OneReport'
  BY SMT, <1>2 DEF Held, OneReport, Failing
<1>8. OneHolder'
  BY SMT, <1>4 DEF Held, OneHolder
<1>9. SetAlone'
  BY SMT, <1>4 DEF Held, SetAlone
<1>10. Counted'
  <2>1. RetriesOf(i) + 1 <= RetryLimit
    BY SMT, BoundsAssumption DEF Held, Counted
  <2> QED
    BY SMT, <2>1, BoundsAssumption DEF Held, Counted
<1> QED
  BY <1>5, <1>6, <1>7, <1>8, <1>9, <1>10 DEF Held

\* A retry starts an egress for its row: the egress takes over.
LEMMA RelaunchKeeps ==
    ASSUME Base, Base', Held, NEW p \in Slot, At(p) = "relaunch",
           NEW e \in Unused, StartStreamEgress(e, h[p].url, RowOf(p)),
           Takes(p, "setEgress", e), UNCHANGED <<row, timers, hooks>>
    PROVE  Held'
<1> USE DEF Reporting, Serving, WithEgress, WithRow, Moves, Others, Stays, RowStays,
            EgressStays, RowsStay, TimersStay, PushesStay
<1>0. RowsStay /\ TimersStay
  BY Unmoved
<1>1. Moves(p, "setEgress", RowOf(p), e) /\ TriesOf(p)' = TriesOf(p)
  BY LaunchMoves DEF Base, TypeOK
<1>2. /\ e \in Egress /\ StateOf(e) = "none"
      /\ StateOf(e)' = "starting" /\ ForRow(e)' = RowOf(p)
      /\ \A f \in Egress : f # e => EgressStays(f)
  BY DEF StartStreamEgress, Unused, Base, TypeOK, StateOf, ForRow, EgressStays
<1> USE <1>2, Ranges
<1>3. /\ \A m \in hooks : m.eg # e
      /\ \A q \in Slot : EgressOf(q) # e
      /\ \A i \in Id : PushOf(i) # e
  BY SMT DEF Held, Known
<1>4. RowOf(p) \in Id /\ StatusOf(RowOf(p)) # "none"
  BY DEF Held, Known
<1> USE <1>1
<1>5. \A q \in Slot : Failing(q)' <=> Failing(q)
  BY DEF Failing
<1>6. \A f \in Egress : f # e => (Busy(f)' => Busy(f))
  BY <1>5, RunningIs DEF Busy
<1> USE <1>4
<1>7. /\ Armed(RowOf(p)) = 0
      /\ \A q \in Slot : q # p /\ At(q) \in Serving => RowOf(q) # RowOf(p)
      /\ \A q \in Slot : At(q) = "setEgress" => RowOf(q) # RowOf(p)
      /\ \A f \in Egress : ForRow(f) = RowOf(p) => ~Busy(f)
  BY DEF Held, OneHolder, SetAlone
<1> USE <1>0, <1>3
<1>8. Known'
  BY SMT DEF Held, Known
<1>9. Paired'
  BY SMT DEF Held, Paired
<1>10. OneReport'
  BY SMT, <1>5, RunningIs DEF Held, OneReport, Failing
<1>11. OneHolder'
  BY SMT, <1>6, <1>7 DEF Held, OneHolder
<1>12. SetAlone'
  BY SMT, <1>6, <1>7 DEF Held, SetAlone
<1>13. Counted'
  BY DEF Held, Counted
<1> QED
  BY <1>8, <1>9, <1>10, <1>11, <1>12, <1>13 DEF Held

\* A relaunch that failed is counted and tried again, or given up.
LEMMA BumpKeeps ==
    ASSUME Base, Base', Held, NEW p \in Slot, RetryBump(p)
    PROVE  Held'
<1> USE DEF Reporting, Serving, WithEgress, WithRow, Moves, Others, Stays, RowStays,
            EgressStays, RowsStay, TimersStay, PushesStay
<1>0. TimersStay /\ PushesStay /\ UNCHANGED hooks /\ At(p) = "bump"
  BY Unmoved DEF RetryBump, memory, livekit, At
<1> USE <1>0, Ranges
<1>1. PICK i \in Id : i = RowOf(p)
  OBVIOUS
<1> USE <1>1
<1>2. \/ Moves(p, "again", i, EgressOf(p)) /\ TriesOf(p) < RetryLimit
      \/ Moves(p, "idle", 0, 0)
  <2>1. (TriesOf(p) < RetryLimit /\ Go(p, "again")) \/ End(p)
    BY DEF RetryBump, TriesOf
  <2> QED
    BY <2>1, GoMoves, EndMoves DEF Base, TypeOK
<1>3. /\ \A j \in Id : StatusOf(j)' = StatusOf(j) /\ PushOf(j)' = PushOf(j)
      /\ \A j \in Id : j # i => RetriesOf(j)' = RetriesOf(j)
      /\ RetriesOf(i)' \in {TriesOf(p), RetriesOf(i)}
  <2>1. row \in [Id -> Target] /\ row[i] \in Target
    BY DEF Base, TypeOK
  <2> DEFINE r == [row[i] EXCEPT !.retries = TriesOf(p)]
  <2>2. r.st = row[i].st /\ r.eg = row[i].eg /\ r.retries = TriesOf(p)
    BY <2>1 DEF Target
  <2>3. row' = [row EXCEPT ![i] = r] \/ UNCHANGED row
    BY DEF RetryBump, RowOf, TriesOf
  <2> HIDE DEF r
  <2> QED
    BY <2>1, <2>2, <2>3 DEF StatusOf, PushOf, RetriesOf
<1>4. /\ Armed(i) = 0
      /\ \A q \in Slot : q # p /\ At(q) \in Serving => RowOf(q) # i
      /\ \A q \in Slot : At(q) = "setEgress" => RowOf(q) # i
      /\ \A f \in Egress : ForRow(f) = i => ~Busy(f)
  BY DEF Held, OneHolder, SetAlone
<1> USE <1>4
<1>5. \A q \in Slot : At(q) \in {"failed", "drop"} /\ EventOf(q) = "failed"
                        => RowOf(q) # i
  <2>1. \A q \in Slot : At(q) \in {"failed", "drop"} /\ EventOf(q) = "failed"
                          => Busy(EgressOf(q)) /\ EgressOf(q) \in Egress
    BY DEF Busy, Failing
  <2> QED
    BY <2>1 DEF Held, Paired
<1> USE <1>2
<1>6. \A q \in Slot : Failing(q)' <=> Failing(q)
  BY DEF Failing
<1>7. \A e \in Egress : (Running(e)' <=> Running(e)) /\ (Busy(e)' => Busy(e))
  BY SMT, <1>6, RunningIs DEF Busy, Failing
<1> USE <1>3
<1>8. Known'
  BY SMT DEF Held, Known
<1>9. Paired'
  BY SMT DEF Held, Paired
<1> USE <1>7
<1>10. OneReport'
  BY SMT, <1>6 DEF Held, OneReport, Failing
<1>11. OneHolder'
  BY SMT DEF Held, OneHolder
<1>12. SetAlone'
  BY SMT DEF Held, SetAlone
<1>13. Counted'
  <2>1. RetriesOf(i) < TriesOf(p) /\ TriesOf(p) <= RetryLimit
    BY DEF Held, Counted
  <2> QED
    BY SMT, <1>5, <2>1, BoundsAssumption DEF Held, Counted
<1> QED
  BY <1>8, <1>9, <1>10, <1>11, <1>12, <1>13 DEF Held

\* A retry writes its egress into the row.
LEMMA SetEgressKeeps ==
    ASSUME Base, Base', Held, NEW p \in Slot, RetrySet(p)
    PROVE  Held'
<1> USE DEF Reporting, Serving, WithEgress, WithRow, Moves, Others, Stays, RowStays,
            EgressStays, RowsStay, TimersStay, PushesStay
<1>0. TimersStay /\ PushesStay /\ UNCHANGED hooks /\ At(p) = "setEgress"
  BY Unmoved DEF RetrySet, memory, livekit, At
<1> USE <1>0, Ranges
<1>1. PICK i \in Id, e \in Egress : i = RowOf(p) /\ e = EgressOf(p)
  OBVIOUS
<1> USE <1>1
<1>2. Moves(p, "map", i, e)
  BY GoMoves DEF RetrySet, Base, TypeOK
<1>3. /\ StatusOf(i)' = "starting" /\ PushOf(i)' = e /\ RetriesOf(i)' = TriesOf(p)
      /\ \A j \in Id : j # i => RowStays(j)
  <2>1. row \in [Id -> Target] /\ row[i] \in Target
    BY DEF Base, TypeOK
  <2> DEFINE r == [row[i] EXCEPT !.st = "starting", !.eg = e,
                                 !.retries = TriesOf(p), !.error = "none"]
  <2>2. r.st = "starting" /\ r.eg = e /\ r.retries = TriesOf(p)
    BY <2>1 DEF Target
  <2>3. row' = [row EXCEPT ![i] = r]
    BY DEF RetrySet, RowOf, EgressOf, TriesOf
  <2> HIDE DEF r
  <2> QED
    BY <2>1, <2>2, <2>3 DEF StatusOf, PushOf, RetriesOf
<1>4. /\ Armed(i) = 0
      /\ \A q \in Slot : At(q) \in Serving => RowOf(q) # i
      /\ \A q \in Slot : At(q) = "setEgress" /\ RowOf(q) = i => q = p
      /\ \A f \in Egress : Busy(f) /\ ForRow(f) = i => f = e
      /\ \A q \in Slot : At(q) \in {"failed", "drop"} => EgressOf(q) # e
  BY DEF Held, SetAlone
<1> USE <1>4
<1>5. \A q \in Slot : At(q) \in {"failed", "drop"} /\ EventOf(q) = "failed"
                        => RowOf(q) # i
  <2>1. \A q \in Slot : At(q) \in {"failed", "drop"} /\ EventOf(q) = "failed"
                          => Busy(EgressOf(q)) /\ EgressOf(q) \in Egress
    BY DEF Busy, Failing
  <2> QED
    BY <2>1 DEF Held, Paired
<1>6. ForRow(e) = i /\ StateOf(e) # "none"
  BY DEF Held, Paired, Known
<1> USE <1>2
<1>7. \A q \in Slot : Failing(q)' <=> Failing(q)
  BY DEF Failing
<1>8. \A f \in Egress : (Running(f)' <=> Running(f)) /\ (Busy(f)' => Busy(f))
  BY <1>7, RunningIs DEF Busy, Failing
<1> USE <1>3
<1>9. Known'
  BY SMT, <1>6 DEF Held, Known
<1>10. Paired'
  BY SMT DEF Held, Paired
<1> USE <1>8
<1>11. OneReport'
  BY SMT, <1>7 DEF Held, OneReport, Failing
<1>12. OneHolder'
  BY SMT DEF Held, OneHolder
<1>13. SetAlone'
  <2>1. \A q \in Slot : q # p /\ At(q) = "setEgress" => EgressOf(q) # e
    BY <1>6 DEF Held, Paired
  <2> QED
    BY SMT, <2>1 DEF Held, SetAlone
<1>14. Counted'
  <2>1. TriesOf(p) <= RetryLimit
    BY DEF Held, Counted
  <2> QED
    BY SMT, <1>5, <2>1 DEF Held, Counted
<1> QED
  BY <1>9, <1>10, <1>11, <1>12, <1>13, <1>14 DEF Held

\* The steps that hold no more than before, by what they do to the handler.
LEMMA EndQuiet ==
    ASSUME Base, Held, NEW p \in Slot, End(p)
    PROVE  QuietHandlers
  BY EndMoves DEF Base, TypeOK, QuietHandlers, Aside, Serving, Moves, Others

\* SetStatus writes neither the egress nor the retries of a row.
LEMMA SetStatusQuiet ==
    ASSUME Base, NEW j, NEW s \in Status \ {"none"}, NEW err, SetStatus(j, s, err)
    PROVE  QuietRows
<1>1. row \in [Id -> Target]
  BY DEF Base, TypeOK
<1>2. ASSUME NEW i \in Id
      PROVE  /\ [row[i] EXCEPT !.st = s, !.error = err].st = s
             /\ [row[i] EXCEPT !.st = s, !.error = err].eg = row[i].eg
             /\ [row[i] EXCEPT !.st = s, !.error = err].retries = row[i].retries
  <2> row[i] \in Target
    BY <1>1
  <2> QED
    BY DEF Target
<1>3. row' = [row EXCEPT ![j] = [row[j] EXCEPT !.st = s, !.error = err]]
  BY DEF SetStatus
<1> QED
  BY <1>1, <1>2, <1>3 DEF QuietRows, StatusOf, PushOf, RetriesOf

\* So does an egress that goes on or ends, its failure apart.
LEMMA EgressQuiet ==
    ASSUME Base, NEW e \in Egress, NEW s \in {"active", "ended"}, Running(e),
           egress' = [egress EXCEPT ![e].st = s]
    PROVE  QuietEgress
<1>1. egress \in [Egress -> Push] /\ egress[e] \in Push
  BY DEF Base, TypeOK
<1>2. /\ [egress[e] EXCEPT !.st = s].st = s
      /\ [egress[e] EXCEPT !.st = s].id = egress[e].id
  BY <1>1 DEF Push
<1>3. egress' = [egress EXCEPT ![e] = [egress[e] EXCEPT !.st = s]]
  OBVIOUS
<1> QED
  BY <1>1, <1>2, <1>3 DEF QuietEgress, Running, StateOf, ForRow

\* Nor does the egress of a start call that failed all the same hold a row.
LEMMA LostQuiet ==
    ASSUME Base, NEW u, NEW i, StartTimesOut(u, i)
    PROVE  QuietEgress
<1> DEFINE g == [st |-> "starting", url |-> u, id |-> 0, lost |-> i]
<1>1. PICK e \in Unused : egress' = [egress EXCEPT ![e] = g]
  BY DEF StartTimesOut
<1>2. g.st = "starting" /\ g.id = 0
  OBVIOUS
<1> HIDE DEF g
<1>3. egress \in [Egress -> Push] /\ e \in Egress /\ egress[e].st = "none"
  BY <1>1 DEF Base, TypeOK, Unused
<1> QED
  BY <1>1, <1>2, <1>3 DEF QuietEgress, Running, StateOf, ForRow

\* What is left alone is quiet.
LEMMA UnchangedQuiet ==
    ASSUME Base, Held
    PROVE  /\ UNCHANGED row => QuietRows
           /\ UNCHANGED timers => QuietTimers
           /\ UNCHANGED egress => QuietEgress
           /\ UNCHANGED hooks => QuietHooks
           /\ UNCHANGED h => QuietHandlers
<1>1. UNCHANGED timers => QuietTimers
  BY SMT DEF QuietTimers, Base, TypeOK, Armed
<1>2. UNCHANGED egress => QuietEgress
  BY DEF QuietEgress, Running, StateOf, ForRow
<1> QED
  BY <1>1, <1>2, Unmoved
     DEF QuietRows, QuietHooks, QuietHandlers, RowsStay, RowStays, HandlersStay

=============================================================================
