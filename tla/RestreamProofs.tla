--------------------------- MODULE RestreamProofs ---------------------------
(***************************************************************************)
(* What is proved of the restream destinations, for any number of rows,    *)
(* egresses and handlers and whatever the environment does:                *)
(*                                                                         *)
(*   QuietStop      a destination stopped while nothing holds an older     *)
(*                  reading of its row stays stopped, repeated webhooks    *)
(*                  included;                                              *)
(*   Typing         the types;                                             *)
(*   OnePush        a destination is pushed to by one egress the service   *)
(*                  knows of or waits for one retry, when no webhook is    *)
(*                  delivered twice;                                       *)
(*   RetriesBounded it is retried at most RetryLimit times, likewise.      *)
(*                                                                         *)
(* Every step but Restart moves one handler.  EndKeeps, GoKeeps and        *)
(* SetKeeps say what such a move does to the types and Settled, the        *)
(* lemmas of RestreamPushProofs what the handler becomes and who holds its *)
(* destination next; the steps then only have to say where their handler   *)
(* stood and what they write.                                              *)
(***************************************************************************)
EXTENDS RestreamPushProofs

\* Zenon is the prover of a leaf that names none; the leaves with arithmetic,
\* records or many cases name SMT.
USE Zenon

\* The types of the rows, the handlers and the webhooks, and that Remove
\* knows the egress it stops.
Typed ==
    /\ row \in [Id -> Target]
    /\ h \in [Slot -> Handler]
    /\ hooks \subseteq Webhook
    /\ \A p \in Slot : h[p].pc \in {"mark", "stop"} => h[p].eg \in Egress

\* Row i is stopped for good.
Still(i) == row[i].st = "stopped" /\ Settled(i)

\* The empty handler has its type, no row and nothing to upgrade.
LEMMA IdleHandler ==
    /\ Idle \in Handler
    /\ Idle.pc = "idle" /\ Idle.id = 0 /\ Idle.todo = {}
<1>1. AnyUrl \in Url
  BY UrlAssumption DEF AnyUrl
<1> QED
  BY <1>1 DEF Idle, Handler, Pc, Event

\* The empty row has its type.
LEMMA EmptyRow == NoRow \in Target
<1>1. AnyUrl \in Url
  BY SMT, UrlAssumption DEF AnyUrl
<1> QED
  BY <1>1 DEF NoRow, Target, Status

\* No row has the id 0.
LEMMA NoIdZero == 0 \notin Id /\ Request \subseteq Slot /\ Retrier \subseteq Slot
  BY SMT, BoundsAssumption DEF Id, Slot

\* A handler that ends keeps the types of the handlers and leaves what is
\* settled settled.
LEMMA EndKeeps ==
    ASSUME Typed, NEW p \in Slot, End(p)
    PROVE  /\ h' \in [Slot -> Handler]
           /\ \A q \in Slot : h'[q].pc \in {"mark", "stop"} => h'[q].eg \in Egress
           /\ \A i \in Id : Settled(i) => Settled(i)'
<1>1. \A q \in Slot : h'[q] = IF q = p THEN Idle ELSE h[q]
  BY DEF End, Typed
<1>2. h' \in [Slot -> Handler]
  BY IdleHandler DEF End, Typed
<1>3. \A q \in Slot : h'[q].pc \in {"mark", "stop"} => h'[q].eg \in Egress
  BY <1>1, IdleHandler DEF Typed
<1>4. \A i \in Id : Settled(i) => Settled(i)'
  BY <1>1, IdleHandler, NoIdZero DEF Settled
<1> QED
  BY <1>2, <1>3, <1>4

\* So does one that goes to a step that writes no status, or whose row is
\* not the settled one.
LEMMA GoKeeps ==
    ASSUME Typed, NEW p \in Slot, NEW pc \in Pc, Go(p, pc),
           pc \in {"mark", "stop"} => h[p].eg \in Egress
    PROVE  /\ h' \in [Slot -> Handler]
           /\ \A q \in Slot : h'[q].pc \in {"mark", "stop"} => h'[q].eg \in Egress
           /\ \A i \in Id : Settled(i) /\ (pc \notin Moving \/ h[p].pc \in Moving)
                              => Settled(i)'
<1>0. h[p] \in Handler
  BY DEF Typed
<1>1. [h[p] EXCEPT !.pc = pc] \in Handler
  BY <1>0 DEF Handler
<1>2. h' = [h EXCEPT ![p] = [h[p] EXCEPT !.pc = pc]]
  BY DEF Go
<1>3. h' \in [Slot -> Handler]
  BY <1>1, <1>2 DEF Typed
<1>4. \A q \in Slot : /\ h'[q].pc = IF q = p THEN pc ELSE h[q].pc
                      /\ h'[q].eg = h[q].eg
                      /\ h'[q].id = h[q].id
                      /\ h'[q].todo = h[q].todo
  <2>1. /\ [h[p] EXCEPT !.pc = pc].pc = pc
        /\ [h[p] EXCEPT !.pc = pc].eg = h[p].eg
        /\ [h[p] EXCEPT !.pc = pc].id = h[p].id
        /\ [h[p] EXCEPT !.pc = pc].todo = h[p].todo
    BY <1>0 DEF Handler
  <2> QED
    BY <2>1, <1>2 DEF Typed
<1>5. \A q \in Slot : h'[q].pc \in {"mark", "stop"} => h'[q].eg \in Egress
  BY <1>4 DEF Typed
<1>6. \A i \in Id : Settled(i) /\ (pc \notin Moving \/ h[p].pc \in Moving)
                      => Settled(i)'
  BY <1>4 DEF Settled
<1> QED
  BY <1>3, <1>5, <1>6

\* So does one that becomes g, when g is not about to write the row.
LEMMA SetKeeps ==
    ASSUME Typed, NEW p \in Slot, NEW g \in Handler, h' = [h EXCEPT ![p] = g],
           g.pc \in {"mark", "stop"} => g.eg \in Egress
    PROVE  /\ h' \in [Slot -> Handler]
           /\ \A q \in Slot : h'[q].pc \in {"mark", "stop"} => h'[q].eg \in Egress
           /\ \A i \in Id : /\ Settled(i)
                            /\ g.pc \in Moving => g.id # i
                            /\ \A t \in g.todo : t[1] # i
                            => Settled(i)'
<1>1. \A q \in Slot : h'[q] = IF q = p THEN g ELSE h[q]
  BY DEF Typed
<1> QED
  BY <1>1 DEF Typed, Settled

\* SetStatus writes the status of one row and nothing else of it.
LEMMA SetStatusKeeps ==
    ASSUME Typed, NEW j, NEW s \in Status, NEW err \in {"none"} \cup Event,
           SetStatus(j, s, err)
    PROVE  /\ row' \in [Id -> Target]
           /\ \A i \in Id : row'[i].st = IF i = j THEN s ELSE row[i].st
<1>1. ASSUME NEW i \in Id
      PROVE  /\ [row[i] EXCEPT !.st = s, !.error = err] \in Target
             /\ [row[i] EXCEPT !.st = s, !.error = err].st = s
  <2> row[i] \in Target
    BY DEF Typed
  <2> QED
    BY DEF Target
<1>2. row' = [row EXCEPT ![j] = [row[j] EXCEPT !.st = s, !.error = err]]
  BY DEF SetStatus
<1> QED
  BY <1>1, <1>2 DEF Typed

\* What a step of a handler keeps: the types, and rows that are still.
Kept == Typed' /\ \A i \in Id : Still(i) => Still(i)'

\* A step that leaves the rows and the webhooks alone keeps everything when
\* it does so for the handlers.
LEMMA HandlersOnly ==
    ASSUME Typed, UNCHANGED row, hooks' \subseteq Webhook,
           h' \in [Slot -> Handler],
           \A q \in Slot : h'[q].pc \in {"mark", "stop"} => h'[q].eg \in Egress,
           \A i \in Id : Still(i) => Settled(i)'
    PROVE  Kept
  BY DEF Kept, Typed, Still

\* A step that writes rows keeps everything when it leaves the ones that are
\* still stopped.
LEMMA RowsToo ==
    ASSUME Typed, row' \in [Id -> Target], hooks' \subseteq Webhook,
           h' \in [Slot -> Handler],
           \A q \in Slot : h'[q].pc \in {"mark", "stop"} => h'[q].eg \in Egress,
           \A i \in Id : Still(i) => row'[i].st = "stopped" /\ Settled(i)'
    PROVE  Kept
  BY DEF Kept, Typed, Still

\* The steps of requests, webhooks and retries that write no row.
LEMMA QuietSteps ==
    ASSUME Typed, NEW p \in Slot,
           \/ AddCount(p) \/ AddLaunch(p) \/ MapEgress(p) \/ ListLive(p)
           \/ RemoveStop(p) \/ HookApp(p) \/ HookRow(p) \/ HookDrop(p)
           \/ HookRetry(p) \/ HookFire(p) \/ RetryLaunch(p) \/ RetryAgain(p)
           \/ SqlError(p)
    PROVE  Kept
<1>0. h[p] \in Handler /\ hooks \subseteq Webhook
  BY DEF Typed
<1> USE <1>0
<1>1. CASE AddCount(p)
  <2>1. (End(p) \/ Go(p, "launch")) /\ UNCHANGED <<row, hooks>>
    BY <1>1 DEF AddCount, memory, livekit
  <2>2. "launch" \in Pc /\ "launch" \notin Moving
    BY DEF Pc, Moving
  <2> QED
    BY <2>1, <2>2, EndKeeps, GoKeeps, HandlersOnly DEF Still
<1>2. CASE MapEgress(p)
  <2>1. End(p) /\ UNCHANGED <<row, hooks>>
    BY <1>2 DEF MapEgress, livekit
  <2> QED
    BY <2>1, EndKeeps, HandlersOnly DEF Still
<1>3. CASE HookApp(p)
  <2>1. (End(p) \/ Go(p, "row")) /\ UNCHANGED <<row, hooks>>
    BY <1>3 DEF HookApp, memory, livekit
  <2>2. "row" \in Pc /\ "row" \notin Moving
    BY DEF Pc, Moving
  <2> QED
    BY <2>1, <2>2, EndKeeps, GoKeeps, HandlersOnly DEF Still
<1>4. CASE HookDrop(p)
  <2>1. (End(p) \/ Go(p, "retry")) /\ UNCHANGED <<row, hooks>>
    BY <1>4 DEF HookDrop, livekit
  <2>2. "retry" \in Pc /\ "retry" \notin Moving
    BY DEF Pc, Moving
  <2> QED
    BY <2>1, <2>2, EndKeeps, GoKeeps, HandlersOnly DEF Still
<1>5. CASE HookRetry(p)
  <2>1. End(p) /\ UNCHANGED <<row, hooks>>
    BY <1>5 DEF HookRetry, livekit
  <2> QED
    BY SMT, <2>1, EndKeeps, HandlersOnly DEF Still
<1>6. CASE HookFire(p)
  <2>1. End(p) /\ UNCHANGED <<row, hooks>>
    BY <1>6 DEF HookFire, livekit
  <2> QED
    BY SMT, <2>1, EndKeeps, HandlersOnly DEF Still
<1>7. CASE RetryAgain(p)
  <2>1. End(p) /\ UNCHANGED <<row, hooks>>
    BY <1>7 DEF RetryAgain, livekit
  <2> QED
    BY SMT, <2>1, EndKeeps, HandlersOnly DEF Still
<1>8. CASE SqlError(p)
  <2>1. End(p) /\ UNCHANGED <<row, hooks>>
    BY <1>8 DEF SqlError, memory, livekit
  <2> QED
    BY SMT, <2>1, EndKeeps, HandlersOnly DEF Still
<1>9. CASE AddLaunch(p)
  <2>1. UNCHANGED <<row, hooks>>
    BY <1>9 DEF AddLaunch, memory
  <2>2. CASE End(p)
    BY <2>1, <2>2, EndKeeps, HandlersOnly DEF Still
  <2>3. ASSUME NEW e \in Egress,
               h' = [h EXCEPT ![p].pc = "insert", ![p].eg = e]
        PROVE  Kept
    <3> DEFINE g == [h[p] EXCEPT !.pc = "insert", !.eg = e]
    <3>1. g \in Handler /\ g.pc = "insert" /\ g.todo = h[p].todo
      BY DEF Handler, Pc
    <3>2. h' = [h EXCEPT ![p] = g]
      BY <2>3
    <3>3. \A i \in Id : Still(i) => \A t \in g.todo : t[1] # i
      BY <3>1 DEF Still, Settled
    <3> HIDE DEF g
    <3>4. g.pc \notin Moving /\ g.pc \notin {"mark", "stop"}
      BY <3>1 DEF Moving
    <3> QED
      BY <2>1, <3>1, <3>2, <3>3, <3>4, SetKeeps, HandlersOnly DEF Still
  <2> QED
    BY <1>9, <2>2, <2>3 DEF AddLaunch, Unused
<1>10. CASE RetryLaunch(p)
  <2>1. UNCHANGED <<row, hooks>> /\ h[p].pc = "relaunch"
    BY <1>10 DEF RetryLaunch, memory
  <2>2. CASE Go(p, "bump")
    <3> "bump" \in Pc /\ "bump" \notin Moving
      BY DEF Pc, Moving
    <3> QED
      BY <2>1, <2>2, GoKeeps, HandlersOnly DEF Still
  <2>3. ASSUME NEW e \in Egress,
               h' = [h EXCEPT ![p].pc = "setEgress", ![p].eg = e]
        PROVE  Kept
    <3> DEFINE g == [h[p] EXCEPT !.pc = "setEgress", !.eg = e]
    <3>1. /\ g \in Handler /\ g.pc = "setEgress"
          /\ g.id = h[p].id /\ g.todo = h[p].todo
      BY DEF Handler, Pc
    <3>2. h' = [h EXCEPT ![p] = g]
      BY <2>3
    <3>3. \A i \in Id : Still(i) => g.id # i /\ \A t \in g.todo : t[1] # i
      BY <2>1, <3>1 DEF Still, Settled, Moving
    <3> HIDE DEF g
    <3> QED
      BY <2>1, <3>1, <3>2, <3>3, SetKeeps, HandlersOnly DEF Still
  <2> QED
    BY <1>10, <2>2, <2>3 DEF RetryLaunch, Unused
<1>11. CASE ListLive(p)
  <2>1. UNCHANGED <<row, hooks>> /\ h[p].pc = "listLive"
    BY <1>11 DEF ListLive, memory, livekit
  <2>2. CASE End(p)
    BY <2>1, <2>2, EndKeeps, HandlersOnly DEF Still
  <2>3. ASSUME NEW todo \in SUBSET h[p].todo,
               h' = [h EXCEPT ![p] = [h[p] EXCEPT !.pc = "listSet", !.todo = todo]]
        PROVE  Kept
    <3> DEFINE g == [h[p] EXCEPT !.pc = "listSet", !.todo = todo]
    <3>1. g \in Handler /\ g.pc = "listSet" /\ g.todo = todo
      BY DEF Handler, Pc
    <3>2. \A i \in Id : Still(i) => \A t \in g.todo : t[1] # i
      BY <3>1 DEF Still, Settled
    <3>3. h' = [h EXCEPT ![p] = g]
      BY <2>3
    <3> HIDE DEF g
    <3>4. g.pc \notin Moving /\ g.pc \notin {"mark", "stop"}
      BY <3>1 DEF Moving
    <3> QED
      BY <2>1, <3>1, <3>2, <3>3, <3>4, SetKeeps, HandlersOnly DEF Still
  <2> DEFINE shown == {t \in h[p].todo : egress[t[2]].st = "active"}
  <2>4. \/ End(p)
        \/ h' = [h EXCEPT ![p] = [h[p] EXCEPT !.pc = "listSet", !.todo = shown]]
    BY <1>11 DEF ListLive, End
  <2>5. shown \in SUBSET h[p].todo
    OBVIOUS
  <2> HIDE DEF shown
  <2> QED
    BY <2>2, <2>3, <2>4, <2>5
<1>12. CASE RemoveStop(p)
  <2>1. End(p) /\ UNCHANGED row /\ h[p].eg \in Egress
    BY <1>12 DEF RemoveStop, Typed
  <2>2. hooks' \subseteq Webhook
    <3>1. [eg |-> h[p].eg, ev |-> "complete", ours |-> TRUE] \in Webhook
      BY <2>1 DEF Webhook, Event
    <3>2. \/ UNCHANGED hooks
          \/ hooks' = hooks \cup
               {[eg |-> h[p].eg, ev |-> "complete", ours |-> TRUE]}
      BY <1>12 DEF RemoveStop, StopEgress, livekit
    <3> QED
      BY <3>1, <3>2
  <2> QED
    BY <2>1, <2>2, EndKeeps, HandlersOnly DEF Still
<1>13. CASE HookRow(p)
  <2>1. UNCHANGED <<row, hooks>>
    BY <1>13 DEF HookRow, memory, livekit
  <2>2. CASE End(p)
    BY SMT, <2>1, <2>2, EndKeeps, HandlersOnly DEF Still
  <2>3. ASSUME NEW j \in Id, OnEgressEvent(h[p].ev, row[j].st) # "idle",
               h' = [h EXCEPT ![p] =
                       [h[p] EXCEPT !.pc = OnEgressEvent(h[p].ev, row[j].st),
                                    !.id = j, !.n = row[j].retries]]
        PROVE  Kept
    <3> DEFINE pc == OnEgressEvent(h[p].ev, row[j].st)
               g == [h[p] EXCEPT !.pc = pc, !.id = j, !.n = row[j].retries]
    <3>1. pc \in {"active", "failed", "stopped"} /\ row[j].st # "stopped"
      BY <2>3 DEF OnEgressEvent, Handler, Event
    <3>2. row[j].retries \in Nat
      BY DEF Typed, Target
    <3>3. /\ g \in Handler /\ g.pc \notin {"mark", "stop"}
          /\ g.id = j /\ g.todo = h[p].todo
      BY <3>1, <3>2 DEF Handler, Pc
    <3>4. h' = [h EXCEPT ![p] = g]
      BY <2>3
    <3> HIDE DEF g
    <3>5. \A i \in Id : Still(i) => g.id # i /\ \A t \in g.todo : t[1] # i
      BY <3>1, <3>3 DEF Still, Settled
    <3> QED
      BY <2>1, <3>3, <3>4, <3>5, SetKeeps, HandlersOnly DEF Still
  <2> QED
    BY <1>13, <2>2, <2>3 DEF HookRow, ByEgressID, End
<1> QED
  BY <1>1, <1>2, <1>3, <1>4, <1>5, <1>6, <1>7, <1>8, <1>9, <1>10, <1>11, <1>12, <1>13

\* The steps that write a row: the handler had read it, so it was not still.
LEMMA WritingSteps ==
    ASSUME Typed, NEW p \in Slot,
           \/ AddInsert(p) \/ ListSet(p) \/ RemoveMark(p) \/ HookActive(p)
           \/ HookFailed(p) \/ HookStopped(p) \/ RetryBump(p) \/ RetrySet(p)
    PROVE  Kept
<1>0. h[p] \in Handler /\ hooks \subseteq Webhook
  BY DEF Typed
<1> USE <1>0
<1>1. CASE HookActive(p)
  <2>1. /\ h[p].pc = "active" /\ SetStatus(h[p].id, "active", "none")
        /\ End(p) /\ UNCHANGED hooks
    BY <1>1 DEF HookActive, memory, livekit
  <2>2. \A i \in Id : Still(i) => h[p].id # i
    BY <2>1 DEF Still, Settled, Moving
  <2>3. "active" \in Status
    BY DEF Status
  <2> QED
    BY <2>1, <2>2, <2>3, EndKeeps, SetStatusKeeps, RowsToo DEF Still
<1>2. CASE HookFailed(p)
  <2>1. /\ h[p].pc = "failed" /\ SetStatus(h[p].id, "failed", h[p].ev)
        /\ Go(p, "drop") /\ UNCHANGED hooks
    BY <1>2 DEF HookFailed, memory, livekit
  <2>2. \A i \in Id : Still(i) => h[p].id # i
    BY <2>1 DEF Still, Settled, Moving
  <2>3. "failed" \in Status /\ h[p].ev \in Event
    BY DEF Status, Handler
  <2>4. "drop" \in Pc /\ "drop" \notin Moving
    BY DEF Pc, Moving
  <2> QED
    BY <2>1, <2>2, <2>3, <2>4, GoKeeps, SetStatusKeeps, RowsToo DEF Still
<1>3. CASE HookStopped(p)
  <2>1. /\ SetStatus(h[p].id, "stopped", "none")
        /\ Go(p, "fire") /\ UNCHANGED hooks
    BY <1>3 DEF HookStopped, memory, livekit
  <2>2. "stopped" \in Status
    BY DEF Status
  <2>3. "fire" \in Pc /\ "fire" \notin Moving
    BY DEF Pc, Moving
  <2> QED
    BY <2>1, <2>2, <2>3, GoKeeps, SetStatusKeeps, RowsToo DEF Still
<1>4. CASE RemoveMark(p)
  <2>1. /\ h[p].pc = "mark" /\ SetStatus(h[p].id, "stopped", "none")
        /\ End(p) \/ Go(p, "stop")
        /\ UNCHANGED hooks
    BY <1>4 DEF RemoveMark, livekit
  <2>2. "stopped" \in Status
    BY SMT DEF Status
  <2>3. "stop" \in Pc /\ "stop" \notin Moving /\ h[p].eg \in Egress
    BY <2>1 DEF Pc, Moving, Typed
  <2> QED
    BY SMT, <2>1, <2>2, <2>3, EndKeeps, GoKeeps, SetStatusKeeps, RowsToo DEF Still
<1>5. CASE RetryBump(p)
  <2>1. /\ \/ row' = [row EXCEPT ![h[p].id].retries = h[p].n]
           \/ UNCHANGED row
        /\ End(p) \/ Go(p, "again")
        /\ UNCHANGED hooks
    BY <1>5 DEF RetryBump, memory, livekit
  <2>2. row' \in [Id -> Target] /\ \A i \in Id : row'[i].st = row[i].st
    <3>1. h[p].n \in Nat
      BY DEF Handler
    <3>2. ASSUME NEW i \in Id
          PROVE  /\ [row[i] EXCEPT !.retries = h[p].n] \in Target
                 /\ [row[i] EXCEPT !.retries = h[p].n].st = row[i].st
      <4> row[i] \in Target
        BY DEF Typed
      <4> QED
        BY <3>1 DEF Target
    <3>3. CASE row' = [row EXCEPT ![h[p].id].retries = h[p].n]
      <4>1. row' = [row EXCEPT ![h[p].id] =
                      [row[h[p].id] EXCEPT !.retries = h[p].n]]
        BY <3>3
      <4> QED
        BY <3>2, <4>1 DEF Typed
    <3> QED
      BY <2>1, <3>3 DEF Typed
  <2>3. "again" \in Pc /\ "again" \notin Moving
    BY DEF Pc, Moving
  <2> QED
    BY <2>1, <2>2, <2>3, EndKeeps, GoKeeps, RowsToo DEF Still
<1>6. CASE RetrySet(p)
  <2> DEFINE Relaunched(r) == [r EXCEPT !.st = "starting", !.eg = h[p].eg,
                                        !.retries = h[p].n, !.error = "none"]
  <2>1. /\ h[p].pc = "setEgress"
        /\ row' = [row EXCEPT ![h[p].id] = Relaunched(row[h[p].id])]
        /\ Go(p, "map") /\ UNCHANGED hooks
    BY <1>6 DEF RetrySet, memory, livekit
  <2>2. ASSUME NEW r \in Target PROVE Relaunched(r) \in Target
    BY DEF Target, Status, Handler
  <2>3. \A i \in Id : Still(i) => h[p].id # i
    BY <2>1 DEF Still, Settled, Moving
  <2> HIDE DEF Relaunched
  <2>4. row' \in [Id -> Target] /\ \A i \in Id : i # h[p].id => row'[i] = row[i]
    BY <2>1, <2>2 DEF Typed
  <2>5. "map" \in Pc /\ "map" \notin Moving
    BY DEF Pc, Moving
  <2> QED
    BY <2>1, <2>3, <2>4, <2>5, GoKeeps, RowsToo DEF Still
<1>7. CASE AddInsert(p)
  <2> DEFINE Inserted == [NoRow EXCEPT !.st = "starting", !.url = h[p].url,
                                       !.eg = h[p].eg]
  <2>1. PICK j \in NewId : row' = [row EXCEPT ![j] = Inserted]
    BY <1>7 DEF AddInsert
  <2>2. (End(p) \/ Go(p, "map")) /\ UNCHANGED hooks
    BY <1>7 DEF AddInsert
  <2>3. Inserted \in Target
    BY EmptyRow DEF Target, Status, Handler
  <2> HIDE DEF Inserted
  <2>4. /\ row' \in [Id -> Target]
        /\ \A i \in Id : Still(i) => row'[i].st = "stopped"
    BY <2>1, <2>3 DEF Typed, NewId, Still
  <2>5. "map" \in Pc /\ "map" \notin Moving
    BY DEF Pc, Moving
  <2> QED
    BY <2>2, <2>4, <2>5, EndKeeps, GoKeeps, RowsToo DEF Still
<1>8. CASE ListSet(p)
  <2>1. PICK t \in h[p].todo :
          /\ SetStatus(t[1], "active", "none") \/ UNCHANGED row
          /\ h' = [h EXCEPT ![p] = IF h[p].todo = {t} THEN Idle
                                   ELSE [h[p] EXCEPT !.todo = h[p].todo \ {t}]]
    BY <1>8 DEF ListSet
  <2>2. h[p].pc = "listSet" /\ UNCHANGED hooks
    BY <1>8 DEF ListSet, memory, livekit
  <2>3. \A i \in Id : Still(i) => t[1] # i
    BY DEF Still, Settled
  <2>4. /\ row' \in [Id -> Target]
        /\ \A i \in Id : Still(i) => row'[i].st = "stopped"
    <3>1. "active" \in Status
      BY DEF Status
    <3> QED
      BY <2>1, <2>3, <3>1, SetStatusKeeps DEF Typed, Still
  <2>5. CASE h[p].todo = {t}
    <3>1. End(p)
      BY <2>1, <2>5 DEF End
    <3> QED
      BY <2>2, <2>4, <3>1, EndKeeps, RowsToo DEF Still
  <2>6. CASE h[p].todo # {t}
    <3> DEFINE g == [h[p] EXCEPT !.todo = h[p].todo \ {t}]
    <3>1. /\ g \in Handler /\ g.pc = "listSet"
          /\ g.todo \subseteq h[p].todo
      BY <2>2 DEF Handler
    <3>2. h' = [h EXCEPT ![p] = g]
      BY <2>1, <2>6
    <3> HIDE DEF g
    <3>3. g.pc \notin Moving /\ g.pc \notin {"mark", "stop"}
      BY <3>1 DEF Moving
    <3>4. \A i \in Id : Still(i) => \A u \in g.todo : u[1] # i
      BY <3>1 DEF Still, Settled
    <3> QED
      BY <2>2, <2>4, <3>1, <3>2, <3>3, <3>4, SetKeeps, RowsToo DEF Still
  <2> QED
    BY <2>5, <2>6
<1> QED
  BY <1>1, <1>2, <1>3, <1>4, <1>5, <1>6, <1>7, <1>8

\* The requests, webhooks and timers that become a handler: none of them
\* takes up a stopped row to move it.
LEMMA Arrivals ==
    ASSUME Typed, NEW p \in Slot,
           \/ \E u \in Url : Add(p, u)
           \/ List(p)
           \/ \E e \in Egress : Remove(p, e)
           \/ \E m \in hooks : Receive(p, m)
           \/ \E j \in Id : Retry(p, j)
    PROVE  Kept
<1>0. hooks \subseteq Webhook
  BY DEF Typed
<1> USE <1>0
<1>a. ASSUME NEW g \in Handler, h' = [h EXCEPT ![p] = g], UNCHANGED row,
             hooks' \subseteq hooks, g.pc \in {"mark", "stop"} => g.eg \in Egress,
             \A i \in Id : Still(i) => /\ g.pc \in Moving => g.id # i
                                       /\ \A t \in g.todo : t[1] # i
      PROVE  Kept
  BY <1>a, SetKeeps, HandlersOnly DEF Still
<1>1. ASSUME NEW u \in Url, Add(p, u) PROVE Kept
  <2> DEFINE g == [Idle EXCEPT !.pc = "count", !.url = u]
  <2>1. g \in Handler /\ g.pc = "count" /\ g.todo = {}
    BY IdleHandler DEF Handler, Pc
  <2>2. h' = [h EXCEPT ![p] = g] /\ UNCHANGED <<row, hooks>>
    BY <1>1 DEF Add, livekit
  <2> HIDE DEF g
  <2>3. g.pc \notin Moving /\ g.pc \notin {"mark", "stop"}
    BY <2>1 DEF Moving
  <2> QED
    BY <1>a, <2>1, <2>2, <2>3
<1>2. ASSUME List(p) PROVE Kept
  <2> DEFINE todo == {<<i, row[i].eg>> : i \in {j \in Id : row[j].st = "starting"}}
             g == [Idle EXCEPT !.pc = "listLive", !.todo = todo]
  <2>1. todo \subseteq Id \X (Egress \cup {0})
    BY SMT DEF Typed, Target
  <2>2. \A i \in Id : Still(i) => \A t \in todo : t[1] # i
    BY SMT DEF Still
  <2>3. h' = [h EXCEPT ![p] = g] /\ UNCHANGED <<row, hooks>>
    BY <1>2 DEF List, livekit
  <2> HIDE DEF todo
  <2>4. g \in Handler /\ g.pc = "listLive" /\ g.todo = todo
    BY <2>1, IdleHandler DEF Handler, Pc
  <2> HIDE DEF g
  <2>5. g.pc \notin Moving /\ g.pc \notin {"mark", "stop"}
    BY <2>4 DEF Moving
  <2> QED
    BY <1>a, <2>2, <2>3, <2>4, <2>5
<1>3. ASSUME NEW e \in Egress, Remove(p, e) PROVE Kept
  <2>1. PICK j \in Id :
          /\ h' = [h EXCEPT ![p] =
                     [Idle EXCEPT !.pc = "mark", !.id = j, !.eg = e,
                                  !.live = row[j].st \in Live]]
          /\ UNCHANGED <<row, hooks>>
    BY <1>3 DEF Remove, ByEgressID, livekit
  <2> DEFINE g == [Idle EXCEPT !.pc = "mark", !.id = j, !.eg = e,
                               !.live = row[j].st \in Live]
  <2>2. (row[j].st \in Live) \in BOOLEAN
    BY SMT
  <2>3. g \in Handler /\ g.pc = "mark" /\ g.eg = e /\ g.todo = {}
    BY <2>2, IdleHandler DEF Handler, Pc
  <2>4. h' = [h EXCEPT ![p] = g]
    BY <2>1
  <2> HIDE DEF g
  <2>5. g.pc \notin Moving
    BY <2>3 DEF Moving
  <2> QED
    BY <1>a, <2>1, <2>3, <2>4, <2>5
<1>4. ASSUME NEW m \in hooks, Receive(p, m) PROVE Kept
  <2> DEFINE g == [Idle EXCEPT !.pc = "app", !.eg = m.eg, !.ev = m.ev,
                               !.ours = m.ours]
  <2>1. m.eg \in Egress /\ m.ev \in Event /\ m.ours \in BOOLEAN
    BY DEF Webhook
  <2>2. g \in Handler /\ g.pc = "app" /\ g.todo = {}
    BY <2>1, IdleHandler DEF Handler, Pc
  <2>3. h' = [h EXCEPT ![p] = g] /\ UNCHANGED row /\ hooks' \subseteq hooks
    BY <1>4 DEF Receive
  <2> HIDE DEF g
  <2>4. g.pc \notin Moving /\ g.pc \notin {"mark", "stop"}
    BY <2>2 DEF Moving
  <2> QED
    BY <1>a, <2>2, <2>3, <2>4
<1>5. ASSUME NEW j \in Id, Retry(p, j) PROVE Kept
  <2>1. UNCHANGED <<row, hooks>>
    BY <1>5 DEF Retry, livekit
  <2>2. CASE row[j].st # "failed"
    <3> End(p)
      BY <1>5, <2>2 DEF Retry, End
    <3> QED
      BY <2>1, EndKeeps, HandlersOnly DEF Still
  <2>3. CASE row[j].st = "failed"
    <3> DEFINE g == [Idle EXCEPT !.pc = "relaunch", !.id = j,
                                 !.url = row[j].url, !.n = row[j].retries + 1]
    <3>1. row[j].url \in Url /\ row[j].retries + 1 \in Nat
      BY SMT DEF Typed, Target
    <3>2. g \in Handler /\ g.pc = "relaunch" /\ g.id = j /\ g.todo = {}
      BY <3>1, IdleHandler DEF Handler, Pc
    <3>3. h' = [h EXCEPT ![p] = g]
      BY <1>5, <2>3 DEF Retry
    <3>4. \A i \in Id : Still(i) => i # j
      BY <2>3 DEF Still
    <3> HIDE DEF g
    <3> QED
      BY <1>a, <2>1, <3>2, <3>3, <3>4
  <2> QED
    BY <2>2, <2>3
<1> QED
  BY <1>1, <1>2, <1>3, <1>4, <1>5

\* Every step keeps the types and leaves a stopped, settled row so.
LEMMA Steps == ASSUME Typed, [Next]_vars PROVE Kept
<1>1. ASSUME NEW p \in Slot, Step(p) \/ SqlError(p) PROVE Kept
  BY <1>1, QuietSteps, WritingSteps DEF Step
<1> USE NoIdZero
<1>2. ASSUME NEW p \in Request,
             \/ \E u \in Url : Add(p, u)
             \/ List(p)
             \/ \E e \in Egress : Remove(p, e)
             \/ \E m \in hooks : Receive(p, m)
      PROVE  Kept
  BY <1>2, Arrivals
<1>3. ASSUME NEW p \in Retrier, NEW j \in Id, Retry(p, j) PROVE Kept
  BY <1>3, Arrivals
<1>4. ASSUME NEW e \in Egress, Reported(e) PROVE Kept
  <2>1. UNCHANGED <<row, h>>
    BY <1>4 DEF Reported
  <2>2. hooks' \subseteq Webhook
    <3>1. \A ev \in Event : [eg |-> e, ev |-> ev, ours |-> FALSE] \in Webhook
      BY DEF Webhook
    <3>2. \E ev \in Event :
            hooks' = hooks \cup {[eg |-> e, ev |-> ev, ours |-> FALSE]}
      BY <1>4 DEF Reported, Event
    <3> QED
      BY <3>1, <3>2 DEF Typed
  <2> QED
    BY <2>1, <2>2 DEF Kept, Typed, Still, Settled
<1>5. CASE Restart
  <2>1. UNCHANGED <<row, hooks>> /\ h' = [p \in Slot |-> Idle]
    BY <1>5 DEF Restart, livekit
  <2>2. \A i \in Id : Settled(i)'
    BY <2>1, IdleHandler DEF Settled
  <2> QED
    BY <2>1, <2>2, IdleHandler DEF Kept, Typed, Still
<1>6. CASE Close \/ (\E i \in Id : RetryReadError(i)) \/ UNCHANGED vars
  <2>1. UNCHANGED <<row, h, hooks>>
    BY <1>6 DEF Close, RetryReadError, vars, livekit
  <2> QED
    BY <2>1 DEF Kept, Typed, Still, Settled
<1> QED
  BY <1>1, <1>2, <1>3, <1>4, <1>5, <1>6 DEF Next

\* A destination that is stopped while no handler holds an older reading of
\* its row stays stopped: onEgressEvent, retry and refreshFromLiveKit all
\* look at the status they read before they write.
THEOREM QuietStop == Spec => QuietStopIsFinal
<1>1. Init => Typed
  BY IdleHandler, EmptyRow DEF Init, Typed
<1>2. Typed /\ [Next]_vars => Typed'
  BY Steps DEF Kept
<1>3. Typed /\ [Next]_vars =>
        [\A i \in Id : row[i].st = "stopped" /\ Settled(i)
                         => (row[i].st = "stopped" /\ Settled(i))']_vars
  BY Steps DEF Kept, Still
<1> QED
  BY <1>1, <1>2, <1>3, PTL DEF Spec, QuietStopIsFinal

-----------------------------------------------------------------------------
(* Types *)

\* The map, the timers and the counters keep their types.
LEMMA MemoryTypes ==
    ASSUME TypeOK, Knows, [Next]_vars
    PROVE  /\ egressApp' \subseteq Egress /\ timers' \in [Id -> Nat]
           /\ closed' \in BOOLEAN /\ faults' \in 0 .. MaxFaults
<1> DEFINE Goal == /\ egressApp' \subseteq Egress /\ timers' \in [Id -> Nat]
                   /\ closed' \in BOOLEAN /\ faults' \in 0 .. MaxFaults
<1>0. /\ egressApp \subseteq Egress /\ timers \in [Id -> Nat]
      /\ closed \in BOOLEAN /\ faults \in 0 .. MaxFaults
  BY DEF TypeOK
<1> USE <1>0
<1>f. ASSUME NEW kind, Fault(kind) PROVE faults' \in 0 .. MaxFaults
  BY SMT, <1>f, BoundsAssumption DEF Fault
<1>s. ASSUME NEW i, ScheduleRetry(i) PROVE timers' \in [Id -> Nat]
  <2>1. CASE i \in Id
    <3>1. timers[i] + 1 \in Nat
      BY SMT, <2>1
    <3> QED
      BY <1>s, <3>1 DEF ScheduleRetry
  <2>2. CASE i \notin Id
    BY <1>s, <2>2 DEF ScheduleRetry
  <2> QED
    BY <2>1, <2>2
<1>d. ASSUME NEW i \in Id, timers[i] > 0, timers' = [timers EXCEPT ![i] = @ - 1]
      PROVE  timers' \in [Id -> Nat]
  BY SMT, <1>d
<1>z. [i \in Id |-> 0] \in [Id -> Nat]
  OBVIOUS
<1>1. ASSUME NEW p \in Slot,
             \/ AddCount(p) \/ ListLive(p) \/ RemoveStop(p)
             \/ HookApp(p) \/ HookRow(p) \/ HookActive(p) \/ HookFailed(p)
             \/ HookStopped(p) \/ RetrySet(p)
      PROVE  Goal
  BY <1>1
     DEF AddCount, ListLive, RemoveStop, HookApp, HookRow, HookActive,
         HookFailed, HookStopped, RetrySet, memory
<1>2. ASSUME NEW p \in Slot,
             \/ AddInsert(p) \/ ListSet(p) \/ RetryBump(p) \/ SqlError(p)
             \/ AddLaunch(p) \/ RetryLaunch(p)
      PROVE  Goal
  <2>1. UNCHANGED memory /\ (UNCHANGED faults \/ Fault("sql") \/ Fault("lost"))
    BY <1>2
       DEF AddInsert, ListSet, RetryBump, SqlError, AddLaunch, RetryLaunch,
           StartTimesOut
  <2> QED
    BY <1>f, <2>1 DEF memory
<1>3. ASSUME NEW p \in Slot,
             MapEgress(p) \/ RemoveMark(p) \/ HookDrop(p) \/ HookFire(p)
      PROVE  Goal
  <2>1. h[p].pc \in WithEgress => h[p].eg \in Egress
    BY DEF Knows, At, EgressOf
  <2>2. UNCHANGED <<timers, closed, faults>>
    BY <1>3 DEF MapEgress, RemoveMark, HookDrop, HookFire
  <2>3. \/ h[p].pc = "map" /\ egressApp' = egressApp \cup {h[p].eg}
        \/ egressApp' = egressApp \ {h[p].eg}
    BY <1>3 DEF MapEgress, RemoveMark, HookDrop, HookFire
  <2>4. egressApp' \subseteq Egress
    BY <2>1, <2>3 DEF WithEgress
  <2> QED
    BY <2>2, <2>4
<1>4. ASSUME NEW p \in Slot, HookRetry(p) \/ RetryAgain(p) PROVE Goal
  <2>1. ScheduleRetry(h[p].id) /\ UNCHANGED <<egressApp, closed, faults>>
    BY <1>4 DEF HookRetry, RetryAgain
  <2> QED
    BY <1>s, <2>1
<1>5. ASSUME NEW p \in Request,
             \/ \E u \in Url : Add(p, u)
             \/ List(p)
             \/ \E e \in Egress : Remove(p, e)
             \/ \E m \in hooks : Receive(p, m)
      PROVE  Goal
  BY <1>5 DEF Add, List, Remove, Receive, memory
<1>6. ASSUME NEW p \in Retrier, NEW i \in Id, Retry(p, i) PROVE Goal
  BY <1>6, <1>d DEF Retry
<1>7. ASSUME NEW i \in Id, RetryReadError(i) PROVE Goal
  BY <1>7, <1>d, <1>f DEF RetryReadError
<1>8. CASE (\E e \in Egress : Reported(e)) \/ UNCHANGED vars
  BY <1>8 DEF Reported, vars, memory
<1>9. CASE Close
  BY <1>9, <1>f, <1>z DEF Close
<1>10. CASE Restart
  BY <1>10, <1>f, <1>z DEF Restart
<1> QED
  BY <1>1, <1>2, <1>3, <1>4, <1>5, <1>6, <1>7, <1>8, <1>9, <1>10 DEF Next, Step

\* An egress that starts: for row i, or in a call of row j that fails.
Started(u, i, j) == [st |-> "starting", url |-> u, id |-> i, lost |-> j]

\* What a step does to LiveKit's egresses: it starts an unused one, gives
\* one its row, or moves one on.
LEMMA EgressMoves ==
    ASSUME TypeOK, Knows, [Next]_vars
    PROVE  \/ UNCHANGED egress
           \/ \E e \in Unused, u \in Url, i, j \in Id \cup {0} :
                egress' = [egress EXCEPT ![e] = Started(u, i, j)]
           \/ \E e \in Egress, i \in Id : egress' = [egress EXCEPT ![e].id = i]
           \/ \E e \in Egress, s \in {"active", "ended"} :
                Running(e) /\ egress' = [egress EXCEPT ![e].st = s]
<1>0. \A p \in Slot : /\ h[p].url \in Url /\ h[p].id \in Id \cup {0}
                      /\ h[p].pc \in {"insert", "stop"} => h[p].eg \in Egress
  BY DEF TypeOK, Handler, Knows, WithEgress, At, EgressOf
<1> USE <1>0
<1>1. ASSUME NEW p \in Slot, AddLaunch(p) \/ RetryLaunch(p)
      PROVE  \/ UNCHANGED egress
             \/ \E e \in Unused, u \in Url, i, j \in Id \cup {0} :
                  egress' = [egress EXCEPT ![e] = Started(u, i, j)]
  <2>1. \/ UNCHANGED egress
        \/ \E e \in Unused, i \in Id \cup {0} : StartStreamEgress(e, h[p].url, i)
        \/ \E i \in Id \cup {0} : StartTimesOut(h[p].url, i)
    BY <1>1 DEF AddLaunch, RetryLaunch
  <2>2. ASSUME NEW e \in Unused, NEW i \in Id \cup {0},
               StartStreamEgress(e, h[p].url, i)
        PROVE  \E u \in Url, k, j \in Id \cup {0} :
                 egress' = [egress EXCEPT ![e] = Started(u, k, j)]
    <3>1. egress' = [egress EXCEPT ![e] = Started(h[p].url, i, 0)]
      BY <2>2 DEF StartStreamEgress, Started
    <3> QED
      BY <3>1
  <2>3. ASSUME NEW i \in Id \cup {0}, StartTimesOut(h[p].url, i)
        PROVE  \E e \in Unused, u \in Url, k, j \in Id \cup {0} :
                 egress' = [egress EXCEPT ![e] = Started(u, k, j)]
    <3>1. PICK e \in Unused : egress' = [egress EXCEPT ![e] = Started(h[p].url, 0, i)]
      BY <2>3 DEF StartTimesOut, Started
    <3> QED
      BY <3>1
  <2> QED
    BY <2>1, <2>2, <2>3
<1>2. ASSUME NEW p \in Slot, AddInsert(p)
      PROVE  \E e \in Egress, i \in Id : egress' = [egress EXCEPT ![e].id = i]
  BY <1>2 DEF AddInsert, NewId
<1>3. ASSUME NEW p \in Slot, RemoveStop(p)
      PROVE  \/ UNCHANGED egress
             \/ \E e \in Egress : Running(e) /\ egress' = [egress EXCEPT ![e].st = "ended"]
  BY <1>3 DEF RemoveStop, StopEgress, livekit
<1>4. ASSUME NEW p \in Slot,
             \/ AddCount(p) \/ MapEgress(p) \/ ListLive(p) \/ ListSet(p)
             \/ RemoveMark(p) \/ HookApp(p) \/ HookRow(p) \/ HookActive(p)
             \/ HookFailed(p) \/ HookDrop(p) \/ HookRetry(p) \/ HookStopped(p)
             \/ HookFire(p) \/ RetryBump(p) \/ RetryAgain(p) \/ RetrySet(p)
             \/ SqlError(p)
      PROVE  UNCHANGED egress
  BY <1>4
     DEF AddCount, MapEgress, ListLive, ListSet, RemoveMark, HookApp, HookRow,
         HookActive, HookFailed, HookDrop, HookRetry, HookStopped, HookFire, RetryBump,
         RetryAgain, RetrySet, SqlError, livekit
<1>5. ASSUME NEW p \in Request,
             \/ \E u \in Url : Add(p, u)
             \/ List(p)
             \/ \E e \in Egress : Remove(p, e)
             \/ \E m \in hooks : Receive(p, m)
      PROVE  UNCHANGED egress
  BY <1>5 DEF Add, List, Remove, Receive, livekit
<1>6. ASSUME NEW p \in Retrier, NEW i \in Id, Retry(p, i) PROVE UNCHANGED egress
  BY <1>6 DEF Retry, livekit
<1>7. ASSUME NEW e \in Egress, Reported(e)
      PROVE  \E s \in {"active", "ended"} :
               Running(e) /\ egress' = [egress EXCEPT ![e].st = s]
  BY <1>7 DEF Reported, Running
<1>8. CASE (\E i \in Id : RetryReadError(i)) \/ Close \/ Restart \/ UNCHANGED vars
  BY <1>8 DEF RetryReadError, Close, Restart, vars, livekit
<1> QED
  BY <1>1, <1>2, <1>3, <1>4, <1>5, <1>6, <1>7, <1>8 DEF Next, Step

\* So the egresses keep their type.
LEMMA EgressTypes ==
    ASSUME TypeOK, Knows, [Next]_vars
    PROVE  egress' \in [Egress -> Push]
<1>0. egress \in [Egress -> Push]
  BY DEF TypeOK
<1> USE <1>0
<1>1. ASSUME NEW e \in Unused, NEW u \in Url,
             NEW i \in Id \cup {0}, NEW j \in Id \cup {0},
             egress' = [egress EXCEPT ![e] = Started(u, i, j)]
      PROVE  egress' \in [Egress -> Push]
  <2>1. Started(u, i, j) \in Push
    BY DEF Push, Started
  <2> QED
    BY <1>1, <2>1
<1>2. ASSUME NEW e \in Egress, NEW i \in Id, egress' = [egress EXCEPT ![e].id = i]
      PROVE  egress' \in [Egress -> Push]
  <2>1. egress[e] \in Push
    OBVIOUS
  <2>2. [egress[e] EXCEPT !.id = i] \in Push
    BY <2>1 DEF Push
  <2> QED
    BY <1>2, <2>2
<1>3. ASSUME NEW e \in Egress, NEW s \in {"active", "ended"},
             egress' = [egress EXCEPT ![e].st = s]
      PROVE  egress' \in [Egress -> Push]
  <2>1. egress[e] \in Push
    OBVIOUS
  <2>2. [egress[e] EXCEPT !.st = s] \in Push
    BY <2>1 DEF Push
  <2> QED
    BY <1>3, <2>2
<1> QED
  BY <1>1, <1>2, <1>3, EgressMoves

\* A handler keeps what it knows as it goes on.
LEMMA KnowsStep ==
    ASSUME TypeOK, Knows, [Next]_vars
    PROVE  Knows'
<1> USE DEF WithEgress, WithRow
<1>0. h \in [Slot -> Handler]
  BY DEF TypeOK
<1> USE <1>0
<1>e. ASSUME NEW p \in Slot, End(p) PROVE Knows'
  BY <1>e, EndMoves DEF Knows, Moves, Others, Stays
<1>g. ASSUME NEW p \in Slot, NEW pc, Go(p, pc),
             pc \in WithEgress => At(p) \in WithEgress,
             pc \in WithRow => At(p) \in WithRow
      PROVE  Knows'
  BY SMT, <1>g, GoMoves DEF Knows, Moves, Others, Stays
<1>l. ASSUME NEW p \in Slot, NEW pc, NEW e \in Egress,
             Takes(p, pc, e),
             pc \in WithRow => At(p) \in WithRow
      PROVE  Knows'
  BY <1>l, LaunchMoves DEF Knows, Moves, Others, Stays
<1>1. ASSUME NEW p \in Slot,
             \/ MapEgress(p) \/ RemoveStop(p) \/ HookActive(p) \/ HookRetry(p)
             \/ HookFire(p) \/ RetryAgain(p) \/ SqlError(p)
      PROVE  Knows'
  <2>1. End(p)
    BY <1>1
       DEF MapEgress, RemoveStop, HookActive, HookRetry, HookFire, RetryAgain, SqlError
  <2> QED
    BY <2>1, <1>e
<1>2. ASSUME NEW p \in Slot,
             \/ AddCount(p) \/ AddInsert(p) \/ RemoveMark(p) \/ HookApp(p)
             \/ HookFailed(p) \/ HookDrop(p) \/ HookStopped(p) \/ RetryBump(p)
             \/ RetrySet(p)
      PROVE  Knows'
  <2>1. \/ End(p)
        \/ At(p) = "count" /\ Go(p, "launch")
        \/ At(p) = "insert" /\ Go(p, "map")
        \/ At(p) = "mark" /\ Go(p, "stop")
        \/ At(p) = "app" /\ Go(p, "row")
        \/ At(p) = "failed" /\ Go(p, "drop")
        \/ At(p) = "drop" /\ Go(p, "retry")
        \/ At(p) = "stopped" /\ Go(p, "fire")
        \/ At(p) = "bump" /\ Go(p, "again")
        \/ At(p) = "setEgress" /\ Go(p, "map")
    BY SMT, <1>2
       DEF AddCount, AddInsert, RemoveMark, HookApp, HookFailed, HookDrop, HookStopped,
           RetryBump, RetrySet, At
  <2> QED
    BY <2>1, <1>e, <1>g
<1>3. ASSUME NEW p \in Slot, AddLaunch(p) PROVE Knows'
  <2>1. End(p) \/ \E e \in Egress : Takes(p, "insert", e)
    BY <1>3 DEF AddLaunch, Unused, Takes
  <2> QED
    BY <2>1, <1>e, <1>l
<1>4. ASSUME NEW p \in Slot, RetryLaunch(p) PROVE Knows'
  <2>1. CASE Go(p, "bump")
    BY <1>4, <2>1, <1>g DEF RetryLaunch, At
  <2>2. ASSUME NEW e \in Egress, Takes(p, "setEgress", e) PROVE Knows'
    BY <1>4, <2>2, <1>l DEF RetryLaunch, At
  <2> QED
    BY <1>4, <2>1, <2>2 DEF RetryLaunch, Unused, Takes
<1>5. ASSUME NEW p \in Slot, List(p) \/ ListLive(p) \/ ListSet(p) PROVE Knows'
  BY <1>5, <1>e, ListMoves DEF Knows, Moves, Others, Stays
<1>6. ASSUME NEW p \in Slot, HookRow(p) PROVE Knows'
  <2>1. At(p) = "row" /\ EgressOf(p) \in Egress
    BY <1>6 DEF HookRow, Knows, At
  <2> QED
    BY SMT, <1>6, <2>1, <1>e, HookRowMoves DEF Knows, ByEgressID, Moves, Others, Stays
<1>7. ASSUME NEW p \in Slot, NEW u \in Url, Add(p, u) PROVE Knows'
  BY <1>7, AddMoves DEF Knows, Moves, Others, Stays
<1>8. ASSUME NEW p \in Slot, NEW e \in Egress, Remove(p, e) PROVE Knows'
  BY <1>8, RemoveMoves DEF Knows, ByEgressID, Moves, Others, Stays
<1>9. ASSUME NEW p \in Slot, NEW m \in hooks, Receive(p, m) PROVE Knows'
  <2>1. m.eg \in Egress
    BY DEF TypeOK, Webhook
  <2> QED
    BY <1>9, <2>1, ReceiveMoves DEF Knows, Moves, Others, Stays
<1>10. ASSUME NEW p \in Slot, NEW i \in Id, Retry(p, i) PROVE Knows'
  BY <1>10, <1>e, RetryMoves DEF Knows, Moves, Others, Stays
<1>11. CASE Restart
  BY <1>11, IdleFields DEF Restart, Knows, At, RowOf, EgressOf
<1>12. CASE \/ \E i \in Id : RetryReadError(i)
            \/ \E e \in Egress : Reported(e)
            \/ Close \/ UNCHANGED vars
  <2>1. UNCHANGED h
    BY <1>12 DEF RetryReadError, Reported, Close, vars
  <2> QED
    BY <2>1 DEF Knows, At, RowOf, EgressOf
<1>13. Request \subseteq Slot /\ Retrier \subseteq Slot
  BY NoIdZero
<1> QED
  BY SMT, <1>1, <1>2, <1>3, <1>4, <1>5, <1>6, <1>7, <1>8, <1>9, <1>10, <1>11, <1>12,
     <1>13
     DEF Next, Step

\* Initially no handler is under way.
LEMMA TypeInit == Init => TypeOK /\ Knows
<1> SUFFICES ASSUME Init PROVE TypeOK /\ Knows
  OBVIOUS
<1>1. row \in [Id -> Target] /\ h \in [Slot -> Handler]
  BY IdleHandler, EmptyRow DEF Init
<1>2. egress \in [Egress -> Push]
  <2>1. AnyUrl \in Url
    BY UrlAssumption DEF AnyUrl
  <2> QED
    BY <2>1 DEF Init, Push
<1>3. /\ egressApp \subseteq Egress /\ timers \in [Id -> Nat]
      /\ closed \in BOOLEAN /\ hooks \subseteq Webhook
  BY DEF Init
<1>5. faults \in 0 .. MaxFaults
  BY SMT, BoundsAssumption DEF Init
<1>4. Knows
  BY IdleFields DEF Init, Knows, WithEgress, WithRow, At, RowOf, EgressOf
<1> QED
  BY <1>1, <1>2, <1>3, <1>4, <1>5 DEF TypeOK

\* Every step keeps the types and what the handlers know.
LEMMA TypeStep == TypeOK /\ Knows /\ [Next]_vars => (TypeOK /\ Knows)'
<1> SUFFICES ASSUME TypeOK, Knows, [Next]_vars PROVE TypeOK' /\ Knows'
  OBVIOUS
<1>1. Typed
  BY DEF Typed, TypeOK, Knows, WithEgress, At, EgressOf
<1>2. Typed'
  BY <1>1, Steps DEF Kept
<1> QED
  BY <1>2, MemoryTypes, EgressTypes, KnowsStep DEF Typed, TypeOK

\* The rows, the map, the timers, the handlers and LiveKit's egresses keep
\* their types, for any number of them and whatever fails.
THEOREM Typing == Spec => []TypeOK
  BY TypeInit, TypeStep, PTL DEF Spec

-----------------------------------------------------------------------------
(* One push per destination *)

\* The steps of a handler that ends, or goes on to hold nothing.
LEMMA AsideSteps ==
    ASSUME Base, Base', Held, NEW p \in Slot,
           \/ AddCount(p) \/ MapEgress(p) \/ ListLive(p) \/ ListSet(p)
           \/ RemoveMark(p) \/ RemoveStop(p) \/ HookApp(p) \/ HookActive(p)
           \/ HookFailed(p) \/ HookStopped(p) \/ HookFire(p) \/ SqlError(p)
           \/ List(p) \/ \E u \in Url : Add(p, u)
    PROVE  Held'
<1> USE DEF Serving
<1>0. h \in [Slot -> Handler] /\ UNCHANGED timers
  BY DEF Base, TypeOK, AddCount, MapEgress, ListLive, ListSet, RemoveMark, RemoveStop,
         HookApp, HookActive, HookFailed, HookStopped, HookFire, SqlError, List, Add,
         memory
<1> USE <1>0
<1>1. QuietHandlers
  <2>1. \/ End(p)
        \/ At(p) = "count" /\ Go(p, "launch")
        \/ At(p) = "mark" /\ Go(p, "stop")
        \/ At(p) = "app" /\ Go(p, "row")
        \/ At(p) = "failed" /\ Go(p, "drop")
        \/ At(p) = "stopped" /\ Go(p, "fire")
        \/ List(p) \/ ListLive(p) \/ ListSet(p)
        \/ \E u \in Url : Add(p, u)
    BY DEF AddCount, MapEgress, RemoveMark, RemoveStop, HookApp, HookActive, HookFailed,
           HookStopped, HookFire, SqlError, At
  <2>2. EgressOf(p) # 0 => StateOf(EgressOf(p)) # "none"
    BY DEF Held, Known
  <2>3. RowOf(p) # 0 => StatusOf(RowOf(p)) # "none"
    BY Ranges DEF Held, Known
  <2>4. CASE End(p)
    BY <2>4, EndQuiet
  <2>5. CASE \/ At(p) = "count" /\ Go(p, "launch")
             \/ At(p) = "mark" /\ Go(p, "stop")
             \/ At(p) = "stopped" /\ Go(p, "fire")
    BY SMT, <2>2, <2>3, <2>5, GoMoves DEF QuietHandlers, Aside, Moves, Others
  <2>6. CASE \/ At(p) = "app" /\ Go(p, "row")
             \/ At(p) = "failed" /\ Go(p, "drop")
    BY <2>6, GoMoves DEF QuietHandlers, Forward, Moves, Others
  <2>7. CASE List(p) \/ ListLive(p) \/ ListSet(p)
    <3>1. CASE End(p)
      BY SMT, <3>1, EndQuiet
    <3>2. CASE ~End(p)
      BY <2>2, <2>3, <2>7, <3>2, ListMoves DEF QuietHandlers, Aside, Moves, Others
    <3> QED
      BY <3>1, <3>2
  <2>8. CASE \E u \in Url : Add(p, u)
    BY <2>8, AddMoves DEF QuietHandlers, Aside, Moves, Others
  <2> QED
    BY <2>1, <2>4, <2>5, <2>6, <2>7, <2>8
<1>2. QuietRows
  <2>1. \/ UNCHANGED row
        \/ \E j, err : \E s \in {"active", "failed", "stopped"} : SetStatus(j, s, err)
    BY DEF AddCount, MapEgress, ListLive, ListSet, RemoveMark, RemoveStop, HookApp,
           HookActive, HookFailed, HookStopped, HookFire, SqlError, List, Add
  <2>2. {"active", "failed", "stopped"} \subseteq Status \ {"none"}
    BY DEF Status
  <2> QED
    BY <2>1, <2>2, SetStatusQuiet, UnchangedQuiet
<1>3. QuietEgress /\ QuietHooks
  <2>1. CASE RemoveStop(p)
    <3>1. EgressOf(p) \in Egress
      BY <2>1, Ranges DEF RemoveStop, WithEgress, At
    <3>2. \/ UNCHANGED livekit
          \/ /\ Running(EgressOf(p))
             /\ egress' = [egress EXCEPT ![EgressOf(p)].st = "ended"]
             /\ hooks' = hooks \cup
                  {[eg |-> EgressOf(p), ev |-> "complete", ours |-> TRUE]}
      BY <2>1 DEF RemoveStop, StopEgress, EgressOf
    <3>3. CASE UNCHANGED livekit
      BY <3>3, UnchangedQuiet DEF livekit
    <3>4. CASE /\ Running(EgressOf(p))
               /\ egress' = [egress EXCEPT ![EgressOf(p)].st = "ended"]
               /\ hooks' = hooks \cup
                    {[eg |-> EgressOf(p), ev |-> "complete", ours |-> TRUE]}
      <4>1. QuietEgress
        BY <3>1, <3>4, EgressQuiet
      <4>2. QuietHooks
        BY SMT, <3>4 DEF QuietHooks, Running, StateOf
      <4> QED
        BY <4>1, <4>2
    <3> QED
      BY <3>2, <3>3, <3>4
  <2>2. CASE ~RemoveStop(p)
    <3>1. UNCHANGED <<egress, hooks>>
      BY <2>2
         DEF AddCount, MapEgress, ListLive, ListSet, RemoveMark, HookApp, HookActive,
             HookFailed, HookStopped, HookFire, SqlError, List, Add, livekit
    <3> QED
      BY <3>1, UnchangedQuiet
  <2> QED
    BY <2>1, <2>2
<1> QED
  BY <1>1, <1>2, <1>3, UnchangedQuiet, QuietKeeps

\* The other steps of the handlers.
LEMMA HolderSteps ==
    ASSUME Base, Base', Held, NEW p \in Slot,
           \/ AddLaunch(p) \/ HookRow(p) \/ HookDrop(p)
           \/ HookRetry(p) \/ RetryLaunch(p) \/ RetryAgain(p)
    PROVE  Held'
<1>0. h \in [Slot -> Handler]
  BY DEF Base, TypeOK
<1>q. ASSUME UNCHANGED <<row, timers, egress, hooks>>, QuietHandlers PROVE Held'
  BY <1>q, UnchangedQuiet, QuietKeeps
<1>e. ASSUME UNCHANGED <<row, timers, egress, hooks>>, End(p) PROVE Held'
  BY <1>e, <1>q, EndQuiet
<1>l. ASSUME UNCHANGED <<row, timers, hooks>>, QuietHandlers, NEW u, NEW i,
             StartTimesOut(u, i)
      PROVE  Held'
  BY <1>l, LostQuiet, UnchangedQuiet, QuietKeeps
<1>1. CASE AddLaunch(p)
  <2>1. At(p) = "launch" /\ UNCHANGED <<row, timers, hooks>>
    BY <1>1 DEF AddLaunch, memory, At
  <2>2. \/ End(p) /\ (UNCHANGED egress \/ StartTimesOut(h[p].url, 0))
        \/ \E e \in Unused : StartStreamEgress(e, h[p].url, 0) /\ Takes(p, "insert", e)
    BY <1>1 DEF AddLaunch, Takes
  <2> QED
    BY <2>1, <2>2, <1>e, <1>l, EndQuiet, AddLaunchKeeps
<1>2. CASE RetryLaunch(p)
  <2>1. At(p) = "relaunch" /\ UNCHANGED <<row, timers, hooks>>
    BY <1>2 DEF RetryLaunch, memory, At
  <2>2. \/ Go(p, "bump") /\ (UNCHANGED egress \/ StartTimesOut(h[p].url, h[p].id))
        \/ \E e \in Unused : /\ StartStreamEgress(e, h[p].url, RowOf(p))
                             /\ Takes(p, "setEgress", e)
    BY <1>2 DEF RetryLaunch, Takes, RowOf
  <2>3. CASE Go(p, "bump") /\ (UNCHANGED egress \/ StartTimesOut(h[p].url, h[p].id))
    <3>1. QuietHandlers
      BY <1>0, <2>1, <2>3, GoMoves DEF QuietHandlers, Forward, Moves, Others
    <3> QED
      BY <2>1, <2>3, <3>1, <1>q, <1>l
  <2> QED
    BY <2>1, <2>2, <2>3, RelaunchKeeps
<1>3. CASE HookRow(p)
  <2>1. At(p) = "row" /\ UNCHANGED <<row, timers, egress, hooks>>
    BY <1>3 DEF HookRow, memory, livekit, At
  <2>2. CASE End(p)
    BY <2>1, <2>2, <1>e
  <2>3. CASE ~End(p)
    <3>1. PICK i \in ByEgressID(EgressOf(p)), pc \in {"active", "failed", "stopped"} :
            /\ Moves(p, pc, i, EgressOf(p))
            /\ EventOf(p)' = EventOf(p) /\ TriesOf(p)' = RetriesOf(i)
      BY <1>0, <1>3, <2>3, HookRowMoves
    <3>2. CASE pc = "failed"
      BY <2>1, <3>1, <3>2, HookFoundKeeps
    <3>3. CASE pc # "failed"
      <4>1. i \in Id /\ StatusOf(i) # "none"
        BY DEF ByEgressID, StatusOf
      <4>2. EgressOf(p) # 0 => StateOf(EgressOf(p)) # "none"
        BY DEF Held, Known
      <4>3. QuietHandlers
        BY <3>1, <3>3, <4>1, <4>2 DEF QuietHandlers, Aside, Serving, Moves, Others
      <4> QED
        BY <2>1, <4>3, <1>q
    <3> QED
      BY <3>2, <3>3
  <2> QED
    BY <2>2, <2>3
<1>4. CASE HookDrop(p)
  <2>1. At(p) = "drop" /\ UNCHANGED <<row, timers, egress, hooks>>
    BY <1>4 DEF HookDrop, livekit, At
  <2>2. \/ EventOf(p) = "failed" /\ TriesOf(p) < RetryLimit /\ Go(p, "retry")
        \/ End(p)
    BY <1>4 DEF HookDrop, EventOf, TriesOf
  <2> QED
    BY <2>1, <2>2, <1>e, HookDropKeeps
<1>5. CASE HookRetry(p) \/ RetryAgain(p)
  <2>1. /\ At(p) \in {"retry", "again"} /\ End(p) /\ UNCHANGED <<row, egress, hooks>>
        /\ \/ UNCHANGED timers
           \/ timers' = [timers EXCEPT ![RowOf(p)] = @ + 1]
    BY <1>5 DEF HookRetry, RetryAgain, ScheduleRetry, livekit, At, RowOf
  <2> QED
    BY <2>1, <1>e, ArmKeeps
<1> QED
  BY <1>1, <1>2, <1>3, <1>4, <1>5

\* The requests, webhooks and timers that become a handler.
LEMMA ArrivalSteps ==
    ASSUME Base, Base', Held, "dup" \notin Env, NEW p \in Slot,
           \/ \E e \in Egress : Remove(p, e)
           \/ \E m \in hooks : Receive(p, m)
           \/ \E i \in Id : Retry(p, i)
    PROVE  Held'
<1>0. h \in [Slot -> Handler]
  BY DEF Base, TypeOK
<1> USE <1>0
<1>1. ASSUME NEW e \in Egress, Remove(p, e) PROVE Held'
  <2>1. UNCHANGED <<row, timers, egress, hooks>>
    BY <1>1 DEF Remove, memory, livekit
  <2>2. PICK i \in ByEgressID(e) : Moves(p, "mark", i, e)
    BY <1>1, RemoveMoves
  <2>3. StatusOf(i) # "none" /\ StateOf(e) # "none"
    BY SMT, Ranges DEF ByEgressID, Held, Known, StatusOf, PushOf
  <2>4. QuietHandlers
    BY <2>2, <2>3 DEF QuietHandlers, Aside, Serving, Moves, Others
  <2> QED
    BY <2>1, <2>4, UnchangedQuiet, QuietKeeps
<1>2. ASSUME NEW m \in hooks, Receive(p, m) PROVE Held'
  <2>1. UNCHANGED <<row, timers, egress>> /\ hooks' = hooks \ {m}
    BY <1>2 DEF Receive, memory
  <2>2. CASE m.ev = "failed"
    BY <1>2, <2>1, <2>2, ReceiveKeeps
  <2>3. CASE m.ev # "failed"
    <3>1. QuietHooks
      BY <2>1 DEF QuietHooks
    <3>2. StateOf(m.eg) # "none"
      BY DEF Held, Known
    <3>3. QuietHandlers
      BY <1>2, <2>3, <3>2, ReceiveMoves DEF QuietHandlers, Aside, Serving, Moves, Others
    <3> QED
      BY <2>1, <3>1, <3>3, UnchangedQuiet, QuietKeeps
  <2> QED
    BY <2>2, <2>3
<1>3. ASSUME NEW i \in Id, Retry(p, i) PROVE Held'
  <2>1. /\ UNCHANGED <<row, egress, hooks>> /\ At(p) = "idle" /\ Armed(i) > 0
        /\ timers' = [timers EXCEPT ![i] = @ - 1]
    BY <1>3 DEF Retry, Free, livekit, At, Armed
  <2>2. CASE End(p)
    <3>1. QuietTimers
      BY SMT, <2>1 DEF QuietTimers, Base, TypeOK, Armed
    <3> QED
      BY <2>1, <2>2, <3>1, EndQuiet, UnchangedQuiet, QuietKeeps
  <2>3. CASE ~End(p)
    <3>1. /\ StatusOf(i) = "failed" /\ Moves(p, "relaunch", i, 0)
          /\ TriesOf(p)' = RetriesOf(i) + 1
      BY <1>3, <2>3, RetryMoves
    <3> QED
      BY <2>1, <3>1, FireKeeps
  <2> QED
    BY <2>2, <2>3
<1> QED
  BY <1>1, <1>2, <1>3

\* What happens around the handlers.
LEMMA AroundSteps ==
    ASSUME Base, Base', Held,
           \/ \E i \in Id : RetryReadError(i)
           \/ \E e \in Egress : Reported(e)
           \/ Close \/ Restart \/ UNCHANGED vars
    PROVE  Held'
<1>1. ASSUME NEW e \in Egress, Reported(e) PROVE Held'
  <2>0. UNCHANGED <<row, timers, h>>
    BY <1>1 DEF Reported, memory
  <2>1. PICK ev \in Event, s \in {"active", "ended"} :
          /\ Running(e) /\ egress' = [egress EXCEPT ![e].st = s]
          /\ hooks' = hooks \cup {[eg |-> e, ev |-> ev, ours |-> FALSE]}
          /\ ev # "active" => s = "ended"
    BY <1>1 DEF Reported, Running, Event
  <2>2. CASE ev = "failed"
    BY <2>0, <2>1, <2>2, FailureKeeps
  <2>3. CASE ev # "failed"
    <3>1. QuietEgress
      BY <2>1, EgressQuiet
    <3>2. QuietHooks
      BY SMT, <2>1, <2>3 DEF QuietHooks, Running, StateOf
    <3> QED
      BY <2>0, <3>1, <3>2, UnchangedQuiet, QuietKeeps
  <2> QED
    BY <2>2, <2>3
<1>2. ASSUME NEW i \in Id, RetryReadError(i) PROVE Held'
  <2>1. /\ UNCHANGED <<row, h, egress, hooks>>
        /\ timers' = [timers EXCEPT ![i] = @ - 1]
    BY <1>2 DEF RetryReadError, livekit
  <2>2. QuietTimers
    BY SMT, <2>1 DEF QuietTimers, Base, TypeOK, Armed
  <2> QED
    BY <2>1, <2>2, UnchangedQuiet, QuietKeeps
<1>3. CASE Close \/ Restart
  <2>1. UNCHANGED <<row, egress, hooks>> /\ timers' = [i \in Id |-> 0]
    BY <1>3 DEF Close, Restart, livekit
  <2>2. QuietTimers
    BY SMT, <2>1 DEF QuietTimers, Base, TypeOK, Armed
  <2>3. QuietHandlers
    <3>1. UNCHANGED h \/ h' = [p \in Slot |-> Idle]
      BY <1>3 DEF Close, Restart
    <3> QED
      BY <3>1, IdleFields, Unmoved
         DEF QuietHandlers, HandlersStay, Aside, Serving, At, RowOf, EgressOf
  <2> QED
    BY <2>1, <2>2, <2>3, UnchangedQuiet, QuietKeeps
<1>4. CASE UNCHANGED vars
  BY <1>4, UnchangedQuiet, QuietKeeps DEF vars, memory, livekit
<1> QED
  BY <1>1, <1>2, <1>3, <1>4

\* Nothing is held initially, and a step never holds a destination twice.
LEMMA HeldInit == Init => Held
<1> SUFFICES ASSUME Init PROVE Held
  OBVIOUS
<1>0. /\ \A i \in Id : PushOf(i) = 0 /\ RetriesOf(i) = 0 /\ Armed(i) = 0
      /\ \A e \in Egress : StateOf(e) = "none" /\ ForRow(e) = 0
      /\ \A p \in Slot : At(p) = "idle" /\ RowOf(p) = 0 /\ EgressOf(p) = 0
      /\ hooks = {} /\ 0 \notin Id
  BY IdleFields, NoIdZero
     DEF Init, NoRow, PushOf, RetriesOf, Armed, StateOf, ForRow, At, RowOf, EgressOf
<1> QED
  BY SMT, <1>0, BoundsAssumption
     DEF Held, Known, Paired, OneReport, OneHolder, SetAlone, Counted, Failing,
         Reporting, Serving

\* The steps together.
LEMMA HeldStep ==
    ASSUME Base, Base', Held, "dup" \notin Env, [Next]_vars
    PROVE  Held'
<1>1. Request \subseteq Slot /\ Retrier \subseteq Slot
  BY NoIdZero
<1>2. ASSUME NEW p \in Slot, Step(p) \/ SqlError(p) PROVE Held'
  BY <1>2, AsideSteps, HolderSteps, AddInsertKeeps, BumpKeeps, SetEgressKeeps DEF Step
<1>3. ASSUME NEW p \in Request,
             \/ \E u \in Url : Add(p, u)
             \/ List(p)
             \/ \E e \in Egress : Remove(p, e)
             \/ \E m \in hooks : Receive(p, m)
      PROVE  Held'
  BY <1>1, <1>3, AsideSteps, ArrivalSteps
<1>4. ASSUME NEW p \in Retrier, NEW i \in Id, Retry(p, i) PROVE Held'
  BY <1>1, <1>4, ArrivalSteps
<1> QED
  BY <1>2, <1>3, <1>4, AroundSteps DEF Next

INSTANCE FiniteSetTheorems

\* A set whose members are all the same has one or none.
LEMMA OneOrNone ==
    ASSUME NEW S, \A d, e \in S : d = e
    PROVE  Cardinality(S) = IF S = {} THEN 0 ELSE 1
<1>1. CASE S = {}
  BY <1>1, FS_EmptySet
<1>2. CASE S # {}
  <2>1. PICK e : S = {e}
    BY SMT, <1>2
  <2> QED
    BY <1>2, <2>1, FS_Singleton
<1> QED
  BY <1>1, <1>2

\* A destination held once is pushed to once: its armed timers, its running
\* egresses and the handlers that serve a retry are one in all.
LEMMA HeldOnce == ASSUME Base, Held PROVE OneEgressPerTarget
<1> SUFFICES ASSUME NEW i \in Id PROVE Pushers(i) <= 1
  BY DEF OneEgressPerTarget
<1> DEFINE E == {e \in Egress : Running(e) /\ ForRow(e) = i}
           P == {p \in Slot : RowOf(p) = i
                   /\ At(p) \in {"retry", "relaunch", "bump", "again"}}
<1>0. 0 \notin Id /\ Armed(i) \in 0 .. 1
  <2>1. Armed(i) \in Nat /\ Armed(i) <= 1
    BY DEF Base, TypeOK, Held, OneHolder, Armed
  <2> QED
    BY SMT, <2>1, NoIdZero
<1>1. \A e \in E : Busy(e) /\ ForRow(e) # 0 /\ ForRow(e) = i
  BY <1>0 DEF Busy
<1> USE <1>1
<1>2. \A e, f \in E : e = f
  BY DEF Held, OneHolder
<1>3. \A p, q \in P : p = q
  BY DEF Held, OneHolder, Serving
<1>4. \A e \in E, p \in P : FALSE
  BY DEF Held, OneHolder, Serving
<1>5. (E # {} \/ P # {}) => Armed(i) = 0
  BY DEF Held, OneHolder, Serving
<1>6. Cardinality(E) = IF E = {} THEN 0 ELSE 1
  BY <1>2, OneOrNone
<1>7. Cardinality(P) = IF P = {} THEN 0 ELSE 1
  BY <1>3, OneOrNone
<1>8. Pushers(i) = Armed(i) + Cardinality(E) + Cardinality(P)
  BY DEF Pushers, Armed, ForRow, RowOf, At
<1> HIDE DEF E, P
<1>9. E = {} \/ P = {}
  BY <1>4
<1> QED
  BY SMT, <1>0, <1>5, <1>6, <1>7, <1>8, <1>9

\* As long as no webhook is delivered twice, a destination is pushed to by
\* one egress the service knows of or waits for one retry, for any number of
\* destinations and requests and whatever fails (Add, Remove, onEgressEvent,
\* retry).  An egress whose start was never answered is known to no one.
THEOREM OnePush == "dup" \notin Env => (Spec => []OneEgressPerTarget)
<1> SUFFICES ASSUME "dup" \notin Env PROVE Spec => []OneEgressPerTarget
  OBVIOUS
<1>1. Init => Base /\ Held
  BY TypeInit, HeldInit DEF Base
<1>2. Base /\ Held /\ [Next]_vars => (Base /\ Held)'
  BY TypeStep, HeldStep DEF Base
<1>3. Base /\ Held => OneEgressPerTarget
  BY HeldOnce
<1> QED
  BY <1>1, <1>2, <1>3, PTL DEF Spec

\* Nor is it retried more than RetryLimit times: the count a retry writes is
\* the one it read, and nothing else wrote it meanwhile (onFailed, retry).
THEOREM RetriesBounded == "dup" \notin Env => (Spec => []RetriesWithinLimit)
<1> SUFFICES ASSUME "dup" \notin Env PROVE Spec => []RetriesWithinLimit
  BY SMT
<1>1. Init => Base /\ Held
  BY SMT, TypeInit, HeldInit DEF Base
<1>2. Base /\ Held /\ [Next]_vars => (Base /\ Held)'
  BY SMT, TypeStep, HeldStep DEF Base
<1>3. Held => RetriesWithinLimit
  BY DEF Held, Counted, RetriesWithinLimit, RetriesOf
<1> QED
  BY <1>1, <1>2, <1>3, PTL DEF Spec
=============================================================================
