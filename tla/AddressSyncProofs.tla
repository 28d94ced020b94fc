-------------------------- MODULE AddressSyncProofs --------------------------
(***************************************************************************)
(* For any number of addresses, connections and changes and a stop at any  *)
(* point: the address queue loses no wake-up, the count of pending         *)
(* histories is exact, and the wallet is not ready before the histories of *)
(* its first cycle are in.                                                 *)
(***************************************************************************)
EXTENDS AddressSync, FiniteSetTheorems, TLAPS

\* What NoLostWakeup needs to be inductive: the worker that still waits for the initial
\* tip does not look at the queue either, and the sends under way are counted.  A stopped
\* worker leaves the queue as it is.
WakeInv ==
    /\ worker \in WorkerState
    /\ waking \in Nat
    /\ worker.pc # "drain" /\ ~stopped /\ queue # <<>> => wake \/ waking > 0

\* A step that leaves the queue alone keeps the invariant, unless it ends a drain.
LEMMA WakeFrame ==
    ASSUME WakeInv, UNCHANGED <<queueVars, stopped>>, worker' \in WorkerState,
           worker'.pc = worker.pc \/ worker.pc # "drain"
    PROVE  WakeInv'
BY DEF WakeInv, queueVars

\* Push keeps the invariant: a push to an empty queue owes a send.
LEMMA PushWakes ==
    ASSUME WakeInv, NEW e, Push(e), UNCHANGED <<worker, stopped>>
    PROVE  WakeInv'
<1>1. CASE queue = <<>>
    BY <1>1 DEF WakeInv, Push
<1>2. CASE queue # <<>>
    BY <1>2 DEF WakeInv, Push
<1>. QED BY <1>1, <1>2

\* finishCycle leaves the worker where its caller puts it.
LEMMA FinishCyclePlace ==
    ASSUME NEW w \in WorkerState, FinishCycle(w)
    PROVE  worker' \in WorkerState /\ worker'.pc = w.pc /\ UNCHANGED stopped
BY DEF FinishCycle, WorkerState

\* Every step of the worker keeps the invariant; only drainUpdates takes from the queue,
\* and it returns to the select when the queue is empty.
LEMMA WorkerWakes ==
    ASSUME WakeInv, WorkerStep
    PROVE  WakeInv'
<1>. worker \in WorkerState /\ waking \in Nat
    BY DEF WakeInv
<1>1. CASE WorkerStart
    <2>1. worker' \in WorkerState /\ UNCHANGED <<queueVars, stopped>> /\ worker.pc = "tip"
        BY <1>1 DEF WorkerStart, WorkerState, readyVars
    <2>. QED BY <2>1, WakeFrame
<1>2. CASE WorkerWake
    <2>1. worker' \in WorkerState /\ worker'.pc = "drain" /\ UNCHANGED waking
        BY <1>2 DEF WorkerWake, WorkerState
    <2>. QED BY <2>1 DEF WakeInv
<1>3. CASE WorkerHistoryDone
    <2>. DEFINE w == [worker EXCEPT !.pendingHistories = IF @ > 0 THEN @ - 1 ELSE 0]
    <2>1. w \in WorkerState /\ w.pc = worker.pc
        BY DEF WorkerState
    <2>2. FinishCycle(w) /\ UNCHANGED queueVars
        BY <1>3 DEF WorkerHistoryDone
    <2>. HIDE DEF w
    <2>3. worker' \in WorkerState /\ worker'.pc = worker.pc /\ UNCHANGED stopped
        BY <2>1, <2>2, FinishCyclePlace
    <2>. QED BY <2>2, <2>3, WakeFrame
<1>4. ASSUME NEW g \in Cycle, WorkerResult(g)
      PROVE  WakeInv'
    <2>1. worker' \in WorkerState /\ worker'.pc = "drain" /\ UNCHANGED waking
        BY <1>4 DEF WorkerResult, WorkerState, queueVars
    <2>. QED BY <2>1 DEF WakeInv
<1>5. CASE DrainConnected
    <2>1. worker' \in WorkerState /\ worker'.pc = "drain" /\ UNCHANGED waking
        BY <1>5 DEF DrainConnected, WorkerState
    <2>. QED BY <2>1 DEF WakeInv
<1>6. CASE DrainStatus
    <2>1. worker' \in WorkerState /\ worker'.pc = "drain" /\ UNCHANGED waking
        BY <1>6 DEF DrainStatus, WorkerState
    <2>. QED BY <2>1 DEF WakeInv
<1>7. CASE DrainEmpty
    <2>. DEFINE w == [worker EXCEPT !.pc = "select"]
    <2>1. w \in WorkerState
        BY DEF WorkerState
    <2>2. FinishCycle(w) /\ UNCHANGED queueVars /\ (queue = <<>> \/ stopped)
        BY <1>7 DEF DrainEmpty
    <2>. HIDE DEF w
    <2>3. worker' \in WorkerState /\ UNCHANGED stopped
        BY <2>1, <2>2, FinishCyclePlace
    <2>. QED BY <2>2, <2>3 DEF WakeInv, queueVars
<1>8. ASSUME \/ WorkerExit \/ ExitDone \/ \E g \in Cycle : ExitResult(g)
      PROVE  WakeInv'
    <2>1. worker' \in WorkerState /\ UNCHANGED <<queueVars, stopped>> /\ worker.pc # "drain"
        BY <1>8 DEF WorkerExit, ExitDone, ExitResult, WorkerState, readyVars
    <2>. QED BY <2>1, WakeFrame
<1>. QED BY <1>1, <1>2, <1>3, <1>4, <1>5, <1>6, <1>7, <1>8 DEF WorkerStep

\* A cycle or a history update touches the queue only through Push.
LEMMA GoroutineWakes ==
    ASSUME WakeInv, NEW g \in Goroutine, GoroutineStep(g)
    PROVE  WakeInv'
<1>1. CASE PushStatus(g) /\ ~stopped
    <2>1. PICK m : Push(Status(m[1], m[2], TRUE)) /\ UNCHANGED <<worker, stopped>>
        BY <1>1 DEF PushStatus, readyVars
    <2>. QED BY <2>1, PushWakes
<1>2. CASE ~(PushStatus(g) /\ ~stopped)
    <2>1. UNCHANGED <<queueVars, worker, stopped>>
        BY <1>2 DEF GoroutineStep, GoroutineAdvance, CycleList, Subscribe, SubscribeSkipped, PushStatus,
                    PushedAll, EnsureAddressGap, Fail, readyVars, UpdateCompare, TicketRuns, UpdateFetch, UpdateSave
    <2>. QED BY <2>1, WakeFrame DEF WakeInv
<1>. QED BY <1>1, <1>2

\* No interleaving of Push's two halves with the worker's receive and drain strands an
\* envelope.
LEMMA WakeStep ==
    ASSUME WakeInv, [Next]_vars
    PROVE  WakeInv'
<1>1. CASE Connect
    <2>1. Push(Connected) /\ UNCHANGED <<worker, stopped>>
        BY <1>1 DEF Connect, readyVars
    <2>. QED BY <2>1, PushWakes
<1>2. CASE Wake
    BY <1>2 DEF Wake, WakeInv, readyVars
<1>3. CASE WorkerStep
    BY <1>3, WorkerWakes
<1>4. ASSUME NEW a \in Address, NEW h \in History, Deliver(a, h)
      PROVE  WakeInv'
    <2>1. Push(Status(a, h, FALSE)) /\ UNCHANGED <<worker, stopped>>
        BY <1>4 DEF Deliver, readyVars
    <2>. QED BY <2>1, PushWakes
<1>5. ASSUME NEW g \in Goroutine, GoroutineStep(g)
      PROVE  WakeInv'
    BY <1>5, GoroutineWakes
<1>6. CASE Stop
    BY <1>6 DEF Stop, WakeInv, queueVars
<1>7. CASE \/ Disconnect \/ HistoryAbandoned \/ TipInitial \/ TipUpdate \/ UNCHANGED vars
           \/ \E a \in Address, h \in History : RemoteChange(a, h)
    <2>1. UNCHANGED <<queueVars, worker, stopped>>
        BY <1>7 DEF Disconnect, HistoryAbandoned, TipInitial, TipUpdate, vars, RemoteChange, readyVars
    <2>. QED BY <2>1, WakeFrame DEF WakeInv
<1>. QED BY <1>1, <1>2, <1>3, <1>4, <1>5, <1>6, <1>7 DEF Next

\* The invariant holds in every reachable state.
THEOREM WakeInvariance == Spec => []WakeInv
<1>1. Init => WakeInv
    BY DEF Init, WakeInv, WorkerState
<1>2. WakeInv /\ [Next]_vars => WakeInv'
    BY WakeStep
<1>. QED BY <1>1, <1>2, PTL DEF Spec

\* The worker never sleeps in its select over a queue that holds an envelope without a
\* wake-up on its way (spvAddressQueue.Push and the select of runSPVAddressWorker).
THEOREM NoLostWakeupHolds == Spec => []NoLostWakeup
<1>1. WakeInv => NoLostWakeup
    BY DEF WakeInv, NoLostWakeup
<1>. QED BY <1>1, WakeInvariance, PTL

(***************************************************************************)
(* Readiness                                                               *)
(***************************************************************************)

Envelope ==
    {Connected} \cup [kind : {"status"}, address : Address, status : History, initial : BOOLEAN]
Live == {"list", "subscribe", "push", "gap", "announce", "pushNew", "fetch", "save"}
GoroutineRecord ==
    [phase : Live \cup {"idle", "sent", "done"}, history : History, addresses : SUBSET Address,
     statuses : SUBSET (Address \X History), initial : BOOLEAN]

WorldTyped ==
    /\ remote \in [Address -> History] /\ wire \subseteq Address \X History
    /\ known \in 0 .. MaxAddress
QueueTyped == queue \in Seq(Envelope) /\ backlog \in [Address -> Seq(History \X BOOLEAN)]
GoroutinesTyped == goroutine \in [Goroutine -> GoroutineRecord]
TypeOK == WorldTyped /\ QueueTyped /\ GoroutinesTyped /\ ended \in Nat

\* The count of pending histories is exact.
CountInv == IsFiniteSet(Tickets) /\ IsFiniteSet(Running) /\ PendingHistoriesExact

\* Until the result of the first cycle is received, no other cycle has begun, the worker
\* knows that it runs, and nothing is recorded.
FirstInv ==
    goroutine[FirstCycle].phase # "done" =>
        /\ ~worker.cyclePending /\ ~addressCycles /\ ~ready
        /\ \A g \in Cycle : g # FirstCycle => goroutine[g] = Idle
        /\ goroutine[FirstCycle] # Idle => worker.cycleRunning

\* The update of an address, and an initial status of a that waits in the queue, for its
\* ticket, or is being worked on.
UpdateOf(a) == [kind |-> "update", n |-> a]
Queued(a) == \E i \in 1 .. Len(queue) : queue[i] # Connected /\ queue[i].address = a /\ queue[i].initial
Counted(a) == (\E i \in 1 .. Len(backlog[a]) : backlog[a][i][2]) \/ goroutine[UpdateOf(a)].initial

\* An address that the first cycle owes has its status on the way; once the cycle's result
\* is drained it is counted.  Nothing is owed when the cycle is recorded.
OwedInv ==
    /\ owed \subseteq Address
    /\ ~stopped => \A a \in owed : Counted(a) \/ (Queued(a) /\ (worker.pc = "drain" \/ ~worker.cyclePending))
    /\ addressCycles /\ ~stopped => owed = {}
    /\ ready => owed = {} /\ addressCycles

\* What ReadinessSound needs to be inductive.
ReadyInv == TypeOK /\ CountInv /\ FirstInv /\ OwedInv

\* Cycles and updates are told apart by their names; the first cycle is the least of the cycles.
LEMMA GoroutineNames ==
  /\ FirstCycle \in Cycle /\ FirstCycle \notin Update
  /\ \A g \in Cycle : g \notin Update
  /\ \A a \in Address : UpdateOf(a) \in Update /\ UpdateOf(a).n = a
  /\ \A g \in Update : g.n \in Address /\ g = UpdateOf(g.n)
  /\ Goroutine = Cycle \cup Update
  /\ \A g \in Cycle : g # FirstCycle => FirstCycle.n < g.n
  /\ Idle \in GoroutineRecord /\ Idle.phase = "idle" /\ ~Idle.initial
<1>1. FirstCycle \in Cycle /\ FirstCycle \notin Update
  BY BoundsAssumption DEF FirstCycle, Cycle, Update
<1>2. \A g \in Cycle : g \notin Update
  BY DEF Cycle, Update
<1>3. \A a \in Address : UpdateOf(a) \in Update /\ UpdateOf(a).n = a
  BY DEF UpdateOf, Update
<1>4. \A g \in Update : g.n \in Address /\ g = UpdateOf(g.n)
  BY DEF UpdateOf, Update
<1>5. \A g \in Cycle : g # FirstCycle => FirstCycle.n < g.n
  <2> SUFFICES ASSUME NEW g \in Cycle, ~(FirstCycle.n < g.n) PROVE g = FirstCycle
    OBVIOUS
  <2>1. g.n \in 1 .. MaxEvents /\ g.kind = "cycle" /\ FirstCycle.n = 1
    BY DEF Cycle, FirstCycle
  <2>2. g.n = 1
    BY <2>1, BoundsAssumption
  <2> QED
    BY <2>1, <2>2 DEF Cycle, FirstCycle
<1>6. Idle \in GoroutineRecord /\ Idle.phase = "idle" /\ ~Idle.initial
  BY DEF Idle, GoroutineRecord, History
<1> QED
  BY <1>1, <1>2, <1>3, <1>4, <1>5, <1>6 DEF Goroutine

(***************************************************************************)
(* What the steps do to the count and to what is owed                      *)
(***************************************************************************)

Still == UNCHANGED <<backlog, ended, worker, readyVars>>

\* A goroutine goes on.
Advances(g) ==
    /\ Still
    /\ \E r \in GoroutineRecord :
          /\ goroutine' = [goroutine EXCEPT ![g] = r]
          /\ goroutine[g].phase \in Live /\ r.phase \in Live /\ r.initial = goroutine[g].initial
          /\ r.phase = "push" => goroutine[g].phase \in {"subscribe", "push"}

\* It goes on and nothing is enqueued.
Works(g) == Advances(g) /\ UNCHANGED <<queue, owed>>

\* It returns.
Ends(g) == Finish(g) /\ goroutine[g].phase \in Live /\ UNCHANGED <<backlog, queue, worker, readyVars>>

\* The network, the server, the tip worker and Stop.
Outside ==
    /\ UNCHANGED <<goroutine, backlog, ended, worker, owed, addressCycles, ready>>
    /\ stopped => stopped'
    /\ queue' = queue \/ \E e \in Envelope : queue' = Append(queue, e)

\* The worker turns to another case.
Turns ==
    /\ UNCHANGED <<goroutine, backlog, ended, owed, queue, readyVars>>
    /\ \E pc \in {"tip", "select", "drain", "exit", "done"} :
          worker' = [worker EXCEPT !.pc = pc] /\ (worker.pc = "drain" /\ ~stopped => pc = "drain")

\* The worker receives the result of a cycle.
Receives(g) ==
    /\ UNCHANGED <<backlog, ended, owed, queue, readyVars>>
    /\ goroutine[g].phase = "sent" /\ goroutine' = [goroutine EXCEPT ![g].phase = "done"]
    /\ worker'.pendingHistories = worker.pendingHistories
    /\ worker'.pc = "drain" \/ (worker'.pc = worker.pc /\ worker'.cyclePending = worker.cyclePending)

\* Every step of a goroutine is of one of these kinds, or is an update's comparison.
LEMMA GoroutineKinds ==
  ASSUME TypeOK, NEW g \in Goroutine, GoroutineStep(g)
  PROVE  Works(g) \/ Ends(g) \/ (PushStatus(g) /\ Advances(g)) \/ (g \in Update /\ UpdateCompare(g))
<1> USE DEF TypeOK, GoroutinesTyped, Still
<1> goroutine[g] \in GoroutineRecord
  OBVIOUS
<1>1. ASSUME CycleList(g) PROVE Works(g) \/ Ends(g)
  <2>1. CASE connected
    <3> DEFINE r == [goroutine[g] EXCEPT !.phase = "subscribe", !.addresses = 1 .. known]
    <3>1. 1 .. known \in SUBSET Address
      BY BoundsAssumption DEF WorldTyped, Address
    <3>2. r \in GoroutineRecord /\ r.phase = "subscribe" /\ r.initial = goroutine[g].initial
      BY <3>1 DEF GoroutineRecord, Live
    <3>3. goroutine' = [goroutine EXCEPT ![g] = r]
      BY <1>1, <2>1 DEF CycleList
    <3> HIDE DEF r
    <3> QED
      BY <1>1, <2>1, <3>2, <3>3 DEF CycleList, Works, Advances, Live, queueVars
  <2>2. CASE ~connected
    BY <1>1, <2>2 DEF CycleList, Ends, Live, queueVars
  <2> QED
    BY <2>1, <2>2
<1>2. ASSUME Subscribe(g) PROVE Works(g)
  <2> DEFINE r == [goroutine[g] EXCEPT !.phase = IF @ = "subscribe" THEN "push" ELSE "pushNew",
                                       !.statuses = {<<a, remote[a]>> : a \in goroutine[g].addresses}]
  <2>1. {<<a, remote[a]>> : a \in goroutine[g].addresses} \in SUBSET (Address \X History)
    BY DEF WorldTyped, GoroutineRecord
  <2>2. /\ r \in GoroutineRecord /\ r.phase \in Live /\ r.initial = goroutine[g].initial
        /\ r.phase = "push" => goroutine[g].phase = "subscribe"
    BY <2>1 DEF GoroutineRecord, Live
  <2>3. goroutine' = [goroutine EXCEPT ![g] = r]
    BY <1>2 DEF Subscribe
  <2> HIDE DEF r
  <2> QED
    BY <1>2, <2>2, <2>3 DEF Subscribe, Works, Advances, Live, queueVars
<1>3. ASSUME SubscribeSkipped(g) \/ PushedAll(g) PROVE Works(g) \/ Ends(g)
  <2>1. CASE goroutine[g].phase \in {"subscribe", "push"}
    <3> DEFINE r == [goroutine[g] EXCEPT !.phase = "gap"]
    <3>1. r \in GoroutineRecord /\ r.phase = "gap" /\ r.initial = goroutine[g].initial
      BY DEF GoroutineRecord, Live
    <3>2. goroutine' = [goroutine EXCEPT ![g] = r]
      BY <1>3, <2>1 DEF SubscribeSkipped, PushedAll
    <3> HIDE DEF r
    <3> QED
      BY <1>3, <2>1, <3>1, <3>2 DEF SubscribeSkipped, PushedAll, Works, Advances, Live, queueVars
  <2>2. CASE goroutine[g].phase \notin {"subscribe", "push"}
    BY <1>3, <2>2 DEF SubscribeSkipped, PushedAll, Ends, Live, queueVars
  <2> QED
    BY <2>1, <2>2
<1>4. ASSUME PushStatus(g) PROVE Advances(g)
  <2>1. PICK m \in goroutine[g].statuses : goroutine' = [goroutine EXCEPT ![g].statuses = @ \ {m}]
    BY <1>4 DEF PushStatus
  <2> DEFINE r == [goroutine[g] EXCEPT !.statuses = @ \ {m}]
  <2>2. r \in GoroutineRecord /\ r.phase = goroutine[g].phase /\ r.initial = goroutine[g].initial
    BY DEF GoroutineRecord
  <2>3. goroutine' = [goroutine EXCEPT ![g] = r]
    BY <2>1
  <2>4. goroutine[g].phase \in {"push", "pushNew"} /\ Still
    BY <1>4 DEF PushStatus
  <2> HIDE DEF r
  <2> QED
    BY <2>2, <2>3, <2>4 DEF Advances, Live
<1>5. ASSUME EnsureAddressGap(g) PROVE Works(g) \/ Ends(g)
  <2> DEFINE new == {a \in Address : known < a /\ a <= known + (Gap - ExistingGap)}
  <2>1. CASE new = {}
    BY <1>5, <2>1 DEF EnsureAddressGap, Ends, Live, queueVars
  <2>2. CASE new # {}
    <3> DEFINE r == [goroutine[g] EXCEPT !.phase = "announce", !.addresses = new]
    <3>1. new \in SUBSET Address
      OBVIOUS
    <3>2. goroutine' = [goroutine EXCEPT ![g] = r]
      BY <1>5, <2>2 DEF EnsureAddressGap
    <3>3. goroutine[g].phase = "gap" /\ Still /\ UNCHANGED <<queue, owed>>
      BY <1>5, <2>2 DEF EnsureAddressGap, queueVars
    <3> HIDE DEF new
    <3>4. r \in GoroutineRecord /\ r.phase = "announce" /\ r.initial = goroutine[g].initial
      BY <3>1 DEF GoroutineRecord, Live
    <3> HIDE DEF r
    <3> QED
      BY <3>2, <3>3, <3>4 DEF Works, Advances, Live
  <2> QED
    BY <2>1, <2>2
<1>6. ASSUME g \in Update, UpdateFetch(g) PROVE Works(g) \/ Ends(g)
  <2>1. CASE remote[g.n] \subseteq local[g.n]
    BY <1>6, <2>1 DEF UpdateFetch, Ends, Live, queueVars
  <2>2. CASE ~(remote[g.n] \subseteq local[g.n])
    <3> DEFINE r == [goroutine[g] EXCEPT !.phase = "save", !.history = remote[g.n]]
    <3>1. remote[g.n] \in History
      BY <1>6, GoroutineNames DEF WorldTyped
    <3>2. goroutine' = [goroutine EXCEPT ![g] = r]
      BY <1>6, <2>2 DEF UpdateFetch
    <3>3. goroutine[g].phase = "fetch" /\ Still /\ UNCHANGED <<queue, owed>>
      BY <1>6, <2>2 DEF UpdateFetch, queueVars
    <3>4. r \in GoroutineRecord /\ r.phase = "save" /\ r.initial = goroutine[g].initial
      BY <3>1 DEF GoroutineRecord, Live
    <3> HIDE DEF r
    <3> QED
      BY <3>2, <3>3, <3>4 DEF Works, Advances, Live
  <2> QED
    BY <2>1, <2>2
<1>7. ASSUME UpdateSave(g) PROVE Works(g)
  <2> DEFINE r == [goroutine[g] EXCEPT !.phase = "gap", !.history = {}]
  <2>1. r \in GoroutineRecord /\ r.phase = "gap" /\ r.initial = goroutine[g].initial
    BY DEF GoroutineRecord, Live, History
  <2>2. goroutine' = [goroutine EXCEPT ![g] = r]
    BY <1>7 DEF UpdateSave
  <2>3. goroutine[g].phase = "save" /\ Still /\ UNCHANGED <<queue, owed>>
    BY <1>7 DEF UpdateSave, queueVars
  <2> HIDE DEF r
  <2> QED
    BY <2>1, <2>2, <2>3 DEF Works, Advances, Live
<1>8. ASSUME Fail(g) PROVE Ends(g)
  BY <1>8 DEF Fail, Ends, Live, queueVars
<1> QED
  BY <1>1, <1>2, <1>3, <1>4, <1>5, <1>6, <1>7, <1>8 DEF GoroutineStep, GoroutineAdvance

\* The steps of the worker but for those that drain or finish a cycle, and of the world.
LEMMA WorkerKinds ==
  ASSUME WakeInv
  PROVE  /\ WorkerStart \/ WorkerWake \/ WorkerExit \/ ExitDone => Turns
         /\ \A g \in Cycle : WorkerResult(g) \/ ExitResult(g) => Receives(g)
<1> worker \in WorkerState
  BY DEF WakeInv
<1>1. ASSUME WorkerStart \/ WorkerWake \/ WorkerExit \/ ExitDone PROVE Turns
  BY <1>1 DEF WorkerStart, WorkerWake, WorkerExit, ExitDone, Turns, queueVars, updateVars
<1>2. ASSUME NEW g \in Cycle, WorkerResult(g) PROVE Receives(g)
  BY <1>2 DEF WorkerResult, Receives, queueVars, WorkerState
<1>3. ASSUME NEW g \in Cycle, ExitResult(g) PROVE Receives(g)
  BY <1>3 DEF ExitResult, Receives, queueVars, WorkerState
<1> QED
  BY <1>1, <1>2, <1>3

\* What the network, the tip worker and Stop do stays outside the counts.
LEMMA OutsideKinds ==
  ASSUME WorldTyped
  PROVE  /\ Connect \/ Disconnect \/ Stop \/ Wake \/ TipUpdate \/ UNCHANGED vars => Outside
         /\ \A a \in Address, h \in History : RemoteChange(a, h) \/ Deliver(a, h) => Outside
<1>1. ASSUME Connect PROVE Outside
  BY <1>1 DEF Connect, Push, Outside, Envelope, updateVars, readyVars
<1>2. ASSUME Disconnect \/ Stop \/ Wake \/ TipUpdate \/ UNCHANGED vars PROVE Outside
  BY <1>2 DEF Disconnect, Stop, Wake, TipUpdate, vars, Outside, updateVars, readyVars, queueVars
<1>3. ASSUME NEW a \in Address, NEW h \in History, RemoteChange(a, h) PROVE Outside
  BY <1>3 DEF RemoteChange, Outside, updateVars, readyVars, queueVars
<1>4. ASSUME NEW a \in Address, NEW h \in History, Deliver(a, h) PROVE Outside
  <2>1. Status(a, h, FALSE) \in Envelope
    BY DEF Status, Envelope
  <2> QED
    BY <1>4, <2>1 DEF Deliver, Push, Outside, updateVars, readyVars
<1> QED
  BY <1>1, <1>2, <1>3, <1>4

\* finishCycle records a cycle whose histories are in, and may start the next.
LEMMA FinishEffect ==
  ASSUME NEW w \in WorkerState, FinishCycle(w)
  PROVE  /\ worker'.pendingHistories = w.pendingHistories
         /\ worker'.cyclePending => w.cyclePending /\ w.pendingHistories # 0
         /\ w.cycleRunning => worker'.cycleRunning
         /\ ~(w.cyclePending /\ w.pendingHistories = 0) =>
               goroutine' = goroutine /\ ready' = ready /\ (addressCycles' => addressCycles)
         /\ addressCycles => addressCycles'
         /\ w.cyclePending /\ w.pendingHistories = 0 => (ready' => addressCycles' /\ (ready \/ ~stopped))
         /\ goroutine' = goroutine \/ StartCycle
         /\ UNCHANGED <<tip, stopped>>
<1> DEFINE finished == w.cyclePending /\ w.pendingHistories = 0
           again == finished /\ w.pendingConnection
<1>1. /\ finished \in BOOLEAN /\ again \in BOOLEAN /\ (again => finished)
      /\ w.cyclePending \in BOOLEAN /\ w.cycleRunning \in BOOLEAN /\ w.pendingConnection \in BOOLEAN
      /\ finished <=> (w.cyclePending /\ w.pendingHistories = 0)
  BY DEF WorkerState
<1>2. worker' = [w EXCEPT !.cyclePending = @ /\ ~finished,
                          !.pendingConnection = @ /\ ~again, !.cycleRunning = @ \/ again]
  BY DEF FinishCycle
<1>3. /\ addressCycles' = (addressCycles \/ finished)
      /\ ready' = IF finished THEN MarkReady(tip, TRUE) ELSE ready
      /\ IF again THEN StartCycle ELSE UNCHANGED goroutine
      /\ UNCHANGED <<tip, stopped>>
  BY DEF FinishCycle
<1> HIDE DEF finished, again
<1>4. /\ worker'.pendingHistories = w.pendingHistories
      /\ worker'.cyclePending = (w.cyclePending /\ ~finished)
      /\ worker'.cycleRunning = (w.cycleRunning \/ again)
  BY <1>1, <1>2 DEF WorkerState
<1>5. /\ worker'.cyclePending => w.cyclePending /\ w.pendingHistories # 0
      /\ w.cycleRunning => worker'.cycleRunning
  BY <1>1, <1>4, Zenon
<1>6. /\ ~finished => goroutine' = goroutine /\ ready' = ready
      /\ goroutine' = goroutine \/ StartCycle
  BY <1>1, <1>3
<1>7. (~finished => (addressCycles' => addressCycles)) /\ (addressCycles => addressCycles')
      /\ (finished => addressCycles')
  BY <1>3, Zenon
<1>8. finished => (ready' => ready \/ ~stopped)
  BY <1>3 DEF MarkReady
<1> QED
  BY <1>1, <1>3, <1>4, <1>5, <1>6, <1>7, <1>8

\* Starting a cycle leaves the updates alone, and the first cycle if it has begun.
LEMMA StartCycleEffect ==
  ASSUME GoroutinesTyped, StartCycle
  PROVE  /\ \E g \in Cycle : /\ goroutine[g] = Idle /\ goroutine' \in [Goroutine -> GoroutineRecord]
                             /\ \A h \in Goroutine : h # g => goroutine'[h] = goroutine[h]
                             /\ goroutine[FirstCycle] = Idle => g = FirstCycle
         /\ Running' = Running
<1> USE GoroutineNames
<1>1. PICK g \in Cycle : /\ goroutine[g] = Idle /\ \A h \in Cycle : h.n < g.n => goroutine[h] # Idle
                         /\ goroutine' = [goroutine EXCEPT ![g] = [Idle EXCEPT !.phase = "list"]]
  BY DEF StartCycle
<1>2. [Idle EXCEPT !.phase = "list"] \in GoroutineRecord
  BY DEF GoroutineRecord, Idle, Live
<1>3. goroutine' \in [Goroutine -> GoroutineRecord]
  BY <1>1, <1>2 DEF GoroutinesTyped
<1>4. \A h \in Goroutine : h # g => goroutine'[h] = goroutine[h]
  BY <1>1 DEF GoroutinesTyped
<1>5. goroutine[FirstCycle] = Idle => g = FirstCycle
  BY <1>1
<1>6. Running' = Running
  BY <1>4 DEF Running
<1> QED
  BY <1>1, <1>3, <1>4, <1>5, <1>6

(***************************************************************************)
(* Types                                                                   *)
(***************************************************************************)

\* What the end of a sequence holds.
LEMMA TailFacts ==
  ASSUME NEW S, NEW q \in Seq(S), q # <<>>
  PROVE  /\ Tail(q) \in Seq(S) /\ Head(q) \in S /\ Head(q) = q[1] /\ Len(q) \in Nat \ {0}
         /\ Len(Tail(q)) = Len(q) - 1 /\ \A i \in 1 .. Len(q) - 1 : Tail(q)[i] = q[i + 1]
  OBVIOUS

\* What a sequence with one more element holds.
LEMMA AppendFacts ==
  ASSUME NEW S, NEW q \in Seq(S), NEW e \in S
  PROVE  /\ Append(q, e) \in Seq(S) /\ Len(Append(q, e)) = Len(q) + 1 /\ Len(q) \in Nat
         /\ \A i \in 1 .. Len(q) : Append(q, e)[i] = q[i]
         /\ Append(q, e)[Len(q) + 1] = e
  OBVIOUS

\* What an update's comparison does.
LEMMA CompareEffect ==
  ASSUME TypeOK, NEW g \in Update, UpdateCompare(g)
  PROVE  /\ backlog[g.n] \in Seq(History \X BOOLEAN) /\ backlog[g.n] # <<>> /\ goroutine[g] = Idle
         /\ backlog' = [backlog EXCEPT ![g.n] = Tail(@)]
         /\ UNCHANGED <<queue, worker, readyVars>>
         /\ \/ /\ ended' = ended + 1 /\ goroutine' = goroutine
               /\ owed' = IF Head(backlog[g.n])[2] THEN owed \ {g.n} ELSE owed
            \/ /\ UNCHANGED <<ended, owed>>
               /\ \E r \in GoroutineRecord : /\ goroutine' = [goroutine EXCEPT ![g] = r]
                                             /\ r.phase = "fetch" /\ r.initial = Head(backlog[g.n])[2]
<1> USE GoroutineNames DEF TypeOK, QueueTyped
<1> DEFINE a == g.n
<1>1. backlog[a] \in Seq(History \X BOOLEAN) /\ backlog[a] # <<>> /\ goroutine[g] = Idle
  BY DEF UpdateCompare, TicketRuns
<1>2. Head(backlog[a])[2] \in BOOLEAN
  <2>1. Head(backlog[a]) \in History \X BOOLEAN
    BY <1>1, TailFacts
  <2> QED
    BY <2>1
<1>3. backlog' = [backlog EXCEPT ![a] = Tail(@)] /\ UNCHANGED <<queue, worker, readyVars>>
  BY DEF UpdateCompare, queueVars
<1>4. CASE Head(backlog[a])[1] = local[a]
  BY <1>1, <1>3, <1>4 DEF UpdateCompare
<1>5. CASE Head(backlog[a])[1] # local[a]
  <2> DEFINE r == [Idle EXCEPT !.phase = "fetch", !.initial = Head(backlog[a])[2]]
  <2>1. r \in GoroutineRecord /\ r.phase = "fetch" /\ r.initial = Head(backlog[a])[2]
    BY <1>2 DEF GoroutineRecord, Idle, Live, History
  <2>2. goroutine' = [goroutine EXCEPT ![g] = r] /\ UNCHANGED <<ended, owed>>
    BY <1>5 DEF UpdateCompare
  <2> HIDE DEF r
  <2> QED
    BY <1>1, <1>3, <2>1, <2>2
<1> QED
  BY <1>4, <1>5

\* The kinds of steps.
LEMMA StepKinds ==
  ASSUME WakeInv, TypeOK, [Next]_vars
  PROVE  \/ Outside \/ Turns \/ TipInitial \/ HistoryAbandoned
         \/ \E g \in Cycle : Receives(g)
         \/ WorkerHistoryDone \/ DrainConnected \/ DrainStatus \/ DrainEmpty
         \/ \E g \in Goroutine : Works(g) \/ Ends(g) \/ (PushStatus(g) /\ Advances(g))
         \/ \E g \in Update : UpdateCompare(g)
<1>1. ASSUME WorkerStep
      PROVE  \/ Turns \/ \E g \in Cycle : Receives(g)
             \/ WorkerHistoryDone \/ DrainConnected \/ DrainStatus \/ DrainEmpty
  BY <1>1, WorkerKinds DEF WorkerStep
<1>2. ASSUME NEW g \in Goroutine, GoroutineStep(g)
      PROVE  \/ Works(g) \/ Ends(g) \/ (PushStatus(g) /\ Advances(g)) \/ (g \in Update /\ UpdateCompare(g))
  BY <1>2, GoroutineKinds
<1>3. ASSUME \/ Connect \/ Disconnect \/ Stop \/ Wake \/ TipUpdate \/ UNCHANGED vars
             \/ \E a \in Address, h \in History : RemoteChange(a, h) \/ Deliver(a, h)
      PROVE  Outside
  BY <1>3, OutsideKinds DEF TypeOK
<1> QED
  BY <1>1, <1>2, <1>3 DEF Next

\* The server's histories, the notifications and the number of addresses keep their types.
LEMMA WorldStep ==
  ASSUME TypeOK, [Next]_vars PROVE WorldTyped'
<1> USE DEF TypeOK, WorldTyped
<1>1. ASSUME NEW a \in Address, NEW h \in History, RemoteChange(a, h) \/ Deliver(a, h) PROVE WorldTyped'
  <2>1. remote' = remote \/ remote' = [remote EXCEPT ![a] = h]
    BY <1>1 DEF RemoteChange, Deliver
  <2>2. wire' \subseteq wire \cup {<<a, h>>} /\ known' = known
    BY <1>1 DEF RemoteChange, Deliver, databaseVars
  <2> QED
    BY <2>1, <2>2
<1>2. ASSUME Disconnect \/ Stop PROVE WorldTyped'
  BY <1>2 DEF Disconnect, Stop, databaseVars
<1>3. ASSUME NEW g \in Goroutine, EnsureAddressGap(g) PROVE WorldTyped'
  <2> DEFINE new == {a \in Address : known < a /\ a <= known + (Gap - ExistingGap)}
  <2>1. new \in SUBSET (known + 1 .. MaxAddress)
    BY BoundsAssumption DEF Address
  <2>2. known' = known \/ known' = known + Cardinality(new)
    BY <1>3 DEF EnsureAddressGap
  <2>3. UNCHANGED <<remote, wire>>
    BY <1>3 DEF EnsureAddressGap, networkVars
  <2> HIDE DEF new
  <2>4. IsFiniteSet(known + 1 .. MaxAddress) /\ Cardinality(known + 1 .. MaxAddress) <= MaxAddress - known
    BY FS_Interval, BoundsAssumption
  <2>5. IsFiniteSet(new) /\ Cardinality(new) <= Cardinality(known + 1 .. MaxAddress)
    BY <2>1, <2>4, FS_Subset
  <2>6. Cardinality(new) \in Nat /\ Cardinality(known + 1 .. MaxAddress) \in Nat
    BY <2>4, <2>5, FS_CardinalityType
  <2>7. known' \in 0 .. MaxAddress
    BY <2>2, <2>4, <2>5, <2>6, BoundsAssumption
  <2> QED
    BY <2>3, <2>7
<1>4. ASSUME \/ Connect \/ Wake \/ TipInitial \/ TipUpdate \/ WorkerStep \/ HistoryAbandoned \/ UNCHANGED vars
             \/ \E g \in Goroutine : GoroutineStep(g) /\ ~EnsureAddressGap(g)
      PROVE  WorldTyped'
  <2>1. UNCHANGED <<remote, wire, known>>
    BY <1>4 DEF Connect, Wake, TipInitial, TipUpdate, HistoryAbandoned, vars, WorkerStep, WorkerStart, WorkerWake,
        WorkerHistoryDone, WorkerResult, DrainConnected, DrainStatus, DrainEmpty, WorkerExit, ExitDone, ExitResult,
        GoroutineStep, GoroutineAdvance, CycleList, Subscribe, SubscribeSkipped, PushStatus, PushedAll,
        UpdateCompare, UpdateFetch, UpdateSave, Fail, networkVars, databaseVars
  <2> QED
    BY <2>1
<1> QED
  BY <1>1, <1>2, <1>3, <1>4 DEF Next

\* The status that a drain takes from the queue.
LEMMA DrainEffect ==
  ASSUME WakeInv, TypeOK, DrainStatus
  PROVE  /\ queue # <<>> /\ queue' = Tail(queue) /\ queue[1] # Connected /\ worker.pc = "drain"
         /\ queue[1].address \in Address /\ <<queue[1].status, queue[1].initial>> \in History \X BOOLEAN
         /\ backlog' = [backlog EXCEPT ![queue[1].address] = Append(@, <<queue[1].status, queue[1].initial>>)]
         /\ worker'.pendingHistories = worker.pendingHistories + 1
         /\ worker'.pc = "drain" /\ worker'.cyclePending = worker.cyclePending
         /\ worker'.cycleRunning = worker.cycleRunning
         /\ UNCHANGED <<goroutine, ended, readyVars, owed>>
<1>1. queue # <<>> /\ queue' = Tail(queue) /\ Head(queue) # Connected
  BY DEF DrainStatus
<1>2. Head(queue) = queue[1] /\ queue[1] \in Envelope
  BY <1>1, TailFacts DEF TypeOK, QueueTyped
<1>3. queue[1] \in [kind : {"status"}, address : Address, status : History, initial : BOOLEAN]
  BY <1>1, <1>2 DEF Envelope
<1>4. worker.pc = "drain" /\ worker' = [worker EXCEPT !.pendingHistories = @ + 1]
  BY DEF DrainStatus
<1>5. /\ worker'.pendingHistories = worker.pendingHistories + 1
      /\ worker'.pc = "drain" /\ worker'.cyclePending = worker.cyclePending
      /\ worker'.cycleRunning = worker.cycleRunning
  BY <1>4 DEF WakeInv, WorkerState
<1> QED
  BY <1>1, <1>2, <1>3, <1>4, <1>5 DEF DrainStatus

\* The queue holds envelopes and the backlog of an address holds its statuses.
LEMMA QueueStep ==
  ASSUME WakeInv, TypeOK, [Next]_vars PROVE QueueTyped'
<1> USE DEF QueueTyped
<1> queue \in Seq(Envelope) /\ backlog \in [Address -> Seq(History \X BOOLEAN)]
  BY DEF TypeOK
<1>1. ASSUME Outside PROVE QueueTyped'
  BY <1>1, AppendFacts DEF Outside
<1>2. ASSUME Turns \/ TipInitial \/ HistoryAbandoned \/ WorkerHistoryDone \/ DrainEmpty PROVE QueueTyped'
  BY <1>2 DEF Turns, TipInitial, HistoryAbandoned, WorkerHistoryDone, DrainEmpty, queueVars, updateVars
<1>3. ASSUME NEW g \in Goroutine, Receives(g) \/ Works(g) \/ Ends(g) PROVE QueueTyped'
  BY <1>3 DEF Receives, Works, Advances, Still, Ends
<1>4. ASSUME DrainConnected PROVE QueueTyped'
  BY <1>4, TailFacts DEF DrainConnected
<1>5. ASSUME DrainStatus PROVE QueueTyped'
  <2>1. queue' \in Seq(Envelope)
    <3>1. queue # <<>> /\ queue' = Tail(queue)
      BY <1>5, DrainEffect
    <3> QED
      BY <3>1, TailFacts
  <2>2. backlog' \in [Address -> Seq(History \X BOOLEAN)]
    <3> DEFINE a == queue[1].address
               x == <<queue[1].status, queue[1].initial>>
    <3>1. a \in Address /\ x \in History \X BOOLEAN /\ backlog' = [backlog EXCEPT ![a] = Append(@, x)]
      BY <1>5, DrainEffect
    <3> HIDE DEF a, x
    <3>2. Append(backlog[a], x) \in Seq(History \X BOOLEAN)
      BY <3>1, AppendFacts
    <3> QED
      BY <3>1, <3>2
  <2> QED
    BY <2>1, <2>2
<1>6. ASSUME NEW g \in Goroutine, PushStatus(g) PROVE QueueTyped'
  <2>1. PICK m \in goroutine[g].statuses : queue' = queue \/ queue' = Append(queue, Status(m[1], m[2], TRUE))
    BY <1>6 DEF PushStatus, Push, queueVars
  <2>2. m \in Address \X History
    BY DEF TypeOK, GoroutinesTyped, GoroutineRecord
  <2>3. Status(m[1], m[2], TRUE) \in Envelope
    BY <2>2 DEF Status, Envelope
  <2>4. UNCHANGED backlog
    BY <1>6 DEF PushStatus
  <2>5. Append(queue, Status(m[1], m[2], TRUE)) \in Seq(Envelope)
    BY <2>3, AppendFacts
  <2> QED
    BY <2>1, <2>4, <2>5
<1>7. ASSUME NEW g \in Update, UpdateCompare(g) PROVE QueueTyped'
  <2>1. /\ g.n \in Address /\ backlog[g.n] # <<>> /\ UNCHANGED queue
        /\ backlog' = [backlog EXCEPT ![g.n] = Tail(@)]
    BY <1>7, CompareEffect, GoroutineNames
  <2>2. Tail(backlog[g.n]) \in Seq(History \X BOOLEAN)
    BY <2>1, TailFacts
  <2> QED
    BY <2>1, <2>2
<1>8. Cycle \subseteq Goroutine
  BY DEF Goroutine
<1> QED
  BY <1>1, <1>2, <1>3, <1>4, <1>5, <1>6, <1>7, <1>8, StepKinds

\* The goroutines' records and the number of those that report keep their types.
LEMMA GoroutineStepTyped ==
  ASSUME WakeInv, TypeOK, [Next]_vars PROVE GoroutinesTyped' /\ ended' \in Nat
<1> USE GoroutineNames DEF GoroutinesTyped
<1> /\ goroutine \in [Goroutine -> GoroutineRecord] /\ ended \in Nat /\ worker \in WorkerState
    /\ \A g \in Goroutine : goroutine[g] \in GoroutineRecord
  BY DEF TypeOK, WakeInv
<1>1. ASSUME Outside \/ Turns \/ TipInitial \/ HistoryAbandoned PROVE GoroutinesTyped' /\ ended' \in Nat
  BY <1>1 DEF Outside, Turns, TipInitial, HistoryAbandoned, updateVars
<1>2. ASSUME NEW g \in Goroutine, Receives(g) PROVE GoroutinesTyped' /\ ended' \in Nat
  <2> DEFINE r == [goroutine[g] EXCEPT !.phase = "done"]
  <2>1. r \in GoroutineRecord
    BY DEF GoroutineRecord
  <2>2. goroutine' = [goroutine EXCEPT ![g] = r] /\ ended' = ended
    BY <1>2 DEF Receives
  <2> HIDE DEF r
  <2> QED
    BY <2>1, <2>2
<1>3. ASSUME NEW g \in Goroutine, Advances(g) PROVE GoroutinesTyped' /\ ended' \in Nat
  BY <1>3 DEF Advances, Still
<1>4. ASSUME NEW g \in Goroutine, Ends(g) PROVE GoroutinesTyped' /\ ended' \in Nat
  <2>1. [Idle EXCEPT !.phase = "sent"] \in GoroutineRecord
    BY DEF GoroutineRecord, Idle
  <2> QED
    BY <1>4, <2>1 DEF Ends, Finish
<1>5. ASSUME NEW g \in Update, UpdateCompare(g) PROVE GoroutinesTyped' /\ ended' \in Nat
  BY <1>5, CompareEffect
<1>6. ASSUME WorkerHistoryDone PROVE GoroutinesTyped' /\ ended' \in Nat
  <2> DEFINE w == [worker EXCEPT !.pendingHistories = IF @ > 0 THEN @ - 1 ELSE 0]
  <2>1. w \in WorkerState
    BY DEF WorkerState
  <2>2. FinishCycle(w) /\ ended' = ended - 1 /\ ended > 0
    BY <1>6 DEF WorkerHistoryDone
  <2> HIDE DEF w
  <2> QED
    BY <2>1, <2>2, FinishEffect, StartCycleEffect
<1>7. ASSUME DrainEmpty PROVE GoroutinesTyped' /\ ended' \in Nat
  <2> DEFINE w == [worker EXCEPT !.pc = "select"]
  <2>1. w \in WorkerState
    BY DEF WorkerState
  <2>2. FinishCycle(w) /\ ended' = ended
    BY <1>7 DEF DrainEmpty
  <2> HIDE DEF w
  <2> QED
    BY <2>1, <2>2, FinishEffect, StartCycleEffect
<1>8. ASSUME DrainConnected \/ DrainStatus PROVE GoroutinesTyped' /\ ended' \in Nat
  BY <1>8, StartCycleEffect DEF DrainConnected, DrainStatus
<1> QED
  BY <1>1, <1>2, <1>3, <1>4, <1>5, <1>6, <1>7, <1>8, StepKinds DEF Works

(***************************************************************************)
(* The count                                                               *)
(***************************************************************************)

\* A ticket is a place in the backlog of an address.
LEMMA TicketFacts ==
  \A t : t \in Tickets <=> \E a \in Address : \E i \in 1 .. Len(backlog[a]) : t = <<a, i>>
BY DEF Tickets

\* A status that is drained gets a ticket.
LEMMA TicketIssued ==
  ASSUME QueueTyped, NEW a \in Address, NEW x \in History \X BOOLEAN,
         backlog' = [backlog EXCEPT ![a] = Append(@, x)]
  PROVE  \E t : t \notin Tickets /\ Tickets' = Tickets \cup {t}
<1> DEFINE n == Len(backlog[a]) + 1
<1>1. backlog[a] \in Seq(History \X BOOLEAN)
  BY DEF QueueTyped
<1>2. Len(backlog[a]) \in Nat /\ Len(backlog'[a]) = n
  BY <1>1, AppendFacts DEF QueueTyped
<1>3. \A b \in Address : b # a => backlog'[b] = backlog[b]
  BY DEF QueueTyped
<1>4. \A t : t \in Tickets' <=> \E b \in Address : \E i \in 1 .. Len(backlog'[b]) : t = <<b, i>>
  BY DEF Tickets
<1>5. \A i : i \in 1 .. n <=> i \in 1 .. Len(backlog[a]) \/ i = n
  BY <1>2
<1>6. <<a, n>> \notin Tickets
  BY <1>2, TicketFacts
<1> HIDE DEF n
<1>7. ASSUME NEW t PROVE t \in Tickets' <=> t \in Tickets \cup {<<a, n>>}
  <2>1. ASSUME t \in Tickets' PROVE t \in Tickets \cup {<<a, n>>}
    BY <1>2, <1>3, <1>4, <1>5, <2>1, TicketFacts
  <2>2. ASSUME t \in Tickets \cup {<<a, n>>} PROVE t \in Tickets'
    BY <1>2, <1>3, <1>4, <1>5, <2>2, TicketFacts
  <2> QED
    BY <2>1, <2>2
<1> QED
  BY <1>6, <1>7

\* A ticket whose update begins leaves the backlog.
LEMMA TicketTaken ==
  ASSUME QueueTyped, NEW a \in Address, backlog[a] # <<>>, backlog' = [backlog EXCEPT ![a] = Tail(@)]
  PROVE  \E t : t \in Tickets /\ Tickets' = Tickets \ {t}
<1> DEFINE n == Len(backlog[a])
<1>1. backlog[a] \in Seq(History \X BOOLEAN)
  BY DEF QueueTyped
<1>2. n \in Nat \ {0} /\ Len(backlog'[a]) = n - 1
  BY <1>1, TailFacts DEF QueueTyped
<1>3. \A b \in Address : b # a => backlog'[b] = backlog[b]
  BY DEF QueueTyped
<1>4. \A t : t \in Tickets' <=> \E b \in Address : \E i \in 1 .. Len(backlog'[b]) : t = <<b, i>>
  BY DEF Tickets
<1>5. \A i : i \in 1 .. n - 1 <=> i \in 1 .. n /\ i # n
  BY <1>2
<1>6. <<a, n>> \in Tickets
  BY <1>2, TicketFacts
<1>7. \A t : t \in Tickets <=> \E b \in Address : \E i \in 1 .. Len(backlog[b]) : t = <<b, i>>
  BY TicketFacts
<1>8. ASSUME NEW t PROVE t \in Tickets' <=> t \in Tickets \ {<<a, n>>}
  <2>1. ASSUME t \in Tickets' PROVE t \in Tickets \ {<<a, n>>}
    BY <1>2, <1>3, <1>4, <1>5, <1>7, <2>1
  <2>2. ASSUME t \in Tickets \ {<<a, n>>} PROVE t \in Tickets'
    BY <1>2, <1>3, <1>4, <1>5, <1>7, <2>2
  <2> QED
    BY <2>1, <2>2
<1> QED
  BY <1>6, <1>8

\* A step that touches no ticket and no update keeps the count.
LEMMA CountFrame ==
  ASSUME CountInv, UNCHANGED <<backlog, ended>>, Running' = Running, stopped => stopped',
         worker'.pendingHistories = worker.pendingHistories
  PROVE  CountInv'
BY DEF CountInv, PendingHistoriesExact, Tickets

\* Every step keeps the count of pending histories exact: startHistoryUpdate counts what it
\* issues, and only the worker takes from the count, one for each report.
LEMMA CountStep ==
  ASSUME WakeInv, TypeOK, CountInv, [Next]_vars PROVE CountInv'
<1> USE GoroutineNames
<1> /\ worker \in WorkerState /\ ended \in Nat
    /\ goroutine \in [Goroutine -> GoroutineRecord] /\ GoroutinesTyped /\ QueueTyped
  BY DEF WakeInv, TypeOK, GoroutinesTyped
<1>1. /\ IsFiniteSet(Tickets) /\ IsFiniteSet(Running)
      /\ Cardinality(Tickets) \in Nat /\ Cardinality(Running) \in Nat
      /\ ~stopped => worker.pendingHistories = Cardinality(Tickets) + Cardinality(Running) + ended
  BY FS_CardinalityType DEF CountInv, PendingHistoriesExact
<1>2. ASSUME Outside \/ Turns \/ TipInitial PROVE CountInv'
  <2>1. UNCHANGED <<backlog, ended, goroutine>> /\ (stopped => stopped')
    BY <1>2 DEF Outside, Turns, TipInitial, updateVars, readyVars
  <2>2. worker'.pendingHistories = worker.pendingHistories
    BY <1>2 DEF Outside, Turns, TipInitial, WorkerState
  <2> QED
    BY <2>1, <2>2, CountFrame DEF Running
<1>3. ASSUME HistoryAbandoned PROVE CountInv'
  BY <1>3 DEF HistoryAbandoned, CountInv, PendingHistoriesExact, Tickets, Running, readyVars
<1>4. ASSUME NEW g \in Cycle, Receives(g) PROVE CountInv'
  <2>1. Running' = Running
    BY <1>4 DEF Running, Receives
  <2> QED
    BY <1>4, <2>1, CountFrame DEF Receives, readyVars
<1>5. ASSUME NEW g \in Goroutine, Advances(g) PROVE CountInv'
  <2>1. PICK r \in GoroutineRecord : /\ goroutine' = [goroutine EXCEPT ![g] = r]
                                     /\ goroutine[g].phase \in Live /\ r.phase \in Live
    BY <1>5 DEF Advances
  <2>2. goroutine[g] # Idle /\ r # Idle
    BY <2>1 DEF Live
  <2>3. Running' = Running
    BY <2>1, <2>2 DEF Running
  <2> QED
    BY <1>5, <2>3, CountFrame DEF Advances, Still, readyVars
<1>6. ASSUME NEW g \in Goroutine, Ends(g) PROVE CountInv'
  <2>1. UNCHANGED <<backlog, worker, stopped>> /\ Tickets' = Tickets
    BY <1>6 DEF Ends, readyVars, Tickets
  <2>2. CASE g \in Cycle
    <3>1. Running' = Running /\ ended' = ended
      BY <1>6, <2>2 DEF Ends, Finish, Running
    <3> QED
      BY <2>1, <3>1, CountFrame
  <2>3. CASE g \in Update
    <3>1. goroutine[g] # Idle
      BY <1>6 DEF Ends, Live
    <3>2. goroutine' = [goroutine EXCEPT ![g] = Idle] /\ ended' = ended + 1
      BY <1>6, <2>3 DEF Ends, Finish
    <3>3. Running' = Running \ {g} /\ g \in Running
      BY <2>3, <3>1, <3>2 DEF Running
    <3>4. IsFiniteSet(Running') /\ Cardinality(Running') = Cardinality(Running) - 1
      BY <1>1, <3>3, FS_RemoveElement
    <3> QED
      BY <1>1, <2>1, <3>2, <3>4 DEF CountInv, PendingHistoriesExact
  <2> QED
    BY <2>2, <2>3
<1>7. ASSUME NEW g \in Update, UpdateCompare(g) PROVE CountInv'
  <2>1. PICK t : t \in Tickets /\ Tickets' = Tickets \ {t}
    BY <1>7, CompareEffect, TicketTaken, ZenonT(30)
  <2>2. IsFiniteSet(Tickets') /\ Cardinality(Tickets') = Cardinality(Tickets) - 1
    BY <1>1, <2>1, FS_RemoveElement
  <2>3. UNCHANGED <<worker, stopped>> /\ goroutine[g] = Idle
    BY <1>7, CompareEffect DEF readyVars
  <2>4. CASE ended' = ended + 1 /\ goroutine' = goroutine
    <3>1. Running' = Running
      BY <2>4 DEF Running
    <3> QED
      BY <1>1, <2>2, <2>3, <2>4, <3>1 DEF CountInv, PendingHistoriesExact
  <2>5. ASSUME ended' = ended, NEW r \in GoroutineRecord, goroutine' = [goroutine EXCEPT ![g] = r], r.phase = "fetch"
        PROVE  CountInv'
    <3>1. r # Idle
      BY <2>5
    <3>2. Running' = Running \cup {g} /\ g \notin Running
      BY <2>3, <2>5, <3>1 DEF Running
    <3>3. IsFiniteSet(Running') /\ Cardinality(Running') = Cardinality(Running) + 1
      BY <1>1, <3>2, FS_AddElement
    <3> QED
      BY <1>1, <2>2, <2>3, <2>5, <3>3 DEF CountInv, PendingHistoriesExact
  <2>6. \/ ended' = ended + 1 /\ goroutine' = goroutine
        \/ /\ ended' = ended
           /\ \E r \in GoroutineRecord : goroutine' = [goroutine EXCEPT ![g] = r] /\ r.phase = "fetch"
    BY <1>7, CompareEffect
  <2> QED
    BY <2>4, <2>5, <2>6
<1>8. ASSUME WorkerHistoryDone PROVE CountInv'
  <2> DEFINE w == [worker EXCEPT !.pendingHistories = IF @ > 0 THEN @ - 1 ELSE 0]
  <2>1. /\ w \in WorkerState
        /\ w.pendingHistories = IF worker.pendingHistories > 0 THEN worker.pendingHistories - 1 ELSE 0
    BY DEF WorkerState
  <2>2. FinishCycle(w) /\ ended' = ended - 1 /\ ended > 0 /\ UNCHANGED backlog
    BY <1>8 DEF WorkerHistoryDone
  <2> HIDE DEF w
  <2>3. Running' = Running /\ worker'.pendingHistories = w.pendingHistories /\ UNCHANGED stopped
    BY <2>1, <2>2, FinishEffect, StartCycleEffect DEF Running
  <2>4. Tickets' = Tickets
    BY <2>2 DEF Tickets
  <2> QED
    BY <1>1, <2>1, <2>2, <2>3, <2>4 DEF CountInv, PendingHistoriesExact
<1>9. ASSUME DrainEmpty PROVE CountInv'
  <2> DEFINE w == [worker EXCEPT !.pc = "select"]
  <2>1. w \in WorkerState /\ w.pendingHistories = worker.pendingHistories
    BY DEF WorkerState
  <2>2. FinishCycle(w) /\ UNCHANGED <<ended, backlog>>
    BY <1>9 DEF DrainEmpty
  <2> HIDE DEF w
  <2>3. Running' = Running /\ worker'.pendingHistories = w.pendingHistories /\ UNCHANGED stopped
    BY <2>1, <2>2, FinishEffect, StartCycleEffect DEF Running
  <2> QED
    BY <2>1, <2>2, <2>3, CountFrame
<1>10. ASSUME DrainConnected PROVE CountInv'
  <2>1. Running' = Running
    BY <1>10, StartCycleEffect DEF DrainConnected, Running
  <2>2. worker'.pendingHistories = worker.pendingHistories
    BY <1>10 DEF DrainConnected, WorkerState
  <2> QED
    BY <1>10, <2>1, <2>2, CountFrame DEF DrainConnected, readyVars
<1>11. ASSUME DrainStatus PROVE CountInv'
  <2>1. PICK t : t \notin Tickets /\ Tickets' = Tickets \cup {t}
    BY <1>11, DrainEffect, TicketIssued
  <2>2. IsFiniteSet(Tickets') /\ Cardinality(Tickets') = Cardinality(Tickets) + 1
    BY <1>1, <2>1, FS_AddElement
  <2>3. /\ Running' = Running /\ UNCHANGED <<ended, stopped>>
        /\ worker'.pendingHistories = worker.pendingHistories + 1
    BY <1>11, DrainEffect DEF Running, readyVars
  <2> QED
    BY <1>1, <2>2, <2>3 DEF CountInv, PendingHistoriesExact, WorkerState
<1> QED
  BY <1>2, <1>3, <1>4, <1>5, <1>6, <1>7, <1>8, <1>9, <1>10, <1>11, StepKinds DEF Works

(***************************************************************************)
(* The first cycle and what it owes                                        *)
(***************************************************************************)

\* No step starts a second cycle or records one before the first cycle's result is in.
LEMMA FirstStep ==
  ASSUME WakeInv, TypeOK, FirstInv, OwedInv, [Next]_vars PROVE FirstInv'
<1> USE GoroutineNames DEF FirstInv
<1> /\ worker \in WorkerState /\ GoroutinesTyped /\ QueueTyped
    /\ goroutine \in [Goroutine -> GoroutineRecord] /\ FirstCycle \in Goroutine
  BY DEF WakeInv, TypeOK, GoroutinesTyped
<1>1. ASSUME Outside \/ HistoryAbandoned PROVE FirstInv'
  BY <1>1 DEF Outside, HistoryAbandoned, readyVars
<1>2. ASSUME Turns PROVE FirstInv'
  <2>1. worker'.cyclePending = worker.cyclePending /\ worker'.cycleRunning = worker.cycleRunning
    BY <1>2 DEF Turns, WorkerState
  <2> QED
    BY <1>2, <2>1 DEF Turns, readyVars
<1>3. ASSUME TipInitial PROVE FirstInv'
  <2>1. UNCHANGED <<goroutine, worker, addressCycles>> /\ (ready' => ready \/ addressCycles)
    BY <1>3 DEF TipInitial, MarkReady, updateVars
  <2> QED
    BY <2>1
<1>4. ASSUME NEW g \in Cycle, Receives(g) PROVE FirstInv'
  <2>1. /\ goroutine[g].phase = "sent" /\ goroutine'[g].phase = "done"
        /\ \A h \in Goroutine : h # g => goroutine'[h] = goroutine[h]
    BY <1>4 DEF Receives, GoroutineRecord
  <2>2. g = FirstCycle \/ goroutine[FirstCycle].phase = "done"
    BY <2>1
  <2>3. goroutine'[FirstCycle].phase = "done"
    BY <2>1, <2>2
  <2> QED
    BY <2>3
<1>5. ASSUME NEW g \in Goroutine, Advances(g) PROVE FirstInv'
  <2>1. PICK r \in GoroutineRecord : /\ goroutine' = [goroutine EXCEPT ![g] = r]
                                     /\ goroutine[g].phase \in Live /\ r.phase \in Live
    BY <1>5 DEF Advances
  <2>2. UNCHANGED <<worker, addressCycles, ready>> /\ goroutine[g] # Idle /\ goroutine[g].phase # "done"
    BY <1>5, <2>1 DEF Advances, Still, readyVars, Live
  <2>3. CASE g \in Update
    BY <2>1, <2>2, <2>3
  <2>4. CASE g = FirstCycle
    BY <2>1, <2>2, <2>4
  <2>5. CASE g \in Cycle /\ g # FirstCycle
    BY <2>1, <2>2, <2>5
  <2> QED
    BY <2>3, <2>4, <2>5
<1>6. ASSUME NEW g \in Goroutine, Ends(g) PROVE FirstInv'
  <2>1. /\ \A h \in Goroutine : h # g => goroutine'[h] = goroutine[h]
        /\ goroutine[g] # Idle /\ goroutine[g].phase # "done"
        /\ UNCHANGED <<worker, addressCycles, ready>>
    BY <1>6 DEF Ends, Finish, readyVars, Live
  <2>2. CASE g \in Update
    BY <2>1, <2>2
  <2>3. CASE g = FirstCycle
    BY <2>1, <2>3
  <2>4. CASE g \in Cycle /\ g # FirstCycle
    BY <2>1, <2>4
  <2> QED
    BY <2>2, <2>3, <2>4
<1>7. ASSUME NEW g \in Update, UpdateCompare(g) PROVE FirstInv'
  <2>1. UNCHANGED <<worker, addressCycles, ready>> /\ \A h \in Cycle : goroutine'[h] = goroutine[h]
    BY <1>7, CompareEffect DEF readyVars
  <2> QED
    BY <2>1
<1>8. ASSUME NEW w \in WorkerState, FinishCycle(w), w.cyclePending = worker.cyclePending,
             w.cycleRunning = worker.cycleRunning
      PROVE  FirstInv'
  <2>1. CASE goroutine[FirstCycle].phase = "done"
    <3>1. goroutine'[FirstCycle] = goroutine[FirstCycle]
      BY <1>8, <2>1, FinishEffect, StartCycleEffect
    <3> QED
      BY <2>1, <3>1
  <2>2. CASE goroutine[FirstCycle].phase # "done"
    <3>1. ~w.cyclePending /\ ~addressCycles /\ ~ready
      BY <1>8, <2>2
    <3>2. goroutine' = goroutine /\ ~ready' /\ ~addressCycles' /\ ~worker'.cyclePending
      BY <1>8, <3>1, FinishEffect
    <3>3. worker.cycleRunning => worker'.cycleRunning
      BY <1>8, FinishEffect
    <3> QED
      BY <3>2, <3>3
  <2> QED
    BY <2>1, <2>2
<1>9. ASSUME WorkerHistoryDone PROVE FirstInv'
  <2> DEFINE w == [worker EXCEPT !.pendingHistories = IF @ > 0 THEN @ - 1 ELSE 0]
  <2>1. w \in WorkerState /\ w.cyclePending = worker.cyclePending /\ w.cycleRunning = worker.cycleRunning
    BY DEF WorkerState
  <2>2. FinishCycle(w)
    BY <1>9 DEF WorkerHistoryDone
  <2> HIDE DEF w
  <2> QED
    BY <1>8, <2>1, <2>2
<1>10. ASSUME DrainEmpty PROVE FirstInv'
  <2> DEFINE w == [worker EXCEPT !.pc = "select"]
  <2>1. w \in WorkerState /\ w.cyclePending = worker.cyclePending /\ w.cycleRunning = worker.cycleRunning
    BY DEF WorkerState
  <2>2. FinishCycle(w)
    BY <1>10 DEF DrainEmpty
  <2> HIDE DEF w
  <2> QED
    BY <1>8, <2>1, <2>2
<1>11. ASSUME DrainConnected PROVE FirstInv'
  <2>1. /\ UNCHANGED <<addressCycles, ready>> /\ worker'.cyclePending = worker.cyclePending
        /\ worker'.cycleRunning
    BY <1>11 DEF DrainConnected, readyVars, WorkerState
  <2>2. CASE worker.cycleRunning
    BY <1>11, <2>1, <2>2 DEF DrainConnected
  <2>3. CASE ~worker.cycleRunning
    <3>1. PICK g \in Cycle : /\ goroutine[g] = Idle
                             /\ \A h \in Goroutine : h # g => goroutine'[h] = goroutine[h]
                             /\ goroutine[FirstCycle] = Idle => g = FirstCycle
      BY <1>11, <2>3, StartCycleEffect DEF DrainConnected
    <3>2. CASE goroutine[FirstCycle] = Idle
      BY <2>1, <3>1, <3>2
    <3>3. CASE goroutine[FirstCycle] # Idle
      BY <2>1, <2>3, <3>1, <3>3
    <3> QED
      BY <3>2, <3>3
  <2> QED
    BY <2>2, <2>3
<1>12. ASSUME DrainStatus PROVE FirstInv'
  BY <1>12, DrainEffect DEF readyVars
<1> QED
  BY <1>1, <1>2, <1>3, <1>4, <1>5, <1>6, <1>7, <1>9, <1>10, <1>11, <1>12, StepKinds DEF Works

\* A step that loses no status on its way keeps what is owed.
LEMMA OwedFrame ==
  ASSUME OwedInv, owed' \subseteq owed, stopped => stopped', addressCycles' <=> addressCycles, ready' => ready,
         ~stopped' => \A a \in owed' :
             /\ Counted(a) => Counted(a)'
             /\ Queued(a) => Queued(a)' \/ Counted(a)'
             /\ worker.pc = "drain" \/ ~worker.cyclePending
                   => worker'.pc = "drain" \/ ~worker'.cyclePending \/ Counted(a)'
  PROVE  OwedInv'
<1>1. owed' \subseteq Address
  BY DEF OwedInv
<1>2. (addressCycles' /\ ~stopped' => owed' = {}) /\ (ready' => owed' = {} /\ addressCycles')
  BY DEF OwedInv
<1>3. ASSUME ~stopped', NEW a \in owed'
      PROVE  Counted(a)' \/ (Queued(a)' /\ (worker'.pc = "drain" \/ ~worker'.cyclePending))
  <2>1. Counted(a) \/ (Queued(a) /\ (worker.pc = "drain" \/ ~worker.cyclePending))
    BY <1>3 DEF OwedInv
  <2> QED
    BY <1>3, <2>1
<1> QED
  BY <1>1, <1>2, <1>3 DEF OwedInv

\* What is counted depends on the tickets and on the updates' own marks.
LEMMA CountedFrame ==
  ASSUME UNCHANGED backlog, NEW a \in Address,
         goroutine'[UpdateOf(a)].initial = goroutine[UpdateOf(a)].initial
  PROVE  Counted(a) <=> Counted(a)'
BY DEF Counted

\* An envelope stays in a queue that only grows.
LEMMA QueuedFrame ==
  ASSUME QueueTyped, queue' = queue \/ \E e \in Envelope : queue' = Append(queue, e), NEW a, Queued(a)
  PROVE  Queued(a)'
<1>1. CASE queue' = queue
  BY <1>1 DEF Queued
<1>2. ASSUME NEW e \in Envelope, queue' = Append(queue, e) PROVE Queued(a)'
  <2>1. PICK i \in 1 .. Len(queue) : queue[i] # Connected /\ queue[i].address = a /\ queue[i].initial
    BY DEF Queued
  <2>2. Len(queue) \in Nat /\ Len(queue') = Len(queue) + 1 /\ queue'[i] = queue[i]
    BY <1>2, AppendFacts DEF QueueTyped
  <2> QED
    BY <2>1, <2>2 DEF Queued
<1> QED
  BY <1>1, <1>2

\* When no history is pending nothing is counted.
LEMMA NothingCounted ==
  ASSUME TypeOK, CountInv, Cardinality(Tickets) = 0, Cardinality(Running) = 0, NEW a \in Address
  PROVE  ~Counted(a)
<1>1. Tickets = {} /\ Running = {}
  BY FS_EmptySet DEF CountInv
<1>2. \A i \in 1 .. Len(backlog[a]) : FALSE
  BY <1>1, TicketFacts
<1>3. goroutine[UpdateOf(a)] = Idle
  BY <1>1, GoroutineNames DEF Running
<1> QED
  BY <1>2, <1>3, GoroutineNames DEF Counted

\* finishCycle records a cycle only when nothing is owed any more.
LEMMA FinishOwed ==
  ASSUME TypeOK, OwedInv, NEW w \in WorkerState, FinishCycle(w), UNCHANGED <<backlog, owed, queue>>,
         worker'.pc = "select", w.cyclePending = worker.cyclePending,
         ~stopped => \A a \in owed : Queued(a) => Counted(a) \/ ~worker.cyclePending,
         ~stopped /\ w.cyclePending /\ w.pendingHistories = 0 => owed = {}
  PROVE  OwedInv'
<1> USE GoroutineNames
<1>1. \A a \in Address : Counted(a) <=> Counted(a)'
  <2>1. \A a \in Address : goroutine'[UpdateOf(a)] = goroutine[UpdateOf(a)]
    BY FinishEffect, StartCycleEffect DEF TypeOK
  <2> QED
    BY <2>1, CountedFrame
<1>2. \A a : Queued(a) <=> Queued(a)'
  BY DEF Queued
<1>3. UNCHANGED stopped /\ (worker'.cyclePending => w.cyclePending)
  BY FinishEffect
<1>4. CASE w.cyclePending /\ w.pendingHistories = 0
  <2>1. ~worker'.cyclePending /\ (ready' => addressCycles' /\ (ready \/ ~stopped))
    BY <1>4, FinishEffect
  <2>2. ready' => owed' = {} /\ addressCycles'
    BY <1>4, <2>1 DEF OwedInv
  <2>3. addressCycles' /\ ~stopped' => owed' = {}
    BY <1>3, <1>4
  <2>4. ~stopped' => \A a \in owed' : FALSE
    BY <1>3, <1>4
  <2> QED
    BY <2>2, <2>3, <2>4 DEF OwedInv
<1>5. CASE ~(w.cyclePending /\ w.pendingHistories = 0)
  <2>1. ready' = ready /\ (addressCycles' <=> addressCycles)
    BY <1>5, FinishEffect
  <2>2. ASSUME ~stopped', NEW a \in owed'
        PROVE  Counted(a)' \/ (Queued(a)' /\ ~worker'.cyclePending)
    <3>1. a \in owed /\ a \in Address /\ ~stopped
      BY <1>3, <2>2 DEF OwedInv
    <3>2. Counted(a) \/ (Queued(a) /\ ~worker.cyclePending)
      BY <3>1 DEF OwedInv
    <3> QED
      BY <1>1, <1>2, <1>3, <3>1, <3>2
  <2>3. (addressCycles' /\ ~stopped' => owed' = {}) /\ (ready' => owed' = {} /\ addressCycles') /\ owed' \subseteq Address
    BY <1>3, <2>1 DEF OwedInv
  <2> QED
    BY <2>2, <2>3 DEF OwedInv
<1> QED
  BY <1>4, <1>5

\* Every step keeps track of the initial statuses that the first cycle owes.
LEMMA OwedStep ==
  ASSUME WakeInv, TypeOK, CountInv, FirstInv, OwedInv, [Next]_vars PROVE OwedInv'
<1> USE GoroutineNames
<1> /\ worker \in WorkerState /\ ended \in Nat /\ GoroutinesTyped /\ QueueTyped
    /\ goroutine \in [Goroutine -> GoroutineRecord] /\ owed \subseteq Address
  BY DEF WakeInv, TypeOK, GoroutinesTyped, OwedInv
<1>1. ASSUME Outside PROVE OwedInv'
  <2>1. \A a \in Address : Counted(a) <=> Counted(a)'
    BY <1>1, CountedFrame DEF Outside
  <2>2. \A a : Queued(a) => Queued(a)'
    BY <1>1, QueuedFrame DEF Outside
  <2> QED
    BY <1>1, <2>1, <2>2, OwedFrame DEF Outside
<1>2. ASSUME HistoryAbandoned \/ Turns PROVE OwedInv'
  <2>1. UNCHANGED <<goroutine, backlog, owed, queue, readyVars>>
    BY <1>2 DEF HistoryAbandoned, Turns, queueVars
  <2>2. ~stopped /\ worker.pc = "drain" => worker'.pc = "drain"
    BY <1>2 DEF HistoryAbandoned, Turns, WorkerState
  <2>3. worker'.cyclePending = worker.cyclePending
    BY <1>2 DEF HistoryAbandoned, Turns, WorkerState
  <2>4. \A a \in Address : (Counted(a) <=> Counted(a)') /\ (Queued(a) <=> Queued(a)')
    BY <2>1, CountedFrame DEF Queued
  <2> QED
    BY <2>1, <2>2, <2>3, <2>4, OwedFrame DEF readyVars
<1>3. ASSUME TipInitial PROVE OwedInv'
  <2>1. /\ UNCHANGED <<goroutine, backlog, owed, queue, worker, addressCycles, stopped>>
        /\ ready' => ready \/ (~stopped /\ addressCycles)
    BY <1>3 DEF TipInitial, MarkReady, updateVars, queueVars
  <2>2. \A a \in Address : (Counted(a) <=> Counted(a)') /\ (Queued(a) <=> Queued(a)')
    BY <2>1, CountedFrame DEF Queued
  <2> QED
    BY <2>1, <2>2 DEF OwedInv
<1>4. ASSUME NEW g \in Cycle, Receives(g) PROVE OwedInv'
  <2>1. /\ UNCHANGED <<backlog, owed, queue, readyVars>>
        /\ worker'.pc = "drain" \/ (worker'.pc = worker.pc /\ worker'.cyclePending = worker.cyclePending)
        /\ \A a \in Address : goroutine'[UpdateOf(a)] = goroutine[UpdateOf(a)]
    BY <1>4 DEF Receives
  <2>2. \A a \in Address : (Counted(a) <=> Counted(a)') /\ (Queued(a) <=> Queued(a)')
    BY <2>1, CountedFrame DEF Queued
  <2> QED
    BY <2>1, <2>2, OwedFrame DEF readyVars
<1>5. ASSUME NEW g \in Goroutine, Advances(g)
      PROVE  /\ UNCHANGED <<worker, addressCycles, ready, stopped>>
             /\ \A a \in Address : Counted(a) <=> Counted(a)'
  <2>1. PICK r \in GoroutineRecord : goroutine' = [goroutine EXCEPT ![g] = r] /\ r.initial = goroutine[g].initial
    BY <1>5 DEF Advances
  <2>2. \A a \in Address : goroutine'[UpdateOf(a)].initial = goroutine[UpdateOf(a)].initial
    BY <2>1
  <2>3. UNCHANGED <<backlog, worker, addressCycles, ready, stopped>>
    BY <1>5 DEF Advances, Still, readyVars
  <2> QED
    BY <2>2, <2>3, CountedFrame
<1>6. ASSUME NEW g \in Goroutine, Works(g) PROVE OwedInv'
  <2>1. Advances(g) /\ UNCHANGED <<queue, owed>>
    BY <1>6 DEF Works
  <2>2. \A a : Queued(a) <=> Queued(a)'
    BY <2>1 DEF Queued
  <2> QED
    BY <1>5, <2>1, <2>2, OwedFrame
<1>7. ASSUME NEW g \in Goroutine, PushStatus(g), Advances(g) PROVE OwedInv'
  <2>1. PICK m \in goroutine[g].statuses :
          /\ IF stopped THEN UNCHANGED queueVars ELSE Push(Status(m[1], m[2], TRUE))
          /\ owed' = IF g = FirstCycle /\ goroutine[g].phase = "push" THEN owed \cup {m[1]} ELSE owed
    BY <1>7 DEF PushStatus
  <2> DEFINE e == Status(m[1], m[2], TRUE)
  <2>2. m[1] \in Address /\ e \in Envelope
    <3>1. m \in Address \X History
      BY DEF GoroutineRecord
    <3> QED
      BY <3>1 DEF Status, Envelope
  <2>3. e # Connected /\ e.address = m[1] /\ e.initial
    BY DEF Status, Connected
  <2>4. queue' = IF stopped THEN queue ELSE Append(queue, e)
    BY <2>1 DEF Push, queueVars
  <2> HIDE DEF e
  <2>5. \A a : Queued(a) => Queued(a)'
    BY <2>2, <2>4, QueuedFrame
  <2>6. CASE owed' = owed
    BY <1>5, <1>7, <2>5, <2>6, OwedFrame
  <2>7. CASE owed' # owed
    <3>1. g = FirstCycle /\ goroutine[g].phase = "push" /\ owed' = owed \cup {m[1]}
      BY <2>1, <2>7
    <3>2. ~worker.cyclePending /\ ~addressCycles /\ ~ready
      BY <3>1 DEF FirstInv
    <3>3. ~stopped => Queued(m[1])'
      <4> SUFFICES ASSUME ~stopped PROVE Queued(m[1])'
        OBVIOUS
      <4>1. Len(queue) \in Nat /\ Len(queue') = Len(queue) + 1 /\ queue'[Len(queue) + 1] = e
        BY <2>2, <2>4, AppendFacts DEF QueueTyped
      <4> QED
        BY <2>3, <4>1 DEF Queued
    <3>4. ASSUME ~stopped, NEW a \in owed' PROVE Counted(a)' \/ Queued(a)'
      BY <1>5, <1>7, <2>2, <2>5, <3>1, <3>3, <3>4 DEF OwedInv
    <3>5. UNCHANGED <<worker, addressCycles, ready, stopped>> /\ owed' \subseteq Address
      BY <1>5, <1>7, <2>2, <3>1
    <3> QED
      BY <3>2, <3>4, <3>5 DEF OwedInv
  <2> QED
    BY <2>6, <2>7
<1>8. ASSUME NEW g \in Goroutine, Ends(g) PROVE OwedInv'
  <2>1. /\ UNCHANGED <<backlog, queue, worker, readyVars>>
        /\ owed' = IF g \in Update /\ goroutine[g].initial THEN owed \ {g.n} ELSE owed
        /\ \A h \in Goroutine : h # g => goroutine'[h] = goroutine[h]
    BY <1>8 DEF Ends, Finish
  <2>2. ASSUME NEW a \in owed', Counted(a) PROVE Counted(a)'
    <3>1. a \in Address /\ UpdateOf(a) \in Goroutine
      BY <2>1
    <3>2. CASE UpdateOf(a) = g
      <4>1. ~goroutine[g].initial
        BY <2>1, <2>2, <3>1, <3>2
      <4> QED
        BY <2>1, <2>2, <3>2, <4>1 DEF Counted
    <3>3. CASE UpdateOf(a) # g
      BY <2>1, <2>2, <3>1, <3>3, CountedFrame
    <3> QED
      BY <3>2, <3>3
  <2>3. \A a : Queued(a) <=> Queued(a)'
    BY <2>1 DEF Queued
  <2>4. owed' \subseteq owed
    BY <2>1
  <2> QED
    BY <2>1, <2>2, <2>3, <2>4, OwedFrame DEF readyVars
<1>9. ASSUME NEW g \in Update, UpdateCompare(g) PROVE OwedInv'
  <2>1. /\ backlog[g.n] \in Seq(History \X BOOLEAN) /\ backlog[g.n] # <<>> /\ goroutine[g] = Idle
        /\ backlog' = [backlog EXCEPT ![g.n] = Tail(@)]
        /\ UNCHANGED <<queue, worker, readyVars>>
    BY <1>9, CompareEffect
  <2>2. /\ owed' \subseteq owed
        /\ \A h \in Goroutine : h # g => goroutine'[h] = goroutine[h]
        /\ Head(backlog[g.n])[2] => g.n \notin owed' \/ goroutine'[g].initial
    BY <1>9, CompareEffect
  <2>3. ASSUME NEW a \in owed', Counted(a) PROVE Counted(a)'
    <3>1. a \in Address /\ UpdateOf(a) \in Goroutine
      BY <2>2
    <3>2. CASE a = g.n
      <4>1. PICK i \in 1 .. Len(backlog[a]) : backlog[a][i][2]
        BY <2>1, <2>3, <3>2 DEF Counted
      <4>2. /\ Head(backlog[a]) = backlog[a][1] /\ Len(backlog[a]) \in Nat \ {0}
            /\ Len(Tail(backlog[a])) = Len(backlog[a]) - 1
            /\ \A j \in 1 .. Len(backlog[a]) - 1 : Tail(backlog[a])[j] = backlog[a][j + 1]
        BY <2>1, <3>2, TailFacts
      <4>3. backlog'[a] = Tail(backlog[a])
        BY <2>1, <3>1, <3>2 DEF QueueTyped
      <4>4. CASE i = 1
        BY <2>2, <2>3, <3>1, <3>2, <4>1, <4>2, <4>4 DEF Counted
      <4>5. CASE i # 1
        <5>1. i - 1 \in 1 .. Len(backlog'[a]) /\ backlog'[a][i - 1] = backlog[a][i]
          BY <4>2, <4>3, <4>5
        <5> QED
          BY <4>1, <5>1 DEF Counted
      <4> QED
        BY <4>4, <4>5
    <3>3. CASE a # g.n
      <4>1. backlog'[a] = backlog[a] /\ goroutine'[UpdateOf(a)] = goroutine[UpdateOf(a)]
        BY <2>1, <2>2, <3>1, <3>3 DEF QueueTyped
      <4> QED
        BY <2>3, <4>1 DEF Counted
    <3> QED
      BY <3>2, <3>3
  <2>4. \A a : Queued(a) <=> Queued(a)'
    BY <2>1 DEF Queued
  <2> QED
    BY <2>1, <2>2, <2>3, <2>4, OwedFrame DEF readyVars
<1>10. ASSUME WorkerHistoryDone PROVE OwedInv'
  <2> DEFINE w == [worker EXCEPT !.pendingHistories = IF @ > 0 THEN @ - 1 ELSE 0]
  <2>1. /\ w \in WorkerState /\ w.cyclePending = worker.cyclePending /\ w.pc = worker.pc
        /\ w.pendingHistories = IF worker.pendingHistories > 0 THEN worker.pendingHistories - 1 ELSE 0
    BY DEF WorkerState
  <2>2. FinishCycle(w) /\ ended > 0 /\ worker.pc = "select" /\ UNCHANGED <<backlog, owed, queue>>
    BY <1>10 DEF WorkerHistoryDone, queueVars
  <2> HIDE DEF w
  <2>3. worker'.pc = "select"
    BY <2>1, <2>2, FinishCyclePlace
  <2>4. ASSUME ~stopped, w.pendingHistories = 0, w.cyclePending PROVE owed = {}
    <3>1. Cardinality(Tickets) \in Nat /\ Cardinality(Running) \in Nat
      BY FS_CardinalityType DEF CountInv
    <3>2. Cardinality(Tickets) = 0 /\ Cardinality(Running) = 0
      <4>1. worker.pendingHistories = Cardinality(Tickets) + Cardinality(Running) + ended
        BY <2>4 DEF CountInv, PendingHistoriesExact
      <4>2. ended \in Nat /\ ended > 0 /\ worker.pendingHistories \in Nat
        BY <2>2 DEF TypeOK, WorkerState
      <4>3. worker.pendingHistories > 0 => worker.pendingHistories - 1 = 0
        BY <2>1, <2>4
      <4> QED
        BY <3>1, <4>1, <4>2, <4>3
    <3>3. \A a \in owed : Counted(a)
      BY <2>1, <2>2, <2>4 DEF OwedInv
    <3> QED
      BY <3>2, <3>3, NothingCounted
  <2>5. ~stopped => \A a \in owed : Queued(a) => Counted(a) \/ ~worker.cyclePending
    BY <2>2 DEF OwedInv
  <2> QED
    BY <2>1, <2>2, <2>3, <2>4, <2>5, FinishOwed
<1>11. ASSUME DrainEmpty PROVE OwedInv'
  <2> DEFINE w == [worker EXCEPT !.pc = "select"]
  <2>1. /\ w \in WorkerState /\ w.cyclePending = worker.cyclePending /\ w.pc = "select"
        /\ w.pendingHistories = worker.pendingHistories
    BY DEF WorkerState
  <2>2. FinishCycle(w) /\ (queue = <<>> \/ stopped) /\ UNCHANGED <<backlog, owed, queue>>
    BY <1>11 DEF DrainEmpty, queueVars
  <2> HIDE DEF w
  <2>3. worker'.pc = "select"
    BY <2>1, <2>2, FinishCyclePlace
  <2>4. ~stopped => \A a : ~Queued(a)
    BY <2>2 DEF Queued
  <2>5. ASSUME ~stopped, w.pendingHistories = 0, w.cyclePending PROVE owed = {}
    <3>1. Cardinality(Tickets) \in Nat /\ Cardinality(Running) \in Nat
      BY FS_CardinalityType DEF CountInv
    <3>2. Cardinality(Tickets) = 0 /\ Cardinality(Running) = 0
      BY <2>1, <2>5, <3>1 DEF CountInv, PendingHistoriesExact
    <3>3. \A a \in owed : Counted(a)
      BY <2>4, <2>5 DEF OwedInv
    <3> QED
      BY <3>2, <3>3, NothingCounted
  <2> QED
    BY <2>1, <2>2, <2>3, <2>4, <2>5, FinishOwed
<1>12. ASSUME DrainConnected PROVE OwedInv'
  <2>1. /\ queue # <<>> /\ Head(queue) = Connected /\ queue' = Tail(queue)
        /\ UNCHANGED <<backlog, owed, readyVars>> /\ worker.pc = "drain"
    BY <1>12 DEF DrainConnected
  <2>2. worker'.pc = "drain"
    BY <1>12 DEF DrainConnected, WorkerState
  <2>3. \A a \in Address : goroutine'[UpdateOf(a)] = goroutine[UpdateOf(a)]
    BY <1>12, StartCycleEffect DEF DrainConnected
  <2>4. \A a \in Address : Counted(a) <=> Counted(a)'
    BY <2>1, <2>3, CountedFrame
  <2>5. ASSUME NEW a, Queued(a) PROVE Queued(a)'
    <3>1. PICK i \in 1 .. Len(queue) : queue[i] # Connected /\ queue[i].address = a /\ queue[i].initial
      BY <2>5 DEF Queued
    <3>2. /\ Head(queue) = queue[1] /\ Len(queue) \in Nat \ {0} /\ Len(queue') = Len(queue) - 1
          /\ \A j \in 1 .. Len(queue) - 1 : queue'[j] = queue[j + 1]
      BY <2>1, TailFacts DEF QueueTyped
    <3>3. i - 1 \in 1 .. Len(queue') /\ queue'[i - 1] = queue[i]
      BY <2>1, <3>1, <3>2
    <3> QED
      BY <3>1, <3>3 DEF Queued
  <2> QED
    BY <2>1, <2>2, <2>4, <2>5, OwedFrame DEF readyVars
<1>13. ASSUME DrainStatus PROVE OwedInv'
  <2> DEFINE b == queue[1].address
             x == <<queue[1].status, queue[1].initial>>
  <2>1. /\ queue # <<>> /\ queue' = Tail(queue) /\ b \in Address /\ x \in History \X BOOLEAN
        /\ backlog' = [backlog EXCEPT ![b] = Append(@, x)]
        /\ worker'.pc = "drain" /\ UNCHANGED <<goroutine, readyVars, owed>>
    BY <1>13, DrainEffect
  <2>2. x[2] = queue[1].initial
    OBVIOUS
  <2>3. /\ Len(queue) \in Nat \ {0} /\ Len(queue') = Len(queue) - 1
        /\ \A j \in 1 .. Len(queue) - 1 : queue'[j] = queue[j + 1]
    BY <2>1, TailFacts DEF QueueTyped
  <2> HIDE DEF x
  <2>4. /\ Len(backlog[b]) \in Nat /\ Len(backlog'[b]) = Len(backlog[b]) + 1
        /\ \A i \in 1 .. Len(backlog[b]) : backlog'[b][i] = backlog[b][i]
        /\ backlog'[b][Len(backlog[b]) + 1] = x
    <3>1. backlog[b] \in Seq(History \X BOOLEAN) /\ backlog'[b] = Append(backlog[b], x)
      BY <2>1 DEF QueueTyped
    <3> QED
      BY <2>1, <3>1, AppendFacts
  <2>5. ASSUME NEW a \in Address, Counted(a) PROVE Counted(a)'
    <3>1. CASE goroutine[UpdateOf(a)].initial
      BY <2>1, <3>1 DEF Counted
    <3>2. ASSUME NEW i \in 1 .. Len(backlog[a]), backlog[a][i][2] PROVE Counted(a)'
      <4>1. CASE a = b
        <5>1. i \in 1 .. Len(backlog'[a]) /\ backlog'[a][i] = backlog[a][i]
          BY <2>4, <4>1
        <5> QED
          BY <3>2, <5>1 DEF Counted
      <4>2. CASE a # b
        <5>1. backlog'[a] = backlog[a]
          BY <2>1, <4>2 DEF QueueTyped
        <5> QED
          BY <3>2, <5>1 DEF Counted
      <4> QED
        BY <4>1, <4>2
    <3> QED
      BY <2>5, <3>1, <3>2 DEF Counted
  <2>6. ASSUME NEW a \in Address, Queued(a) PROVE Queued(a)' \/ Counted(a)'
    <3>1. PICK i \in 1 .. Len(queue) : queue[i] # Connected /\ queue[i].address = a /\ queue[i].initial
      BY <2>6 DEF Queued
    <3>2. CASE i = 1
      <4>1. a = b /\ x[2]
        BY <2>2, <3>1, <3>2
      <4>2. Len(backlog[b]) + 1 \in 1 .. Len(backlog'[b])
        BY <2>4
      <4> QED
        BY <2>4, <4>1, <4>2 DEF Counted
    <3>3. CASE i # 1
      <4>1. i - 1 \in 1 .. Len(queue') /\ queue'[i - 1] = queue[i]
        BY <2>3, <3>3
      <4> QED
        BY <3>1, <4>1 DEF Queued
    <3> QED
      BY <3>2, <3>3
  <2> QED
    BY <2>1, <2>5, <2>6, OwedFrame DEF readyVars
<1> QED
  BY <1>1, <1>2, <1>3, <1>4, <1>6, <1>7, <1>8, <1>9, <1>10, <1>11, <1>12, <1>13, StepKinds

\* Counts, cycles and what the first cycle owes fit together in every state, for any
\* number of addresses, connections and changes.
THEOREM ReadyInvariance == Spec => []ReadyInv
<1>1. Init => ReadyInv /\ WakeInv
  <2> SUFFICES ASSUME Init PROVE ReadyInv /\ WakeInv
    OBVIOUS
  <2> USE DEF Init
  <2>1. TypeOK
    <3>1. goroutine \in [Goroutine -> GoroutineRecord]
      BY GoroutineNames
    <3>2. known \in 0 .. MaxAddress
      BY BoundsAssumption
    <3> QED
      BY <3>1, <3>2 DEF TypeOK, WorldTyped, QueueTyped, GoroutinesTyped
  <2>2. Tickets = {}
    BY TicketFacts
  <2>3. Running = {}
    BY DEF Running, Goroutine
  <2>4. CountInv
    BY <2>2, <2>3, FS_EmptySet DEF CountInv, PendingHistoriesExact
  <2>5. FirstInv
    BY GoroutineNames DEF FirstInv, Goroutine
  <2>6. OwedInv
    BY DEF OwedInv
  <2>7. WakeInv
    BY DEF WakeInv, WorkerState
  <2> QED
    BY <2>1, <2>4, <2>5, <2>6, <2>7 DEF ReadyInv
<1>2. ReadyInv /\ WakeInv /\ [Next]_vars => ReadyInv' /\ WakeInv'
  BY WakeStep, WorldStep, QueueStep, GoroutineStepTyped, CountStep, FirstStep, OwedStep DEF ReadyInv, TypeOK
<1> QED
  BY <1>1, <1>2, PTL DEF Spec

\* The wallet is not ready before the histories of the first cycle are in, and the count
\* that says so is exact (finishCycle, startHistoryUpdate, maybeMarkReadyLocked).
THEOREM ReadinessSoundHolds == Spec => []ReadinessSound
<1>1. ReadyInv => ReadinessSound
  BY DEF ReadyInv, CountInv, OwedInv, ReadinessSound, ReadyAfterInitialHistories
<1> QED
  BY <1>1, ReadyInvariance, PTL
=============================================================================
