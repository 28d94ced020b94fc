----------------------------- MODULE AddressSync -----------------------------
(***************************************************************************)
(* Address synchronisation of a ledger with its SPV server                 *)
(* (src/wallet/address_sync.go, readiness in src/wallet/spv_sync.go).      *)
(*                                                                         *)
(* The worker (runSPVAddressWorker) serves an unbounded queue of           *)
(* envelopes.  A "connected" envelope starts a cycle, a goroutine that     *)
(* subscribes every address; a status envelope starts a history update,    *)
(* a goroutine that compares, fetches, saves and then extends the address  *)
(* gap, which subscribes the new addresses and so feeds the queue again.   *)
(* Updates of one address run in ticket order.  The first cycle recorded   *)
(* makes the wallet ready.                                                 *)
(*                                                                         *)
(* One account with one address chain; a history is the set of its         *)
(* transactions and stands for its own status hash.                        *)
(***************************************************************************)
EXTENDS Naturals, Sequences, FiniteSets

CONSTANTS
    MaxAddress,     \* addresses of the chain are 1 .. MaxAddress (bounds the derivation)
    Gap,            \* AddressManager.Gap
    Tx,             \* transactions that may appear in histories
    MaxEvents       \* bound on connections made, histories changed on the server and the stop, together

\* There is an address to generate and a gap to keep.
ASSUME BoundsAssumption ==
    /\ MaxAddress \in Nat \ {0} /\ Gap \in 1 .. MaxAddress
    /\ MaxEvents \in Nat \ {0}

Address == 1 .. MaxAddress
History == SUBSET Tx
Cycle == [kind : {"cycle"}, n : 1 .. MaxEvents]
Update == [kind : {"update"}, n : Address]
Goroutine == Cycle \cup Update
FirstCycle == [kind |-> "cycle", n |-> 1]
Nobody == [kind |-> "nobody", n |-> 0]

VARIABLES
    connected,      \* the network has a connected client
    connects,       \* number of connections made
    changes,        \* number of changes of remote
    subscribed,     \* addresses this connection's server notifies about
    wire,           \* notifications sent by the server and not yet delivered
    remote,         \* histories on the server
    known,          \* addresses 1 .. known are in the database
    local,          \* histories in the database
    queue,          \* spvAddressQueue.values from head on
    wake,           \* a token is in spvAddressQueue.wake
    waking,         \* Push calls between their unlock and their send on wake
    worker,         \* local variables of runSPVAddressWorker and where it stands
    goroutine,      \* cycles and, per address, the history update whose ticket runs
    backlog,        \* per address, the updates waiting for their ticket
    ended,          \* update goroutines blocked on historyDone
    addressGeneratorMu, \* holder of AddressManager.addressGeneratorMu
    tip,            \* initialTipDone and tipErr of the ledger
    addressCycles,  \* spvSync.addressCycles > 0
    ready,          \* spvSync.ready
    stopped,        \* StopSPVCheckpointSync has ended the context of worker and goroutines
    faulted,        \* history: addresses whose subscription or update failed since the last connection
    owed            \* history: addresses of the first cycle whose initial status is not yet handled

networkVars == <<connected, connects, changes, subscribed, wire, remote>>
databaseVars == <<known, local>>
queueVars == <<queue, wake, waking>>
updateVars == <<goroutine, backlog, ended, addressGeneratorMu>>
readyVars == <<tip, addressCycles, ready, stopped>>
vars == <<networkVars, databaseVars, queueVars, worker, updateVars, readyVars, faulted, owed>>

\* Envelopes of the queue; initial marks the statuses subscribeAddresses pushes.
Connected == [kind |-> "connected"]
Status(a, s, initial) == [kind |-> "status", address |-> a, status |-> s, initial |-> initial]

\* A goroutine that does not exist.  history is what an update fetched,
\* addresses and statuses are those of the subscription under way.
Idle == [phase |-> "idle", history |-> {}, addresses |-> {}, statuses |-> {}, initial |-> FALSE]

\* The local variables of runSPVAddressWorker; pc is the initial wait, the
\* select, drainUpdates or the deferred calls of its return.
WorkerState == [pc : {"tip", "select", "drain", "exit", "done"}, cycleRunning : BOOLEAN, cyclePending : BOOLEAN,
                pendingConnection : BOOLEAN, pendingHistories : Nat]

Init ==
    /\ connected = FALSE /\ connects = 0 /\ changes = 0 /\ subscribed = {} /\ wire = {}
    /\ remote \in [Address -> History]
    /\ known = Gap /\ local = [a \in Address |-> {}]
    /\ queue = <<>> /\ wake = FALSE /\ waking = 0
    /\ worker = [pc |-> "tip", cycleRunning |-> FALSE, cyclePending |-> FALSE,
                 pendingConnection |-> FALSE, pendingHistories |-> 0]
    /\ goroutine = [g \in Goroutine |-> Idle]
    /\ backlog = [a \in Address |-> <<>>] /\ ended = 0
    /\ addressGeneratorMu = Nobody
    /\ tip = [done |-> FALSE, err |-> FALSE]
    /\ addressCycles = FALSE /\ ready = FALSE
    /\ stopped = FALSE
    /\ faulted = {} /\ owed = {}

(***************************************************************************)
(* The queue                                                               *)
(***************************************************************************)

\* Mutant: the queue's emptiness is tested after the append.
PushTestsLate(e) ==
    /\ queue' = Append(queue, e)
    /\ waking' = IF queue' = <<>> THEN waking + 1 ELSE waking
    /\ UNCHANGED wake

\* Push: append under the queue's lock; a push to an empty queue goes on to Wake.
Push(e) ==
    /\ queue' = Append(queue, e)
    /\ waking' = IF queue = <<>> THEN waking + 1 ELSE waking
    /\ UNCHANGED wake

\* Push, second half: the non-blocking send on the one-slot channel.
Wake ==
    /\ waking > 0
    /\ waking' = waking - 1 /\ wake' = TRUE
    /\ UNCHANGED <<networkVars, databaseVars, queue, worker, updateVars, readyVars, faulted, owed>>

(***************************************************************************)
(* The network and the server                                              *)
(***************************************************************************)

\* A connection is made; the connected handler enqueues an envelope.
Connect ==
    /\ ~connected /\ ~stopped /\ connects + changes < MaxEvents
    /\ connected' = TRUE /\ connects' = connects + 1
    /\ Push(Connected)
    /\ faulted' = {}
    /\ UNCHANGED <<changes, subscribed, wire, remote, databaseVars, worker, updateVars, readyVars, owed>>

\* The connection is lost with its subscriptions and undelivered notifications.
Disconnect ==
    /\ connected
    /\ connected' = FALSE /\ subscribed' = {} /\ wire' = {}
    /\ UNCHANGED <<connects, changes, remote, databaseVars, queueVars, worker, updateVars, readyVars,
                   faulted, owed>>

\* The history of a changes on the server (a transaction, or a reorganisation that
\* drops one); a subscriber is notified.
RemoteChange(a, h) ==
    /\ ~stopped /\ connects + changes < MaxEvents /\ h # remote[a]
    /\ changes' = changes + 1
    /\ remote' = [remote EXCEPT ![a] = h]
    /\ wire' = IF a \in subscribed THEN wire \cup {<<a, h>>} ELSE wire
    /\ UNCHANGED <<connected, connects, subscribed, databaseVars, queueVars, worker, updateVars,
                   readyVars, faulted, owed>>

\* enqueueSPVAddress: a notification arrives, possibly overtaking a subscription's answer.
Deliver(a, h) ==
    /\ <<a, h>> \in wire
    /\ wire' = wire \ {<<a, h>>}
    /\ Push(Status(a, h, FALSE))
    /\ UNCHANGED <<connected, connects, changes, subscribed, remote, databaseVars, worker, updateVars,
                   readyVars, faulted, owed>>

(***************************************************************************)
(* Readiness                                                               *)
(***************************************************************************)

\* maybeMarkReadyLocked, with tip and addressCycles as the caller leaves them.
MarkReady(t, cycles) == ready \/ (~stopped /\ t.done /\ ~t.err /\ cycles)

\* runSPVTipWorker: the initial pull ends, well or not.
TipInitial ==
    /\ ~tip.done
    /\ \E err \in BOOLEAN : tip' = [done |-> TRUE, err |-> err]
    /\ ready' = MarkReady(tip', addressCycles)
    /\ UNCHANGED <<networkVars, databaseVars, queueVars, worker, updateVars, addressCycles, stopped, faulted, owed>>

\* runSPVTipWorker: a later header replaces tipErr and does not look at readiness.
TipUpdate ==
    /\ tip.done /\ ~stopped
    /\ tip' = [tip EXCEPT !.err = ~@]
    /\ UNCHANGED <<networkVars, databaseVars, queueVars, worker, updateVars, addressCycles, ready,
                   stopped, faulted, owed>>

(***************************************************************************)
(* The worker                                                              *)
(***************************************************************************)

\* startCycle: the goroutine of the next cycle.  There are not more cycles than connections.
StartCycle ==
    \E g \in Cycle :
        /\ goroutine[g] = Idle /\ \A h \in Cycle : h.n < g.n => goroutine[h] # Idle
        /\ goroutine' = [goroutine EXCEPT ![g] = [Idle EXCEPT !.phase = "list"]]

\* finishCycle with the locals w: record the cycle once no history is pending, then
\* serve the connection that came meanwhile.
FinishCycle(w) ==
    LET finished == w.cyclePending /\ w.pendingHistories = 0
        again == finished /\ w.pendingConnection IN
    /\ worker' = [w EXCEPT !.cyclePending = @ /\ ~finished,
                           !.pendingConnection = @ /\ ~again, !.cycleRunning = @ \/ again]
    /\ addressCycles' = (addressCycles \/ finished)
    /\ ready' = IF finished THEN MarkReady(tip, TRUE) ELSE ready
    /\ IF again THEN StartCycle ELSE UNCHANGED goroutine
    /\ UNCHANGED <<tip, stopped>>

\* The worker waits for the initial tip before it looks at the queue.
WorkerStart ==
    /\ worker.pc = "tip" /\ tip.done
    /\ worker' = [worker EXCEPT !.pc = "select"]
    /\ UNCHANGED <<networkVars, databaseVars, queueVars, updateVars, readyVars, faulted, owed>>

\* case <-updates.wake.
WorkerWake ==
    /\ worker.pc = "select" /\ wake
    /\ wake' = FALSE
    /\ worker' = [worker EXCEPT !.pc = "drain"]
    /\ UNCHANGED <<networkVars, databaseVars, queue, waking, updateVars, readyVars, faulted, owed>>

\* case err := <-cycleResults: remember it and drain.
WorkerResult(g) ==
    /\ worker.pc = "select" /\ goroutine[g].phase = "sent"
    /\ goroutine' = [goroutine EXCEPT ![g].phase = "done"]
    /\ worker' = [worker EXCEPT !.cycleRunning = FALSE, !.cyclePending = TRUE, !.pc = "drain"]
    /\ UNCHANGED <<networkVars, databaseVars, queueVars, backlog, ended, addressGeneratorMu, readyVars,
                   faulted, owed>>

\* case <-historyDone: the queue is not drained here.
WorkerHistoryDone ==
    /\ worker.pc = "select" /\ ended > 0
    /\ ended' = ended - 1
    /\ FinishCycle([worker EXCEPT !.pendingHistories = IF @ > 0 THEN @ - 1 ELSE 0])
    /\ UNCHANGED <<networkVars, databaseVars, queueVars, backlog, addressGeneratorMu, faulted, owed>>

\* drainUpdates pops a connected envelope: start a cycle, or remember to.
DrainConnected ==
    /\ worker.pc = "drain" /\ ~stopped /\ queue # <<>> /\ Head(queue) = Connected
    /\ queue' = Tail(queue)
    /\ worker' = [worker EXCEPT !.pendingConnection = @ \/ worker.cycleRunning, !.cycleRunning = TRUE]
    /\ IF worker.cycleRunning THEN UNCHANGED goroutine ELSE StartCycle
    /\ UNCHANGED <<networkVars, databaseVars, wake, waking, backlog, ended, addressGeneratorMu, readyVars,
                   faulted, owed>>

\* Mutant: the update is started and not counted.
DrainStatusUncounted ==
    /\ worker.pc = "drain" /\ ~stopped /\ queue # <<>> /\ Head(queue) # Connected
    /\ queue' = Tail(queue)
    /\ LET e == Head(queue) IN
       backlog' = [backlog EXCEPT ![e.address] = Append(@, <<e.status, e.initial>>)]
    /\ UNCHANGED <<networkVars, databaseVars, wake, waking, worker, goroutine, ended, addressGeneratorMu,
                   readyVars, faulted, owed>>

\* drainUpdates pops a status: startHistoryUpdate issues the next ticket of the address.
DrainStatus ==
    /\ worker.pc = "drain" /\ ~stopped /\ queue # <<>> /\ Head(queue) # Connected
    /\ queue' = Tail(queue)
    /\ LET e == Head(queue) IN
       backlog' = [backlog EXCEPT ![e.address] = Append(@, <<e.status, e.initial>>)]
    /\ worker' = [worker EXCEPT !.pendingHistories = @ + 1]
    /\ UNCHANGED <<networkVars, databaseVars, wake, waking, goroutine, ended, addressGeneratorMu, readyVars,
                   faulted, owed>>

\* drainUpdates finds the queue empty or the context ended; finishCycle follows.
DrainEmpty ==
    /\ worker.pc = "drain" /\ (queue = <<>> \/ stopped)
    /\ FinishCycle([worker EXCEPT !.pc = "select"])
    /\ UNCHANGED <<networkVars, databaseVars, queueVars, backlog, ended, addressGeneratorMu, faulted, owed>>

(***************************************************************************)
(* Stop                                                                    *)
(***************************************************************************)

\* StopSPVCheckpointSync ends the context and stops the network.
Stop ==
    /\ connects + changes < MaxEvents
    /\ ~stopped /\ stopped' = TRUE
    /\ connected' = FALSE /\ subscribed' = {} /\ wire' = {}
    /\ UNCHANGED <<connects, changes, remote, databaseVars, queueVars, worker, updateVars, tip,
                   addressCycles, ready, faulted, owed>>

\* case <-ctx.Done(), in the initial wait or in the select.
WorkerExit ==
    /\ stopped /\ worker.pc \in {"tip", "select"}
    /\ worker' = [worker EXCEPT !.pc = "exit"]
    /\ UNCHANGED <<networkVars, databaseVars, queueVars, updateVars, readyVars, faulted, owed>>

\* The deferred function receives the result of a running cycle ...
ExitResult(g) ==
    /\ worker.pc = "exit" /\ worker.cycleRunning /\ goroutine[g].phase = "sent"
    /\ goroutine' = [goroutine EXCEPT ![g].phase = "done"]
    /\ worker' = [worker EXCEPT !.cycleRunning = FALSE]
    /\ UNCHANGED <<networkVars, databaseVars, queueVars, backlog, ended, addressGeneratorMu, readyVars,
                   faulted, owed>>

\* ... and waits for the history updates, whose historyUpdates.Done comes before their
\* send on historyDone.
ExitDone ==
    /\ worker.pc = "exit" /\ ~worker.cycleRunning
    /\ \A a \in Address : backlog[a] = <<>> /\ goroutine[[kind |-> "update", n |-> a]] = Idle
    /\ worker' = [worker EXCEPT !.pc = "done"]
    /\ UNCHANGED <<networkVars, databaseVars, queueVars, updateVars, readyVars, faulted, owed>>

\* An update that nobody receives historyDone from returns on ctx.Done().
HistoryAbandoned ==
    /\ stopped /\ ended > 0
    /\ ended' = ended - 1
    /\ UNCHANGED <<networkVars, databaseVars, queueVars, worker, goroutine, backlog, addressGeneratorMu,
                   readyVars, faulted, owed>>

(***************************************************************************)
(* Cycles and history updates                                              *)
(***************************************************************************)

\* g returns: a cycle sends its result, an update ends its ticket and then blocks
\* on historyDone.
Finish(g) ==
    /\ goroutine' = [goroutine EXCEPT ![g] = IF g \in Cycle THEN [Idle EXCEPT !.phase = "sent"] ELSE Idle]
    /\ ended' = IF g \in Update THEN ended + 1 ELSE ended
    /\ addressGeneratorMu' = IF addressGeneratorMu = g THEN Nobody ELSE addressGeneratorMu
    /\ owed' = IF g \in Update /\ goroutine[g].initial THEN owed \ {g.n} ELSE owed

\* syncSPVAccounts: nothing without a connection, else every address is subscribed.
CycleList(g) ==
    /\ goroutine[g].phase = "list"
    /\ IF connected
       THEN /\ goroutine' = [goroutine EXCEPT ![g] = [@ EXCEPT !.phase = "subscribe",
                                                               !.addresses = 1 .. known]]
            /\ UNCHANGED <<ended, addressGeneratorMu, owed>>
       ELSE Finish(g)
    /\ UNCHANGED <<networkVars, databaseVars, queueVars, worker, backlog, readyVars, faulted>>

\* subscribeAddresses: the server subscribes the batch and answers with its statuses.
Subscribe(g) ==
    /\ goroutine[g].phase \in {"subscribe", "announce"} /\ connected
    /\ subscribed' = subscribed \cup goroutine[g].addresses
    /\ goroutine' = [goroutine EXCEPT ![g] =
                       [@ EXCEPT !.phase = IF goroutine[g].phase = "subscribe" THEN "push" ELSE "pushNew",
                                 !.statuses = {<<a, remote[a]>> : a \in goroutine[g].addresses}]]
    /\ UNCHANGED <<connected, connects, changes, wire, remote, databaseVars, queueVars, worker,
                   backlog, ended, addressGeneratorMu, readyVars, faulted, owed>>

\* subscribeAddresses without a connection does nothing and reports no error.
SubscribeSkipped(g) ==
    /\ goroutine[g].phase \in {"subscribe", "announce"} /\ ~connected
    /\ IF goroutine[g].phase = "subscribe"
       THEN /\ goroutine' = [goroutine EXCEPT ![g].phase = "gap"]
            /\ UNCHANGED <<ended, addressGeneratorMu, owed>>
       ELSE Finish(g)
    /\ UNCHANGED <<networkVars, databaseVars, queueVars, worker, backlog, readyVars, faulted>>

\* subscribeAddresses enqueues the answers in the order of the batch;
\* enqueueSPVAddressEnvelope drops them once the ledger is stopped.
PushStatus(g) ==
    LET r == goroutine[g] IN
    /\ r.phase \in {"push", "pushNew"}
    /\ \E m \in r.statuses :
        /\ \A o \in r.statuses : m[1] <= o[1]
        /\ IF stopped THEN UNCHANGED queueVars ELSE Push(Status(m[1], m[2], TRUE))
        /\ goroutine' = [goroutine EXCEPT ![g].statuses = @ \ {m}]
        /\ owed' = IF g = FirstCycle /\ r.phase = "push" THEN owed \cup {m[1]} ELSE owed
    /\ UNCHANGED <<networkVars, databaseVars, worker, backlog, ended, addressGeneratorMu, readyVars, faulted>>

\* The batch is enqueued: a cycle goes on to the gap, a gap's announcement is complete.
PushedAll(g) ==
    LET r == goroutine[g] IN
    /\ r.phase \in {"push", "pushNew"} /\ r.statuses = {}
    /\ IF r.phase = "push"
       THEN /\ goroutine' = [goroutine EXCEPT ![g].phase = "gap"]
            /\ UNCHANGED <<ended, addressGeneratorMu, owed>>
       ELSE Finish(g)
    /\ UNCHANGED <<networkVars, databaseVars, queueVars, worker, backlog, readyVars, faulted>>

\* Unused addresses at the end of the chain, at most Gap.
ExistingGap ==
    Cardinality({a \in 1 .. known : a > known - Gap /\ \A b \in a .. known : local[b] = {}})

\* Mutant: the generated addresses are inserted and not announced.
EnsureAddressGapSilent(g) ==
    LET new == {a \in Address : known < a /\ a <= known + (Gap - ExistingGap)} IN
    /\ goroutine[g].phase = "gap" /\ addressGeneratorMu = Nobody
    /\ known' = known + Cardinality(new)
    /\ Finish(g)
    /\ UNCHANGED <<networkVars, local, queueVars, worker, backlog, readyVars, faulted>>

\* EnsureAddressGap: under addressGeneratorMu, insert the missing addresses and
\* announce them; MaxAddress cuts the chain.
EnsureAddressGap(g) ==
    LET new == {a \in Address : known < a /\ a <= known + (Gap - ExistingGap)} IN
    /\ goroutine[g].phase = "gap" /\ addressGeneratorMu = Nobody
    /\ IF new = {}
       THEN Finish(g) /\ UNCHANGED known
       ELSE /\ known' = known + Cardinality(new)
            /\ addressGeneratorMu' = g
            /\ goroutine' = [goroutine EXCEPT ![g] = [@ EXCEPT !.phase = "announce", !.addresses = new]]
            /\ UNCHANGED <<ended, owed>>
    /\ UNCHANGED <<networkVars, local, queueVars, worker, backlog, readyVars, faulted>>

\* addressUpdateSequence: the updates of an address run one at a time, in the order
\* of their tickets.
TicketRuns(g) == goroutine[g] = Idle /\ backlog[g.n] # <<>>

\* updateSPVAddressHistory, once its ticket runs: nothing to do if the database
\* already has the status.
UpdateCompare(g) ==
    LET a == g.n
        status == Head(backlog[a])[1]
        initial == Head(backlog[a])[2] IN
    /\ TicketRuns(g)
    /\ backlog' = [backlog EXCEPT ![a] = Tail(@)]
    /\ IF status = local[a]
       THEN /\ ended' = ended + 1
            /\ owed' = IF initial THEN owed \ {a} ELSE owed
            /\ UNCHANGED goroutine
       ELSE /\ goroutine' = [goroutine EXCEPT ![g] = [Idle EXCEPT !.phase = "fetch", !.initial = initial]]
            /\ UNCHANGED <<ended, owed>>
    /\ UNCHANGED <<networkVars, databaseVars, queueVars, worker, addressGeneratorMu, readyVars, faulted>>

\* The history is fetched, with retries until there is a connection; one that only
\* lacks entries the database has is ignored.
UpdateFetch(g) ==
    /\ goroutine[g].phase = "fetch" /\ connected
    /\ IF remote[g.n] \subseteq local[g.n]
       THEN Finish(g)
       ELSE /\ goroutine' = [goroutine EXCEPT ![g] = [@ EXCEPT !.phase = "save", !.history = remote[g.n]]]
            /\ UNCHANGED <<ended, addressGeneratorMu, owed>>
    /\ UNCHANGED <<networkVars, databaseVars, queueVars, worker, backlog, readyVars, faulted>>

\* The transactions are fetched and saved in batches, then SetAddressHistory.
UpdateSave(g) ==
    /\ goroutine[g].phase = "save"
    /\ local' = [local EXCEPT ![g.n] = goroutine[g].history]
    /\ goroutine' = [goroutine EXCEPT ![g] = [@ EXCEPT !.phase = "gap", !.history = {}]]
    /\ UNCHANGED <<networkVars, known, queueVars, worker, backlog, ended, addressGeneratorMu, readyVars,
                   faulted, owed>>

\* A request or a database call of g fails: the goroutine gives up, nobody retries.
Fail(g) ==
    /\ goroutine[g].phase \in {"list", "subscribe", "announce", "fetch", "save", "gap"}
    /\ faulted' = faulted \cup goroutine[g].addresses
                          \cup (IF g \in Cycle THEN 1 .. known ELSE {g.n})
    /\ Finish(g)
    /\ UNCHANGED <<networkVars, databaseVars, queueVars, worker, backlog, readyVars>>

(***************************************************************************)
(* Specification                                                           *)
(***************************************************************************)

GoroutineAdvance(g) ==
    \/ CycleList(g) \/ Subscribe(g) \/ SubscribeSkipped(g) \/ PushStatus(g) \/ PushedAll(g)
    \/ EnsureAddressGap(g)
    \/ g \in Update /\ (UpdateCompare(g) \/ UpdateFetch(g) \/ UpdateSave(g))

GoroutineStep(g) == GoroutineAdvance(g) \/ Fail(g)

WorkerStep ==
    \/ WorkerStart \/ WorkerWake \/ WorkerHistoryDone
    \/ \E g \in Cycle : WorkerResult(g)
    \/ DrainConnected \/ DrainStatus \/ DrainEmpty
    \/ WorkerExit \/ ExitDone \/ \E g \in Cycle : ExitResult(g)

Next ==
    \/ Connect \/ Disconnect \/ Stop \/ Wake \/ TipInitial \/ TipUpdate \/ WorkerStep
    \/ HistoryAbandoned
    \/ \E a \in Address, h \in History : RemoteChange(a, h) \/ Deliver(a, h)
    \/ \E g \in Goroutine : GoroutineStep(g)

Spec == Init /\ [][Next]_vars

(***************************************************************************)
(* Properties                                                              *)
(***************************************************************************)

\* The one-slot wake channel loses no wake-up: a worker in its select with a queue
\* that is not empty has a token, or a Push is about to send one, until it is stopped.
NoLostWakeup == worker.pc = "select" /\ ~stopped /\ queue # <<>> => wake \/ waking > 0

\* Readiness comes after the histories of the addresses the first cycle subscribed
\* (TestWalletReadinessWaitsForInitialAddressHistories), whatever connections,
\* notifications and gap extensions happen meanwhile.
ReadyAfterInitialHistories == ready => owed = {}

\* The updates that wait for their ticket, and those that run.
Tickets == UNION {{a} \X (1 .. Len(backlog[a])) : a \in Address}
Running == {g \in Update : goroutine[g] # Idle}

\* The worker's count of pending histories is exact: the updates waiting for their
\* ticket, running, or blocked on historyDone, until it is stopped.  A drift would make finishCycle fire
\* early or never.
PendingHistoriesExact ==
    ~stopped => worker.pendingHistories = Cardinality(Tickets) + Cardinality(Running) + ended

\* Readiness is declared on an exact count: the count of pending histories never drifts,
\* and the wallet is not ready before the first cycle's histories are in.
ReadinessSound == ReadyAfterInitialHistories /\ PendingHistoriesExact

\* Nothing of the program can move: no worker or goroutine has a step left, not even a
\* request that fails because the context has ended, and no notification or wake-up is
\* under way.
AtRest ==
    ~ENABLED (\/ Wake \/ TipInitial \/ WorkerStep \/ HistoryAbandoned
              \/ \E a \in Address, h \in History : Deliver(a, h)
              \/ \E g \in Goroutine : GoroutineAdvance(g) \/ (stopped /\ Fail(g)))

\* Whenever a connected program comes to rest, every address that did not fault is
\* subscribed and the database has all its transactions: no status is missed between
\* notification, subscription answer, reconnection and address generation, and no
\* ticket, mutex or channel leaves a goroutine waiting.  A program that was stopped comes
\* to rest only when its worker has returned, as StopSPVCheckpointSync waits for, and no
\* history update is left behind.
RestIsSynced ==
    AtRest =>
        /\ connected => \A a \in (1 .. known) \ faulted : a \in subscribed /\ remote[a] \subseteq local[a]
        /\ stopped => /\ worker.pc = "done" /\ ended = 0
                      /\ \A g \in Update : goroutine[g] = Idle
=============================================================================
