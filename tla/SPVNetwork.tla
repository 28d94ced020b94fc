------------------------------ MODULE SPVNetwork ------------------------------
(***************************************************************************)
(* The wallet's connection to its SPV server: the reconnect loop and the   *)
(* calls of src/wallet/spv/network.go over the JSON-RPC sessions of        *)
(* src/wallet/spv/client.go, with the tip worker of                        *)
(* src/wallet/spv_sync.go, which consumes header notifications and calls   *)
(* the server through the same session.                                    *)
(*                                                                         *)
(* A section under Network.mu or Client.mu is one step.  Payloads are left *)
(* out: a request is its id, and header notifications are not told apart,  *)
(* so that any of them may repeat the last.  Times are left out: a timer   *)
(* may fire whenever it runs.                                              *)
(***************************************************************************)
EXTENDS Naturals, Sequences, FiniteSets

CONSTANTS
    Caller,         \* goroutines that call the server, the tip worker among them
    Tip,            \* the tip worker
    Session,        \* clients; one that nobody refers to any more is used again
    None,
    Concurrency,    \* ClientConfig.Concurrency: request slots, and room for notifications
    TipCapacity,    \* room of tipUpdates (64 in the code)
    WireCapacity,   \* bound on the messages a connection holds
    MaxRequests,    \* bound on the requests of a caller that are under way at once
    Budgets         \* what may happen in a behaviour: blocks, calls, faults, starts and stops

ASSUME BoundsAssumption ==
    /\ Tip \in Caller /\ None \notin Session
    /\ Concurrency \in Nat \ {0} /\ TipCapacity \in Nat \ {0} /\ WireCapacity \in Nat \ {0} /\ MaxRequests \in Nat \ {0}
    /\ Budgets \subseteq [blocks : Nat, calls : [Caller -> Nat], faults : Nat, starts : Nat, stops : Nat]

VARIABLES
    running,        \* Network.running
    client,         \* Network.client
    connecting,     \* Network.connecting
    wake,           \* a token is in Network.wake
    done,           \* Network.done: no run yet, open or closed
    cancelled,      \* the context of run has ended
    loop,           \* where run stands, its session and the flag for an immediate reconnection
    keepalive,      \* the session's keepalive goroutine failed
    stopper,          \* a goroutine in Stop and the clients it closes
    open,           \* sessions whose done channel is open
    fatal,          \* closed sessions whose error is not a connection error
    wire,           \* per session, messages of the server not read yet
    requests,       \* per session, requests the server has not answered
    reading,        \* sessions whose readLoop is blocked with a notification
    notifications,  \* per session, the length of Client.notifications
    handling,       \* sessions whose handler is about to enqueue a notification
    orphans,        \* number of such handlers of clients that are used again
    tipUpdates,     \* the length of the tip worker's channel
    call,           \* per caller, its call
    left            \* what is left of the budget

networkVars == <<running, client, connecting, wake, done, cancelled>>
loopVars == <<loop, keepalive>>
sessionVars == <<open, fatal, wire, requests, reading, notifications, handling, orphans>>
vars == <<networkVars, loopVars, stopper, sessionVars, tipUpdates, call, left>>

Request == Caller \X (1 .. MaxRequests)
\* What the server sends: a header notification, or an answer with the id of the request
\* and the request it really answers.
Note == [kind |-> "note"]
Answer(id, of) == [kind |-> "answer", id |-> id, of |-> of]

\* The public calls.  All but "retry" use the published client and do not try again.
Kind == {"retry", "oneshot", "subscribe", "broadcast"}
\* at: the client of the call; n: the number of its request; answer: what its response
\* channel holds; changed: the stateChanged channel it read has been closed.
NoCall == [pc |-> "idle", kind |-> "retry", at |-> None, n |-> 0, answer |-> None,
           changed |-> FALSE]

\* A network that was not started.
Init ==
    /\ running = FALSE /\ client = None /\ connecting = None
    /\ wake = FALSE /\ done = "none" /\ cancelled = FALSE
    /\ loop = [pc |-> "off", at |-> None, urgent |-> FALSE] /\ keepalive = FALSE
    /\ stopper = [pc |-> "off", closing |-> {}]
    /\ open = {} /\ fatal = {}
    /\ wire = [s \in Session |-> <<>>] /\ requests = [s \in Session |-> {}]
    /\ reading = {} /\ handling = {} /\ orphans = 0
    /\ notifications = [s \in Session |-> 0] /\ tipUpdates = 0
    /\ call = [c \in Caller |-> NoCall]
    /\ left \in Budgets

(***************************************************************************)
(* Parts of steps                                                          *)
(***************************************************************************)

\* signalStateLocked: close stateChanged, which everybody who read it sees.
Signal(calls) == [c \in Caller |-> [calls[c] EXCEPT !.changed = calls[c].pc \in {"wake", "wait"}]]

\* shutdown of the clients S: connection and context end, readLoop returns; the calls
\* that wait on them find done closed.  What notificationLoop does then is NotificationLoopEnds.
Shutdown(S, bad) ==
    /\ open' = open \ S
    /\ fatal' = fatal \cup (IF bad THEN S \cap open ELSE {})
    /\ wire' = [s \in Session |-> IF s \in S THEN <<>> ELSE wire[s]]
    /\ requests' = [s \in Session |-> IF s \in S THEN {} ELSE requests[s]]
    /\ reading' = reading \ S
    /\ UNCHANGED <<notifications, handling, orphans>>

Close(S) == Shutdown(S \ {None}, FALSE)

\* A client nobody refers to but its own handler: what Dial returns is new.
Unused(s) ==
    /\ s \notin open /\ s \notin {client, connecting, loop.at} \cup stopper.closing
    /\ \A c \in Caller : call[c].at # s

\* Requests of c that are under way.
Outstanding(c) == {r[2][2] : r \in {q \in UNION {requests[s] : s \in Session} : q[2][1] = c}} \cup
                  {m.of[2] : m \in {x \in UNION {{wire[s][i] : i \in 1 .. Len(wire[s])} : s \in Session} :
                                        x # Note /\ x.of[1] = c}}
FreshNumbers(c) == (1 .. MaxRequests) \ Outstanding(c)

\* Mutant: ids are numbered per caller and not per request.
IdPerCaller(c, n) == <<c, 1>>

\* globalRequestNumber: an id of its own for every request.
RequestId(c, n) == <<c, n>>

\* The call returns.
Return(c) == [call EXCEPT ![c] = NoCall]

(***************************************************************************)
(* Start and Stop                                                          *)
(***************************************************************************)

\* Start; it refuses while an earlier run has not ended.
Start ==
    /\ left.starts > 0 /\ ~running /\ done # "open"
    /\ running' = TRUE /\ cancelled' = FALSE /\ done' = "open" /\ left' = [left EXCEPT !.starts = @ - 1]
    /\ loop' = [pc |-> "connect", at |-> None, urgent |-> FALSE]
    /\ call' = Signal(call)
    /\ UNCHANGED <<client, connecting, wake, keepalive, stopper, sessionVars, tipUpdates>>

\* The context given to Start ends.
ParentDone ==
    /\ running /\ ~cancelled /\ left.stops > 0
    /\ cancelled' = TRUE /\ left' = [left EXCEPT !.stops = @ - 1]
    /\ UNCHANGED <<running, client, connecting, wake, done, loopVars, stopper, sessionVars,
                   tipUpdates, call>>

\* Stop, its section under the mutex and cancel().
StopBegin ==
    /\ stopper.pc = "off" /\ done = "open" /\ left.stops > 0
    /\ left' = [left EXCEPT !.stops = @ - 1]
    /\ IF running
       THEN /\ running' = FALSE /\ client' = None /\ connecting' = None /\ cancelled' = TRUE
            /\ stopper' = [pc |-> "close", closing |-> {client, connecting} \ {None}]
            /\ call' = Signal(call)
       ELSE /\ stopper' = [pc |-> "wait", closing |-> {}]
            /\ UNCHANGED <<running, client, connecting, cancelled, call>>
    /\ UNCHANGED <<wake, done, loopVars, sessionVars, tipUpdates>>

\* Stop closes the clients it read, then wakes the loop.
StopClose ==
    /\ stopper.pc = "close"
    /\ Close(stopper.closing)
    /\ wake' = TRUE
    /\ stopper' = [pc |-> "wait", closing |-> {}]
    /\ UNCHANGED <<running, client, connecting, done, cancelled, loopVars, tipUpdates, call,
                   left>>

\* Stop returns.
StopReturn ==
    /\ stopper.pc = "wait" /\ done = "closed"
    /\ stopper' = [pc |-> "off", closing |-> {}]
    /\ UNCHANGED <<networkVars, loopVars, sessionVars, tipUpdates, call, left>>

(***************************************************************************)
(* The reconnect loop                                                      *)
(***************************************************************************)

LoopAt(pc) == loop' = [loop EXCEPT !.pc = pc]

\* The wait between two attempts ends with the timer or a wake-up.
LoopDelay ==
    /\ loop.pc = "delay"
    /\ \/ wake /\ wake' = FALSE
       \/ UNCHANGED wake
    /\ LoopAt("connect")
    /\ UNCHANGED <<running, client, connecting, done, cancelled, keepalive, stopper, sessionVars,
                   tipUpdates, call, left>>

\* The context has ended.
LoopCancelled ==
    /\ loop.pc \in {"delay", "connect"} /\ cancelled
    /\ LoopAt("finish")
    /\ UNCHANGED <<networkVars, keepalive, stopper, sessionVars, tipUpdates, call, left>>

\* connect fails: no servers, no candidate, none answers.
ConnectFails ==
    /\ loop.pc = "connect" /\ left.faults > 0
    /\ left' = [left EXCEPT !.faults = @ - 1]
    /\ LoopAt("delay")
    /\ UNCHANGED <<networkVars, keepalive, stopper, sessionVars, tipUpdates, call>>

\* connect: a candidate accepts the connection.
Dial ==
    /\ loop.pc = "connect" /\ ~cancelled /\ \E s \in Session : Unused(s)
    /\ LET s == CHOOSE s \in Session : Unused(s) IN
        /\ open' = open \cup {s} /\ fatal' = fatal \ {s}
        /\ handling' = handling \ {s} /\ notifications' = [notifications EXCEPT ![s] = 0]
        /\ orphans' = orphans + (IF s \in handling THEN 1 ELSE 0)
        /\ loop' = [loop EXCEPT !.pc = "dialed", !.at = s]
    /\ UNCHANGED <<networkVars, keepalive, stopper, wire, requests, reading, tipUpdates, call, left>>

\* setConnectingClient
SetConnecting ==
    /\ loop.pc = "dialed"
    /\ connecting' = IF running THEN loop.at ELSE connecting
    /\ LoopAt("handshake")
    /\ UNCHANGED <<running, client, wake, done, cancelled, keepalive, stopper, sessionVars,
                   tipUpdates, call, left>>

\* handshake: all of its calls are answered and the protocol version fits.
HandshakeOk ==
    /\ loop.pc = "handshake" /\ loop.at \in open
    /\ LoopAt("publish")
    /\ UNCHANGED <<networkVars, keepalive, stopper, sessionVars, tipUpdates, call, left>>

\* handshake fails, because the context or the session has ended or for a fault of the
\* server: connect closes the client and goes to the next candidate, if any.
HandshakeFails ==
    /\ loop.pc = "handshake"
    /\ \/ (cancelled \/ loop.at \notin open) /\ UNCHANGED left
       \/ left.faults > 0 /\ left' = [left EXCEPT !.faults = @ - 1]
    /\ connecting' = IF connecting = loop.at THEN None ELSE connecting
    /\ Close({loop.at})
    /\ \E pc \in {"connect", "delay"} : loop' = [loop EXCEPT !.pc = pc, !.at = None]
    /\ UNCHANGED <<running, client, wake, done, cancelled, keepalive, stopper, tipUpdates, call>>

\* Mutant: publishing tells nobody.
PublishSilently ==
    /\ loop.pc = "publish"
    /\ IF running /\ ~cancelled
       THEN /\ client' = loop.at /\ connecting' = None
            /\ LoopAt("drain")
            /\ UNCHANGED <<sessionVars, call>>
       ELSE /\ Close({loop.at})
            /\ LoopAt("finish")
            /\ UNCHANGED <<client, connecting, call>>
    /\ UNCHANGED <<running, wake, done, cancelled, keepalive, stopper, tipUpdates, left>>

\* publishClient, its section under the mutex; run closes a client that came too late.
Publish ==
    /\ loop.pc = "publish"
    /\ IF running /\ ~cancelled
       THEN /\ client' = loop.at /\ connecting' = None
            /\ call' = Signal(call)
            /\ LoopAt("drain")
            /\ UNCHANGED sessionVars
       ELSE /\ Close({loop.at})
            /\ LoopAt("finish")
            /\ UNCHANGED <<client, connecting, call>>
    /\ UNCHANGED <<running, wake, done, cancelled, keepalive, stopper, tipUpdates, left>>

\* drainReconnectWake, and the start of the keepalive goroutine.
Drain ==
    /\ loop.pc = "drain"
    /\ wake' = FALSE /\ keepalive' = FALSE
    /\ LoopAt("select")
    /\ UNCHANGED <<running, client, connecting, done, cancelled, stopper, sessionVars, tipUpdates,
                   call, left>>

\* The select of a session: the context, the client's end or the keepalive's.
SessionEnds ==
    /\ loop.pc = "select"
    /\ cancelled \/ loop.at \notin open \/ keepalive
    /\ loop' = [loop EXCEPT !.pc = "close", !.urgent = FALSE]
    /\ UNCHANGED <<networkVars, keepalive, stopper, sessionVars, tipUpdates, call, left>>

\* The select of a session: a wake-up asks for an immediate reconnection.
SessionWoken ==
    /\ loop.pc = "select" /\ wake
    /\ wake' = FALSE
    /\ loop' = [loop EXCEPT !.pc = "close", !.urgent = TRUE]
    /\ UNCHANGED <<running, client, connecting, done, cancelled, keepalive, stopper, sessionVars,
                   tipUpdates, call, left>>

\* cancelSession, Close and the end of the keepalive goroutine.
SessionClose ==
    /\ loop.pc = "close"
    /\ Close({loop.at})
    /\ LoopAt("detach")
    /\ UNCHANGED <<networkVars, keepalive, stopper, tipUpdates, call, left>>

\* detachClient by run, then the next round.
SessionDetach ==
    /\ loop.pc = "detach"
    /\ IF client = loop.at
       THEN client' = None /\ call' = Signal(call)
       ELSE UNCHANGED <<client, call>>
    /\ loop' = [pc |-> IF cancelled THEN "finish" ELSE IF loop.urgent THEN "connect" ELSE "delay",
                at |-> None, urgent |-> FALSE]
    /\ UNCHANGED <<running, connecting, wake, done, cancelled, keepalive, stopper, sessionVars,
                   tipUpdates, left>>

\* finishRun
FinishRun ==
    /\ loop.pc = "finish"
    /\ running' = FALSE /\ client' = None /\ connecting' = None /\ done' = "closed"
    /\ Close({client, connecting})
    /\ call' = Signal(call)
    /\ loop' = [pc |-> "off", at |-> None, urgent |-> FALSE]
    /\ UNCHANGED <<wake, cancelled, keepalive, stopper, tipUpdates, left>>

\* keepalive: a ping is late although the server would answer.
KeepaliveTimeout ==
    /\ loop.pc = "select" /\ ~keepalive /\ loop.at \in open /\ left.faults > 0
    /\ keepalive' = TRUE /\ left' = [left EXCEPT !.faults = @ - 1]
    /\ UNCHANGED <<networkVars, loop, stopper, sessionVars, tipUpdates, call>>

\* Mutant: a session whose reader is blocked is not given up.
KeepaliveTrusts == FALSE

\* keepalive: readLoop is blocked with a notification, so that no ping is answered.
KeepaliveStuck ==
    /\ loop.pc = "select" /\ ~keepalive /\ loop.at \in open /\ loop.at \in reading
    /\ keepalive' = TRUE
    /\ UNCHANGED <<networkVars, loop, stopper, sessionVars, tipUpdates, call, left>>

(***************************************************************************)
(* The server and the session's goroutines                                 *)
(***************************************************************************)

\* Connections are lost, a write fails; or a frame is too large or no JSON, which
\* closes the client with an error of another kind.
ConnectionLost(s) ==
    /\ s \in open /\ left.faults > 0
    /\ \E bad \in BOOLEAN : Shutdown({s}, bad)
    /\ left' = [left EXCEPT !.faults = @ - 1]
    /\ UNCHANGED <<networkVars, loopVars, stopper, tipUpdates, call>>

\* A block: every session subscribed to headers is told (external).
Subscribed(s) == s \in open /\ ~(loop.at = s /\ loop.pc \in {"dialed", "handshake"})
NewBlock ==
    /\ left.blocks > 0 /\ \A s \in Session : Subscribed(s) => Len(wire[s]) < WireCapacity
    /\ left' = [left EXCEPT !.blocks = @ - 1]
    /\ wire' = [s \in Session |-> IF Subscribed(s) THEN Append(wire[s], Note) ELSE wire[s]]
    /\ UNCHANGED <<orphans, networkVars, loopVars, stopper, open, fatal, requests, reading, notifications, handling,
                   tipUpdates, call>>

\* The server answers a request; requests are answered in any order (external).
ServerAnswers(s) ==
    /\ Len(wire[s]) < WireCapacity
    /\ \E r \in requests[s] :
        /\ requests' = [requests EXCEPT ![s] = @ \ {r}]
        /\ wire' = [wire EXCEPT ![s] = Append(@, Answer(r[1], r[2]))]
    /\ UNCHANGED <<orphans, networkVars, loopVars, stopper, open, fatal, reading, notifications, handling, tipUpdates,
                   call, left>>

\* deliver: to the pending call with the id, if its response channel is empty.
Deliver(s, m) ==
    call' = [c \in Caller |->
        IF call[c].pc = "sent" /\ call[c].at = s /\ call[c].answer = None /\ m.id = RequestId(c, call[c].n)
        THEN [call[c] EXCEPT !.answer = m.of]
        ELSE call[c]]

\* readLoop: an answer is delivered, a notification goes to the channel or blocks.
Read(s) ==
    /\ s \in open \ reading /\ wire[s] # <<>>
    /\ wire' = [wire EXCEPT ![s] = Tail(@)]
    /\ LET m == Head(wire[s]) IN
        \/ /\ m # Note /\ Deliver(s, m)
           /\ UNCHANGED <<reading, notifications>>
        \/ /\ m = Note /\ notifications[s] < Concurrency
           /\ notifications' = [notifications EXCEPT ![s] = @ + 1]
           /\ UNCHANGED <<reading, call>>
        \/ /\ m = Note /\ notifications[s] = Concurrency
           /\ reading' = reading \cup {s}
           /\ UNCHANGED <<notifications, call>>
    /\ UNCHANGED <<orphans, networkVars, loopVars, stopper, open, fatal, requests, handling, tipUpdates, left>>

\* readLoop goes on.
ReadUnblocks(s) ==
    /\ s \in reading /\ notifications[s] < Concurrency
    /\ notifications' = [notifications EXCEPT ![s] = @ + 1]
    /\ reading' = reading \ {s}
    /\ UNCHANGED <<orphans, networkVars, loopVars, stopper, open, fatal, wire, requests, handling, tipUpdates, call,
                   left>>

\* notificationLoop and handleNotification: only the network's own clients count, and a
\* repetition of the last notification is dropped.  A new height signals a change of state.
HandleNotification(s) ==
    /\ s \notin handling /\ notifications[s] > 0
    /\ notifications' = [notifications EXCEPT ![s] = @ - 1]
    /\ \/ /\ running /\ s \in {client, connecting}
          /\ handling' = handling \cup {s} /\ call' = Signal(call)
       \/ UNCHANGED <<handling, call>>
    /\ UNCHANGED <<orphans, networkVars, loopVars, stopper, open, fatal, wire, requests, reading, tipUpdates, left>>

\* enqueueSPVHeader; it waits for room even when its client has been closed.
EnqueueSPVHeader(s) ==
    /\ tipUpdates < TipCapacity
    /\ tipUpdates' = tipUpdates + 1
    /\ \/ s \in handling /\ handling' = handling \ {s} /\ UNCHANGED orphans
       \/ orphans > 0 /\ orphans' = orphans - 1 /\ UNCHANGED handling
    /\ UNCHANGED <<networkVars, loopVars, stopper, open, fatal, wire, requests, reading, notifications,
                   call, left>>

\* notificationLoop of a closed client ends; it may have handled what was left before.
NotificationLoopEnds(s) ==
    /\ s \notin open \cup handling /\ notifications[s] > 0
    /\ notifications' = [notifications EXCEPT ![s] = 0]
    /\ UNCHANGED <<orphans, networkVars, loopVars, stopper, open, fatal, wire, requests, reading, handling,
                   tipUpdates, call, left>>

(***************************************************************************)
(* Calls                                                                   *)
(***************************************************************************)

Goto(c, pc) == call' = [call EXCEPT ![c].pc = pc]

\* A call of RetriableValue, OneShotValue, SubscribeAddresses or BroadcastTransaction; of
\* the tip worker, its first pull.
Begin(c, kind) ==
    /\ c = Tip => kind = "retry"
    /\ call[c].pc = "idle" /\ left.calls[c] > 0
    /\ left' = [left EXCEPT !.calls[c] = @ - 1]
    /\ call' = [call EXCEPT ![c] = [NoCall EXCEPT !.pc = "look", !.kind = kind]]
    /\ UNCHANGED <<networkVars, loopVars, stopper, sessionVars, tipUpdates>>

\* runSPVTipWorker: a pull for every notification.
TipPull ==
    /\ call[Tip].pc = "idle" /\ tipUpdates > 0
    /\ tipUpdates' = tipUpdates - 1
    /\ call' = [call EXCEPT ![Tip] = [NoCall EXCEPT !.pc = "look"]]
    /\ UNCHANGED <<networkVars, loopVars, stopper, sessionVars, left>>

\* waitForClient, or the check of the other calls, under the mutex: the client is usable.
FindClient(c) ==
    /\ call[c].pc = "look" /\ running /\ client \in open
    /\ call' = [call EXCEPT ![c].pc = "slot", ![c].at = client]
    /\ UNCHANGED <<networkVars, loopVars, stopper, sessionVars, tipUpdates, left>>

\* The same when the network is stopped or has no usable client: RetriableValue waits, the
\* other calls return after waking the loop, OneShotValue after detaching a closed client.
MissClient(c) ==
    /\ call[c].pc = "look" /\ ~(running /\ client \in open)
    /\ LET closed == call[c].kind = "oneshot" /\ client # None IN
       call' = IF ~running THEN Return(c)
               ELSE IF call[c].kind = "retry" THEN [call EXCEPT ![c].pc = "wake", ![c].at = None]
               ELSE [call EXCEPT ![c].pc = IF closed THEN "detach" ELSE "rewake",
                                 ![c].at = IF closed THEN client ELSE None]
    /\ UNCHANGED <<networkVars, loopVars, stopper, sessionVars, tipUpdates, left>>

\* waitForClient: wakeReconnect, outside the mutex.
WakeReconnect(c) ==
    /\ call[c].pc = "wake"
    /\ wake' = TRUE
    /\ Goto(c, "wait")
    /\ UNCHANGED <<running, client, connecting, done, cancelled, loopVars, stopper, sessionVars,
                   tipUpdates, left>>

\* waitForClient: the state has changed.
StateChanged(c) ==
    /\ call[c].pc = "wait" /\ call[c].changed
    /\ call' = [call EXCEPT ![c].pc = "look", ![c].changed = FALSE]
    /\ UNCHANGED <<networkVars, loopVars, stopper, sessionVars, tipUpdates, left>>

\* Client.call: take a slot, register the request and write it.
Send(c) ==
    LET s == call[c].at IN
    /\ call[c].pc = "slot" /\ s \in open
    /\ Cardinality({d \in Caller : call[d].pc = "sent" /\ call[d].at = s}) < Concurrency
    /\ FreshNumbers(c) # {}
    /\ LET n == CHOOSE n \in FreshNumbers(c) : TRUE IN
        /\ call' = [call EXCEPT ![c].pc = "sent", ![c].n = n, ![c].answer = None]
        /\ requests' = [requests EXCEPT ![s] = @ \cup {<<RequestId(c, n), <<c, n>>>>}]
    /\ UNCHANGED <<orphans, networkVars, loopVars, stopper, open, fatal, wire, reading, notifications, handling,
                   tipUpdates, left>>

\* Client.call returns the response, also when the client has been closed since.
Receive(c) ==
    /\ call[c].pc = "sent" /\ call[c].answer # None
    /\ call' = Return(c)
    /\ UNCHANGED <<networkVars, loopVars, stopper, sessionVars, tipUpdates, left>>

\* Client.call finds the client closed.  A connection error goes on to detach the client,
\* any other is returned.
Fail(c) ==
    /\ call[c].pc \in {"slot", "sent"} /\ call[c].at \notin open /\ call[c].answer = None
    /\ call' = IF call[c].at \in fatal THEN Return(c) ELSE [call EXCEPT ![c].pc = "detach"]
    /\ UNCHANGED <<networkVars, loopVars, stopper, sessionVars, tipUpdates, left>>

\* The request's timer: RetriableValue tries again, SubscribeAddresses gives the session up.
Timeout(c) ==
    /\ call[c].pc = "sent" /\ call[c].answer = None /\ call[c].at \in open
    /\ left.faults > 0
    /\ left' = [left EXCEPT !.faults = @ - 1]
    /\ call' = CASE call[c].kind = "retry" -> [call EXCEPT ![c].pc = "look", ![c].at = None, ![c].n = 0]
                 [] call[c].kind = "subscribe" -> [call EXCEPT ![c].pc = "detach"]
                 [] OTHER -> Return(c)
    /\ UNCHANGED <<networkVars, loopVars, stopper, sessionVars, tipUpdates>>

\* The caller's context ends.  The tip worker's lasts.
ContextDone(c) ==
    /\ c # Tip /\ call[c].pc \in {"wait", "slot", "sent"}
    /\ call' = Return(c)
    /\ UNCHANGED <<networkVars, loopVars, stopper, sessionVars, tipUpdates, left>>

\* detachClient and Close by a call that failed.
DetachClient(c) ==
    /\ call[c].pc = "detach"
    /\ Close({call[c].at})
    /\ LET next == [call EXCEPT ![c].pc = "rewake", ![c].at = None, ![c].n = 0] IN
       IF client = call[c].at
       THEN client' = None /\ call' = Signal(next)
       ELSE call' = next /\ UNCHANGED client
    /\ UNCHANGED <<running, connecting, wake, done, cancelled, loopVars, stopper, tipUpdates,
                   left>>

\* wakeReconnect after a failure; RetriableValue begins again.
Rewake(c) ==
    /\ call[c].pc = "rewake"
    /\ wake' = TRUE
    /\ call' = IF call[c].kind = "retry" THEN [call EXCEPT ![c].pc = "look"] ELSE Return(c)
    /\ UNCHANGED <<running, client, connecting, done, cancelled, loopVars, stopper, sessionVars,
                   tipUpdates, left>>

(***************************************************************************)
(* Specification                                                           *)
(***************************************************************************)

LoopStep ==
    \/ LoopDelay \/ LoopCancelled \/ ConnectFails \/ Dial \/ SetConnecting \/ HandshakeOk
    \/ HandshakeFails \/ Publish \/ Drain \/ SessionEnds \/ SessionWoken \/ SessionClose
    \/ SessionDetach \/ FinishRun

CallStep(c) ==
    \/ FindClient(c) \/ MissClient(c) \/ WakeReconnect(c) \/ StateChanged(c) \/ Send(c) \/ Receive(c) \/ Fail(c)
    \/ DetachClient(c) \/ Rewake(c) \/ (c = Tip /\ TipPull)

SessionStep(s) ==
    Read(s) \/ ReadUnblocks(s) \/ HandleNotification(s) \/ EnqueueSPVHeader(s) \/ NotificationLoopEnds(s)

Next ==
    \/ Start \/ ParentDone \/ StopBegin \/ StopClose \/ StopReturn
    \/ LoopStep \/ KeepaliveTimeout \/ KeepaliveStuck \/ NewBlock
    \/ \E s \in Session : ConnectionLost(s) \/ ServerAnswers(s) \/ SessionStep(s)
    \/ \E c \in Caller : CallStep(c) \/ Timeout(c) \/ ContextDone(c) \/ \E k \in Kind : Begin(c, k)

Spec == Init /\ [][Next]_vars

\* A wake-up left over from the time without a session tears a healthy one down.
StaleTeardown == SessionWoken /\ loop.at \in open

\* Goroutines run and the server answers.  Nothing is assumed of Start, Stop, timeouts and
\* losses.  A waiter's wake-up is not for ever delayed, round after round, until the next
\* session is up: connecting takes several round trips and a wake-up none.
Fairness ==
    /\ WF_vars(LoopStep) /\ WF_vars(StopClose \/ StopReturn) /\ WF_vars(KeepaliveStuck)
    /\ WF_vars(\E s \in Session : SessionStep(s)) /\ WF_vars(\E s \in Session : ServerAnswers(s))
    /\ \A c \in Caller : WF_vars(CallStep(c))
    /\ <>[][~StaleTeardown]_vars

LiveSpec == Spec /\ Fairness

(***************************************************************************)
(* Properties                                                              *)
(***************************************************************************)

\* A call gets the answer to the request it waits for, and never a late answer to one it
\* gave up before (RetriableValue repeats a request on the same client after a timeout).
AnswerMatches == \A c \in Caller : call[c].answer # None => call[c].answer = <<c, call[c].n>>

\* Nobody waits for a change that has already happened: a waiter whose channel is not
\* closed looks at a running network without a usable client.
NoStrandedWaiter ==
    \A c \in Caller : call[c].pc \in {"wake", "wait"} /\ ~call[c].changed =>
        running /\ ~(client # None /\ client \in open)

\* Only the session the loop is working on is open, whoever detached or stopped what: a
\* connection is never forgotten, and once the run has ended, so when Stop returns, none is
\* open or published.
OneSession ==
    /\ open \subseteq {loop.at}
    /\ done = "closed" => open = {} /\ client = None /\ connecting = None

\* Every call returns, if the network is not without a server for ever: across
\* reconnections, stale wake-ups and a reader that is blocked by the tip worker's own queue.
CallsReturn == \A c \in Caller : call[c].pc # "idle" ~> call[c].pc = "idle"

\* Stop returns.
StopReturns == stopper.pc # "off" ~> stopper.pc = "off"

\* The one session of the network and the callers' view of it agree: nothing stays open
\* behind it, and nobody waits for a session that is there.
SessionSound == OneSession /\ NoStrandedWaiter

\* Every wait ends: of calls and of Stop.
WaitsEnd == CallsReturn /\ StopReturns
=============================================================================
