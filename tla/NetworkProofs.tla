---------------------------- MODULE NetworkProofs ----------------------------
(***************************************************************************)
(* Proofs about the two networks the daemon talks to, the servers of       *)
(* SPVNetwork and the peers of DHT.                                        *)
(*                                                                         *)
(* SPVNetwork, for any callers, sessions, capacities and budgets:          *)
(* AnswerMatches and SessionSound hold in every state.                     *)
(* The inductive invariant follows a request from Send over the wire to    *)
(* the response channel, says at which points of run a session may be      *)
(* open, and ties running, done and the published clients together.        *)
(*                                                                         *)
(* DHT, for any network, width of the identities, bucket size, number of   *)
(* parallel calls and of events: IdentitiesSound and AnnouncedMeansStored  *)
(* hold in every state.  The inductive invariant says which identity may   *)
(* be believed of an address, and follows those contacts from an answer    *)
(* through the shortlists and calls of the goroutines into the table; who  *)
(* replied was reached, and who acknowledged a store keeps it.             *)
(***************************************************************************)
EXTENDS SPVNetwork, DHT, FiniteSetTheorems, WellFoundedInduction, TLAPS

CallPhase == {"idle", "look", "wake", "wait", "slot", "sent", "detach", "rewake"}
CallRecord == [pc : CallPhase, kind : Kind, at : Session \cup {None}, n : Nat,
               answer : Request \cup {None}, changed : BOOLEAN]
LoopPhase == {"off", "delay", "connect", "dialed", "handshake", "publish", "drain", "select",
              "close", "detach", "finish"}
LoopRecord == [pc : LoopPhase, at : Session \cup {None}, urgent : BOOLEAN]

CallsTyped == call \in [Caller -> CallRecord]

NetworkTyped ==
    /\ running \in BOOLEAN /\ cancelled \in BOOLEAN /\ wake \in BOOLEAN /\ keepalive \in BOOLEAN
    /\ client \in Session \cup {None} /\ connecting \in Session \cup {None}
    /\ done \in {"none", "open", "closed"}
    /\ loop \in LoopRecord

\* A request that is on its way to the server, and the answer on its way back.
Posted == {<<q, q>> : q \in Request}
Message == {Note} \cup {Answer(q, q) : q \in Request}

\* What a session holds; the server answers what it was asked, under the id it was asked.
SessionsTyped ==
    /\ open \in SUBSET Session
    /\ requests \in [Session -> SUBSET Posted]
    /\ wire \in [Session -> Seq(Message)]

\* The variables these proofs are about have their types.
TypeOK == CallsTyped /\ NetworkTyped /\ SessionsTyped

\* A response channel is only filled while its call waits for it, and with its answer.
AnswerInv ==
    \A c \in Caller : call[c].answer # None =>
        call[c].pc = "sent" /\ call[c].answer = <<c, call[c].n>>

\* The points of run at which it has no session.
Closed == {"off", "delay", "connect", "detach", "finish"}

\* A run is under way from Start to finishRun, clients are published by a running network
\* only, and run closes its session before it forgets it.
LifeInv ==
    /\ done = "open" <=> loop.pc # "off"
    /\ running => done = "open"
    /\ ~running => client = None /\ connecting = None
    /\ open \subseteq {loop.at}
    /\ loop.pc \in Closed => open = {}

IndInv == TypeOK /\ AnswerInv /\ LifeInv /\ NoStrandedWaiter

\* signalStateLocked changes nothing of a call but closes the channel it waits on.
LEMMA SignalEffect ==
  ASSUME NEW calls \in [Caller -> CallRecord]
  PROVE  /\ Signal(calls) \in [Caller -> CallRecord]
         /\ \A c \in Caller : /\ Signal(calls)[c].pc = calls[c].pc
                              /\ Signal(calls)[c].n = calls[c].n
                              /\ Signal(calls)[c].answer = calls[c].answer
                              /\ calls[c].pc \in {"wake", "wait"} => Signal(calls)[c].changed
<1> DEFINE waits(c) == calls[c].pc \in {"wake", "wait"}
           new(c) == [calls[c] EXCEPT !.changed = waits(c)]
<1>1. \A c \in Caller : waits(c) \in BOOLEAN /\ (calls[c].pc \in {"wake", "wait"} => waits(c))
  OBVIOUS
<1>2. Signal(calls) = [c \in Caller |-> new(c)]
  BY DEF Signal
<1> HIDE DEF waits
<1>3. \A c \in Caller : /\ new(c) \in CallRecord /\ new(c).pc = calls[c].pc
                        /\ new(c).n = calls[c].n /\ new(c).answer = calls[c].answer
                        /\ waits(c) => new(c).changed
  BY <1>1 DEF CallRecord
<1> HIDE DEF new
<1> QED
  BY <1>1, <1>2, <1>3

\* shutdown of clients closes them and drops what was on the wire.
LEMMA ShutdownEffect ==
  ASSUME SessionsTyped, NEW S, NEW bad, Shutdown(S, bad)
  PROVE  SessionsTyped' /\ open' = open \ S
<1>1. <<>> \in Seq(Message) /\ {} \in SUBSET Posted
  OBVIOUS
<1> QED
  BY <1>1 DEF Shutdown, SessionsTyped

\* Moving a call to another phase, client and request keeps its type.
LEMMA CallEdit ==
  ASSUME CallsTyped, NEW c \in Caller, NEW pc \in CallPhase, NEW t \in Session \cup {None}, NEW n \in Nat,
         NEW next,
         \/ next = [call EXCEPT ![c].pc = pc, ![c].at = t]
         \/ next = [call EXCEPT ![c].pc = pc, ![c].at = t, ![c].n = n]
         \/ next = [call EXCEPT ![c].pc = pc, ![c].n = n, ![c].answer = None]
  PROVE  next \in [Caller -> CallRecord]
<1> DEFINE r == call[c]
<1>1. r \in CallRecord
  BY DEF CallsTyped
<1>2. \/ next = [call EXCEPT ![c] = [r EXCEPT !.pc = pc, !.at = t]]
      \/ next = [call EXCEPT ![c] = [r EXCEPT !.pc = pc, !.at = t, !.n = n]]
      \/ next = [call EXCEPT ![c] = [r EXCEPT !.pc = pc, !.n = n, !.answer = None]]
  BY DEF CallsTyped
<1> HIDE DEF r
<1>3. [r EXCEPT !.pc = pc, !.at = t] \in CallRecord
  BY <1>1 DEF CallRecord
<1>4. [r EXCEPT !.pc = pc, !.at = t, !.n = n] \in CallRecord
  BY <1>1 DEF CallRecord
<1>5. [r EXCEPT !.pc = pc, !.n = n, !.answer = None] \in CallRecord
  BY <1>1 DEF CallRecord
<1>6. PICK q \in CallRecord : next = [call EXCEPT ![c] = q]
  BY <1>2, <1>3, <1>4, <1>5
<1> QED
  BY <1>6 DEF CallsTyped

\* The bounds these proofs need, and the values that moves give a call.
LEMMA Bounds ==
  /\ MaxRequests \in Nat /\ 0 \in Nat /\ None \notin Session /\ None \in Session \cup {None}
  /\ \A pc \in {"look", "sent", "detach", "rewake"} : pc \in CallPhase
  BY BoundsAssumption DEF CallPhase

\* What a call that failed becomes.
LEMMA RewakeEdit ==
  ASSUME CallsTyped, NEW c \in Caller, NEW next,
         next = [call EXCEPT ![c].pc = "rewake", ![c].at = None, ![c].n = 0]
  PROVE  /\ next \in [Caller -> CallRecord]
         /\ next[c].pc = "rewake" /\ next[c].answer = call[c].answer
         /\ \A d \in Caller \ {c} : next[d] = call[d]
<1>1. "rewake" \in CallPhase /\ None \in Session \cup {None} /\ 0 \in Nat
  BY Bounds
<1>2. next \in [Caller -> CallRecord]
  BY <1>1, CallEdit
<1>3. next[c].pc = "rewake" /\ next[c].answer = call[c].answer
  BY DEF CallsTyped, CallRecord
<1>4. \A d \in Caller \ {c} : next[d] = call[d]
  BY DEF CallsTyped
<1> QED
  BY <1>2, <1>3, <1>4

\* Most steps of a call touch neither the network nor its loop nor what is open.
LEMMA Quiet ==
  ASSUME NEW c \in Caller,
         \/ FindClient(c) \/ MissClient(c) \/ StateChanged(c) \/ Receive(c) \/ Fail(c)
         \/ Timeout(c) \/ ContextDone(c) \/ TipPull \/ \E k \in Kind : Begin(c, k)
  PROVE  UNCHANGED <<networkVars, loopVars, open, wire, requests>>
<1>1. CASE FindClient(c)
  BY <1>1 DEF sessionVars, FindClient
<1>2. CASE MissClient(c)
  BY <1>2 DEF sessionVars, MissClient
<1>3. CASE StateChanged(c)
  BY <1>3 DEF sessionVars, StateChanged
<1>4. CASE Receive(c)
  BY <1>4 DEF sessionVars, Receive
<1>5. CASE Fail(c)
  BY <1>5 DEF sessionVars, Fail
<1>6. CASE Timeout(c)
  BY <1>6 DEF sessionVars, Timeout
<1>7. CASE ContextDone(c)
  BY <1>7 DEF sessionVars, ContextDone
<1>8. CASE TipPull
  BY <1>8 DEF sessionVars, TipPull
<1>9. CASE \E k \in Kind : Begin(c, k)
  BY <1>9 DEF sessionVars, Begin
<1> QED
  BY <1>1, <1>2, <1>3, <1>4, <1>5, <1>6, <1>7, <1>8, <1>9

\* A step keeps the type of the calls.
LEMMA CallsStep ==
  ASSUME TypeOK, [Next]_vars PROVE CallsTyped'
<1> USE DEF TypeOK
<1>1. CASE \/ ParentDone \/ StopClose \/ StopReturn \/ LoopDelay \/ LoopCancelled \/ ConnectFails \/ Dial
             \/ SetConnecting \/ HandshakeOk \/ HandshakeFails \/ Drain \/ SessionEnds \/ SessionWoken \/ SessionClose
             \/ KeepaliveTimeout \/ KeepaliveStuck \/ NewBlock
  BY <1>1, SMTT(30) DEF CallsTyped, CallRecord, CallPhase, Kind, networkVars, loopVars,
     sessionVars, LoopAt, ParentDone, StopClose, StopReturn, LoopDelay, LoopCancelled,
     ConnectFails, Dial, SetConnecting, HandshakeOk, HandshakeFails, Drain, SessionEnds,
     SessionWoken, SessionClose, KeepaliveTimeout, KeepaliveStuck, NewBlock
<1>2. ASSUME NEW s \in Session, ConnectionLost(s) \/ ServerAnswers(s) \/ ReadUnblocks(s) \/ EnqueueSPVHeader(s) \/ NotificationLoopEnds(s) PROVE CallsTyped'
  BY <1>2, SMTT(30) DEF CallsTyped, CallRecord, CallPhase, Kind, networkVars, loopVars,
     sessionVars, ConnectionLost, ServerAnswers, ReadUnblocks, EnqueueSPVHeader,
     NotificationLoopEnds
<1>3. CASE Start
  BY <1>3, SignalEffect DEF CallsTyped, Start
<1>4. CASE StopBegin
  BY <1>4, SignalEffect DEF CallsTyped, StopBegin
<1>5. CASE Publish
  BY <1>5, SignalEffect DEF CallsTyped, Publish
<1>6. CASE SessionDetach
  BY <1>6, SignalEffect DEF CallsTyped, SessionDetach
<1>7. CASE FinishRun
  BY <1>7, SignalEffect DEF CallsTyped, FinishRun
<1>8. ASSUME NEW s \in Session, Read(s) PROVE CallsTyped'
  <2>1. CASE UNCHANGED call
    BY <2>1 DEF CallsTyped
  <2>2. CASE Head(wire[s]) # Note /\ Deliver(s, Head(wire[s]))
    <3>1. Head(wire[s]) \in Message
      BY <1>8 DEF Read, SessionsTyped
    <3>2. Head(wire[s]).of \in Request
      BY <3>1, <2>2 DEF Message, Answer
    <3> QED
      BY <2>2, <3>2 DEF Deliver, CallsTyped, CallRecord
  <2> QED
    BY <1>8, <2>1, <2>2 DEF Read
<1>9. ASSUME NEW s \in Session, HandleNotification(s) PROVE CallsTyped'
  BY <1>9, SignalEffect DEF CallsTyped, HandleNotification
<1>10. ASSUME NEW c \in Caller, FindClient(c) PROVE CallsTyped'
  <2>1. client \in Session \cup {None} /\ call' = [call EXCEPT ![c].pc = "slot", ![c].at = client]
    BY <1>10 DEF FindClient, NetworkTyped
  <2> QED
    BY <2>1, ZenonT(30) DEF CallsTyped, CallRecord, CallPhase
<1>11. ASSUME NEW c \in Caller, MissClient(c) PROVE CallsTyped'
  <2>1. client \in Session \cup {None}
    BY DEF NetworkTyped
  <2>2. CASE call' = Return(c)
    BY <2>2 DEF CallsTyped, CallRecord, CallPhase, Kind, Return, NoCall
  <2>3. CASE call' = [call EXCEPT ![c].pc = "wake", ![c].at = None]
    BY <2>3, ZenonT(30) DEF CallsTyped, CallRecord, CallPhase
  <2>4. CASE \E pc \in {"detach", "rewake"}, t \in {client, None} :
                call' = [call EXCEPT ![c].pc = pc, ![c].at = t]
    <3>1. PICK pc \in {"detach", "rewake"}, t \in {client, None} :
                 call' = [call EXCEPT ![c].pc = pc, ![c].at = t]
      BY <2>4
    <3>2. pc \in CallPhase /\ t \in Session \cup {None} /\ 0 \in Nat
      BY <2>1, Bounds
    <3> QED
      BY <3>1, <3>2, CallEdit DEF CallsTyped
  <2> QED
    BY <1>11, <2>2, <2>3, <2>4 DEF MissClient
<1>12. ASSUME NEW c \in Caller, WakeReconnect(c) PROVE CallsTyped'
  BY <1>12 DEF CallsTyped, CallRecord, CallPhase, Kind, Goto, WakeReconnect
<1>13. ASSUME NEW c \in Caller, StateChanged(c) PROVE CallsTyped'
  BY <1>13 DEF CallsTyped, CallRecord, CallPhase, Kind, StateChanged
<1>14. ASSUME NEW c \in Caller, Send(c) PROVE CallsTyped'
  <2> DEFINE m == CHOOSE m \in FreshNumbers(c) : TRUE
  <2>1. m \in 1 .. MaxRequests
    BY <1>14 DEF Send, FreshNumbers
  <2>2. call' = [call EXCEPT ![c].pc = "sent", ![c].n = m, ![c].answer = None]
    BY <1>14 DEF Send
  <2> HIDE DEF m
  <2>3. m \in Nat /\ "sent" \in CallPhase /\ None \in Session \cup {None}
    BY <2>1, Bounds
  <2> QED
    BY <2>2, <2>3, CallEdit DEF CallsTyped
<1>15. ASSUME NEW c \in Caller, Receive(c) PROVE CallsTyped'
  BY <1>15 DEF CallsTyped, CallRecord, CallPhase, Kind, Return, NoCall, Receive
<1>16. ASSUME NEW c \in Caller, Fail(c) PROVE CallsTyped'
  BY <1>16 DEF CallsTyped, CallRecord, CallPhase, Kind, Return, NoCall, Fail
<1>17. ASSUME NEW c \in Caller, DetachClient(c) PROVE CallsTyped'
  <2> DEFINE next == [call EXCEPT ![c].pc = "rewake", ![c].at = None, ![c].n = 0]
  <2>1. next \in [Caller -> CallRecord]
    BY RewakeEdit
  <2>2. call' = next \/ call' = Signal(next)
    BY <1>17 DEF DetachClient
  <2> HIDE DEF next
  <2> QED
    BY <2>1, <2>2, SignalEffect DEF CallsTyped
<1>18. ASSUME NEW c \in Caller, Rewake(c) PROVE CallsTyped'
  BY <1>18 DEF CallsTyped, CallRecord, CallPhase, Kind, Return, NoCall, Rewake
<1>19. ASSUME NEW c \in Caller, Timeout(c) PROVE CallsTyped'
  <2>1. CASE call' = Return(c)
    BY <2>1 DEF CallsTyped, CallRecord, CallPhase, Kind, Return, NoCall
  <2>2. CASE call' = [call EXCEPT ![c].pc = "look", ![c].at = None, ![c].n = 0]
    <3>1. "look" \in CallPhase /\ None \in Session \cup {None} /\ 0 \in Nat
      BY Bounds
    <3> QED
      BY <2>2, <3>1, CallEdit DEF CallsTyped
  <2>3. CASE call' = [call EXCEPT ![c].pc = "detach"]
    BY <2>3 DEF CallsTyped, CallRecord, CallPhase
  <2> QED
    BY <1>19, <2>1, <2>2, <2>3 DEF Timeout
<1>20. ASSUME NEW c \in Caller, ContextDone(c) PROVE CallsTyped'
  BY <1>20 DEF CallsTyped, CallRecord, CallPhase, Kind, Return, NoCall, ContextDone
<1>21. CASE TipPull
  BY <1>21 DEF CallsTyped, CallRecord, CallPhase, Kind, NoCall, TipPull
<1>22. ASSUME NEW c \in Caller, NEW k \in Kind, Begin(c, k) PROVE CallsTyped'
  BY <1>22 DEF CallsTyped, CallRecord, CallPhase, Kind, NoCall, Begin
<1>23. CASE UNCHANGED vars
  BY <1>23 DEF CallsTyped, CallRecord, CallPhase, Kind, vars, networkVars, loopVars, sessionVars
<1> QED
  BY <1>1, <1>2, <1>3, <1>4, <1>5, <1>6, <1>7, <1>8, <1>9, <1>10, <1>11, <1>12, <1>13, <1>14,
     <1>15, <1>16, <1>17, <1>18, <1>19, <1>20, <1>21, <1>22, <1>23 DEF Next, LoopStep,
     SessionStep, CallStep

\* A step keeps the type of the network and of its loop.
LEMMA NetworkStep ==
  ASSUME TypeOK, [Next]_vars PROVE NetworkTyped'
<1> USE DEF TypeOK
<1>1. CASE StopReturn \/ NewBlock
  BY <1>1, SMTT(30) DEF NetworkTyped, LoopRecord, LoopPhase, networkVars, loopVars, sessionVars,
     LoopAt, StopReturn, NewBlock
<1>2. ASSUME NEW s \in Session, ConnectionLost(s) \/ ServerAnswers(s) \/ Read(s) \/ ReadUnblocks(s) \/ HandleNotification(s) \/ EnqueueSPVHeader(s) \/ NotificationLoopEnds(s) PROVE NetworkTyped'
  BY <1>2, SMTT(30) DEF NetworkTyped, LoopRecord, LoopPhase, networkVars, loopVars, sessionVars,
     ConnectionLost, ServerAnswers, Read, ReadUnblocks, HandleNotification, EnqueueSPVHeader,
     NotificationLoopEnds
<1>3. CASE Start
  BY <1>3 DEF NetworkTyped, LoopRecord, LoopPhase, networkVars, loopVars, sessionVars, Start
<1>4. CASE ParentDone
  BY <1>4 DEF NetworkTyped, LoopRecord, LoopPhase, networkVars, loopVars, sessionVars, ParentDone
<1>5. CASE StopBegin
  BY <1>5 DEF NetworkTyped, LoopRecord, LoopPhase, networkVars, loopVars, sessionVars, StopBegin
<1>6. CASE StopClose
  BY <1>6 DEF NetworkTyped, LoopRecord, LoopPhase, networkVars, loopVars, sessionVars, StopClose
<1>7. CASE LoopDelay
  BY <1>7 DEF NetworkTyped, LoopRecord, LoopPhase, networkVars, loopVars, sessionVars, LoopAt,
     LoopDelay
<1>8. CASE LoopCancelled
  BY <1>8 DEF NetworkTyped, LoopRecord, LoopPhase, networkVars, loopVars, sessionVars, LoopAt,
     LoopCancelled
<1>9. CASE ConnectFails
  BY <1>9 DEF NetworkTyped, LoopRecord, LoopPhase, networkVars, loopVars, sessionVars, LoopAt,
     ConnectFails
<1>10. CASE Dial
  <2> DEFINE t == CHOOSE t \in Session : Unused(t)
  <2>1. t \in Session /\ loop' = [loop EXCEPT !.pc = "dialed", !.at = t]
    BY <1>10 DEF Dial
  <2> QED
    BY <1>10, <2>1 DEF Dial, NetworkTyped, LoopRecord, LoopPhase, networkVars
<1>11. CASE SetConnecting
  BY <1>11 DEF NetworkTyped, LoopRecord, LoopPhase, networkVars, loopVars, sessionVars, LoopAt,
     SetConnecting
<1>12. CASE HandshakeOk
  BY <1>12 DEF NetworkTyped, LoopRecord, LoopPhase, networkVars, loopVars, sessionVars, LoopAt,
     HandshakeOk
<1>13. CASE HandshakeFails
  BY <1>13 DEF NetworkTyped, LoopRecord, LoopPhase, networkVars, loopVars, sessionVars, LoopAt,
     HandshakeFails
<1>14. CASE Publish
  BY <1>14 DEF NetworkTyped, LoopRecord, LoopPhase, networkVars, loopVars, sessionVars, LoopAt,
     Publish
<1>15. CASE Drain
  BY <1>15 DEF NetworkTyped, LoopRecord, LoopPhase, networkVars, loopVars, sessionVars, LoopAt,
     Drain
<1>16. CASE SessionEnds
  BY <1>16 DEF NetworkTyped, LoopRecord, LoopPhase, networkVars, loopVars, sessionVars, LoopAt,
     SessionEnds
<1>17. CASE SessionWoken
  BY <1>17 DEF NetworkTyped, LoopRecord, LoopPhase, networkVars, loopVars, sessionVars, LoopAt,
     SessionWoken
<1>18. CASE SessionClose
  BY <1>18 DEF NetworkTyped, LoopRecord, LoopPhase, networkVars, loopVars, sessionVars, LoopAt,
     SessionClose
<1>19. CASE SessionDetach
  BY <1>19 DEF NetworkTyped, LoopRecord, LoopPhase, networkVars, loopVars, sessionVars, LoopAt,
     SessionDetach
<1>20. CASE FinishRun
  BY <1>20 DEF NetworkTyped, LoopRecord, LoopPhase, networkVars, loopVars, sessionVars, LoopAt,
     FinishRun
<1>21. CASE KeepaliveTimeout
  BY <1>21 DEF NetworkTyped, LoopRecord, LoopPhase, networkVars, loopVars, sessionVars,
     KeepaliveTimeout
<1>22. CASE KeepaliveStuck
  BY <1>22 DEF NetworkTyped, LoopRecord, LoopPhase, networkVars, loopVars, sessionVars,
     KeepaliveStuck
<1>23. ASSUME NEW c \in Caller, WakeReconnect(c) PROVE NetworkTyped'
  BY <1>23 DEF NetworkTyped, LoopRecord, LoopPhase, networkVars, loopVars, sessionVars,
     WakeReconnect
<1>24. ASSUME NEW c \in Caller, Send(c) PROVE NetworkTyped'
  BY <1>24, ZenonT(30) DEF NetworkTyped, LoopRecord, LoopPhase, networkVars, loopVars, sessionVars, Send
<1>25. ASSUME NEW c \in Caller, DetachClient(c) PROVE NetworkTyped'
  BY <1>25 DEF NetworkTyped, LoopRecord, LoopPhase, networkVars, loopVars, sessionVars,
     DetachClient
<1>26. ASSUME NEW c \in Caller, Rewake(c) PROVE NetworkTyped'
  BY <1>26 DEF NetworkTyped, LoopRecord, LoopPhase, networkVars, loopVars, sessionVars, Rewake
<1>27. ASSUME NEW c \in Caller, FindClient(c) \/ MissClient(c) \/ StateChanged(c) \/ Receive(c) \/ Fail(c)
             \/ Timeout(c) \/ ContextDone(c) \/ TipPull \/ (\E k \in Kind : Begin(c, k)) PROVE NetworkTyped'
  BY <1>27, Quiet DEF NetworkTyped, LoopRecord, LoopPhase, networkVars, loopVars, sessionVars
<1>28. CASE UNCHANGED vars
  BY <1>28 DEF NetworkTyped, LoopRecord, LoopPhase, vars, networkVars, loopVars, sessionVars
<1> QED
  BY <1>1, <1>2, <1>3, <1>4, <1>5, <1>6, <1>7, <1>8, <1>9, <1>10, <1>11, <1>12, <1>13, <1>14,
     <1>15, <1>16, <1>17, <1>18, <1>19, <1>20, <1>21, <1>22, <1>23, <1>24, <1>25, <1>26, <1>27,
     <1>28 DEF Next, LoopStep, SessionStep, CallStep

\* A step keeps the type of the sessions: what is on the wire answers a request.
LEMMA SessionsStep ==
  ASSUME TypeOK, [Next]_vars PROVE SessionsTyped'
<1> USE DEF TypeOK
<1>1. CASE \/ Start \/ ParentDone \/ StopBegin \/ StopReturn \/ LoopDelay \/ LoopCancelled \/ ConnectFails
             \/ SetConnecting \/ HandshakeOk \/ Drain \/ SessionEnds \/ SessionWoken \/ SessionDetach \/ KeepaliveTimeout
             \/ KeepaliveStuck
  BY <1>1, SMTT(30) DEF SessionsTyped, networkVars, loopVars, sessionVars, LoopAt, Start,
     ParentDone, StopBegin, StopReturn, LoopDelay, LoopCancelled, ConnectFails, SetConnecting,
     HandshakeOk, Drain, SessionEnds, SessionWoken, SessionDetach, KeepaliveTimeout,
     KeepaliveStuck
<1>2. ASSUME NEW s \in Session, ReadUnblocks(s) \/ HandleNotification(s) \/ EnqueueSPVHeader(s) \/ NotificationLoopEnds(s) PROVE SessionsTyped'
  BY <1>2, SMTT(30) DEF SessionsTyped, networkVars, loopVars, sessionVars, ReadUnblocks,
     HandleNotification, EnqueueSPVHeader, NotificationLoopEnds
<1>3. CASE StopClose
  BY <1>3, ShutdownEffect DEF Close, StopClose
<1>4. CASE Dial
  <2> DEFINE t == CHOOSE t \in Session : Unused(t)
  <2>1. t \in Session /\ open' = open \cup {t} /\ UNCHANGED <<wire, requests>>
    BY <1>4 DEF Dial
  <2> QED
    BY <2>1 DEF SessionsTyped
<1>5. CASE HandshakeFails
  BY <1>5, ShutdownEffect DEF Close, HandshakeFails
<1>6. CASE Publish
  BY <1>6, ShutdownEffect DEF SessionsTyped, sessionVars, Close, Publish
<1>7. CASE SessionClose
  BY <1>7, ShutdownEffect DEF Close, SessionClose
<1>8. CASE FinishRun
  BY <1>8, ShutdownEffect DEF Close, FinishRun
<1>9. CASE NewBlock
  <2>1. \A t \in Session : Append(wire[t], Note) \in Seq(Message)
    BY DEF SessionsTyped, Message
  <2> QED
    BY <1>9, <2>1 DEF SessionsTyped, NewBlock
<1>10. ASSUME NEW s \in Session, ConnectionLost(s) PROVE SessionsTyped'
  BY <1>10, ShutdownEffect DEF Close, ConnectionLost
<1>11. ASSUME NEW s \in Session, ServerAnswers(s) PROVE SessionsTyped'
  <2>1. PICK r \in requests[s] :
          /\ requests' = [requests EXCEPT ![s] = requests[s] \ {r}]
          /\ wire' = [wire EXCEPT ![s] = Append(wire[s], Answer(r[1], r[2]))]
    BY <1>11 DEF ServerAnswers
  <2>2. Answer(r[1], r[2]) \in Message
    BY DEF SessionsTyped, Posted, Message
  <2>3. Append(wire[s], Answer(r[1], r[2])) \in Seq(Message)
    BY <2>2 DEF SessionsTyped
  <2>4. open' = open
    BY <1>11 DEF ServerAnswers
  <2> QED
    BY <2>1, <2>3, <2>4 DEF SessionsTyped
<1>12. ASSUME NEW s \in Session, Read(s) PROVE SessionsTyped'
  <2>1. wire' = [wire EXCEPT ![s] = Tail(wire[s])] /\ wire[s] # <<>> /\ UNCHANGED <<open, requests>>
    BY <1>12 DEF Read
  <2>2. Tail(wire[s]) \in Seq(Message)
    BY <2>1 DEF SessionsTyped
  <2> QED
    BY <2>1, <2>2 DEF SessionsTyped
<1>13. ASSUME NEW c \in Caller, Send(c) PROVE SessionsTyped'
  <2> DEFINE m == CHOOSE m \in FreshNumbers(c) : TRUE
             t == call[c].at
  <2>1. m \in 1 .. MaxRequests
    BY <1>13 DEF Send, FreshNumbers
  <2>2. /\ requests' = [requests EXCEPT ![t] = requests[t] \cup {<<RequestId(c, m), <<c, m>>>>}]
        /\ UNCHANGED <<open, wire>>
    BY <1>13 DEF Send
  <2>3. <<RequestId(c, m), <<c, m>>>> \in Posted
    <3> HIDE DEF m
    <3>1. <<c, m>> \in Request
      BY <2>1 DEF Request
    <3> QED
      BY <3>1 DEF RequestId, Posted
  <2> HIDE DEF m, t
  <2> QED
    BY <2>2, <2>3 DEF SessionsTyped
<1>14. ASSUME NEW c \in Caller, DetachClient(c) PROVE SessionsTyped'
  BY <1>14, ShutdownEffect DEF Close, DetachClient
<1>15. ASSUME NEW c \in Caller, FindClient(c) \/ MissClient(c) \/ WakeReconnect(c) \/ StateChanged(c) \/ Receive(c)
             \/ Fail(c) \/ Rewake(c) \/ Timeout(c) \/ ContextDone(c) \/ TipPull \/ (\E k \in Kind : Begin(c, k)) PROVE SessionsTyped'
  BY <1>15, Quiet, SMTT(30) DEF SessionsTyped, networkVars, loopVars, sessionVars, WakeReconnect,
     Rewake
<1>16. CASE UNCHANGED vars
  BY <1>16 DEF SessionsTyped, vars, networkVars, loopVars, sessionVars
<1> QED
  BY <1>1, <1>2, <1>3, <1>4, <1>5, <1>6, <1>7, <1>8, <1>9, <1>10, <1>11, <1>12, <1>13, <1>14,
     <1>15, <1>16 DEF Next, LoopStep, SessionStep, CallStep

\* A step keeps the response channels right.
LEMMA AnswerStep ==
  ASSUME TypeOK, AnswerInv, [Next]_vars PROVE AnswerInv'
<1> USE DEF TypeOK
<1>1. CASE \/ ParentDone \/ StopClose \/ StopReturn \/ LoopDelay \/ LoopCancelled \/ ConnectFails \/ Dial
             \/ SetConnecting \/ HandshakeOk \/ HandshakeFails \/ Drain \/ SessionEnds \/ SessionWoken \/ SessionClose
             \/ KeepaliveTimeout \/ KeepaliveStuck \/ NewBlock
  BY <1>1, SMTT(30) DEF CallsTyped, CallRecord, AnswerInv, networkVars, loopVars, sessionVars,
     LoopAt, ParentDone, StopClose, StopReturn, LoopDelay, LoopCancelled, ConnectFails, Dial,
     SetConnecting, HandshakeOk, HandshakeFails, Drain, SessionEnds, SessionWoken, SessionClose,
     KeepaliveTimeout, KeepaliveStuck, NewBlock
<1>2. ASSUME NEW s \in Session, ConnectionLost(s) \/ ServerAnswers(s) \/ ReadUnblocks(s) \/ EnqueueSPVHeader(s) \/ NotificationLoopEnds(s) PROVE AnswerInv'
  BY <1>2, SMTT(30) DEF CallsTyped, CallRecord, AnswerInv, networkVars, loopVars, sessionVars,
     ConnectionLost, ServerAnswers, ReadUnblocks, EnqueueSPVHeader, NotificationLoopEnds
<1>3. CASE Start
  BY <1>3, SignalEffect DEF CallsTyped, AnswerInv, Start
<1>4. CASE StopBegin
  BY <1>4, SignalEffect DEF CallsTyped, AnswerInv, StopBegin
<1>5. CASE Publish
  BY <1>5, SignalEffect DEF CallsTyped, AnswerInv, Publish
<1>6. CASE SessionDetach
  BY <1>6, SignalEffect DEF CallsTyped, AnswerInv, SessionDetach
<1>7. CASE FinishRun
  BY <1>7, SignalEffect DEF CallsTyped, AnswerInv, FinishRun
<1>8. ASSUME NEW s \in Session, Read(s) PROVE AnswerInv'
  <2>1. CASE UNCHANGED call
    BY <2>1 DEF AnswerInv
  <2>2. CASE Head(wire[s]) # Note /\ Deliver(s, Head(wire[s]))
    <3>1. Head(wire[s]) \in Message
      BY <1>8 DEF Read, SessionsTyped
    <3>2. Head(wire[s]).of = Head(wire[s]).id
      BY <3>1, <2>2 DEF Message, Answer
    <3>3. SUFFICES ASSUME NEW c \in Caller, call'[c].answer # None
                   PROVE  call'[c].pc = "sent" /\ call'[c].answer = <<c, call'[c].n>>
      BY DEF AnswerInv
    <3>4. CASE call'[c] = call[c]
      BY <3>3, <3>4 DEF AnswerInv
    <3>5. CASE /\ call[c].pc = "sent" /\ Head(wire[s]).id = RequestId(c, call[c].n)
               /\ call'[c] = [call[c] EXCEPT !.answer = Head(wire[s]).of]
      BY <3>2, <3>5 DEF CallsTyped, CallRecord, RequestId
    <3> QED
      BY <2>2, <3>4, <3>5 DEF Deliver
  <2> QED
    BY <1>8, <2>1, <2>2 DEF Read
<1>9. ASSUME NEW s \in Session, HandleNotification(s) PROVE AnswerInv'
  BY <1>9, SignalEffect DEF CallsTyped, AnswerInv, HandleNotification
<1>10. ASSUME NEW c \in Caller, FindClient(c) PROVE AnswerInv'
  BY <1>10 DEF CallsTyped, CallRecord, AnswerInv, networkVars, loopVars, sessionVars,
     NetworkTyped, FindClient
<1>11. ASSUME NEW c \in Caller, MissClient(c) PROVE AnswerInv'
  BY <1>11 DEF CallsTyped, CallRecord, AnswerInv, networkVars, loopVars, sessionVars, Return,
     NoCall, NetworkTyped, MissClient
<1>12. ASSUME NEW c \in Caller, WakeReconnect(c) PROVE AnswerInv'
  BY <1>12 DEF CallsTyped, CallRecord, AnswerInv, networkVars, loopVars, sessionVars, Goto,
     WakeReconnect
<1>13. ASSUME NEW c \in Caller, StateChanged(c) PROVE AnswerInv'
  BY <1>13 DEF CallsTyped, CallRecord, AnswerInv, networkVars, loopVars, sessionVars, StateChanged
<1>14. ASSUME NEW c \in Caller, Send(c) PROVE AnswerInv'
  <2> DEFINE m == CHOOSE m \in FreshNumbers(c) : TRUE
  <2>1. call' = [call EXCEPT ![c].pc = "sent", ![c].n = m, ![c].answer = None]
    BY <1>14 DEF Send
  <2> HIDE DEF m
  <2> QED
    BY <2>1 DEF CallsTyped, CallRecord, AnswerInv
<1>15. ASSUME NEW c \in Caller, Receive(c) PROVE AnswerInv'
  BY <1>15 DEF CallsTyped, CallRecord, AnswerInv, networkVars, loopVars, sessionVars, Return,
     NoCall, Receive
<1>16. ASSUME NEW c \in Caller, Fail(c) PROVE AnswerInv'
  BY <1>16 DEF CallsTyped, CallRecord, AnswerInv, networkVars, loopVars, sessionVars, Return,
     NoCall, Fail
<1>17. ASSUME NEW c \in Caller, DetachClient(c) PROVE AnswerInv'
  <2> DEFINE next == [call EXCEPT ![c].pc = "rewake", ![c].at = None, ![c].n = 0]
  <2>1. next \in [Caller -> CallRecord]
    BY RewakeEdit
  <2>2. /\ call[c].pc = "detach"
        /\ call' = next \/ call' = Signal(next)
    BY <1>17 DEF DetachClient
  <2>3. /\ next[c].pc = "rewake" /\ next[c].answer = call[c].answer
        /\ \A d \in Caller \ {c} : next[d] = call[d]
    BY RewakeEdit
  <2> HIDE DEF next
  <2>4. call[c].answer = None
    BY <2>2 DEF AnswerInv
  <2>5. \A d \in Caller : next[d].answer # None =>
            next[d].pc = "sent" /\ next[d].answer = <<d, next[d].n>>
    BY <2>3, <2>4 DEF AnswerInv
  <2> QED
    BY <2>1, <2>2, <2>5, SignalEffect DEF AnswerInv
<1>18. ASSUME NEW c \in Caller, Rewake(c) PROVE AnswerInv'
  BY <1>18 DEF CallsTyped, CallRecord, AnswerInv, networkVars, loopVars, sessionVars, Return,
     NoCall, Rewake
<1>19. ASSUME NEW c \in Caller, Timeout(c) PROVE AnswerInv'
  BY <1>19 DEF CallsTyped, CallRecord, AnswerInv, networkVars, loopVars, sessionVars, Return,
     NoCall, Timeout
<1>20. ASSUME NEW c \in Caller, ContextDone(c) PROVE AnswerInv'
  BY <1>20 DEF CallsTyped, CallRecord, AnswerInv, networkVars, loopVars, sessionVars, Return,
     NoCall, ContextDone
<1>21. CASE TipPull
  BY <1>21 DEF CallsTyped, CallRecord, AnswerInv, networkVars, loopVars, sessionVars, NoCall,
     TipPull
<1>22. ASSUME NEW c \in Caller, NEW k \in Kind, Begin(c, k) PROVE AnswerInv'
  BY <1>22 DEF CallsTyped, CallRecord, AnswerInv, networkVars, loopVars, sessionVars, NoCall,
     Begin
<1>23. CASE UNCHANGED vars
  BY <1>23 DEF CallsTyped, CallRecord, AnswerInv, vars, networkVars, loopVars, sessionVars
<1> QED
  BY <1>1, <1>2, <1>3, <1>4, <1>5, <1>6, <1>7, <1>8, <1>9, <1>10, <1>11, <1>12, <1>13, <1>14,
     <1>15, <1>16, <1>17, <1>18, <1>19, <1>20, <1>21, <1>22, <1>23 DEF Next, LoopStep,
     SessionStep, CallStep

\* A step keeps the session with the loop that works on it.
LEMMA LifeStep ==
  ASSUME TypeOK, LifeInv, [Next]_vars PROVE LifeInv'
<1> USE DEF TypeOK
<1>1. CASE ParentDone \/ StopReturn \/ KeepaliveTimeout \/ KeepaliveStuck \/ NewBlock
  BY <1>1, SMTT(30) DEF LifeInv, Closed, NetworkTyped, LoopRecord, networkVars, loopVars,
     sessionVars, LoopAt, ParentDone, StopReturn, KeepaliveTimeout, KeepaliveStuck, NewBlock
<1>2. ASSUME NEW s \in Session, ServerAnswers(s) \/ Read(s) \/ ReadUnblocks(s) \/ HandleNotification(s) \/ EnqueueSPVHeader(s) \/ NotificationLoopEnds(s) PROVE LifeInv'
  BY <1>2, SMTT(30) DEF LifeInv, Closed, NetworkTyped, LoopRecord, networkVars, loopVars,
     sessionVars, ServerAnswers, Read, ReadUnblocks, HandleNotification, EnqueueSPVHeader,
     NotificationLoopEnds
<1>3. CASE Start
  BY <1>3 DEF LifeInv, Closed, NetworkTyped, LoopRecord, networkVars, loopVars, sessionVars, Start
<1>4. CASE StopBegin
  BY <1>4 DEF LifeInv, Closed, NetworkTyped, LoopRecord, networkVars, loopVars, sessionVars,
     StopBegin
<1>5. CASE StopClose
  BY <1>5, ShutdownEffect, Bounds DEF LifeInv, Closed, NetworkTyped, SessionsTyped, LoopRecord,
     sessionVars, loopVars, networkVars, LoopAt, Close, StopClose
<1>6. CASE LoopDelay
  BY <1>6 DEF LifeInv, Closed, NetworkTyped, LoopRecord, networkVars, loopVars, sessionVars,
     LoopAt, LoopDelay
<1>7. CASE LoopCancelled
  BY <1>7 DEF LifeInv, Closed, NetworkTyped, LoopRecord, networkVars, loopVars, sessionVars,
     LoopAt, LoopCancelled
<1>8. CASE ConnectFails
  BY <1>8 DEF LifeInv, Closed, NetworkTyped, LoopRecord, networkVars, loopVars, sessionVars,
     LoopAt, ConnectFails
<1>9. CASE Dial
  <2> DEFINE t == CHOOSE t \in Session : Unused(t)
  <2>1. /\ loop.pc = "connect" /\ open' = open \cup {t}
        /\ loop' = [loop EXCEPT !.pc = "dialed", !.at = t] /\ UNCHANGED networkVars
    BY <1>9 DEF Dial
  <2> HIDE DEF t
  <2> QED
    BY <2>1 DEF LifeInv, Closed, NetworkTyped, LoopRecord, networkVars
<1>10. CASE SetConnecting
  BY <1>10 DEF LifeInv, Closed, NetworkTyped, LoopRecord, networkVars, loopVars, sessionVars,
     LoopAt, SetConnecting
<1>11. CASE HandshakeOk
  BY <1>11 DEF LifeInv, Closed, NetworkTyped, LoopRecord, networkVars, loopVars, sessionVars,
     LoopAt, HandshakeOk
<1>12. CASE HandshakeFails
  <2>1. open' = {}
    <3>1. Shutdown({loop.at} \ {None}, FALSE) /\ open \subseteq {loop.at} /\ None \notin open
      BY <1>12, Bounds DEF LifeInv, SessionsTyped, Close, HandshakeFails
    <3>2. open' = open \ ({loop.at} \ {None})
      BY <3>1, ShutdownEffect
    <3> QED
      BY <3>1, <3>2
  <2> QED
    BY <1>12, <2>1 DEF LifeInv, NetworkTyped, LoopRecord, networkVars, LoopAt, HandshakeFails
<1>13. CASE Publish
  <2>1. CASE running /\ ~cancelled
    BY <1>13, <2>1 DEF LifeInv, Closed, NetworkTyped, LoopRecord, sessionVars, LoopAt, Publish
  <2>2. CASE ~(running /\ ~cancelled)
    <3>1. open' = {}
      <4>1. Shutdown({loop.at} \ {None}, FALSE) /\ open \subseteq {loop.at} /\ None \notin open
        BY <1>13, <2>2, Bounds DEF LifeInv, SessionsTyped, Close, Publish
      <4>2. open' = open \ ({loop.at} \ {None})
        BY <4>1, ShutdownEffect
      <4> QED
        BY <4>1, <4>2
    <3> QED
      BY <1>13, <2>2, <3>1 DEF LifeInv, NetworkTyped, LoopRecord, LoopAt, Publish
  <2> QED
    BY <2>1, <2>2
<1>14. CASE Drain
  BY <1>14 DEF LifeInv, Closed, NetworkTyped, LoopRecord, networkVars, loopVars, sessionVars,
     LoopAt, Drain
<1>15. CASE SessionEnds
  BY <1>15 DEF LifeInv, Closed, NetworkTyped, LoopRecord, networkVars, loopVars, sessionVars,
     LoopAt, SessionEnds
<1>16. CASE SessionWoken
  BY <1>16 DEF LifeInv, Closed, NetworkTyped, LoopRecord, networkVars, loopVars, sessionVars,
     LoopAt, SessionWoken
<1>17. CASE SessionClose
  <2>1. open' = {}
    <3>1. Shutdown({loop.at} \ {None}, FALSE) /\ open \subseteq {loop.at} /\ None \notin open
      BY <1>17, Bounds DEF LifeInv, SessionsTyped, Close, SessionClose
    <3>2. open' = open \ ({loop.at} \ {None})
      BY <3>1, ShutdownEffect
    <3> QED
      BY <3>1, <3>2
  <2> QED
    BY <1>17, <2>1 DEF LifeInv, NetworkTyped, LoopRecord, networkVars, LoopAt, SessionClose
<1>18. CASE SessionDetach
  BY <1>18 DEF LifeInv, Closed, NetworkTyped, LoopRecord, networkVars, loopVars, sessionVars,
     LoopAt, SessionDetach
<1>19. CASE FinishRun
  BY <1>19, ShutdownEffect, Bounds DEF LifeInv, Closed, NetworkTyped, SessionsTyped, LoopRecord,
     sessionVars, loopVars, networkVars, LoopAt, Close, FinishRun
<1>20. ASSUME NEW s \in Session, ConnectionLost(s) PROVE LifeInv'
  BY <1>20, ShutdownEffect, Bounds DEF LifeInv, Closed, NetworkTyped, SessionsTyped, LoopRecord,
     sessionVars, loopVars, networkVars, LoopAt, Close, ConnectionLost
<1>21. ASSUME NEW c \in Caller, Send(c) PROVE LifeInv'
  BY <1>21 DEF LifeInv, Closed, NetworkTyped, LoopRecord, networkVars, loopVars, sessionVars, Send
<1>22. ASSUME NEW c \in Caller, DetachClient(c) PROVE LifeInv'
  BY <1>22, ShutdownEffect, Bounds DEF LifeInv, Closed, NetworkTyped, SessionsTyped, LoopRecord,
     sessionVars, loopVars, networkVars, LoopAt, Close, DetachClient
<1>23. ASSUME NEW c \in Caller, FindClient(c) \/ MissClient(c) \/ WakeReconnect(c) \/ StateChanged(c) \/ Receive(c)
             \/ Fail(c) \/ Rewake(c) \/ Timeout(c) \/ ContextDone(c) \/ TipPull \/ (\E k \in Kind : Begin(c, k)) PROVE LifeInv'
  BY <1>23, Quiet, SMTT(30) DEF LifeInv, Closed, NetworkTyped, LoopRecord, networkVars, loopVars,
     sessionVars, WakeReconnect, Rewake
<1>24. CASE UNCHANGED vars
  BY <1>24 DEF LifeInv, Closed, NetworkTyped, LoopRecord, vars, networkVars, loopVars, sessionVars
<1> QED
  BY <1>1, <1>2, <1>3, <1>4, <1>5, <1>6, <1>7, <1>8, <1>9, <1>10, <1>11, <1>12, <1>13, <1>14,
     <1>15, <1>16, <1>17, <1>18, <1>19, <1>20, <1>21, <1>22, <1>23, <1>24 DEF Next, LoopStep,
     SessionStep, CallStep

\* A step strands no waiter: whoever opens or publishes a session tells everybody.
LEMMA WaiterStep ==
  ASSUME TypeOK, NoStrandedWaiter, [Next]_vars PROVE NoStrandedWaiter'
<1> USE DEF TypeOK
<1>1. CASE \/ ParentDone \/ StopReturn \/ LoopDelay \/ LoopCancelled \/ ConnectFails \/ SetConnecting \/ HandshakeOk
             \/ Drain \/ SessionEnds \/ SessionWoken \/ KeepaliveTimeout \/ KeepaliveStuck \/ NewBlock
  BY <1>1, SMTT(30) DEF CallsTyped, CallRecord, NoStrandedWaiter, networkVars, loopVars,
     sessionVars, LoopAt, ParentDone, StopReturn, LoopDelay, LoopCancelled, ConnectFails,
     SetConnecting, HandshakeOk, Drain, SessionEnds, SessionWoken, KeepaliveTimeout,
     KeepaliveStuck, NewBlock
<1>2. ASSUME NEW s \in Session, ServerAnswers(s) \/ ReadUnblocks(s) \/ EnqueueSPVHeader(s) \/ NotificationLoopEnds(s) PROVE NoStrandedWaiter'
  BY <1>2, SMTT(30) DEF CallsTyped, CallRecord, NoStrandedWaiter, networkVars, loopVars,
     sessionVars, ServerAnswers, ReadUnblocks, EnqueueSPVHeader, NotificationLoopEnds
<1>3. CASE Start
  BY <1>3, SignalEffect DEF CallsTyped, NoStrandedWaiter, Start
<1>4. CASE StopBegin
  BY <1>4, SignalEffect DEF CallsTyped, NoStrandedWaiter, StopBegin
<1>5. CASE StopClose
  <2>1. UNCHANGED <<running, client, call>> /\ open' \subseteq open
    BY <1>5, ShutdownEffect DEF Close, networkVars, StopClose
  <2> QED
    BY <2>1 DEF NoStrandedWaiter
<1>6. CASE Dial
  <2> DEFINE t == CHOOSE t \in Session : Unused(t)
  <2>1. Unused(t) /\ open' = open \cup {t} /\ UNCHANGED <<running, client, call>>
    BY <1>6 DEF Dial, networkVars
  <2>2. client # t
    BY <2>1 DEF Unused
  <2> HIDE DEF t
  <2> QED
    BY <2>1, <2>2 DEF NoStrandedWaiter
<1>7. CASE HandshakeFails
  <2>1. UNCHANGED <<running, client, call>> /\ open' \subseteq open
    BY <1>7, ShutdownEffect DEF Close, networkVars, HandshakeFails
  <2> QED
    BY <2>1 DEF NoStrandedWaiter
<1>8. CASE Publish
  <2>1. CASE call' = Signal(call)
    BY <2>1, SignalEffect DEF CallsTyped, NoStrandedWaiter
  <2>2. CASE UNCHANGED <<running, client, call>> /\ open' \subseteq open
    BY <2>2 DEF NoStrandedWaiter
  <2> QED
    BY <1>8, <2>1, <2>2, ShutdownEffect DEF Publish, Close
<1>9. CASE SessionClose
  <2>1. UNCHANGED <<running, client, call>> /\ open' \subseteq open
    BY <1>9, ShutdownEffect DEF Close, networkVars, SessionClose
  <2> QED
    BY <2>1 DEF NoStrandedWaiter
<1>10. CASE SessionDetach
  <2>1. UNCHANGED <<running, open>> /\ (UNCHANGED <<call, client>> \/ call' = Signal(call))
    BY <1>10 DEF SessionDetach, sessionVars
  <2> QED
    BY <2>1, SignalEffect DEF CallsTyped, NoStrandedWaiter
<1>11. CASE FinishRun
  BY <1>11, SignalEffect DEF CallsTyped, NoStrandedWaiter, FinishRun
<1>12. ASSUME NEW s \in Session, ConnectionLost(s) PROVE NoStrandedWaiter'
  <2>1. UNCHANGED <<running, client, call>> /\ open' \subseteq open
    BY <1>12, ShutdownEffect DEF Close, networkVars, ConnectionLost
  <2> QED
    BY <2>1 DEF NoStrandedWaiter
<1>13. ASSUME NEW s \in Session, Read(s) PROVE NoStrandedWaiter'
  <2>1. UNCHANGED <<running, client, open>>
    BY <1>13 DEF Read, networkVars
  <2>2. \A c \in Caller : call'[c].pc = call[c].pc /\ call'[c].changed = call[c].changed
    BY <1>13 DEF Read, Deliver, CallsTyped, CallRecord
  <2> QED
    BY <2>1, <2>2 DEF NoStrandedWaiter
<1>14. ASSUME NEW s \in Session, HandleNotification(s) PROVE NoStrandedWaiter'
  <2>1. UNCHANGED <<running, client, open>> /\ (UNCHANGED call \/ call' = Signal(call))
    BY <1>14 DEF HandleNotification, networkVars
  <2> QED
    BY <2>1, SignalEffect DEF CallsTyped, NoStrandedWaiter
<1>15. ASSUME NEW c \in Caller, FindClient(c) PROVE NoStrandedWaiter'
  BY <1>15 DEF CallsTyped, CallRecord, NoStrandedWaiter, networkVars, loopVars, sessionVars,
     FindClient
<1>16. ASSUME NEW c \in Caller, MissClient(c) PROVE NoStrandedWaiter'
  BY <1>16 DEF CallsTyped, CallRecord, NoStrandedWaiter, networkVars, loopVars, sessionVars,
     Return, NoCall, MissClient
<1>17. ASSUME NEW c \in Caller, WakeReconnect(c) PROVE NoStrandedWaiter'
  BY <1>17 DEF CallsTyped, CallRecord, NoStrandedWaiter, networkVars, loopVars, sessionVars, Goto,
     WakeReconnect
<1>18. ASSUME NEW c \in Caller, StateChanged(c) PROVE NoStrandedWaiter'
  BY <1>18 DEF CallsTyped, CallRecord, NoStrandedWaiter, networkVars, loopVars, sessionVars,
     StateChanged
<1>19. ASSUME NEW c \in Caller, Send(c) PROVE NoStrandedWaiter'
  <2> DEFINE m == CHOOSE m \in FreshNumbers(c) : TRUE
  <2>1. call' = [call EXCEPT ![c].pc = "sent", ![c].n = m, ![c].answer = None]
    BY <1>19 DEF Send
  <2>2. UNCHANGED <<running, client, open>>
    BY <1>19 DEF Send, networkVars
  <2> HIDE DEF m
  <2> QED
    BY <2>1, <2>2 DEF CallsTyped, CallRecord, NoStrandedWaiter
<1>20. ASSUME NEW c \in Caller, Receive(c) PROVE NoStrandedWaiter'
  BY <1>20 DEF CallsTyped, CallRecord, NoStrandedWaiter, networkVars, loopVars, sessionVars,
     Return, NoCall, Receive
<1>21. ASSUME NEW c \in Caller, Fail(c) PROVE NoStrandedWaiter'
  BY <1>21 DEF CallsTyped, CallRecord, NoStrandedWaiter, networkVars, loopVars, sessionVars,
     Return, NoCall, Fail
<1>22. ASSUME NEW c \in Caller, DetachClient(c) PROVE NoStrandedWaiter'
  <2> DEFINE next == [call EXCEPT ![c].pc = "rewake", ![c].at = None, ![c].n = 0]
  <2>1. next \in [Caller -> CallRecord]
    BY RewakeEdit
  <2>2. \A d \in Caller : next[d].pc \in {"wake", "wait"} => next[d] = call[d]
    BY DEF CallsTyped, CallRecord
  <2>3. UNCHANGED running /\ open' \subseteq open
    BY <1>22, ShutdownEffect DEF DetachClient, Close
  <2>4. (call' = next /\ UNCHANGED client) \/ call' = Signal(next)
    BY <1>22 DEF DetachClient
  <2>5. CASE call' = next /\ UNCHANGED client
    BY <2>2, <2>3, <2>5 DEF NoStrandedWaiter
  <2>6. CASE call' = Signal(next)
    BY <2>1, <2>6, SignalEffect DEF NoStrandedWaiter
  <2> QED
    BY <2>4, <2>5, <2>6
<1>23. ASSUME NEW c \in Caller, Rewake(c) PROVE NoStrandedWaiter'
  BY <1>23 DEF CallsTyped, CallRecord, NoStrandedWaiter, networkVars, loopVars, sessionVars,
     Return, NoCall, Rewake
<1>24. ASSUME NEW c \in Caller, Timeout(c) PROVE NoStrandedWaiter'
  BY <1>24 DEF CallsTyped, CallRecord, NoStrandedWaiter, networkVars, loopVars, sessionVars,
     Return, NoCall, Timeout
<1>25. ASSUME NEW c \in Caller, ContextDone(c) PROVE NoStrandedWaiter'
  BY <1>25 DEF CallsTyped, CallRecord, NoStrandedWaiter, networkVars, loopVars, sessionVars,
     Return, NoCall, ContextDone
<1>26. CASE TipPull
  BY <1>26 DEF CallsTyped, CallRecord, NoStrandedWaiter, networkVars, loopVars, sessionVars,
     NoCall, TipPull
<1>27. ASSUME NEW c \in Caller, NEW k \in Kind, Begin(c, k) PROVE NoStrandedWaiter'
  BY <1>27 DEF CallsTyped, CallRecord, NoStrandedWaiter, networkVars, loopVars, sessionVars,
     NoCall, Begin
<1>28. CASE UNCHANGED vars
  BY <1>28 DEF CallsTyped, CallRecord, NoStrandedWaiter, vars, networkVars, loopVars, sessionVars
<1> QED
  BY <1>1, <1>2, <1>3, <1>4, <1>5, <1>6, <1>7, <1>8, <1>9, <1>10, <1>11, <1>12, <1>13, <1>14,
     <1>15, <1>16, <1>17, <1>18, <1>19, <1>20, <1>21, <1>22, <1>23, <1>24, <1>25, <1>26, <1>27,
     <1>28 DEF Next, LoopStep, SessionStep, CallStep

\* A network that was not started.
LEMMA InitInv == ASSUME Init PROVE IndInv
<1>1. CallsTyped /\ AnswerInv /\ NoStrandedWaiter
  BY DEF Init, NoCall, CallsTyped, CallRecord, CallPhase, Kind, AnswerInv, NoStrandedWaiter
<1>2. NetworkTyped /\ LifeInv
  BY DEF Init, NetworkTyped, LoopRecord, LoopPhase, LifeInv, Closed
<1>3. <<>> \in Seq(Message) /\ {} \in SUBSET Posted
  OBVIOUS
<1>4. SessionsTyped
  BY <1>3 DEF Init, SessionsTyped
<1> QED
  BY <1>1, <1>2, <1>4 DEF IndInv, TypeOK

\* The inductive invariant holds in every state: what runs, waits and is on the wire fits
\* together across reconnections, timeouts, stops and lost connections.
THEOREM Invariance == Spec => []IndInv
<1>1. IndInv /\ [Next]_vars => IndInv'
  BY CallsStep, NetworkStep, SessionsStep, AnswerStep, LifeStep, WaiterStep DEF IndInv, TypeOK
<1> QED
  BY <1>1, InitInv, PTL DEF Spec

\* A call gets the answer to the request it waits for (Client.call, deliver), whatever was
\* given up, repeated, reordered or lost before.
THEOREM AnswerMatchesHolds == Spec => []AnswerMatches
<1>1. IndInv => AnswerMatches
  BY DEF IndInv, AnswerInv, AnswerMatches
<1> QED
  BY <1>1, Invariance, PTL

\* No session stays open behind the one run works on, none outlives the run, and nobody
\* waits for a session that is there (run, publishClient, detachClient, waitForClient).
THEOREM SessionSoundHolds == Spec => []SessionSound
<1>1. IndInv => SessionSound
  BY DEF IndInv, TypeOK, NetworkTyped, LifeInv, Closed, SessionSound, OneSession
<1> QED
  BY <1>1, Invariance, PTL

-----------------------------------------------------------------------------
(* The DHT node.                                                           *)

NodeStates == {"down", "loading", "torn", "running", "stopping", "stopped"}
Up == {"running", "stopping", "stopped"}
JobFields == {"stage", "key", "find", "again", "short", "asked", "replied", "round", "peer",
              "page", "last", "news", "found", "wanted", "acks"}
RpcFields == {"by", "to", "id", "method", "key", "page", "token", "stage", "answer"}
AnswerFields == {"id", "error", "contacts", "token", "providers", "pages", "all"}

Contact == [id : Ids, at : Nodes]

\* The identities that may be found at an address: the first one, and the spare one once a
\* node has taken it.
Believed == FirstContacts \cup {[id |-> SpareId, at |-> n] : n \in {m \in Nodes : ident[m] = SpareId}}

\* Where a set of addresses has been reached.
Reached(addresses) == {c \in Believed : c.at \in addresses}

\* Self has one identity for good, another node at most two, and the spare one is taken once.
IdentInv ==
    /\ ident \in [Nodes -> Ids] /\ ident[Self] = FirstId[Self]
    /\ \A n \in Nodes : ident[n] \in {FirstId[n], SpareId}
    /\ \A n, m \in Nodes : ident[n] = SpareId /\ ident[m] = SpareId => n = m

\* The identity file: never another identity than the first, and that one once Self has run.
FileInv ==
    /\ node \in NodeStates /\ idFile \in {FirstId[Self], Absent, Torn}
    /\ boots \in [Nodes -> Nat] /\ (boots[Self] # 0 => idFile = FirstId[Self])
    /\ node = "loading" => idFile = Absent
    /\ node = "torn" => idFile = Torn
    /\ node \in Up => idFile = FirstId[Self]

\* Announcements of Self carry its identity.
StoredInv ==
    /\ stored \in [Nodes -> SUBSET Announcements]
    /\ \A n \in Nodes : \A a \in stored[n] : a.at = Self => a.id = idFile

\* Routing tables over a set of contacts.
Tables(C) ==
    {rt \in [table : SUBSET C, failures : [Ids -> Nat]] :
        /\ \A c, d \in rt.table : c.at = d.at => c = d
        /\ \A i \in 1 .. Width : Cardinality({c \in rt.table : BucketIndex(c.id) = i}) <= K}

\* The table of Self holds contacts it has reached, and not itself.
Others(addresses) == {c \in Reached(addresses) : c.id # ident[Self]}
TableInv == heard \subseteq Nodes /\ Routing \in Tables(Others(heard))

IdsIn(B, addresses) == {c.id : c \in {d \in B : d.at \in addresses}}

\* A goroutine at work knows only contacts that may be believed (B); who replied to it was
\* reached, and who accepted the blob keeps it.
JobGood(j, p, B, reached, keepers) ==
    /\ DOMAIN j = JobFields
    /\ j.stage \in {"round", "paging", "announce", "ping"}
    /\ j.stage = "announce" => p = "announcer"
    /\ j.stage = "ping" => p = "bootstrap" /\ j.page \in 0 .. Len(Seeds) /\ j.last \in Nat
    /\ j.key \in Ids /\ j.short \in Seq(B) /\ j.news \in Seq(B)
    /\ j.stage = "paging" => j.peer \in B
    /\ j.replied \subseteq IdsIn(B, reached)
    /\ IF p = "announcer" THEN j.acks \subseteq IdsIn(B, keepers) ELSE j.acks = {}

AnswerGood(r, B, keepers) ==
    /\ DOMAIN r.answer = AnswerFields /\ r.answer.error \in BOOLEAN
    /\ [id |-> r.answer.id, at |-> r.to] \in B
    /\ r.answer.contacts \in Seq(B)
    /\ r.method = "store" /\ ~r.answer.error => r.to \in keepers

\* A call goes to a contact that may be believed, a ping just to an address.
RpcGood(r, B, keepers) ==
    /\ DOMAIN r = RpcFields /\ r.by \in Procs /\ r.to \in Nodes /\ r.key \in Ids
    /\ r.method \in {"ping", "findNode", "findValue", "store"}
    /\ r.method = "store" => r.by = "announcer"
    /\ r.stage \in {"sent", "refused", "answered"}
    /\ r.method # "ping" => [id |-> r.id, at |-> r.to] \in B
    /\ r.stage = "answered" => AnswerGood(r, B, keepers)

\* A call belongs to a goroutine at work; pings are made in their own stage.
Owned(r, jobs) ==
    /\ jobs[r.by] # Idle
    /\ r.method = "ping" => r.by = "bootstrap" /\ jobs["bootstrap"].stage = "ping"

JobsInv ==
    /\ DOMAIN job = Procs
    /\ \A p \in Procs : job[p] = Idle \/ JobGood(job[p], p, Believed, heard, kept)

RpcsInv == \A r \in rpcs : RpcGood(r, Believed, kept) /\ Owned(r, job)

\* Nothing is under way, and nobody is known, before Self runs.
QuietInv == node \notin Up => rpcs = {} /\ table = {} /\ \A p \in Procs : job[p] = Idle

\* The inductive invariant of the identities and the announcements.
DHTInv ==
    /\ IdentInv /\ FileInv /\ StoredInv /\ TableInv
    /\ JobsInv /\ RpcsInv /\ QuietInv /\ kept \subseteq Nodes
    /\ AnnouncedMeansStored
\* A nonempty set of numbers has a lowest one.
LEMMA LowestNumber ==
  ASSUME NEW T \in SUBSET Nat, T # {}
  PROVE  \E x \in T : \A y \in T : x <= y
<1>1. PICK x \in T : \A y \in T : ~(<<y, x>> \in OpToRel(<, Nat))
  BY NatLessThanWellFounded, WFMin
<1>2. \A y \in T : ~(y < x)
  BY <1>1 DEF OpToRel
<1> QED
  BY <1>2

\* A recurrence over the numbers up to N.
Recurrence(S, N, base, step, g) ==
    g \in [0..N -> S] /\ g[0] = base /\ \A k \in 1..N : g[k] = step[k][g[k - 1]]

\* It has a solution: otherwise there is a shortest prefix that has none.
LEMMA RecurrenceSolved ==
  ASSUME NEW S, NEW N \in Nat, NEW base \in S, NEW step \in [1..N -> [S -> S]]
  PROVE  \E g : Recurrence(S, N, base, step, g)
<1> DEFINE G(n, g) == g \in [0..n -> S] /\ g[0] = base /\ \A k \in 1..n : g[k] = step[k][g[k - 1]]
           Wrong == {n \in 0..N : ~\E g : G(n, g)}
<1>0. Wrong \in SUBSET Nat /\ Wrong \subseteq 0..N /\ \A n \in 0..N : n \notin Wrong => \E g : G(n, g)
  OBVIOUS
<1>1. ASSUME Wrong # {} PROVE FALSE
  <2>1. PICK n \in Wrong : \A y \in Wrong : n <= y
    <3> HIDE DEF Wrong
    <3> QED
      BY <1>0, <1>1, LowestNumber, Zenon
  <2>2. CASE n = 0
    <3>1. G(0, [k \in 0..0 |-> base])
      OBVIOUS
    <3> QED
      BY <2>1, <2>2, <3>1
  <2>3. CASE n # 0
    <3>1. n \in 1..N /\ n - 1 \in 0..N /\ n - 1 \notin Wrong
      <4> HIDE DEF Wrong
      <4>1. n \in 0..N
        BY <1>0
      <4>2. n - 1 \in Nat /\ ~(n <= n - 1) /\ n \in 1..N /\ n - 1 \in 0..N
        BY <2>3, <4>1
      <4> QED
        BY <2>1, <4>2
    <3>2. PICK g : G(n - 1, g)
      BY <1>0, <3>1, Zenon
    <3> DEFINE h == [k \in 0..n |-> IF k = n THEN step[n][g[n - 1]] ELSE g[k]]
    <3>3. g[n - 1] \in S /\ step[n][g[n - 1]] \in S
      BY <3>1, <3>2
    <3>4. h \in [0..n -> S] /\ h[0] = base
      BY <3>1, <3>2, <3>3
    <3>5. ASSUME NEW k \in 1..n PROVE h[k] = step[k][h[k - 1]]
      BY <3>1, <3>2
    <3>6. G(n, h)
      BY <3>4, <3>5
    <3> QED
      BY <2>1, <3>6
  <2> QED
    BY <2>2, <2>3
<1>2. N \in 0..N
  OBVIOUS
<1>3. \E g : G(N, g)
  BY <1>0, <1>1, <1>2, Zenon
<1> QED
  BY <1>3 DEF Recurrence


\* Identities with the same bits are the same.
LEMMA SameBits ==
  ASSUME NEW a \in Ids, NEW b \in Ids, \A i \in 1 .. Width : a[i] = b[i]
  PROVE  a = b
<1>1. a = [i \in 1 .. Width |-> a[i]] /\ b = [i \in 1 .. Width |-> b[i]]
  BY DEF Ids
<1>2. [i \in 1 .. Width |-> a[i]] = [i \in 1 .. Width |-> b[i]]
  OBVIOUS
<1> QED
  BY <1>1, <1>2

\* The order by distance to a key is strict, and total on different identities.
LEMMA DistanceOrder ==
  ASSUME NEW a \in Ids, NEW b \in Ids, NEW c \in Ids
  PROVE  /\ ~DistanceLess(a, a)
         /\ DistanceLess(a, b) /\ DistanceLess(b, c) => DistanceLess(a, c)
         /\ a # b => DistanceLess(a, b) \/ DistanceLess(b, a)
<1>0. Width \in Nat
  BY DHTAssumption
<1>1. ~DistanceLess(a, a)
  BY DEF DistanceLess, Ids
<1>2. ASSUME DistanceLess(a, b), DistanceLess(b, c) PROVE DistanceLess(a, c)
  <2>1. PICK i \in 1 .. Width : a[i] < b[i] /\ \A j \in 1 .. i - 1 : a[j] = b[j]
    BY <1>2 DEF DistanceLess
  <2>2. PICK k \in 1 .. Width : b[k] < c[k] /\ \A j \in 1 .. k - 1 : b[j] = c[j]
    BY <1>2 DEF DistanceLess
  <2>3. CASE i <= k
    <3>1. a[i] < c[i]
      BY <2>1, <2>2, <2>3, <1>0 DEF Ids
    <3>2. \A j \in 1 .. i - 1 : a[j] = c[j]
      BY <2>1, <2>2, <2>3, <1>0
    <3> QED
      BY <3>1, <3>2 DEF DistanceLess
  <2>4. CASE k < i
    <3>1. a[k] < c[k]
      BY <2>1, <2>2, <2>4, <1>0 DEF Ids
    <3>2. \A j \in 1 .. k - 1 : a[j] = c[j]
      BY <2>1, <2>2, <2>4, <1>0
    <3> QED
      BY <3>1, <3>2 DEF DistanceLess
  <2> QED
    BY <2>3, <2>4, <1>0
<1>3. ASSUME a # b PROVE DistanceLess(a, b) \/ DistanceLess(b, a)
  <2> DEFINE Differ == {i \in 1 .. Width : a[i] # b[i]}
  <2>1. Differ \in SUBSET Nat
    BY <1>0
  <2>2. Differ # {}
    BY <1>3, SameBits
  <2>3. PICK i \in Differ : \A k \in Differ : i <= k
    <3> HIDE DEF Differ
    <3> QED
      BY <2>1, <2>2, LowestNumber, Zenon
  <2>4. i \in 1 .. Width /\ a[i] # b[i]
    BY <2>3
  <2>5. \A j \in 1 .. i - 1 : a[j] = b[j]
    BY <1>0, <2>3, <2>4
  <2>6. a[i] < b[i] \/ b[i] < a[i]
    BY <2>4 DEF Ids
  <2> QED
    BY <2>4, <2>5, <2>6 DEF DistanceLess
<1> QED
  BY <1>1, <1>2, <1>3

\* So is the order of contacts.
LEMMA NearerOrder ==
  ASSUME NEW key \in Ids, NEW c, NEW d, NEW e, c.id \in Ids, d.id \in Ids, e.id \in Ids
  PROVE  /\ ~Nearer(key, c, c)
         /\ Nearer(key, c, d) /\ Nearer(key, d, e) => Nearer(key, c, e)
         /\ c.id # d.id => Nearer(key, c, d) \/ Nearer(key, d, c)
<1>1. \A x \in Ids : Distance(key, x) \in Ids
  BY DEF Distance, Ids
<1>2. \A x, y \in Ids : Distance(key, x) = Distance(key, y) => x = y
  <2> SUFFICES ASSUME NEW x \in Ids, NEW y \in Ids, Distance(key, x) = Distance(key, y) PROVE x = y
    OBVIOUS
  <2>1. ASSUME NEW i \in 1 .. Width PROVE x[i] = y[i]
    <3>1. Distance(key, x)[i] = (IF key[i] = x[i] THEN 0 ELSE 1)
      BY DEF Distance
    <3>2. Distance(key, y)[i] = (IF key[i] = y[i] THEN 0 ELSE 1)
      BY DEF Distance
    <3>3. key[i] \in {0, 1} /\ x[i] \in {0, 1} /\ y[i] \in {0, 1}
      BY DEF Ids
    <3> QED
      BY <3>1, <3>2, <3>3
  <2> QED
    BY <2>1, SameBits
<1>3. Distance(key, c.id) \in Ids /\ Distance(key, d.id) \in Ids /\ Distance(key, e.id) \in Ids
  BY <1>1
<1> QED
  BY <1>2, <1>3, DistanceOrder DEF Nearer

\* A contact has a place of its own: nearer contacts are fewer.
LEMMA RankFacts ==
  ASSUME NEW S, IsFiniteSet(S), \A c \in S : c.id \in Ids,
         \A c, d \in S : c.id = d.id => c = d, NEW key \in Ids
  PROVE  /\ \A c \in S : Rank(S, key, c) \in 0 .. Cardinality(S) - 1
         /\ \A c, d \in S : Rank(S, key, c) = Rank(S, key, d) => c = d
<1> DEFINE N(c) == {d \in S : Nearer(key, d, c)}
<1>1. ASSUME NEW c \in S
      PROVE  N(c) \subseteq S /\ IsFiniteSet(N(c)) /\ c \notin N(c) /\ Cardinality(N(c)) \in Nat
             /\ Cardinality(N(c)) < Cardinality(S)
  <2>1. N(c) \subseteq S /\ c \notin N(c)
    BY NearerOrder
  <2> HIDE DEF N
  <2> QED
    BY <2>1, FS_Subset, FS_CardinalityType
<1>2. ASSUME NEW c \in S, NEW d \in S, Nearer(key, c, d) PROVE Cardinality(N(c)) < Cardinality(N(d))
  <2>1. N(c) \subseteq N(d) /\ c \in N(d) /\ c \notin N(c)
    BY <1>2, NearerOrder
  <2>2. IsFiniteSet(N(d))
    BY <1>1
  <2> HIDE DEF N
  <2>3. N(c) \in SUBSET N(d) /\ N(c) # N(d)
    BY <2>1
  <2>4. Cardinality(N(c)) <= Cardinality(N(d)) /\ Cardinality(N(c)) # Cardinality(N(d))
    BY <2>2, <2>3, FS_Subset
  <2>5. Cardinality(N(c)) \in Nat /\ Cardinality(N(d)) \in Nat
    BY <1>1
  <2> QED
    BY <2>4, <2>5
<1>3. \A c \in S : Rank(S, key, c) = Cardinality(N(c))
  BY DEF Rank
<1>4. Cardinality(S) \in Nat
  BY FS_CardinalityType
<1> HIDE DEF N
<1>5. \A c \in S : Rank(S, key, c) \in 0 .. Cardinality(S) - 1
  BY <1>1, <1>3, <1>4
<1>6. ASSUME NEW c \in S, NEW d \in S, Rank(S, key, c) = Rank(S, key, d) PROVE c = d
  <2>1. ASSUME c # d PROVE FALSE
    <3>1. Nearer(key, c, d) \/ Nearer(key, d, c)
      BY <2>1, NearerOrder
    <3> QED
      BY <1>1, <1>2, <1>3, <1>6, <3>1
  <2> QED
    BY <2>1
<1> QED
  BY <1>5, <1>6

\* Every place is taken, so the sorted contacts are contacts of the set.
LEMMA NearestFirstFacts ==
  ASSUME NEW S, IsFiniteSet(S), \A c \in S : c.id \in Ids,
         \A c, d \in S : c.id = d.id => c = d, NEW key \in Ids
  PROVE  NearestFirst(S, key) \in Seq(S)
<1> DEFINE N == Cardinality(S)
           rank == [c \in S |-> Rank(S, key, c)]
<1>1. N \in Nat
  BY FS_CardinalityType
<1>2. rank \in [S -> 0 .. N - 1] /\ \A c, d \in S : rank[c] = rank[d] => c = d
  BY RankFacts
<1>3. IsFiniteSet(0 .. N - 1) /\ Cardinality(0 .. N - 1) = N
  BY <1>1, FS_Interval
<1>4. \A k \in 0 .. N - 1 : \E c \in S : rank[c] = k
  <2> HIDE DEF rank
  <2>1. rank \in Injection(S, 0 .. N - 1)
    BY <1>2 DEF Injection, IsInjective
  <2>2. rank \in Surjection(S, 0 .. N - 1)
    BY <1>3, <2>1, FS_Injection
  <2> QED
    BY <2>2 DEF Surjection
<1>5. ASSUME NEW i \in 1 .. N PROVE \E c \in S : Rank(S, key, c) = i - 1
  <2>1. i - 1 \in 0 .. N - 1
    BY <1>1
  <2> QED
    BY <1>4, <2>1
<1> HIDE DEF N
<1>6. ASSUME NEW i \in 1 .. N PROVE (CHOOSE c \in S : Rank(S, key, c) = i - 1) \in S
  BY <1>5
<1>7. NearestFirst(S, key) \in [1 .. N -> S]
  BY <1>6 DEF NearestFirst, N
<1> QED
  BY <1>1, <1>7

\* The nearest contacts of a table are contacts of it.
LEMMA ClosestPeersFacts ==
  ASSUME NEW S, IsFiniteSet(S), \A c \in S : c.id \in Ids,
         \A c, d \in S : c.id = d.id => c = d, NEW key \in Ids, NEW n \in Nat
  PROVE  First(NearestFirst(S, key), n) \in Seq(S)
<1>1. NearestFirst(S, key) \in Seq(S)
  BY NearestFirstFacts
<1> HIDE DEF NearestFirst
<1> QED
  BY <1>1 DEF First

\* An identity that may be believed is found at one address.
LEMMA BelievedFacts ==
  ASSUME IdentInv
  PROVE  /\ Believed \subseteq Contact /\ IsFiniteSet(Believed)
         /\ \A c, d \in Believed : c.id = d.id => c = d
         /\ FirstContacts \subseteq Believed
         /\ \A n \in Nodes : [id |-> ident[n], at |-> n] \in Believed
<1> DEFINE Spare == {[id |-> SpareId, at |-> n] : n \in {m \in Nodes : ident[m] = SpareId}}
<1>0. /\ Self \in Nodes /\ FirstId \in [Nodes -> Ids] /\ SpareId \in Ids /\ IsFiniteSet(Nodes)
      /\ \A n, m \in Nodes : FirstId[n] = FirstId[m] => n = m
      /\ \A n \in Nodes : FirstId[n] # SpareId
  BY DHTAssumption, NetworkAssumption
<1>1. Believed = FirstContacts \cup Spare
  BY DEF Believed
<1>2. FirstContacts \subseteq Contact /\ Spare \subseteq Contact
  BY <1>0 DEF FirstContacts, Contact
<1>3. IsFiniteSet(FirstContacts)
  <2> DEFINE f == [c \in FirstContacts |-> c.at]
  <2>1. f \in [FirstContacts -> Nodes]
    BY <1>2 DEF Contact
  <2>2. ASSUME NEW c \in FirstContacts, NEW d \in FirstContacts, f[c] = f[d] PROVE c = d
    BY <2>2 DEF FirstContacts
  <2> HIDE DEF f
  <2>3. f \in Injection(FirstContacts, Nodes)
    BY <2>1, <2>2 DEF Injection, IsInjective
  <2> QED
    BY <1>0, <2>3, FS_Injection
<1>4. IsFiniteSet(Spare)
  <2>1. \A c, d \in Spare : c = d
    BY DEF IdentInv
  <2> HIDE DEF Spare
  <2>2. CASE Spare = {}
    BY <2>2, FS_EmptySet
  <2>3. CASE Spare # {}
    <3>1. PICK c \in Spare : TRUE
      BY <2>3
    <3>2. Spare = {c}
      BY <2>1, <3>1
    <3> QED
      BY <3>2, FS_Singleton
  <2> QED
    BY <2>2, <2>3
<1>5. IsFiniteSet(Believed)
  <2> HIDE DEF Spare
  <2> QED
    BY <1>1, <1>3, <1>4, FS_Union
<1>6. ASSUME NEW c \in Believed, NEW d \in Believed, c.id = d.id PROVE c = d
  BY <1>0, <1>1, <1>6 DEF FirstContacts, IdentInv
<1>7. ASSUME NEW n \in Nodes PROVE [id |-> ident[n], at |-> n] \in Believed
  BY <1>1 DEF FirstContacts, IdentInv
<1> QED
  BY <1>1, <1>2, <1>5, <1>6, <1>7

\* A table stays one when more addresses have been heard of.
LEMMA TablesGrow ==
  ASSUME NEW H, NEW G, H \subseteq G
  PROVE  Reached(H) \subseteq Reached(G) /\ Others(H) \subseteq Others(G)
         /\ Tables(Others(H)) \subseteq Tables(Others(G))
<1>1. Reached(H) \subseteq Reached(G) /\ Others(H) \subseteq Others(G)
  BY DEF Reached, Others
<1> QED
  BY <1>1 DEF Tables

\* A table with fewer contacts is one.
LEMMA TablesShrink ==
  ASSUME NEW C, IsFiniteSet(C), NEW rt \in Tables(C), NEW t \in SUBSET rt.table,
         NEW f \in [Ids -> Nat]
  PROVE  [table |-> t, failures |-> f] \in Tables(C)
<1>1. rt.table \subseteq C /\ IsFiniteSet(rt.table)
  BY FS_Subset DEF Tables
<1>2. ASSUME NEW i \in 1 .. Width
      PROVE  Cardinality({c \in t : BucketIndex(c.id) = i}) <= K
  <2> DEFINE A == {c \in t : BucketIndex(c.id) = i}
             B == {c \in rt.table : BucketIndex(c.id) = i}
  <2>1. A \in SUBSET B /\ B \in SUBSET rt.table /\ Cardinality(B) <= K
    BY DEF Tables
  <2> HIDE DEF A, B
  <2>2. IsFiniteSet(B) /\ IsFiniteSet(A)
    BY <1>1, <2>1, FS_Subset
  <2>3. Cardinality(A) <= Cardinality(B) /\ Cardinality(A) \in Nat /\ Cardinality(B) \in Nat /\ K \in Nat
    BY <2>1, <2>2, FS_Subset, FS_CardinalityType, DHTAssumption
  <2>4. Cardinality(A) <= K
    BY <2>1, <2>3
  <2> QED
    BY <2>4 DEF A
<1>3. [table |-> t, failures |-> f] \in [table : SUBSET C, failures : [Ids -> Nat]]
  BY <1>1
<1>4. \A c, d \in t : c.at = d.at => c = d
  BY DEF Tables
<1> QED
  BY <1>2, <1>3, <1>4 DEF Tables

\* The contacts Self may know are finitely many.
LEMMA OthersFinite ==
  ASSUME IdentInv, NEW H
  PROVE  IsFiniteSet(Others(H)) /\ Others(H) \subseteq Believed
<1>1. Others(H) \in SUBSET Believed
  BY DEF Others, Reached
<1> QED
  BY <1>1, BelievedFacts, FS_Subset

\* AddPeer keeps one identity at an address and K contacts in a bucket.
LEMMA AddPeerSound ==
  ASSUME IdentInv, NEW H, NEW rt \in Tables(Others(H)), NEW c \in Reached(H)
  PROVE  AddPeer(rt, c) \in Tables(Others(H))
<1> DEFINE evicted == {d \in rt.table : d.id # c.id /\ d.at = c.at}
           rest    == {d \in rt.table : d \notin evicted /\ d.id # c.id}
           cleared == [id \in Ids |-> IF \E d \in evicted : d.id = id THEN 0 ELSE rt.failures[id]]
           fits    == \/ \E d \in rt.table : d.id = c.id
                      \/ Cardinality({d \in rest : BucketIndex(d.id) = BucketIndex(c.id)}) < K
           failing == [cleared EXCEPT ![c.id] = 0]
<1>1. AddPeer(rt, c) = CASE c.id = ident[Self] -> rt
          [] c.id # ident[Self] /\ fits -> [table |-> rest \cup {c}, failures |-> failing]
          [] OTHER -> [table |-> rest, failures |-> cleared]
  BY DEF AddPeer
<1>2. rt.table \subseteq Others(H) /\ rt.failures \in [Ids -> Nat] /\ rt.table \subseteq Believed
      /\ c \in Believed /\ c.id \in Ids
  BY OthersFinite, BelievedFacts DEF Tables, Reached, Contact
<1>3. cleared \in [Ids -> Nat] /\ failing \in [Ids -> Nat]
  BY <1>2
<1>4. rest \in SUBSET rt.table
  OBVIOUS
<1>5. [table |-> rest, failures |-> cleared] \in Tables(Others(H))
  <2> HIDE DEF rest, cleared
  <2> QED
    BY <1>3, <1>4, OthersFinite, TablesShrink
<1>6. ASSUME c.id # ident[Self], fits
      PROVE  [table |-> rest \cup {c}, failures |-> failing] \in Tables(Others(H))
  <2>1. c \in Others(H)
    BY <1>6 DEF Others
  <2>2. \A d, e \in rest \cup {c} : d.at = e.at => d = e
    BY DEF Tables
  <2>3. ASSUME NEW i \in 1 .. Width
        PROVE  Cardinality({d \in rest \cup {c} : BucketIndex(d.id) = i}) <= K
    <3> DEFINE A == {d \in rest \cup {c} : BucketIndex(d.id) = i}
               B == {d \in rt.table : BucketIndex(d.id) = i}
               R == {d \in rest : BucketIndex(d.id) = i}
    <3>1. B \in SUBSET rt.table /\ R \in SUBSET B /\ IsFiniteSet(rt.table) /\ Cardinality(B) <= K
      BY <1>2, <1>4, OthersFinite, FS_Subset DEF Tables
    <3>2. IsFiniteSet(B) /\ IsFiniteSet(R)
      <4> HIDE DEF B, R
      <4> QED
        BY <3>1, FS_Subset
    <3>3. CASE A \subseteq B
      <4> HIDE DEF A, B, R
      <4>1. Cardinality(A) <= Cardinality(B) /\ IsFiniteSet(A)
        BY <3>2, <3>3, FS_Subset
      <4>2. Cardinality(A) \in Nat /\ Cardinality(B) \in Nat /\ K \in Nat
        BY <3>2, <4>1, FS_CardinalityType, DHTAssumption
      <4>3. Cardinality(A) <= K
        BY <3>1, <4>1, <4>2
      <4> QED
        BY <4>3 DEF A
    <3>4. CASE ~(A \subseteq B)
      <4>1. BucketIndex(c.id) = i /\ c \notin rt.table
        BY <3>4
      <4>2. A = R \cup {c} /\ c \notin R
        BY <4>1
      <4>3. ~\E d \in rt.table : d.id = c.id
        BY <1>2, <4>1, BelievedFacts
      <4>4. Cardinality(R) < K
        BY <1>6, <4>1, <4>3
      <4> HIDE DEF A, B, R
      <4>5. Cardinality(A) = Cardinality(R) + 1
        BY <3>2, <4>2, FS_AddElement
      <4>6. Cardinality(R) \in Nat /\ K \in Nat
        BY <3>2, FS_CardinalityType, DHTAssumption
      <4>7. Cardinality(A) <= K
        BY <4>4, <4>5, <4>6
      <4> QED
        BY <4>7 DEF A
    <3> QED
      BY <3>3, <3>4
  <2>4. [table |-> rest \cup {c}, failures |-> failing] \in [table : SUBSET Others(H), failures : [Ids -> Nat]]
    BY <1>2, <1>3, <1>4, <2>1
  <2> QED
    BY <2>2, <2>3, <2>4 DEF Tables
<1> HIDE DEF rest, cleared, failing, fits
<1> QED
  BY <1>1, <1>5, <1>6

\* MarkFailure only removes contacts.
LEMMA MarkFailureSound ==
  ASSUME IdentInv, NEW H, NEW rt \in Tables(Others(H)), NEW id
  PROVE  MarkFailure(rt, id) \in Tables(Others(H))
<1>1. rt \in [table : SUBSET Others(H), failures : [Ids -> Nat]]
  BY DEF Tables
<1>2. MarkFailure(rt, id) = IF rt.failures[id] = 0
        THEN [table |-> rt.table, failures |-> [rt.failures EXCEPT ![id] = 1]]
        ELSE [table |-> {c \in rt.table : c.id # id}, failures |-> [rt.failures EXCEPT ![id] = 0]]
  BY <1>1 DEF MarkFailure
<1>3. [rt.failures EXCEPT ![id] = 1] \in [Ids -> Nat] /\ [rt.failures EXCEPT ![id] = 0] \in [Ids -> Nat]
  BY <1>1
<1>4. {c \in rt.table : c.id # id} \in SUBSET rt.table /\ rt.table \in SUBSET rt.table
  OBVIOUS
<1> QED
  BY <1>2, <1>3, <1>4, OthersFinite, TablesShrink

\* The shortlist grows by contacts the answer holds.
LEMMA LearnFacts ==
  ASSUME NEW B, NEW short \in Seq(B), NEW news \in Seq(B)
  PROVE  Learn(short, news) \in Seq(B)
<1> DEFINE N == Len(news)
           next(k, s) == IF HasId(s, news[k].id) \/ news[k].id = ident[Self] THEN s ELSE Append(s, news[k])
           E(g) == g = [k \in 0 .. N |-> IF k = 0 THEN short ELSE next(k, g[k - 1])]
           list == CHOOSE g : E(g)
<1>1. N \in Nat
  OBVIOUS
<1>2. Learn(short, news) = list[N]
  BY DEF Learn
<1>3. \A k \in 1 .. N : \A s \in Seq(B) : next(k, s) \in Seq(B)
  OBVIOUS
<1> HIDE DEF N, next
<1>4. \E g : E(g)
  <2> DEFINE step == [k \in 1 .. N |-> [s \in Seq(B) |-> next(k, s)]]
  <2>1. step \in [1 .. N -> [Seq(B) -> Seq(B)]]
    BY <1>3
  <2>2. \A k \in 1 .. N, s \in Seq(B) : step[k][s] = next(k, s)
    OBVIOUS
  <2> HIDE DEF step
  <2>3. PICK g \in [0 .. N -> Seq(B)] : g[0] = short /\ \A k \in 1 .. N : g[k] = step[k][g[k - 1]]
    <3>1. \E g : Recurrence(Seq(B), N, short, step, g)
      BY <1>1, <2>1, RecurrenceSolved
    <3> QED
      BY <3>1 DEF Recurrence
  <2>4. \A k \in 1 .. N : k - 1 \in 0 .. N /\ g[k - 1] \in Seq(B)
    BY <1>1, <2>3
  <2>5. \A k \in 0 .. N : g[k] = IF k = 0 THEN short ELSE next(k, g[k - 1])
    <3>1. \A k \in 1 .. N : g[k] = next(k, g[k - 1])
      BY <2>2, <2>3, <2>4
    <3>2. \A k \in 0 .. N : k = 0 \/ k \in 1 .. N
      BY <1>1
    <3> QED
      BY <2>3, <3>1, <3>2
  <2>6. E(g)
    BY <2>3, <2>5
  <2> QED
    BY <2>6
<1>5. E(list)
  BY <1>4
<1> HIDE DEF list
<1>6. list[0] = short /\ \A k \in 1 .. N : list[k] = next(k, list[k - 1])
  BY <1>1, <1>5
<1>7. \A k \in 0 .. N : list[k] \in Seq(B)
  <2> DEFINE Wrong == {k \in 0 .. N : list[k] \notin Seq(B)}
  <2>1. ASSUME Wrong # {} PROVE FALSE
    <3>1. Wrong \in SUBSET Nat
      BY <1>1
    <3>2. PICK k \in Wrong : \A y \in Wrong : k <= y
      <4> HIDE DEF Wrong
      <4> QED
        BY <2>1, <3>1, LowestNumber, Zenon
    <3>3. k # 0
      BY <1>6, <3>2
    <3>4. k \in 1 .. N /\ k - 1 \in 0 .. N /\ k - 1 \notin Wrong
      BY <1>1, <3>2, <3>3
    <3>5. list[k] \in Seq(B)
      BY <1>3, <1>6, <3>4
    <3> QED
      BY <3>2, <3>5
  <2> QED
    BY <2>1
<1> QED
  BY <1>1, <1>2, <1>7

\* The second offer of a round offers contacts that were reached.
LEMMA ReofferSound ==
  ASSUME IdentInv, NEW H, NEW rt \in Tables(Others(H)), NEW j,
         j.short \in Seq(Believed), j.replied \subseteq IdsIn(Believed, H)
  PROVE  Reoffer(rt, j) \in Tables(Others(H))
<1> DEFINE N == Len(j.short)
           T == Tables(Others(H))
           next(k, t) == IF j.short[k].id \in j.replied THEN AddPeer(t, j.short[k]) ELSE t
           E(g) == g = [k \in 0 .. N |-> IF k = 0 THEN rt ELSE next(k, g[k - 1])]
           offered == CHOOSE g : E(g)
<1>1. N \in Nat
  OBVIOUS
<1>2. Reoffer(rt, j) = offered[N]
  BY DEF Reoffer
<1>3. \A k \in 1 .. N : \A t \in T : next(k, t) \in T
  <2> SUFFICES ASSUME NEW k \in 1 .. N, NEW t \in T, j.short[k].id \in j.replied
               PROVE  AddPeer(t, j.short[k]) \in T
    OBVIOUS
  <2>1. j.short[k] \in Believed
    OBVIOUS
  <2>2. PICK d \in Reached(H) : d.id = j.short[k].id
    BY DEF IdsIn, Reached
  <2>3. j.short[k] \in Reached(H)
    BY <2>1, <2>2, BelievedFacts DEF Reached
  <2> HIDE DEF N
  <2> QED
    BY <2>3, AddPeerSound
<1>0. rt \in T
  OBVIOUS
<1> HIDE DEF N, next, T
<1>4. \E g : E(g)
  <2> DEFINE step == [k \in 1 .. N |-> [s \in T |-> next(k, s)]]
  <2>1. step \in [1 .. N -> [T -> T]]
    BY <1>3
  <2>2. \A k \in 1 .. N, s \in T : step[k][s] = next(k, s)
    OBVIOUS
  <2> HIDE DEF step
  <2>3. PICK g \in [0 .. N -> T] : g[0] = rt /\ \A k \in 1 .. N : g[k] = step[k][g[k - 1]]
    <3>1. \E g : Recurrence(T, N, rt, step, g)
      BY <1>0, <1>1, <2>1, RecurrenceSolved
    <3> QED
      BY <3>1 DEF Recurrence
  <2>4. \A k \in 1 .. N : k - 1 \in 0 .. N /\ g[k - 1] \in T
    BY <1>1, <2>3
  <2>5. \A k \in 0 .. N : g[k] = IF k = 0 THEN rt ELSE next(k, g[k - 1])
    <3>1. \A k \in 1 .. N : g[k] = next(k, g[k - 1])
      BY <2>2, <2>3, <2>4
    <3>2. \A k \in 0 .. N : k = 0 \/ k \in 1 .. N
      BY <1>1
    <3> QED
      BY <2>3, <3>1, <3>2
  <2>6. E(g)
    BY <2>3, <2>5
  <2> QED
    BY <2>6
<1>5. E(offered)
  BY <1>4
<1> HIDE DEF offered
<1>6. offered[0] = rt /\ \A k \in 1 .. N : offered[k] = next(k, offered[k - 1])
  BY <1>1, <1>5
<1>7. \A k \in 0 .. N : offered[k] \in T
  <2> DEFINE Wrong == {k \in 0 .. N : offered[k] \notin T}
  <2>1. ASSUME Wrong # {} PROVE FALSE
    <3>1. Wrong \in SUBSET Nat
      BY <1>1
    <3>2. PICK k \in Wrong : \A y \in Wrong : k <= y
      <4> HIDE DEF Wrong
      <4> QED
        BY <2>1, <3>1, LowestNumber, Zenon
    <3>3. k # 0
      BY <1>0, <1>6, <3>2
    <3>4. k \in 1 .. N /\ k - 1 \in 0 .. N /\ k - 1 \notin Wrong
      BY <1>1, <3>2, <3>3
    <3>5. offered[k] \in T
      BY <1>3, <1>6, <3>4
    <3> QED
      BY <3>2, <3>5
  <2> QED
    BY <2>1
<1>8. offered[N] \in T
  BY <1>1, <1>7
<1> QED
  BY <1>2, <1>8 DEF T

\* The nearest contacts of a finite set that may be believed are among it.
LEMMA ClosestBelieved ==
  ASSUME IdentInv, NEW S \in SUBSET Believed, NEW key \in Ids, NEW n \in Nat
  PROVE  ClosestPeers(S, key, n) \in Seq(S)
<1>1. IsFiniteSet(S)
  BY BelievedFacts, FS_Subset
<1>2. (\A c \in S : c.id \in Ids) /\ (\A c, d \in S : c.id = d.id => c = d)
  BY BelievedFacts DEF Contact
<1> QED
  BY <1>1, <1>2, ClosestPeersFacts DEF ClosestPeers

\* Sorting and cutting a shortlist, and picking from it, bring nobody in.
LEMMA ShortlistFacts ==
  ASSUME IdentInv, NEW j, j.short \in Seq(Believed), j.key \in Ids
  PROVE  /\ Sorted(j) \in Seq(Believed)
         /\ \A short \in Seq(Believed) : \A ids, n : FirstWith(short, ids, n) \subseteq Believed
<1>1. Sorted(j) \in Seq(Believed)
  <2>1. Range(j.short) \in SUBSET Believed
    BY DEF Range
  <2>2. 2 * K \in Nat
    BY DHTAssumption
  <2>3. ClosestPeers(Range(j.short), j.key, 2 * K) \in Seq(Range(j.short))
    BY <2>1, <2>2, ClosestBelieved
  <2>4. Sorted(j) = ClosestPeers(Range(j.short), j.key, 2 * K)
    BY DEF Sorted, ClosestPeers
  <2> QED
    BY <2>1, <2>3, <2>4
<1>2. ASSUME NEW short \in Seq(Believed), NEW ids, NEW n PROVE FirstWith(short, ids, n) \subseteq Believed
  <2>1. ASSUME NEW c \in FirstWith(short, ids, n) PROVE \E i \in 1 .. Len(short) : c = short[i]
    BY DEF FirstWith
  <2> QED
    BY <2>1
<1> QED
  BY <1>1, <1>2

\* More contacts, more addresses reached and more keepers leave a goroutine and a call good.
LEMMA JobGrows ==
  ASSUME NEW j, NEW p, NEW B, NEW H, NEW Q, NEW C, NEW G, NEW R,
         JobGood(j, p, B, H, Q), B \subseteq C, H \subseteq G, p = "announcer" => Q \subseteq R
  PROVE  JobGood(j, p, C, G, R)
<1>1. IdsIn(B, H) \subseteq IdsIn(C, G) /\ (p = "announcer" => IdsIn(B, Q) \subseteq IdsIn(C, R))
  BY DEF IdsIn
<1>2. Seq(B) \subseteq Seq(C)
  OBVIOUS
<1> QED
  BY <1>1, <1>2 DEF JobGood

LEMMA RpcGrows ==
  ASSUME NEW r, NEW B, NEW Q, NEW C, NEW R, RpcGood(r, B, Q), B \subseteq C,
         r.method = "store" => Q \subseteq R
  PROVE  RpcGood(r, C, R)
<1>1. Seq(B) \subseteq Seq(C)
  OBVIOUS
<1> QED
  BY <1>1 DEF RpcGood, AnswerGood

\* A lookup starts from the table.
LEMMA LookupGood ==
  ASSUME IdentInv, TableInv, NEW key \in Ids, NEW find, NEW p, NEW H, NEW Q
  PROVE  JobGood(Lookup(key, find), p, Believed, H, Q)
<1>1. table \in SUBSET Believed
  BY OthersFinite DEF TableInv, Tables, Routing
<1>2. ClosestPeers(table, key, K) \in Seq(Believed)
  <2>1. ClosestPeers(table, key, K) \in Seq(table)
    BY <1>1, ClosestBelieved, DHTAssumption
  <2> QED
    BY <1>1, <2>1
<1> HIDE DEF ClosestPeers
<1>3. <<>> \in Seq(Believed)
  OBVIOUS
<1> QED
  BY <1>2, <1>3 DEF Lookup, JobGood, JobFields, IdsIn

\* A goroutine at work is not idle.
LEMMA GoodNotIdle ==
  ASSUME NEW j, NEW p, NEW B, NEW H, NEW Q, JobGood(j, p, B, H, Q)
  PROVE  j # Idle /\ j.stage # "idle"
BY DEF JobGood, Idle

\* The table after a step that keeps the identities.
LEMMA TableStep ==
  ASSUME ident' = ident, heard' \subseteq Nodes, NEW rt \in Tables(Others(heard')), SetRouting(rt)
  PROVE  TableInv'
<1>1. rt = [table |-> table', failures |-> failures']
  BY DEF SetRouting, Tables
<1>2. Tables(Others(heard'))= Tables(Others(heard))'
  BY DEF Tables, Others, Reached, Believed, BucketIndex
<1>3. Routing' = rt
  BY <1>1 DEF Routing
<1> QED
  BY <1>2, <1>3 DEF TableInv

\* The table and what is heard after the end of a call.
LEMMA HearFacts ==
  ASSUME IdentInv, TableInv, NEW r, NEW out \in Outcomes, NEW Q, RpcGood(r, Believed, Q),
         Ends(r, out), Hear(r, out)
  PROVE  /\ heard \subseteq heard' /\ heard' \subseteq Nodes
         /\ Received(r, out) \in Tables(Others(heard'))
         /\ out = "answer" => r.to \in heard'
<1>1. heard \subseteq heard' /\ heard' \subseteq Nodes /\ (out = "answer" => r.to \in heard')
  BY DEF Hear, TableInv, RpcGood
<1>2. Routing \in Tables(Others(heard'))
  BY <1>1, TablesGrow DEF TableInv
<1>3. CASE out = "nothing"
  BY <1>1, <1>2, <1>3 DEF Received
<1>4. CASE out # "nothing"
  <2>1. r.stage = "answered" /\ r.to \in heard'
    BY <1>4 DEF Ends, Outcomes, Hear
  <2>2. [id |-> r.answer.id, at |-> r.to] \in Reached(heard')
    BY <2>1 DEF RpcGood, AnswerGood, Reached
  <2>3. AddPeer(Routing, [id |-> r.answer.id, at |-> r.to]) \in Tables(Others(heard'))
    BY <1>2, <2>2, AddPeerSound
  <2> QED
    BY <1>1, <1>4, <2>3 DEF Received
<1> QED
  BY <1>3, <1>4

-----------------------------------------------------------------------------
(* The steps of the node.                                                  *)

LEMMA BelievedKept ==
  ASSUME ident' = ident
  PROVE  Believed' = Believed /\ (IdentInv => IdentInv')
BY DEF Believed, IdentInv

LEMMA TableKept ==
  ASSUME TableInv, ident' = ident, heard' = heard, table' = table, failures' = failures
  PROVE  TableInv'
BY DEF TableInv, Tables, Others, Reached, Believed, BucketIndex, Routing

\* One goroutine moves, and the others stay as good as they were.
LEMMA JobsStep ==
  ASSUME JobsInv, Believed \subseteq Believed', heard \subseteq heard',
         NEW p \in Procs, p # "announcer" => kept \subseteq kept', NEW j,
         j = Idle \/ JobGood(j, p, Believed', heard', kept'),
         DOMAIN job' = Procs, job'[p] = j, \A q \in Procs \ {p} : job'[q] = job[q]
  PROVE  JobsInv'
<1>2. ASSUME NEW q \in Procs PROVE job'[q] = Idle \/ JobGood(job'[q], q, Believed', heard', kept')
  <2>1. CASE q = p
    BY <2>1 DEF JobsInv
  <2>2. CASE q # p
    <3>1. job'[q] = job[q] /\ (job[q] = Idle \/ JobGood(job[q], q, Believed, heard, kept))
      BY <2>2 DEF JobsInv
    <3> QED
      BY <2>2, <3>1, JobGrows
  <2> QED
    BY <2>1, <2>2
<1> QED
  BY <1>2 DEF JobsInv

LEMMA JobsKept ==
  ASSUME JobsInv, Believed \subseteq Believed', heard \subseteq heard', kept \subseteq kept', job' = job
  PROVE  JobsInv'
<1>1. ASSUME NEW q \in Procs PROVE job'[q] = Idle \/ JobGood(job'[q], q, Believed', heard', kept')
  BY JobGrows DEF JobsInv
<1> QED
  BY <1>1 DEF JobsInv

\* Calls end, and new good ones are made.
LEMMA RpcsStep ==
  ASSUME RpcsInv, Believed \subseteq Believed', NEW more,
         \A r \in rpcs : r.method = "store" => kept \subseteq kept',
         \A r \in more : RpcGood(r, Believed', kept') /\ Owned(r, job'),
         \A r \in rpcs \cap rpcs' : Owned(r, job'), rpcs' \subseteq rpcs \cup more
  PROVE  RpcsInv'
<1>1. ASSUME NEW r \in rpcs', r \notin more PROVE RpcGood(r, Believed', kept') /\ Owned(r, job')
  BY <1>1, RpcGrows DEF RpcsInv
<1> QED
  BY <1>1 DEF RpcsInv

LEMMA RpcsFewer ==
  ASSUME RpcsInv, Believed \subseteq Believed',
         \A r \in rpcs : r.method = "store" => kept \subseteq kept',
         \A r \in rpcs \cap rpcs' : Owned(r, job'), rpcs' \subseteq rpcs
  PROVE  RpcsInv'
<1>1. ASSUME NEW r \in rpcs' PROVE RpcGood(r, Believed', kept') /\ Owned(r, job')
  BY <1>1, RpcGrows DEF RpcsInv
<1> QED
  BY <1>1 DEF RpcsInv

LEMMA EmptyTable ==
  ASSUME NEW C
  PROVE  [table |-> {}, failures |-> [id \in Ids |-> 0]] \in Tables(C)
<1>1. \A i : {c \in {} : BucketIndex(c.id) = i} = {}
  OBVIOUS
<1>2. Cardinality({}) = 0 /\ K \in Nat
  BY FS_EmptySet, DHTAssumption
<1> QED
  BY <1>1, <1>2 DEF Tables

LEMMA InitGood == DHTInit => DHTInv
<1> SUFFICES ASSUME DHTInit PROVE DHTInv
  OBVIOUS
<1> USE DEF DHTInit
<1>0. FirstId \in [Nodes -> Ids] /\ Self \in Nodes
  BY DHTAssumption
<1>1. IdentInv
  BY <1>0, NetworkAssumption DEF IdentInv
<1>2. FileInv
  BY <1>0 DEF FileInv, NodeStates, Up
<1>3. StoredInv
  BY <1>0, NetworkAssumption DEF StoredInv
<1>4. TableInv
  <2>1. Routing = [table |-> {}, failures |-> [id \in Ids |-> 0]] /\ heard \subseteq Nodes
    BY DEF Routing
  <2> QED
    BY <2>1, EmptyTable DEF TableInv
<1>5. JobsInv /\ RpcsInv /\ QuietInv
  BY DEF JobsInv, RpcsInv, QuietInv
<1> QED
  BY <1>1, <1>2, <1>3, <1>4, <1>5 DEF DHTInv, AnnouncedMeansStored

\* Steps that touch neither the table, nor the calls, nor the goroutines.
LEMMA OutsideStep ==
  ASSUME DHTInv, ident' = ident, UNCHANGED <<table, failures, rpcs, job, heard, kept, missed>>,
         FileInv', StoredInv', node' \in Up \/ node \notin Up
  PROVE  DHTInv'
<1>1. Believed' = Believed /\ IdentInv'
  BY BelievedKept DEF DHTInv
<1>2. TableInv'
  BY TableKept DEF DHTInv
<1>3. JobsInv'
  BY <1>1, JobsKept DEF DHTInv
<1>4. RpcsInv'
  BY <1>1 DEF DHTInv, RpcsInv
<1>5. QuietInv'
  BY DEF DHTInv, QuietInv
<1> QED
  BY <1>1, <1>2, <1>3, <1>4, <1>5 DEF DHTInv, AnnouncedMeansStored

\* The identity on disk is the only one Self ever draws.
LEMMA LoadStep ==
  ASSUME DHTInv, LoadIdentity
  PROVE  DHTInv'
<1> USE DEF LoadIdentity
<1>0. Self \in Nodes /\ FirstId[Self] \in Ids /\ Absent \notin Ids /\ Torn \notin Ids
  BY DHTAssumption
<1>1. ident' = ident
  BY <1>0 DEF DHTInv, FileInv, IdentInv
<1>2. FileInv'
  BY <1>0 DEF DHTInv, FileInv, NodeStates, Up
<1>3. StoredInv'
  BY DEF DHTInv, StoredInv
<1> QED
  BY <1>1, <1>2, <1>3, OutsideStep DEF Up

\* As long as there is no identity file nobody holds an announcement of Self.
LEMMA NothingAnnounced ==
  ASSUME DHTInv, idFile \notin Ids
  PROVE  \A n \in Nodes : \A a \in stored[n] : a.at # Self
BY DEF DHTInv, StoredInv, Announcements

LEMMA LinkStep ==
  ASSUME DHTInv, LinkIdentity
  PROVE  DHTInv'
<1> USE DEF LinkIdentity
<1>0. Self \in Nodes /\ FirstId[Self] \in Ids /\ Absent \notin Ids /\ Torn \notin Ids /\ Absent # Torn
  BY DHTAssumption
<1>1. idFile = Absent /\ boots[Self] = 0 /\ FreshId = FirstId[Self]
  BY <1>0 DEF DHTInv, FileInv, FreshId
<1>2. ident' = ident
  BY <1>0, <1>1 DEF DHTInv, IdentInv
<1>3. FileInv'
  BY <1>0, <1>1 DEF DHTInv, FileInv, NodeStates, Up
<1>4. StoredInv'
  BY <1>0, <1>1, NothingAnnounced DEF DHTInv, StoredInv
<1> QED
  BY <1>2, <1>3, <1>4, OutsideStep DEF Up

LEMMA PublishStep ==
  ASSUME DHTInv, publishNodeIDExclusive
  PROVE  DHTInv'
<1> USE DEF publishNodeIDExclusive
<1>0. Self \in Nodes /\ FirstId[Self] \in Ids /\ Absent \notin Ids /\ Torn \notin Ids /\ Absent # Torn
  BY DHTAssumption
<1>1. idFile = Torn /\ boots[Self] = 0 /\ ident[Self] = FirstId[Self]
  BY <1>0 DEF DHTInv, FileInv, IdentInv
<1>3. FileInv'
  BY <1>0, <1>1 DEF DHTInv, FileInv, NodeStates, Up
<1>4. StoredInv'
  BY <1>0, <1>1, NothingAnnounced DEF DHTInv, StoredInv
<1> QED
  BY <1>3, <1>4, OutsideStep DEF Up

LEMMA StopStep ==
  ASSUME DHTInv, Stop \/ StopEnds \/ FallDue
  PROVE  DHTInv'
<1>1. /\ ident' = ident /\ UNCHANGED <<table, failures, rpcs, job, heard, kept, missed>>
      /\ node' \in Up \/ node' = node
  BY DEF Stop, StopEnds, FallDue, Up
<1>2. FileInv'
  BY DEF Stop, StopEnds, FallDue, DHTInv, FileInv, NodeStates, Up
<1>3. StoredInv'
  BY DEF Stop, StopEnds, FallDue, DHTInv, StoredInv
<1> QED
  BY <1>1, <1>2, <1>3, OutsideStep

LEMMA ExitStep ==
  ASSUME DHTInv, Exit
  PROVE  DHTInv'
<1> USE DEF Exit
<1>0. Self \in Nodes
  BY DHTAssumption
<1>1. Believed' = Believed /\ IdentInv'
  BY BelievedKept DEF DHTInv
<1>2. FileInv'
  BY DEF DHTInv, FileInv, NodeStates, Up
<1>3. StoredInv'
  BY <1>0 DEF DHTInv, StoredInv
<1>4. TableInv'
  <2>1. SetRouting([table |-> {}, failures |-> [id \in Ids |-> 0]]) /\ heard' \subseteq Nodes
    BY DEF SetRouting
  <2> QED
    BY <2>1, EmptyTable, TableStep
<1>5. JobsInv' /\ RpcsInv' /\ QuietInv'
  BY DEF JobsInv, RpcsInv, QuietInv
<1> QED
  BY <1>1, <1>2, <1>3, <1>4, <1>5 DEF DHTInv, AnnouncedMeansStored

\* An excused goroutine or call is as good as before.
LEMMA ExcuseStep ==
  ASSUME JobsInv, RpcsInv, Believed \subseteq Believed', heard' = heard, kept' = kept, Excuse
  PROVE  JobsInv' /\ RpcsInv' /\ (rpcs = {} => rpcs' = {})
         /\ \A p \in Procs : job[p] = Idle => job'[p] = Idle
<1> DEFINE now(p) == IF job[p].stage = "paging" THEN [job[p] EXCEPT !.wanted = {}] ELSE job[p]
           told(r) == IF r.stage = "answered" THEN [r EXCEPT !.answer.all = {}] ELSE r
<1>1. job' = [p \in Procs |-> now(p)] /\ rpcs' = {told(r) : r \in rpcs}
  BY DEF Excuse
<1>2. ASSUME NEW p \in Procs
      PROVE  /\ job[p] = Idle => now(p) = Idle
             /\ job[p] # Idle => JobGood(now(p), p, Believed', heard', kept') /\ now(p) # Idle
             /\ job[p] # Idle => now(p).stage = job[p].stage
  <2>1. CASE job[p] = Idle
    BY <2>1 DEF Idle
  <2>2. CASE job[p] # Idle
    <3>1. JobGood(job[p], p, Believed, heard, kept)
      BY <2>2 DEF JobsInv
    <3>2. JobGood(now(p), p, Believed, heard, kept) /\ now(p).stage = job[p].stage
      BY <3>1 DEF JobGood, JobFields
    <3> HIDE DEF now
    <3>3. JobGood(now(p), p, Believed', heard', kept')
      BY <3>2, JobGrows
    <3> QED
      BY <2>2, <3>2, <3>3, GoodNotIdle
  <2> QED
    BY <2>1, <2>2
<1>3. ASSUME NEW r \in rpcs
      PROVE  RpcGood(told(r), Believed', kept') /\ told(r).by = r.by /\ told(r).method = r.method
  <2>1. RpcGood(r, Believed, kept)
    BY DEF RpcsInv
  <2>2. CASE r.stage = "answered"
    <3> DEFINE a == [r.answer EXCEPT !.all = {}]
    <3>1. told(r) = [r EXCEPT !.answer = a]
      BY <2>2
    <3>2. /\ DOMAIN a = AnswerFields /\ a.error = r.answer.error /\ a.id = r.answer.id
          /\ a.contacts = r.answer.contacts
      BY <2>1, <2>2 DEF RpcGood, AnswerGood, AnswerFields
    <3> HIDE DEF a, told
    <3>3. RpcGood(told(r), Believed, kept) /\ told(r).by = r.by /\ told(r).method = r.method
      BY <2>1, <2>2, <3>1, <3>2 DEF RpcGood, AnswerGood, RpcFields
    <3> QED
      BY <3>3, RpcGrows
  <2>3. CASE r.stage # "answered"
    BY <2>1, <2>3, RpcGrows
  <2> QED
    BY <2>2, <2>3
<1> HIDE DEF now, told
<1>4. JobsInv'
  BY <1>1, <1>2 DEF JobsInv
<1>5. RpcsInv'
  <2> SUFFICES ASSUME NEW s \in rpcs' PROVE RpcGood(s, Believed', kept') /\ Owned(s, job')
    BY DEF RpcsInv
  <2>1. PICK r \in rpcs : s = told(r)
    BY <1>1
  <2>2. Owned(r, job) /\ r.by \in Procs
    BY DEF RpcsInv, RpcGood
  <2>3. job'[r.by] # Idle /\ (r.method = "ping" => r.by = "bootstrap" /\ job'["bootstrap"].stage = "ping")
    BY <1>1, <1>2, <2>2 DEF Owned, Procs
  <2> QED
    BY <1>3, <2>1, <2>3 DEF Owned
<1> QED
  BY <1>1, <1>2, <1>4, <1>5

LEMMA PeerRestartStep ==
  ASSUME DHTInv, NEW n \in Nodes, NEW id \in Ids, PeerRestart(n, id)
  PROVE  DHTInv'
<1> USE DEF PeerRestart
<1>0. Self \in Nodes /\ n # Self
  BY DHTAssumption
<1>1. IdentInv' /\ ident'[Self] = ident[Self]
  BY <1>0 DEF DHTInv, IdentInv
<1>2. Believed \subseteq Believed'
  BY <1>0 DEF DHTInv, IdentInv, Believed
<1>3. FileInv' /\ StoredInv'
  BY <1>0 DEF DHTInv, FileInv, StoredInv, NodeStates, Up
<1>4. TableInv'
  <2>1. ASSUME NEW x PROVE BucketIndex(x)' = BucketIndex(x)
    <3> DEFINE before == {i \in 1 .. Width : x[i] # ident[Self][i]}
               after == {i \in 1 .. Width : x[i] # ident'[Self][i]}
    <3>1. before = after
      BY <1>1
    <3>2. /\ BucketIndex(x) = (IF before = {} THEN Width ELSE CHOOSE i \in before : \A j \in before : i <= j)
          /\ BucketIndex(x)' = (IF after = {} THEN Width ELSE CHOOSE i \in after : \A j \in after : i <= j)
      BY DEF BucketIndex
    <3> HIDE DEF before, after
    <3> QED
      BY <3>1, <3>2
  <2>2. Others(heard) \subseteq Others(heard)'
    BY <1>1, <1>2 DEF Others, Reached
  <2>3. Routing' = Routing
    BY DEF Routing
  <2>4. heard' = heard /\ heard \subseteq Nodes /\ Routing \in Tables(Others(heard))
    BY DEF DHTInv, TableInv
  <2>5. Routing \in Tables(Others(heard))'
    BY <2>1, <2>2, <2>4 DEF Tables
  <2> QED
    BY <2>3, <2>4, <2>5 DEF TableInv
<1>5. JobsInv' /\ RpcsInv' /\ QuietInv'
  <2>1. JobsInv' /\ RpcsInv' /\ (rpcs = {} => rpcs' = {}) /\ \A p \in Procs : job[p] = Idle => job'[p] = Idle
    BY <1>2, ExcuseStep DEF DHTInv
  <2> QED
    BY <2>1 DEF DHTInv, QuietInv
<1> QED
  BY <1>1, <1>3, <1>4, <1>5 DEF DHTInv, AnnouncedMeansStored

LEMMA LapseStep ==
  ASSUME DHTInv, NEW n \in Nodes, NEW a \in stored[n], Lapse(n, a)
  PROVE  DHTInv'
<1> USE DEF Lapse
<1>1. IdentInv' /\ Believed' = Believed
  BY BelievedKept DEF DHTInv
<1>2. FileInv'
  BY DEF DHTInv, FileInv, NodeStates, Up
<1>3. StoredInv'
  <2>1. a \in Announcements /\ (a.at = Self => a.id = idFile)
    BY DEF DHTInv, StoredInv
  <2> DEFINE b == [a EXCEPT !.live = FALSE]
  <2>2. b \in Announcements /\ b.at = a.at /\ b.id = a.id
    BY <2>1 DEF Announcements
  <2> HIDE DEF b
  <2>3. stored' = [stored EXCEPT ![n] = (stored[n] \ {a}) \cup {b}]
    BY DEF b
  <2> QED
    BY <2>1, <2>2, <2>3 DEF DHTInv, StoredInv
<1>4. TableInv'
  BY TableKept DEF DHTInv
<1>5. JobsInv' /\ RpcsInv' /\ QuietInv'
  <2>1. JobsInv' /\ RpcsInv' /\ (rpcs = {} => rpcs' = {}) /\ \A p \in Procs : job[p] = Idle => job'[p] = Idle
    BY <1>1, ExcuseStep DEF DHTInv
  <2> QED
    BY <2>1 DEF DHTInv, QuietInv
<1> QED
  BY <1>1, <1>2, <1>3, <1>4, <1>5 DEF DHTInv, AnnouncedMeansStored

\* A goroutine that is idle has no call.
LEMMA IdleCallsNobody ==
  ASSUME DHTInv, NEW p \in Procs, job[p] = Idle
  PROVE  \A r \in rpcs : r.by # p
BY DEF DHTInv, RpcsInv, Owned

\* A goroutine sets out.
LEMMA BeginStep ==
  ASSUME DHTInv, NEW p \in Procs, NEW j, JobGood(j, p, Believed, heard, kept'), job[p] = Idle,
         node = "running", job' = [job EXCEPT ![p] = j],
         UNCHANGED <<node, idFile, ident, boots, table, failures, rpcs, heard, missed>>,
         StoredInv', kept' \subseteq kept, p # "announcer" => kept' = kept
  PROVE  DHTInv'
<1>1. IdentInv' /\ Believed' = Believed
  BY BelievedKept DEF DHTInv
<1>2. FileInv'
  BY DEF DHTInv, FileInv, NodeStates, Up
<1>3. TableInv'
  BY TableKept DEF DHTInv
<1>4. JobsInv'
  <2>1. DOMAIN job' = Procs /\ job'[p] = j /\ \A q \in Procs \ {p} : job'[q] = job[q]
    BY DEF DHTInv, JobsInv
  <2> QED
    BY <1>1, <2>1, JobsStep DEF DHTInv
<1>5. RpcsInv'
  <2>1. ASSUME NEW r \in rpcs PROVE Owned(r, job') /\ (r.method = "store" => kept \subseteq kept')
    <3>1. r.by # p /\ r.by \in Procs /\ Owned(r, job) /\ (r.method = "store" => r.by = "announcer")
      BY IdleCallsNobody DEF DHTInv, RpcsInv, RpcGood
    <3>2. job'[r.by] = job[r.by]
      BY <3>1 DEF DHTInv, JobsInv
    <3>3. p = "bootstrap" => r.method # "ping"
      BY <3>1 DEF Owned
    <3>4. p # "bootstrap" => job'["bootstrap"] = job["bootstrap"]
      BY DEF DHTInv, JobsInv, Procs
    <3> QED
      BY <3>1, <3>2, <3>3, <3>4 DEF Owned
  <2>3. rpcs' \subseteq rpcs /\ Believed \subseteq Believed'
    BY <1>1
  <2>4. (\A r \in rpcs : r.method = "store" => kept \subseteq kept') /\ RpcsInv
    BY <2>1 DEF DHTInv
  <2>5. \A r \in rpcs \cap rpcs' : Owned(r, job')
    BY <2>1
  <2> QED
    BY <2>3, <2>4, <2>5, RpcsFewer
<1>6. QuietInv'
  BY DEF QuietInv, Up
<1> QED
  BY <1>1, <1>2, <1>3, <1>4, <1>5, <1>6 DEF DHTInv, AnnouncedMeansStored

LEMMA StartStep ==
  ASSUME DHTInv, \/ StartBootstrap \/ StartFind \/ StartAnnounce
                 \/ \E key \in Refreshed : StartRefresh(key)
  PROVE  DHTInv'
<1>0. /\ ident[Self] \in Ids /\ Blob \in Ids /\ Refreshed \subseteq Ids
      /\ {"bootstrap", "finder", "announcer", "refresh"} = Procs
  BY DHTAssumption, NetworkAssumption DEF DHTInv, IdentInv, Procs
<1>1. ASSUME NEW key \in Ids, NEW find, NEW p, NEW Q PROVE JobGood(Lookup(key, find), p, Believed, heard, Q)
  BY LookupGood DEF DHTInv
<1>2. stored' = stored => StoredInv' \/ idFile' # idFile
  BY DEF DHTInv, StoredInv
<1>3. CASE StartBootstrap
  <2>1. JobGood(Pinging, "bootstrap", Believed, heard, kept')
    <3> DEFINE l == Lookup(ident[Self], FALSE)
    <3>1. JobGood(l, "bootstrap", Believed, heard, kept')
      BY <1>0, <1>1
    <3> HIDE DEF l
    <3>2. l.page = 0 /\ l.last = 0 /\ Len(Seeds) \in Nat
      BY NetworkAssumption DEF l, Lookup
    <3>3. JobGood([l EXCEPT !.stage = "ping"], "bootstrap", Believed, heard, kept')
      BY <3>1, <3>2 DEF JobGood, JobFields
    <3> QED
      BY <3>3 DEF Pinging, l
  <2> HIDE DEF Pinging
  <2> QED
    BY <1>0, <1>2, <1>3, <2>1, BeginStep DEF StartBootstrap, StartJob
<1>4. CASE StartFind
  <2>1. JobGood(Lookup(Blob, TRUE), "finder", Believed, heard, kept')
    BY <1>0, <1>1
  <2> QED
    BY <1>0, <1>2, <1>4, <2>1, BeginStep DEF StartFind, StartJob
<1>5. CASE StartAnnounce
  <2>1. JobGood(Lookup(Blob, FALSE), "announcer", Believed, heard, kept')
    BY <1>0, <1>1
  <2> QED
    BY <1>0, <1>2, <1>5, <2>1, BeginStep DEF StartAnnounce, StartJob
<1>6. ASSUME NEW key \in Refreshed, StartRefresh(key) PROVE DHTInv'
  <2> DEFINE l == Lookup(key, FALSE)
  <2>1. JobGood(l, "refresh", Believed, heard, kept')
    BY <1>0, <1>1
  <2>2. StoredInv'
    BY <1>6, DHTAssumption DEF StartRefresh, DHTInv, StoredInv
  <2>3. job' = [job EXCEPT !["refresh"] = [l EXCEPT !.again = TRUE]]
    BY <1>6 DEF StartRefresh
  <2> HIDE DEF l
  <2>4. JobGood([l EXCEPT !.again = TRUE], "refresh", Believed, heard, kept')
    BY <2>1 DEF JobGood, JobFields
  <2> QED
    BY <1>0, <1>6, <2>2, <2>3, <2>4, BeginStep DEF StartRefresh
<1> QED
  BY <1>3, <1>4, <1>5, <1>6

\* What a node answers: its identity, and contacts that may be believed.
LEMMA AnswerFacts ==
  ASSUME DHTInv, NEW r \in rpcs,
         NEW answer, answer \in {Reply(r.to), handleFindNode(r.to, r), handleFindValue(r.to, r), handleStore(r.to, r)}
  PROVE  /\ DOMAIN answer = AnswerFields /\ answer.error \in BOOLEAN
         /\ [id |-> answer.id, at |-> r.to] \in Believed
         /\ answer.contacts \in Seq(Believed)
<1>1. r.to \in Nodes /\ r.key \in Ids /\ IdentInv
  BY DEF DHTInv, RpcsInv, RpcGood
<1>2. [id |-> ident[r.to], at |-> r.to] \in Believed
  BY <1>1, BelievedFacts
<1>3. ClosestPeers(Known[r.to], r.key, K) \in Seq(Believed)
  <2>1. Known[r.to] \in SUBSET Believed
    BY <1>1, BelievedFacts, NetworkAssumption
  <2>2. ClosestPeers(Known[r.to], r.key, K) \in Seq(Known[r.to])
    BY <1>1, <2>1, ClosestBelieved, DHTAssumption
  <2> QED
    BY <2>1, <2>2
<1> DEFINE base == Reply(r.to)
<1>4. /\ DOMAIN base = AnswerFields /\ base.error = FALSE /\ base.id = ident[r.to]
      /\ base.contacts \in Seq(Believed)
  <2>1. DOMAIN base = AnswerFields /\ base.error = FALSE /\ base.id = ident[r.to] /\ base.contacts = <<>>
    BY DEF Reply, AnswerFields
  <2>2. <<>> \in Seq(Believed)
    OBVIOUS
  <2> HIDE DEF base
  <2> QED
    BY <2>1, <2>2
<1> HIDE DEF base
<1>5. CASE answer = base
  BY <1>2, <1>4, <1>5
<1>6. CASE answer = handleFindNode(r.to, r)
  <2>1. answer = [base EXCEPT !.contacts = ClosestPeers(Known[r.to], r.key, K)]
    BY <1>6 DEF base, handleFindNode
  <2> QED
    BY <1>2, <1>3, <1>4, <2>1 DEF AnswerFields
<1>7. CASE answer = handleFindValue(r.to, r)
  <2> DEFINE list == Announced(r.to, r.key)
             c == IF r.page = 0 THEN ClosestPeers(Known[r.to], r.key, K) ELSE <<>>
             pages == IF Len(list) > 0 THEN Len(list) \div (K + 1) + 1 ELSE 0
  <2>1. answer = [base EXCEPT !.token = makeToken(r.to), !.contacts = c, !.pages = pages,
                              !.providers = Page(list, r.page), !.all = Range(list)]
    BY <1>7 DEF base, handleFindValue
  <2>2. c \in Seq(Believed)
    BY <1>3
  <2> HIDE DEF c, pages, list
  <2> QED
    BY <1>2, <1>4, <2>1, <2>2 DEF AnswerFields
<1>8. CASE answer = handleStore(r.to, r)
  <2>1. answer = base \/ answer = [base EXCEPT !.error = TRUE]
    BY <1>8 DEF base, handleStore
  <2> QED
    BY <1>2, <1>4, <2>1 DEF AnswerFields
<1> QED
  BY <1>5, <1>6, <1>7, <1>8 DEF base

LEMMA HandleStep ==
  ASSUME DHTInv, NEW r \in rpcs, HandleRequest(r)
  PROVE  DHTInv'
<1> DEFINE n == r.to
           answer == CASE r.method = "ping"      -> Reply(n)
                       [] r.method = "findNode"  -> handleFindNode(n, r)
                       [] r.method = "findValue" -> handleFindValue(n, r)
                       [] r.method = "store"     -> handleStore(n, r)
           s == [r EXCEPT !.stage = "answered", !.answer = answer]
<1>1. /\ rpcs' = (rpcs \ {r}) \cup {s}
      /\ stored' = [stored EXCEPT ![n] = StoredAfter(n, r)]
      /\ kept' = IF r.method = "store" /\ ~answer.error THEN kept \cup {n} ELSE kept
      /\ UNCHANGED <<node, idFile, ident, boots, table, failures, job, due, events, heard, missed>>
  BY DEF HandleRequest
<1>2. RpcGood(r, Believed, kept) /\ Owned(r, job)
  BY DEF DHTInv, RpcsInv
<1>3. /\ DOMAIN answer = AnswerFields /\ answer.error \in BOOLEAN
      /\ [id |-> answer.id, at |-> r.to] \in Believed
      /\ answer.contacts \in Seq(Believed)
  <2>1. answer \in {Reply(r.to), handleFindNode(r.to, r), handleFindValue(r.to, r), handleStore(r.to, r)}
    BY <1>2 DEF RpcGood
  <2> HIDE DEF answer
  <2> QED
    BY <2>1, AnswerFacts
<1> HIDE DEF answer
<1>4. IdentInv' /\ Believed' = Believed
  BY <1>1, BelievedKept DEF DHTInv
<1>5. FileInv'
  BY <1>1 DEF DHTInv, FileInv, NodeStates, Up
<1>6. StoredInv'
  <2>1. idFile = ident[Self] /\ ident[Self] \in Ids
    BY DHTAssumption DEF DHTInv, QuietInv, FileInv, IdentInv
  <2>2. Announcement(r) \in Announcements /\ Announcement(r).id = idFile
    BY <1>2, <2>1, DHTAssumption DEF Announcement, Announcements, RpcGood
  <2>3. n \in Nodes
    BY <1>2 DEF RpcGood
  <2>4. StoredAfter(n, r) \subseteq stored[n] \cup {Announcement(r)}
    BY DEF StoredAfter
  <2> HIDE DEF n
  <2>5. \A a \in StoredAfter(n, r) : a \in Announcements /\ (a.at = Self => a.id = idFile)
    BY <2>2, <2>3, <2>4 DEF DHTInv, StoredInv
  <2> QED
    BY <1>1, <2>3, <2>5 DEF DHTInv, StoredInv
<1>7. TableInv'
  BY <1>1, TableKept DEF DHTInv
<1>8. kept \subseteq kept' /\ kept' \subseteq Nodes
  BY <1>1, <1>2 DEF DHTInv, RpcGood
<1>9. JobsInv'
  BY <1>1, <1>4, <1>8, JobsKept DEF DHTInv
<1>10. RpcsInv'
  <2>1. RpcGood(r, Believed', kept')
    BY <1>2, <1>4, <1>8, RpcGrows
  <2>2. /\ DOMAIN s = RpcFields /\ s.by = r.by /\ s.to = r.to /\ s.key = r.key /\ s.id = r.id
        /\ s.method = r.method /\ s.stage = "answered" /\ s.answer = answer
    BY <1>2 DEF RpcGood, RpcFields
  <2> HIDE DEF s
  <2>3. AnswerGood(s, Believed', kept')
    BY <1>1, <1>3, <1>4, <2>2 DEF AnswerGood
  <2>4. RpcGood(s, Believed', kept') /\ Owned(s, job')
    BY <1>1, <1>2, <2>1, <2>2, <2>3 DEF RpcGood, Owned
  <2>5. \A q \in {s} : RpcGood(q, Believed', kept') /\ Owned(q, job')
    BY <2>4
  <2>6. \A q \in rpcs \cap rpcs' : Owned(q, job')
    BY <1>1 DEF DHTInv, RpcsInv
  <2>7. rpcs' \subseteq rpcs \cup {s} /\ Believed \subseteq Believed' /\ RpcsInv
    BY <1>1, <1>4 DEF DHTInv
  <2> QED
    BY <1>8, <2>5, <2>6, <2>7, RpcsStep
<1>11. QuietInv'
  BY <1>1 DEF DHTInv, QuietInv
<1> QED
  BY <1>1, <1>4, <1>5, <1>6, <1>7, <1>8, <1>9, <1>10, <1>11 DEF DHTInv, AnnouncedMeansStored

\* A step of one goroutine: it hears, uses the table, ends and makes calls.
LEMMA WorkStep ==
  ASSUME DHTInv, NEW p \in Procs, NEW j, j = Idle \/ JobGood(j, p, Believed, heard', kept),
         job[p] # Idle, DOMAIN job' = Procs, job'[p] = j,
         \A q \in Procs \ {p} : job'[q] = job[q], NEW more,
         \A r \in more : RpcGood(r, Believed, kept) /\ r.by = p /\ (r.method = "ping" => p = "bootstrap"),
         j = Idle => rpcs' \cap Calls(p) = {} /\ more = {},
         \A r \in rpcs' : r.method = "ping" /\ r.by = p => j.stage = "ping",
         rpcs' \subseteq rpcs \cup more,
         heard \subseteq heard', TableInv',
         UNCHANGED <<node, idFile, ident, boots, stored, kept>>, AnnouncedMeansStored'
  PROVE  DHTInv'
<1>1. IdentInv' /\ Believed' = Believed
  BY BelievedKept DEF DHTInv
<1>2. FileInv' /\ StoredInv'
  BY DEF DHTInv, FileInv, StoredInv, NodeStates, Up
<1>3. JobsInv'
  BY <1>1, JobsStep DEF DHTInv
<1>4. job'[p] = j /\ (p # "bootstrap" => job'["bootstrap"] = job["bootstrap"])
  BY DEF Procs
<1>5. ASSUME NEW r \in more PROVE RpcGood(r, Believed', kept') /\ (r \in rpcs' => Owned(r, job'))
  BY <1>1, <1>4 DEF Owned
<1>6. ASSUME NEW r \in rpcs \cap rpcs', r \notin more PROVE Owned(r, job')
  <2>1. Owned(r, job) /\ r.by \in Procs
    BY DEF DHTInv, RpcsInv, RpcGood
  <2>2. job'[r.by] # Idle
    <3>1. CASE r.by = p
      BY <1>4, <3>1 DEF Calls
    <3>2. CASE r.by # p
      BY <1>4, <2>1, <3>2 DEF Owned
    <3> QED
      BY <3>1, <3>2
  <2>3. r.method = "ping" => r.by = "bootstrap" /\ job'["bootstrap"].stage = "ping"
    BY <1>4, <1>6, <2>1 DEF Owned
  <2> QED
    BY <2>2, <2>3 DEF Owned
<1>7. RpcsInv'
  <2>1. ASSUME NEW r \in rpcs' PROVE RpcGood(r, Believed', kept') /\ Owned(r, job')
    <3>1. CASE r \in more
      BY <1>5, <3>1
    <3>2. CASE r \notin more
      BY <1>1, <1>6, <3>2 DEF DHTInv, RpcsInv
    <3> QED
      BY <3>1, <3>2
  <2> QED
    BY <2>1 DEF RpcsInv
<1>8. QuietInv'
  BY DEF DHTInv, QuietInv
<1> QED
  BY <1>1, <1>2, <1>3, <1>7, <1>8 DEF DHTInv

\* A goroutine of this stage is a good one.
LEMMA AtWork ==
  ASSUME DHTInv, NEW p \in Procs, job[p].stage # "idle"
  PROVE  JobGood(job[p], p, Believed, heard, kept) /\ job[p] # Idle
BY DEF DHTInv, JobsInv, Idle

LEMMA NextRoundStep ==
  ASSUME DHTInv, NEW p \in Procs, NextRound(p)
  PROVE  DHTInv'
<1> DEFINE j == job[p]
           first == j.round = 0
           k == IF first THEN j ELSE [j EXCEPT !.short = Sorted(j)]
           ask == FirstWith(k.short, Ids \ j.asked, Alpha)
           over == ask = {} \/ j.round = MaxRounds
           rt == IF first THEN Routing ELSE Reoffer(Routing, j)
           to == IF over THEN AfterLookup(p, k)
                 ELSE [k EXCEPT !.round = @ + 1, !.asked = @ \cup {c.id : c \in ask}]
           more == IF over THEN AfterCalls(p, k) ELSE {Query(p, j, c) : c \in ask}
<1>1. /\ j.stage = "round" /\ Calls(p) = {}
      /\ UNCHANGED <<node, idFile, ident, boots, stored, due, events, heard, kept, missed>>
      /\ SetRouting(rt) /\ job' = [job EXCEPT ![p] = to] /\ rpcs' = rpcs \cup more
  BY DEF NextRound
<1>2. JobGood(j, p, Believed, heard, kept) /\ j # Idle /\ IdentInv /\ TableInv
  <2>1. IdentInv /\ TableInv /\ job[p].stage # "idle"
    BY <1>1 DEF DHTInv
  <2> QED
    BY <2>1, AtWork
<1>3. Sorted(j) \in Seq(Believed) /\ \A short \in Seq(Believed) : \A ids, n : FirstWith(short, ids, n) \subseteq Believed
  <2>1. j.short \in Seq(Believed) /\ j.key \in Ids
    BY <1>2 DEF JobGood
  <2> HIDE DEF j
  <2> QED
    BY <1>2, <2>1, ShortlistFacts
<1>4. JobGood(k, p, Believed, heard, kept) /\ k.stage = "round" /\ k.key = j.key
  <2> HIDE DEF j, first
  <2> QED
    BY <1>1, <1>2, <1>3 DEF JobGood, JobFields
<1>5. ask \subseteq Believed /\ Answering(k) \subseteq Believed
  <2>1. k.short \in Seq(Believed)
    BY <1>4 DEF JobGood
  <2> HIDE DEF k, j
  <2> QED
    BY <1>3, <2>1 DEF Answering
<1>6. TableInv'
  <2>1. rt \in Tables(Others(heard))
    <3>1. Routing \in Tables(Others(heard)) /\ j.short \in Seq(Believed)
          /\ j.replied \subseteq IdsIn(Believed, heard)
      BY <1>2 DEF TableInv, JobGood
    <3> HIDE DEF j
    <3>2. Reoffer(Routing, j) \in Tables(Others(heard))
      BY <1>2, <3>1, ReofferSound
    <3> QED
      BY <3>1, <3>2
  <2>2. heard' = heard /\ heard \subseteq Nodes
    BY <1>1, <1>2 DEF TableInv
  <2> HIDE DEF rt
  <2> QED
    BY <1>1, <2>1, <2>2, TableStep
<1> HIDE DEF j, k, ask, over
<1>7. /\ to = Idle \/ JobGood(to, p, Believed, heard, kept)
      /\ to = Idle => over /\ p # "announcer"
  <2>1. CASE over /\ p = "announcer"
    <3>1. to = [k EXCEPT !.stage = "announce"]
      BY <2>1 DEF AfterLookup
    <3>2. JobGood([k EXCEPT !.stage = "announce"], p, Believed, heard, kept)
      BY <1>4, <2>1 DEF JobGood, JobFields
    <3> HIDE DEF to
    <3> QED
      BY <3>1, <3>2, GoodNotIdle
  <2>2. CASE over /\ p # "announcer"
    <3>1. to = Idle \/ to = Lookup(ident[Self], FALSE)
      BY <2>2 DEF AfterLookup
    <3>2. ident[Self] \in Ids
      BY <1>2, DHTAssumption DEF IdentInv
    <3> HIDE DEF to
    <3> QED
      BY <1>2, <2>2, <3>1, <3>2, LookupGood
  <2>3. CASE ~over
    <3>1. to = [k EXCEPT !.round = @ + 1, !.asked = @ \cup {c.id : c \in ask}]
      BY <2>3
    <3> HIDE DEF to
    <3>2. JobGood(to, p, Believed, heard, kept)
      BY <1>4, <3>1 DEF JobGood, JobFields
    <3> QED
      BY <3>2, GoodNotIdle
  <2> QED
    BY <2>1, <2>2, <2>3
<1>8. /\ \A r \in more : RpcGood(r, Believed, kept) /\ r.by = p /\ r.method # "ping"
      /\ to = Idle => more = {}
  <2>0. k.key \in Ids /\ j.key \in Ids
    BY <1>2, <1>4 DEF JobGood
  <2>1. ASSUME NEW c \in Believed
        PROVE  c.at \in Nodes /\ [id |-> c.id, at |-> c.at] \in Believed
    BY <1>2, BelievedFacts DEF Contact
  <2>2. ASSUME NEW c \in Believed
        PROVE  LET r == Query(p, j, c) IN RpcGood(r, Believed, kept) /\ r.by = p /\ r.method # "ping"
    <3> DEFINE m == IF j.find THEN "findValue" ELSE "findNode"
    <3>1. m \in {"findValue", "findNode"}
      OBVIOUS
    <3>2. Query(p, j, c) = Call(p, c, m, j.key, 0, 0)
      BY DEF Query
    <3> HIDE DEF m
    <3>3. /\ RpcGood(Call(p, c, m, j.key, 0, 0), Believed, kept)
          /\ Call(p, c, m, j.key, 0, 0).by = p /\ Call(p, c, m, j.key, 0, 0).method = m
      <4>1. /\ c.at \in Nodes /\ [id |-> c.id, at |-> c.at] \in Believed /\ j.key \in Ids
            /\ m \in {"ping", "findNode", "findValue", "store"} /\ m # "store"
        BY <2>0, <2>1, <3>1
      <4> QED
        BY <4>1 DEF Call, RpcGood, RpcFields
    <3> QED
      BY <3>1, <3>2, <3>3
  <2>3. ASSUME NEW c \in Believed
        PROVE  LET r == Call(p, c, "findValue", k.key, 0, 0)
               IN RpcGood(r, Believed, kept) /\ r.by = p /\ r.method # "ping"
    <3> DEFINE r == Call(p, c, "findValue", k.key, 0, 0)
    <3>1. c.at \in Nodes /\ [id |-> c.id, at |-> c.at] \in Believed
      BY <2>1
    <3>2. RpcGood(r, Believed, kept) /\ r.by = p /\ r.method = "findValue"
      BY <2>0, <3>1 DEF Call, RpcGood, RpcFields
    <3> QED
      BY <3>2
  <2>4. CASE over
    <3>1. more = IF p # "announcer" THEN {} ELSE {Call(p, c, "findValue", k.key, 0, 0) : c \in Answering(k)}
      BY <2>4 DEF AfterCalls
    <3> HIDE DEF more, to
    <3> QED
      BY <1>5, <1>7, <2>3, <3>1
  <2>5. CASE ~over
    <3>1. more = {Query(p, j, c) : c \in ask}
      BY <2>5
    <3> HIDE DEF more, to
    <3> QED
      BY <1>5, <1>7, <2>2, <2>5, <3>1
  <2> QED
    BY <2>4, <2>5
<1> HIDE DEF to, more, rt
<1>9. /\ DOMAIN job' = Procs /\ job'[p] = to /\ \A q \in Procs \ {p} : job'[q] = job[q]
  BY <1>1 DEF DHTInv, JobsInv
<1>10. /\ to = Idle => rpcs' \cap Calls(p) = {} /\ more = {}
       /\ \A r \in rpcs' : r.method = "ping" /\ r.by = p => to.stage = "ping"
       /\ rpcs' \subseteq rpcs \cup more
  BY <1>1, <1>8 DEF Calls
<1>11. AnnouncedMeansStored' /\ job[p] # Idle /\ heard \subseteq heard' /\ heard' = heard
  BY <1>1, <1>2 DEF DHTInv, AnnouncedMeansStored, j
<1>12. \A r \in more : RpcGood(r, Believed, kept) /\ r.by = p /\ (r.method = "ping" => p = "bootstrap")
  BY <1>8
<1> QED
  BY <1>1, <1>6, <1>7, <1>9, <1>10, <1>11, <1>12, WorkStep

\* What a goroutine may rely on when one of its calls ends.
LEMMA ResultFacts ==
  ASSUME DHTInv, NEW p \in Procs, NEW r \in Calls(p), NEW out \in Outcomes, Ends(r, out), Hear(r, out)
  PROVE  /\ RpcGood(r, Believed, kept) /\ r \in rpcs /\ r.by = p
         /\ r.method = "ping" => p = "bootstrap" /\ job[p].stage = "ping"
         /\ JobGood(job[p], p, Believed, heard, kept) /\ job[p] # Idle
         /\ heard \subseteq heard' /\ heard' \subseteq Nodes
         /\ Received(r, out) \in Tables(Others(heard'))
         /\ out = "answer" => r.to \in heard' /\ AnswerGood(r, Believed, kept) /\ ~r.answer.error
<1>1. /\ RpcGood(r, Believed, kept) /\ r \in rpcs /\ r.by = p /\ Owned(r, job)
      /\ IdentInv /\ TableInv
  BY DEF Calls, DHTInv, RpcsInv
<1>2. JobGood(job[p], p, Believed, heard, kept) /\ job[p] # Idle
  BY <1>1 DEF Owned, DHTInv, JobsInv
<1>3. r.method = "ping" => p = "bootstrap" /\ job[p].stage = "ping"
  BY <1>1 DEF Owned
<1>4. /\ heard \subseteq heard' /\ heard' \subseteq Nodes
      /\ Received(r, out) \in Tables(Others(heard'))
      /\ out = "answer" => r.to \in heard'
  BY <1>1, HearFacts
<1>5. out = "answer" => AnswerGood(r, Believed, kept) /\ ~r.answer.error
  BY <1>1 DEF Ends, RpcGood
<1> QED
  BY <1>1, <1>2, <1>3, <1>4, <1>5

LEMMA RoundResultStep ==
  ASSUME DHTInv, NEW p \in Procs, NEW r \in Calls(p), NEW out \in Outcomes, RoundResult(p, r, out)
  PROVE  DHTInv'
<1> DEFINE j == job[p]
           ok == out = "answer"
           sender == [id |-> r.id, at |-> r.to]
           more == ok /\ j.find /\ Len(r.answer.providers) >= K /\ r.answer.pages >= 1
           next == [j EXCEPT !.replied = @ \cup {r.id}, !.found = @ \cup Range(r.answer.providers)]
           to == CASE more -> [next EXCEPT !.stage = "paging", !.page = 1, !.peer = sender,
                                        !.last = r.answer.pages, !.news = r.answer.contacts,
                                        !.wanted = Promised(r.answer)]
                [] ok /\ ~more -> [next EXCEPT !.short = Learn(@, r.answer.contacts)]
                [] OTHER -> j
           calls == IF more THEN {Call(p, sender, "findValue", j.key, 1, 0)} ELSE {}
           rt == IF ok THEN Received(r, out) ELSE MarkFailure(Received(r, out), r.id)
<1>1. /\ j.stage = "round" /\ Ends(r, out) /\ rpcs' = (rpcs \ {r}) \cup calls
      /\ job' = [job EXCEPT ![p] = to] /\ SetRouting(rt) /\ Hear(r, out)
      /\ missed' \in {missed, missed \cup {"provider"}}
      /\ UNCHANGED <<node, idFile, ident, boots, stored, due, events, kept>>
  BY DEF RoundResult
<1>2. /\ RpcGood(r, Believed, kept) /\ r \in rpcs /\ r.by = p
      /\ r.method = "ping" => p = "bootstrap" /\ job[p].stage = "ping"
      /\ JobGood(job[p], p, Believed, heard, kept) /\ job[p] # Idle
      /\ heard \subseteq heard' /\ heard' \subseteq Nodes
      /\ Received(r, out) \in Tables(Others(heard'))
      /\ out = "answer" => r.to \in heard' /\ AnswerGood(r, Believed, kept) /\ ~r.answer.error
  BY <1>1, ResultFacts
<1>3. sender \in Believed /\ sender.at \in Nodes /\ r.method # "ping"
  BY <1>1, <1>2 DEF RpcGood
<1>4. TableInv'
  <2>1. rt \in Tables(Others(heard'))
    <3>1. IdentInv
      BY DEF DHTInv
    <3>2. MarkFailure(Received(r, out), r.id) \in Tables(Others(heard'))
      BY <1>2, <3>1, MarkFailureSound
    <3> QED
      BY <1>2, <3>2
  <2> HIDE DEF rt
  <2> QED
    BY <1>1, <1>2, <2>1, TableStep
<1>5. JobGood(j, p, Believed, heard', kept)
  BY <1>2, JobGrows
<1> HIDE DEF j, more
<1>6. ASSUME ok PROVE JobGood(next, p, Believed, heard', kept) /\ next.stage = "round"
  <2>1. r.id \in IdsIn(Believed, heard')
    <3>1. sender.id = r.id /\ sender.at = r.to /\ r.to \in heard'
      BY <1>2, <1>6
    <3> HIDE DEF sender
    <3> QED
      BY <1>3, <3>1 DEF IdsIn
  <2> QED
    BY <1>1, <1>5, <2>1 DEF JobGood, JobFields
<1>7. JobGood(to, p, Believed, heard', kept) /\ to.stage # "ping"
  <2>1. CASE more
    <3>1. ok /\ r.answer.contacts \in Seq(Believed)
      BY <1>2, <2>1 DEF AnswerGood, more
    <3>2. to = [next EXCEPT !.stage = "paging", !.page = 1, !.peer = sender, !.last = r.answer.pages,
                            !.news = r.answer.contacts, !.wanted = Promised(r.answer)]
      BY <2>1
    <3> HIDE DEF to, next, sender
    <3> QED
      BY <1>3, <1>6, <3>1, <3>2 DEF JobGood, JobFields
  <2>2. CASE ok /\ ~more
    <3>1. r.answer.contacts \in Seq(Believed)
      BY <1>2, <2>2 DEF AnswerGood
    <3>2. to = [next EXCEPT !.short = Learn(next.short, r.answer.contacts)]
      BY <2>2
    <3> HIDE DEF to, next
    <3>3. Learn(next.short, r.answer.contacts) \in Seq(Believed)
      BY <1>6, <2>2, <3>1, LearnFacts DEF JobGood
    <3> QED
      BY <1>6, <2>2, <3>2, <3>3 DEF JobGood, JobFields
  <2>3. CASE ~ok
    <3>1. to = j
      BY <2>3 DEF more
    <3> QED
      BY <1>1, <1>5, <3>1
  <2> QED
    BY <2>1, <2>2, <2>3
<1>8. \A c \in calls : RpcGood(c, Believed, kept) /\ c.by = p /\ (c.method = "ping" => p = "bootstrap")
  <2>1. j.key \in Ids
    BY <1>5 DEF JobGood
  <2> DEFINE c == Call(p, sender, "findValue", j.key, 1, 0)
  <2>2. sender = [id |-> sender.id, at |-> sender.at]
    OBVIOUS
  <2>3. RpcGood(c, Believed, kept) /\ c.by = p /\ c.method = "findValue"
    <3> HIDE DEF sender
    <3> QED
      BY <1>3, <2>1, <2>2 DEF Call, RpcGood, RpcFields
  <2> HIDE DEF c
  <2>4. calls \subseteq {c}
    BY DEF c
  <2> QED
    BY <2>3, <2>4
<1> HIDE DEF to, calls, rt
<1>9. to # Idle /\ DOMAIN job' = Procs /\ job'[p] = to /\ \A q \in Procs \ {p} : job'[q] = job[q]
  BY <1>1, <1>7, GoodNotIdle DEF DHTInv, JobsInv
<1>10. /\ rpcs' \subseteq rpcs \cup calls
       /\ \A c \in rpcs' : c.method = "ping" /\ c.by = p => to.stage = "ping"
  <2>1. \A c \in calls : c.method # "ping"
    BY DEF calls, Call
  <2>2. \A c \in rpcs : c.by = p => c.method # "ping"
    BY <1>1 DEF DHTInv, RpcsInv, Owned, j
  <2> QED
    BY <1>1, <2>1, <2>2
<1>11. AnnouncedMeansStored'
  BY <1>1 DEF DHTInv, AnnouncedMeansStored
<1> QED
  BY <1>1, <1>2, <1>4, <1>7, <1>8, <1>9, <1>10, <1>11, WorkStep

LEMMA PageResultStep ==
  ASSUME DHTInv, NEW p \in Procs, NEW r \in Calls(p), NEW out \in Outcomes, PageResult(p, r, out)
  PROVE  DHTInv'
<1> DEFINE j == job[p]
           ok == out = "answer"
           found == IF ok THEN j.found \cup Range(r.answer.providers) ELSE j.found
           more == ok /\ Len(r.answer.providers) >= K /\ j.page + 1 <= j.last
           to == IF more THEN [j EXCEPT !.found = found, !.page = @ + 1]
                 ELSE [j EXCEPT !.stage = "round", !.short = Learn(@, j.news), !.found = found,
                           !.wanted = {}, !.news = <<>>, !.peer = NoAnswer, !.page = 0, !.last = 0]
           calls == IF more THEN {Call(p, j.peer, "findValue", j.key, j.page + 1, 0)} ELSE {}
<1>1. /\ j.stage = "paging" /\ Ends(r, out) /\ rpcs' = (rpcs \ {r}) \cup calls
      /\ job' = [job EXCEPT ![p] = to] /\ SetRouting(Received(r, out)) /\ Hear(r, out)
      /\ missed' \in {missed, missed \cup {"provider"}}
      /\ UNCHANGED <<node, idFile, ident, boots, stored, due, events, kept>>
  BY DEF PageResult
<1>2. /\ RpcGood(r, Believed, kept) /\ r \in rpcs /\ r.by = p
      /\ JobGood(job[p], p, Believed, heard, kept) /\ job[p] # Idle
      /\ heard \subseteq heard' /\ heard' \subseteq Nodes
      /\ Received(r, out) \in Tables(Others(heard'))
  BY <1>1, ResultFacts
<1>3. TableInv'
  BY <1>1, <1>2, TableStep
<1>4. JobGood(j, p, Believed, heard', kept)
  BY <1>2, JobGrows
<1> HIDE DEF j, more, found
<1>5. JobGood(to, p, Believed, heard', kept) /\ to.stage # "ping"
  <2>1. CASE more
    <3>1. to = [j EXCEPT !.found = found, !.page = @ + 1]
      BY <2>1
    <3> HIDE DEF to
    <3> QED
      BY <1>1, <1>4, <3>1 DEF JobGood, JobFields
  <2>2. CASE ~more
    <3> DEFINE list == Learn(j.short, j.news)
    <3>1. to = [j EXCEPT !.stage = "round", !.short = list, !.found = found,
                         !.wanted = {}, !.news = <<>>, !.peer = NoAnswer, !.page = 0, !.last = 0]
      BY <2>2
    <3>2. list \in Seq(Believed)
      BY <1>4, LearnFacts DEF JobGood
    <3>3. <<>> \in Seq(Believed)
      OBVIOUS
    <3> HIDE DEF to, list
    <3> QED
      BY <1>4, <3>1, <3>2, <3>3 DEF JobGood, JobFields
  <2> QED
    BY <2>1, <2>2
<1>6. \A c \in calls : RpcGood(c, Believed, kept) /\ c.by = p /\ c.method # "ping"
  <2>1. j.key \in Ids /\ j.peer \in Believed
    BY <1>1, <1>4 DEF JobGood
  <2>2. j.peer.at \in Nodes /\ j.peer = [id |-> j.peer.id, at |-> j.peer.at]
    BY <2>1, BelievedFacts DEF DHTInv, Contact
  <2> DEFINE c == Call(p, j.peer, "findValue", j.key, j.page + 1, 0)
  <2>3. RpcGood(c, Believed, kept) /\ c.by = p /\ c.method = "findValue"
    BY <2>1, <2>2 DEF Call, RpcGood, RpcFields
  <2> HIDE DEF c
  <2>4. calls \subseteq {c}
    BY DEF c
  <2> QED
    BY <2>3, <2>4
<1> HIDE DEF to, calls
<1>7. to # Idle /\ DOMAIN job' = Procs /\ job'[p] = to /\ \A q \in Procs \ {p} : job'[q] = job[q]
  BY <1>1, <1>5, GoodNotIdle DEF DHTInv, JobsInv
<1>8. /\ rpcs' \subseteq rpcs \cup calls
      /\ \A c \in rpcs' : c.method = "ping" /\ c.by = p => to.stage = "ping"
  <2>1. \A c \in rpcs : c.by = p => c.method # "ping"
    BY <1>1 DEF DHTInv, RpcsInv, Owned, j
  <2> QED
    BY <1>1, <1>6, <2>1
<1>9. AnnouncedMeansStored'
  BY <1>1 DEF DHTInv, AnnouncedMeansStored
<1> QED
  BY <1>1, <1>2, <1>3, <1>5, <1>6, <1>7, <1>8, <1>9, WorkStep

\* A goroutine goes on and makes no call.
LEMMA WorkStepFewer ==
  ASSUME DHTInv, NEW p \in Procs, NEW j, j = Idle \/ JobGood(j, p, Believed, heard', kept),
         job[p] # Idle, DOMAIN job' = Procs, job'[p] = j,
         \A q \in Procs \ {p} : job'[q] = job[q],
         j = Idle => rpcs' \cap Calls(p) = {},
         \A r \in rpcs' : r.method = "ping" /\ r.by = p => j.stage = "ping",
         rpcs' \subseteq rpcs,
         heard \subseteq heard', TableInv',
         UNCHANGED <<node, idFile, ident, boots, stored, kept>>, AnnouncedMeansStored'
  PROVE  DHTInv'
<1> DEFINE more == rpcs \ rpcs
<1>1. /\ \A r \in more : RpcGood(r, Believed, kept) /\ r.by = p /\ (r.method = "ping" => p = "bootstrap")
      /\ j = Idle => rpcs' \cap Calls(p) = {} /\ more = {}
      /\ rpcs' \subseteq rpcs \cup more
  OBVIOUS
<1> HIDE DEF more
<1> QED
  BY <1>1, WorkStep

\* A goroutine goes on with one more call.
LEMMA WorkStepCall ==
  ASSUME DHTInv, NEW p \in Procs, NEW j, JobGood(j, p, Believed, heard', kept),
         job[p] # Idle, DOMAIN job' = Procs, job'[p] = j,
         \A q \in Procs \ {p} : job'[q] = job[q],
         NEW c, RpcGood(c, Believed, kept), c.by = p, c.method = "ping" => p = "bootstrap",
         \A r \in rpcs' : r.method = "ping" /\ r.by = p => j.stage = "ping",
         rpcs' \subseteq rpcs \cup {c},
         heard \subseteq heard', TableInv',
         UNCHANGED <<node, idFile, ident, boots, stored, kept>>, AnnouncedMeansStored'
  PROVE  DHTInv'
<1> DEFINE more == {c}
<1>1. /\ \A r \in more : RpcGood(r, Believed, kept) /\ r.by = p /\ (r.method = "ping" => p = "bootstrap")
      /\ rpcs' \subseteq rpcs \cup more
  OBVIOUS
<1>2. j # Idle
  BY GoodNotIdle
<1> HIDE DEF more
<1> QED
  BY <1>1, <1>2, WorkStep

LEMMA PingNextStep ==
  ASSUME DHTInv, PingNext
  PROVE  DHTInv'
<1> DEFINE p == "bootstrap"
           j == job["bootstrap"]
<1>1. /\ j.stage = "ping" /\ Calls("bootstrap") = {}
      /\ UNCHANGED <<node, idFile, ident, boots, table, failures, stored, due, events, heard, kept, missed>>
  BY DEF PingNext
<1>2. /\ "bootstrap" \in Procs /\ IdentInv /\ TableInv /\ DOMAIN job = Procs
      /\ Len(Seeds) \in Nat /\ Seeds \in Seq(Nodes)
  BY NetworkAssumption DEF DHTInv, JobsInv, Procs
<1>3. JobGood(j, "bootstrap", Believed, heard, kept) /\ j # Idle
  BY <1>1, <1>2, AtWork
<1>4. ident[Self] \in Ids
  BY <1>2, DHTAssumption DEF IdentInv
<1>5. TableInv' /\ AnnouncedMeansStored' /\ heard \subseteq heard' /\ heard' = heard
  BY <1>1, <1>2, TableKept DEF DHTInv, AnnouncedMeansStored
<1>6. \/ job' = [job EXCEPT !["bootstrap"] = Idle] /\ rpcs' = rpcs
      \/ job' = [job EXCEPT !["bootstrap"] = Lookup(ident[Self], FALSE)] /\ rpcs' = rpcs
      \/ /\ j.page # Len(Seeds)
         /\ job' = [job EXCEPT !["bootstrap"] = [j EXCEPT !.page = @ + 1]]
         /\ rpcs' \subseteq rpcs \cup {Ping("bootstrap", Seeds[j.page + 1])}
  <2> DEFINE stop == node # "running"
             enough == j.last >= SeedGoal \/ j.page = Len(Seeds)
             end == job' = [job EXCEPT !["bootstrap"] = Idle] /\ rpcs' = rpcs
             find == job' = [job EXCEPT !["bootstrap"] = Lookup(ident[Self], FALSE)] /\ rpcs' = rpcs
             go == /\ job' = [job EXCEPT !["bootstrap"].page = @ + 1]
                   /\ rpcs' \in {rpcs, rpcs \cup {Ping("bootstrap", Seeds[j.page + 1])}}
  <2>1. j.last = 0 \/ j.last > 0
    <3> HIDE DEF j
    <3> QED
      BY <1>1, <1>3 DEF JobGood
  <2>2. (CASE stop \/ (enough /\ j.last = 0) -> end
           [] ~stop /\ enough /\ j.last > 0 -> find
           [] OTHER -> go)
    BY DEF PingNext
  <2>3. go => /\ job' = [job EXCEPT !["bootstrap"] = [j EXCEPT !.page = @ + 1]]
              /\ rpcs' \subseteq rpcs \cup {Ping("bootstrap", Seeds[j.page + 1])}
    OBVIOUS
  <2>4. ~enough => j.page # Len(Seeds)
    OBVIOUS
  <2> HIDE DEF stop, enough, end, find, go
  <2>5. end \/ find \/ (go /\ ~enough)
    BY <2>1, <2>2
  <2> QED
    BY <2>3, <2>4, <2>5 DEF end, find
<1>7. ASSUME NEW to, to = Idle \/ JobGood(to, "bootstrap", Believed, heard, kept),
             job' = [job EXCEPT !["bootstrap"] = to], rpcs' = rpcs
      PROVE  DHTInv'
  <2>1. DOMAIN job' = Procs /\ job'["bootstrap"] = to /\ \A q \in Procs \ {"bootstrap"} : job'[q] = job[q]
    BY <1>2, <1>7
  <2>2. /\ rpcs' \subseteq rpcs /\ rpcs' \cap Calls("bootstrap") = {}
        /\ \A c \in rpcs' : c.method = "ping" /\ c.by = "bootstrap" => to.stage = "ping"
    BY <1>1, <1>7 DEF Calls
  <2> HIDE DEF j
  <2>3. job["bootstrap"] # Idle /\ (to = Idle \/ JobGood(to, "bootstrap", Believed, heard', kept))
    BY <1>3, <1>5, <1>7 DEF j
  <2> QED
    BY <1>1, <1>2, <1>5, <2>1, <2>2, <2>3, WorkStepFewer
<1>8. CASE job' = [job EXCEPT !["bootstrap"] = Idle] /\ rpcs' = rpcs
  BY <1>7, <1>8
<1>9. CASE job' = [job EXCEPT !["bootstrap"] = Lookup(ident[Self], FALSE)] /\ rpcs' = rpcs
  <2>1. JobGood(Lookup(ident[Self], FALSE), "bootstrap", Believed, heard, kept)
    BY <1>2, <1>4, LookupGood
  <2> QED
    BY <1>7, <1>9, <2>1
<1>10. CASE /\ j.page # Len(Seeds)
            /\ job' = [job EXCEPT !["bootstrap"] = [j EXCEPT !.page = @ + 1]]
            /\ rpcs' \subseteq rpcs \cup {Ping("bootstrap", Seeds[j.page + 1])}
  <2> DEFINE to == [j EXCEPT !.page = @ + 1]
             c == Ping("bootstrap", Seeds[j.page + 1])
  <2>1. j.page \in 0 .. Len(Seeds) /\ j.page + 1 \in 0 .. Len(Seeds) /\ j.page + 1 \in 1 .. Len(Seeds)
    BY <1>1, <1>2, <1>3, <1>10 DEF JobGood
  <2>2. Seeds[j.page + 1] \in Nodes
    BY <1>2, <2>1
  <2>3. RpcGood(c, Believed, kept) /\ c.by = "bootstrap" /\ c.method = "ping"
    BY <1>2, <1>4, <2>2 DEF Ping, Call, RpcGood, RpcFields
  <2> HIDE DEF j
  <2>4. JobGood(to, "bootstrap", Believed, heard, kept) /\ to.stage = "ping"
    BY <1>1, <1>3, <2>1 DEF JobGood, JobFields
  <2> HIDE DEF to, c
  <2>5. to # Idle /\ DOMAIN job' = Procs /\ job'["bootstrap"] = to /\ \A q \in Procs \ {"bootstrap"} : job'[q] = job[q]
    BY <1>2, <1>10, <2>4, GoodNotIdle DEF to
  <2>6. rpcs' \subseteq rpcs \cup {c}
    BY <1>10 DEF c
  <2>7. job["bootstrap"] # Idle /\ JobGood(to, "bootstrap", Believed, heard', kept)
    BY <1>3, <1>5, <2>4 DEF j
  <2> QED
    BY <1>1, <1>2, <1>5, <2>3, <2>4, <2>5, <2>6, <2>7, WorkStepCall
<1> QED
  BY <1>6, <1>8, <1>9, <1>10

LEMMA PingResultStep ==
  ASSUME DHTInv, NEW r \in Calls("bootstrap"), NEW out \in Outcomes, PingResult(r, out)
  PROVE  DHTInv'
<1> DEFINE j == job["bootstrap"]
           to == IF out = "answer" THEN [j EXCEPT !.last = @ + 1] ELSE j
<1>0. "bootstrap" \in Procs /\ DOMAIN job = Procs
  BY DEF Procs, DHTInv, JobsInv
<1>1. /\ j.stage = "ping" /\ Ends(r, out) /\ Hear(r, out) /\ SetRouting(Received(r, out))
      /\ rpcs' = rpcs \ {r}
      /\ DOMAIN job' = Procs /\ job'["bootstrap"] = to /\ \A q \in Procs \ {"bootstrap"} : job'[q] = job[q]
      /\ UNCHANGED <<node, idFile, ident, boots, stored, due, events, kept, missed>>
  BY <1>0 DEF PingResult
<1>2. /\ JobGood(job["bootstrap"], "bootstrap", Believed, heard, kept) /\ job["bootstrap"] # Idle
      /\ heard \subseteq heard' /\ heard' \subseteq Nodes
      /\ Received(r, out) \in Tables(Others(heard'))
  BY <1>0, <1>1, ResultFacts
<1>3. TableInv'
  BY <1>1, <1>2, TableStep
<1>4. JobGood(j, "bootstrap", Believed, heard', kept)
  BY <1>2, JobGrows
<1>5. JobGood(to, "bootstrap", Believed, heard', kept) /\ to.stage = "ping"
  <2> HIDE DEF j
  <2> QED
    BY <1>1, <1>4 DEF JobGood, JobFields
<1> HIDE DEF j, to
<1>6. to # Idle
  BY <1>5, GoodNotIdle
<1>7. rpcs' \subseteq rpcs /\ AnnouncedMeansStored'
  BY <1>1 DEF DHTInv, AnnouncedMeansStored
<1> QED
  BY <1>0, <1>1, <1>2, <1>3, <1>5, <1>6, <1>7, WorkStepFewer

\* Who acknowledged a store keeps the announcement.
LEMMA AnnounceResultStep ==
  ASSUME DHTInv, NEW r \in Calls("announcer"), NEW out \in Outcomes, AnnounceResult(r, out)
  PROVE  DHTInv'
<1> DEFINE j == job["announcer"]
           ok == out = "answer"
           to == IF ok /\ r.method = "store" THEN [j EXCEPT !.acks = @ \cup {r.id}] ELSE j
           c == Call("announcer", [id |-> r.id, at |-> r.to], "store", r.key, 0, r.answer.token)
           calls == IF ok /\ r.method = "findValue" THEN {c} ELSE {}
<1>0. "announcer" \in Procs /\ DOMAIN job = Procs
  BY DEF Procs, DHTInv, JobsInv
<1>1. /\ j.stage = "announce" /\ Ends(r, out) /\ Hear(r, out) /\ SetRouting(Received(r, out))
      /\ rpcs' = (rpcs \ {r}) \cup calls
      /\ DOMAIN job' = Procs /\ job'["announcer"] = to /\ \A q \in Procs \ {"announcer"} : job'[q] = job[q]
      /\ UNCHANGED <<node, idFile, ident, boots, stored, due, events, kept, missed>>
  BY <1>0 DEF AnnounceResult
<1>2. /\ RpcGood(r, Believed, kept) /\ r \in rpcs /\ r.by = "announcer"
      /\ r.method = "ping" => "announcer" = "bootstrap"
      /\ JobGood(job["announcer"], "announcer", Believed, heard, kept) /\ job["announcer"] # Idle
      /\ heard \subseteq heard' /\ heard' \subseteq Nodes
      /\ Received(r, out) \in Tables(Others(heard'))
      /\ out = "answer" => r.to \in heard' /\ AnswerGood(r, Believed, kept) /\ ~r.answer.error
  BY <1>0, <1>1, ResultFacts
<1>3. TableInv'
  BY <1>1, <1>2, TableStep
<1>4. JobGood(j, "announcer", Believed, heard', kept)
  BY <1>2, JobGrows
<1>5. [id |-> r.id, at |-> r.to] \in Believed /\ r.to \in Nodes /\ r.key \in Ids
  BY <1>2 DEF RpcGood
<1> HIDE DEF j
<1>6. JobGood(to, "announcer", Believed, heard', kept) /\ to.stage = "announce"
  <2>1. CASE ok /\ r.method = "store"
    <3>1. r.to \in kept
      BY <1>2, <2>1 DEF AnswerGood
    <3>2. r.id \in IdsIn(Believed, kept)
      <4> DEFINE d == [id |-> r.id, at |-> r.to]
      <4>1. d \in Believed /\ d.id = r.id /\ d.at \in kept
        BY <1>5, <3>1
      <4> HIDE DEF d
      <4> QED
        BY <4>1 DEF IdsIn
    <3> QED
      BY <1>1, <1>4, <2>1, <3>2 DEF JobGood, JobFields
  <2>2. CASE ~(ok /\ r.method = "store")
    BY <1>1, <1>4, <2>2
  <2> QED
    BY <2>1, <2>2
<1>7. RpcGood(c, Believed, kept) /\ c.by = "announcer" /\ c.method = "store"
  BY <1>0, <1>5 DEF Call, RpcGood, RpcFields
<1> HIDE DEF to, c, ok
<1>8. /\ rpcs' \subseteq rpcs \cup {c} /\ AnnouncedMeansStored'
      /\ \A x \in rpcs' : x.method = "ping" /\ x.by = "announcer" => to.stage = "ping"
  BY <1>1, <1>7 DEF DHTInv, AnnouncedMeansStored, RpcsInv, Owned
<1> HIDE DEF calls
<1> QED
  BY <1>0, <1>1, <1>2, <1>3, <1>6, <1>7, <1>8, WorkStepCall

\* While nobody has changed its identity there are as many keepers as acknowledgements.
LEMMA AcksCounted ==
  ASSUME DHTInv, ident = FirstId, NEW acks, acks \subseteq IdsIn(Believed, kept)
  PROVE  Cardinality(acks) \in Nat /\ Cardinality(kept) \in Nat /\ Cardinality(acks) <= Cardinality(kept)
<1>1. IsFiniteSet(kept) /\ kept \subseteq Nodes
  BY FS_Subset, NetworkAssumption DEF DHTInv
<1>2. ASSUME NEW id \in acks PROVE \E n \in kept : FirstId[n] = id
  <2>1. PICK c \in Believed : c.id = id /\ c.at \in kept
    BY DEF IdsIn
  <2>2. c \in FirstContacts
    BY <2>1, NetworkAssumption DEF Believed
  <2> QED
    BY <2>1, <2>2 DEF FirstContacts
<1> DEFINE f == [id \in acks |-> CHOOSE n \in kept : FirstId[n] = id]
<1>3. f \in [acks -> kept] /\ \A id \in acks : FirstId[f[id]] = id
  BY <1>2
<1> HIDE DEF f
<1>4. f \in Injection(acks, kept)
  BY <1>3 DEF Injection, IsInjective
<1>5. IsFiniteSet(acks) /\ Cardinality(acks) <= Cardinality(kept)
  BY <1>1, <1>4, FS_Injection
<1> QED
  BY <1>1, <1>5, FS_CardinalityType

LEMMA AnnounceDoneStep ==
  ASSUME DHTInv, AnnounceDone
  PROVE  DHTInv'
<1> DEFINE j == job["announcer"]
<1>0. "announcer" \in Procs /\ DOMAIN job = Procs /\ IdentInv /\ TableInv
  BY DEF Procs, DHTInv, JobsInv
<1>1. /\ j.stage = "announce" /\ Calls("announcer") = {}
      /\ DOMAIN job' = Procs /\ job'["announcer"] = Idle /\ \A q \in Procs \ {"announcer"} : job'[q] = job[q]
      /\ UNCHANGED <<node, idFile, ident, boots, table, failures, stored, rpcs, events, heard, kept>>
  BY <1>0 DEF AnnounceDone
<1>2. JobGood(j, "announcer", Believed, heard, kept) /\ j # Idle
  BY <1>0, <1>1, AtWork
<1>3. AnnouncedMeansStored'
  <2>1. ASSUME Accepted(j) > Enough, Cardinality(kept) <= Enough, ident = FirstId PROVE FALSE
    <3>1. j.acks \subseteq IdsIn(Believed, kept)
      BY <1>2 DEF JobGood
    <3>2. /\ Cardinality(j.acks) \in Nat /\ Cardinality(kept) \in Nat
          /\ Cardinality(j.acks) <= Cardinality(kept)
      BY <2>1, <3>1, AcksCounted
    <3> QED
      BY <2>1, <3>2, DHTAssumption DEF Accepted
  <2>2. missed' = missed
    BY <2>1 DEF AnnounceDone
  <2> QED
    BY <2>2 DEF DHTInv, AnnouncedMeansStored
<1>4. TableInv' /\ heard \subseteq heard' /\ heard' = heard
  BY <1>0, <1>1, TableKept
<1>5. /\ rpcs' \subseteq rpcs /\ rpcs' \cap Calls("announcer") = {}
      /\ \A c \in rpcs' : c.method = "ping" /\ c.by = "announcer" => Idle.stage = "ping"
  BY <1>1 DEF Calls
<1> HIDE DEF j
<1>6. job["announcer"] # Idle
  BY <1>2 DEF j
<1> QED
  BY <1>0, <1>1, <1>3, <1>4, <1>5, <1>6, WorkStepFewer

LEMMA ProceedStep ==
  ASSUME DHTInv, NEW p \in Procs, Proceed(p)
  PROVE  DHTInv'
<1>1. CASE NextRound(p)
  BY <1>1, NextRoundStep
<1>2. CASE PingNext
  BY <1>2, PingNextStep
<1>3. CASE AnnounceDone
  BY <1>3, AnnounceDoneStep
<1>4. ASSUME NEW r \in Calls(p), NEW out \in Outcomes, Result(r, out) PROVE DHTInv'
  <2>1. r.by = p
    BY DEF Calls
  <2>2. CASE RoundResult(p, r, out)
    BY <2>2, RoundResultStep
  <2>3. CASE PageResult(p, r, out)
    BY <2>3, PageResultStep
  <2>4. CASE PingResult(r, out)
    <3>1. r \in Calls("bootstrap")
      BY <2>4 DEF PingResult
    <3> QED
      BY <2>4, <3>1, PingResultStep
  <2>5. CASE AnnounceResult(r, out)
    <3>1. r \in Calls("announcer")
      BY <2>5 DEF AnnounceResult
    <3> QED
      BY <2>5, <3>1, AnnounceResultStep
  <2> QED
    BY <1>4, <2>1, <2>2, <2>3, <2>4, <2>5 DEF Result
<1> QED
  BY <1>1, <1>2, <1>3, <1>4 DEF Proceed

\* The invariant is inductive: contacts, calls and goroutines stay what they are believed to be
\* through every answer, failure, restart and change of identity (dht/node.go).
THEOREM DHTInvariance == DHTSpec => []DHTInv
<1>1. DHTInit => DHTInv
  BY InitGood
<1>2. DHTInv /\ [DHTNext]_dhtVars => DHTInv'
  <2> SUFFICES ASSUME DHTInv, [DHTNext]_dhtVars PROVE DHTInv'
    OBVIOUS
  <2>1. CASE UNCHANGED dhtVars
    <3>1. ident' = ident /\ UNCHANGED <<table, failures, rpcs, job, heard, kept, missed>> /\ node' = node
      BY <2>1 DEF dhtVars
    <3>2. FileInv' /\ StoredInv'
      BY <2>1 DEF dhtVars, DHTInv, FileInv, StoredInv, NodeStates, Up
    <3> QED
      BY <3>1, <3>2, OutsideStep
  <2>2. CASE LoadIdentity \/ LinkIdentity \/ publishNodeIDExclusive
    BY <2>2, LoadStep, LinkStep, PublishStep
  <2>3. CASE Stop \/ StopEnds \/ FallDue \/ Exit
    BY <2>3, StopStep, ExitStep
  <2>4. CASE \E n \in Nodes, id \in Ids : PeerRestart(n, id)
    BY <2>4, PeerRestartStep
  <2>5. CASE \E n \in Nodes : \E a \in stored[n] : Lapse(n, a)
    BY <2>5, LapseStep
  <2>6. CASE \/ StartBootstrap \/ StartFind \/ StartAnnounce
             \/ \E key \in Refreshed : StartRefresh(key)
    BY <2>6, StartStep
  <2>7. CASE \E r \in rpcs : HandleRequest(r)
    BY <2>7, HandleStep
  <2>8. CASE \E p \in Procs : Proceed(p)
    BY <2>8, ProceedStep
  <2> QED
    BY <2>1, <2>2, <2>3, <2>4, <2>5, <2>6, <2>7, <2>8 DEF DHTNext
<1> QED
  BY <1>1, <1>2, PTL DEF DHTSpec

\* The routing table holds only verified contacts, one identity an address and K a bucket, and
\* Self appears in the network under the identity of its file only (AddPeer, MarkFailure,
\* loadOrCreateNodeID), for any network, width of the identities and number of events.
THEOREM IdentitiesSoundHolds == DHTSpec => []IdentitiesSound
<1>1. DHTInv => IdentitiesSound
  <2> SUFFICES ASSUME DHTInv PROVE IdentitiesSound
    OBVIOUS
  <2>0. IdentInv /\ TableInv /\ StoredInv /\ FileInv
    BY DEF DHTInv
  <2>1. /\ table \subseteq Others(heard) /\ \A c, d \in table : c.at = d.at => c = d
        /\ \A i \in 1 .. Width : Cardinality({c \in table : BucketIndex(c.id) = i}) <= K
    BY <2>0 DEF TableInv, Tables, Routing
  <2>2. \A c, d \in table : c.id = d.id => c = d
    BY <2>0, <2>1, BelievedFacts, OthersFinite
  <2>3. \A c \in table : c.at \in heard /\ c.id # ident[Self]
    BY <2>1 DEF Others, Reached
  <2>4. IdentityKept
    BY <2>0 DEF IdentityKept, StoredInv, FileInv, IdentInv, Up
  <2> QED
    BY <2>1, <2>2, <2>3, <2>4 DEF IdentitiesSound, ContactsVerified
<1> QED
  BY <1>1, DHTInvariance, PTL

\* A blob counts as announced only when more than Enough nodes carried out a store of the round
\* (AnnounceBlob, MarkBlobsAnnounced), as long as no node has changed its identity.
THEOREM AnnouncedMeansStoredHolds == DHTSpec => []AnnouncedMeansStored
<1>1. DHTInv => AnnouncedMeansStored
  BY DEF DHTInv
<1> QED
  BY <1>1, DHTInvariance, PTL
=============================================================================
