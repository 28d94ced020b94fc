------------------------- MODULE StreamingProofs -------------------------
(***************************************************************************)
(* For any number of requests, operations, gets, blobs and peers: nobody   *)
(* plays a stream while it is deleted, gets with the same parameters pay   *)
(* once, a fetch fails only when no source named a peer that has the blob, *)
(* a played stream does not go to sleep and an idle one does, and what a   *)
(* request writes is the range that its headers promised.                  *)
(***************************************************************************)
EXTENDS Streaming, WellFoundedInduction, TLAPS

(***************************************************************************)
(* Shapes.  Of a request and a get only the fields that the arguments use  *)
(* have a type.                                                            *)
(***************************************************************************)

RequestRecord(q) ==
    [pc : {q.pc}, head : {q.head}, header : {q.header}, cancelled : {q.cancelled}, blob : {q.blob},
     plan : {q.plan}, sent : {q.sent}, done : {q.done}, status : {q.status}]
GetRecord(q) ==
    [pc : {q.pc}, key : {q.key}, http : {q.http}, enabled : {q.enabled}, save : {q.save},
     on : {q.on}, cancelled : {q.cancelled}, result : {q.result}]
OpPlace == {"new", "end", "save", "allow", "schedule", "cancel", "mark", "block", "drain", "stop",
            "purge", "wipe", "finish", "clean"}
OpRecord == [kind : OpKind, waits : SUBSET Request, pc : OpPlace]
Work == {"resolve", "list", "pay", "ensure", "wait", "describe", "persist", "link", "finish",
         "register", "save", "allow", "pay off", "fail", "close"}
FlightRecord ==
    [pc : Work \union {"none", "done"}, next : {"none", "describe", "register"}, cancelled : BOOLEAN,
     waiters : Int, payment : {"none", "reserved", "sent"}, result : {"none", "ok", "cancelled", "error"}]
FetchRecord ==
    [st : {"none", "running", "won", "failed"}, source : [Source -> {"off", "looking", "sent", "taken"}],
     call : [Peer -> {"none", "dialing", "asked", "good", "bad", "used"}]]

RequestsTyped ==
    /\ req = [r \in Request |-> req[r]]
    /\ \A r \in Request : req[r] \in RequestRecord(req[r])
GetsTyped ==
    /\ get = [g \in Get |-> get[g]]
    /\ \A g \in Get : get[g] \in GetRecord(get[g])
OpsTyped == op \in [Op -> OpRecord]
FlightsTyped ==
    /\ flight \in [Get -> FlightRecord]
    /\ flights \in [{get[g].key : g \in Get} -> Get \union {NoGet}]
FetchTyped == fetch \in [Blob -> FetchRecord]

(***************************************************************************)
(* Deletions                                                               *)
(***************************************************************************)

\* A registered request has not returned.
ActiveInv == active \subseteq Request /\ \A r \in active : req[r].pc \notin {"new", "end"}

\* The stream is marked from the first step of a deletion and blocked from the second, so
\* the requests that are left are those that the deletion waits for.
BlockInv ==
    /\ \A o \in Op : /\ op[o].kind = "none" => op[o].pc = "end"
                     /\ op[o].pc = "cancel" => op[o].kind = "stop"
                     /\ op[o].pc \in {"stop", "purge", "wipe", "finish"} => op[o].waits = {}
    /\ \A d \in Markers \ lifted : deleting
    /\ \A d \in Deleters \ lifted : blocked /\ active \subseteq op[d].waits

QuietInv == RequestsTyped /\ OpsTyped /\ ActiveInv /\ BlockInv

(***************************************************************************)
(* Payments                                                                *)
(***************************************************************************)

\* A worker that nobody cancelled is the one that its key finds.
RegisteredInv ==
    /\ \A g \in Get : get[g].pc = "wait" => get[g].on \in Get
    /\ \A g \in Get : flight[g].pc \in Work /\ ~flight[g].cancelled => flights[get[g].key] = g
    /\ \A g \in Get : flight[g].pc = "wait" => flight[g].next # "none"

\* What a worker does with the row in place, or when there was one.
Settled(f) ==
    \/ f.pc \in {"link", "finish", "register", "save", "allow", "pay off"}
    \/ f.pc = "wait" /\ f.next = "register"

\* The worker may still pay.  One that is cancelled after it has registered the stream may.
Paying(f) ==
    /\ f.pc # "fail"
    /\ \/ ~f.cancelled /\ (f.pc = "pay" \/ f.payment = "reserved")
       \/ f.payment = "reserved" /\ f.pc \in {"allow", "pay off"}

OneKey == \A g, h \in Get : get[g].key = get[h].key

\* The row is saved before the payment is sent, a worker that begins with the row in place
\* does not pay, and of several workers with the same key one may pay.
PaymentInv ==
    /\ payments \in Nat
    /\ \A g \in Get : Settled(flight[g]) => row.persisted \/ renewed
    /\ \A g \in Get : flight[g].pc \in {"none", "resolve", "list", "pay", "close", "done"} =>
            flight[g].payment # "reserved"
    /\ OneKey /\ ~renewed /\ payments > 0 =>
            payments = 1 /\ row.persisted /\ \A g \in Get : ~Paying(flight[g])
    /\ OneKey /\ ~renewed =>
            \A g, h \in Get : Paying(flight[g]) /\ Paying(flight[h]) => g = h

PaidInv == row \in Row /\ GetsTyped /\ FlightsTyped /\ RegisteredInv /\ PaymentInv

(***************************************************************************)
(* Fetches                                                                 *)
(***************************************************************************)

WorldTyped ==
    /\ world.found \subseteq Peer
    /\ \A r \in world.trackers \union world.fixed : r.peers \subseteq Peer

\* While it runs, a fetch has asked, or still has to ask, everybody that its sources named,
\* and whoever failed it does not hold the blob.
Asking(f) ==
    /\ \A s \in Source : Configured(s) =>
        /\ f.source[s] \in {"looking", "sent", "taken"}
        /\ f.source[s] = "taken" => \A p \in Batch(s) \ world.portless : f.call[p] # "none"
    /\ \A p \in Peer : f.call[p] \in {"bad", "used"} => world.kind[p] # "holds"

FetchInv ==
    /\ WorldTyped /\ FetchTyped
    /\ \A b \in Blob : fetch[b].st = "running" => Asking(fetch[b])
    /\ FetchFailureExplained

(***************************************************************************)
(* Idle streams                                                            *)
(***************************************************************************)

Playing == {"describe", "wait", "got", "lost", "walk"}

\* Who has looked the row up finds it, who has marked it keeps it awake, and nobody marks it
\* while the function of a timer stops it.
PlayInv ==
    /\ \A r \in active \ overruled :
          /\ req[r].pc \in Playing \union {"activate"} => row.managed
          /\ req[r].pc \in Playing => row.status # "stopped"
    /\ idling # 0 => \A r \in active : req[r].pc \notin Playing

\* Nobody failed to stop the row, no get ran, and somebody played the stream.
Undisturbed ==
    /\ ~down /\ ~missed /\ row.managed
    /\ \A g \in Get : flight[g].pc = "none"
    /\ \E r \in Request : req[r].status = 206

\* Somebody who will stop the row, or forget it, is on the way.
Sleeper ==
    \/ row.saving \/ active # {} \/ timer # 0 \/ idling # 0
    \/ \E o \in Op : op[o].pc \in {"drain", "stop", "purge", "wipe", "finish"}

\* Only a deletion blocks the stream, and it does not end before the block does.
DeletersInv ==
    /\ \A o \in Op : op[o].pc \in {"mark", "block", "purge", "wipe", "finish"} => op[o].kind = "delete"
    /\ blocked => Deleters # {}

CountersInv == timers \in Nat /\ 0 \notin firing

RegisterInv == \A r \in Request : req[r].pc \notin {"new", "end"} => r \in active

SleepInv == RegisterInv /\ CountersInv /\ DeletersInv /\ (Undisturbed /\ row.status = "running" => Sleeper)

IdleInv == PlayInv /\ SleepInv
(***************************************************************************)
(* Requests and deletions                                                  *)
(***************************************************************************)

\* The steps of r itself leave the other requests alone, and r does not return while it is
\* registered.
Own(r) ==
    /\ RequestsTyped'
    /\ r \in active => req'[r].pc \notin {"new", "end"}
    /\ \A q \in Request \ {r} : req'[q] = req[q]

\* What handleSDHash does between registration and release keeps the request registered.
LEMMA EndsOwn ==
  ASSUME RequestsTyped, NEW r \in Request, NEW status, Ends(r, status) PROVE Own(r)
  BY DEF Ends, RequestsTyped, RequestRecord, Own

\* It goes on, with another blob, or with what it has written.
LEMMA GoesOwn ==
  ASSUME RequestsTyped, NEW r \in Request, NEW pc, pc \notin {"new", "end"},
         req' = [req EXCEPT ![r].pc = pc]
  PROVE  Own(r)
  BY DEF RequestsTyped, RequestRecord, Own

\* Waiting for a blob changes only the request that waits, which stays registered.
LEMMA AwaitOwn ==
  ASSUME RequestsTyped, NEW r \in Request, NEW b, Await(r, b) PROVE Own(r)
  BY DEF Await, RequestsTyped, RequestRecord, Own

\* So does the answer, whatever the descriptor and the range are.
LEMMA AnswerOwn ==
  ASSUME RequestsTyped, NEW r \in Request, Answer(r) PROVE Own(r)
<1>1. ASSUME NEW plan, NEW b, req' = [req EXCEPT ![r].pc = "walk", ![r].plan = plan, ![r].blob = b]
      PROVE  Own(r)
  BY <1>1 DEF RequestsTyped, RequestRecord, Own
<1>2. \/ \E status : Ends(r, status)
      \/ \E plan, b : req' = [req EXCEPT ![r].pc = "walk", ![r].plan = plan, ![r].blob = b]
  <2> DEFINE range == prepareStreamRange(req[r].header, stream.descriptor, stream.claim)
             plan == planStreamBlobs(stream.descriptor, range)
  <2>1. \/ Ends(r, 500) \/ Ends(r, range.status) \/ Ends(r, 206)
        \/ req' = [req EXCEPT ![r].pc = "walk", ![r].plan = plan, ![r].blob = Min(DOMAIN plan)]
    BY Zenon DEF Answer
  <2> HIDE DEF range, plan
  <2> QED
    BY <2>1
<1> QED
  BY <1>1, <1>2, EndsOwn

\* So does the writing of a blob.
LEMMA WriteOwn ==
  ASSUME RequestsTyped, NEW r \in Request, WriteBlob(r) PROVE Own(r)
<1>1. ASSUME NEW sent, NEW b, req' = [req EXCEPT ![r].pc = "walk", ![r].sent = sent, ![r].blob = b]
      PROVE  Own(r)
  BY <1>1 DEF RequestsTyped, RequestRecord, Own
<1>2. ASSUME NEW sent, req' = [req EXCEPT ![r] = [req[r] EXCEPT !.pc = "release", !.status = 206,
                                                         !.sent = sent, !.done = TRUE, !.blob = 0]]
      PROVE  Own(r)
  <2> DEFINE q == [req[r] EXCEPT !.pc = "release", !.status = 206, !.sent = sent, !.done = TRUE, !.blob = 0]
  <2>1. q \in RequestRecord(q) /\ q.pc = "release"
    BY DEF RequestsTyped, RequestRecord
  <2>2. req' = [req EXCEPT ![r] = q]
    BY <1>2
  <2> HIDE DEF q
  <2> QED
    BY <2>1, <2>2 DEF RequestsTyped, Own
<1>3. \/ \E sent, b : req' = [req EXCEPT ![r].pc = "walk", ![r].sent = sent, ![r].blob = b]
      \/ \E sent : req' = [req EXCEPT ![r] = [req[r] EXCEPT !.pc = "release", !.status = 206,
                                                      !.sent = sent, !.done = TRUE, !.blob = 0]]
  BY DEF WriteBlob
<1> QED
  BY <1>1, <1>2, <1>3

\* Every step between registration and release.
LEMMA RequestOwn ==
  ASSUME RequestsTyped, NEW r \in Request,
         Lookup(r) \/ Activate(r) \/ Describe(r) \/ Walk(r) \/ EnsureFails(r)
  PROVE  Own(r) /\ UNCHANGED <<active, blocked, deleting, op, lifted>>
<1> USE DEF othersOfRequest, othersOfArrival, serverVars
<1>1. ASSUME Lookup(r) PROVE Own(r)
  <2>1. (\E status : Ends(r, status)) \/ req' = [req EXCEPT ![r].pc = "activate"]
    BY <1>1 DEF Lookup
  <2> QED
    BY <2>1, EndsOwn, GoesOwn
<1>2. ASSUME Activate(r) PROVE Own(r)
  <2>1. (\E status : Ends(r, status)) \/ req' = [req EXCEPT ![r].pc = "describe"]
    BY <1>2 DEF Activate
  <2> QED
    BY <2>1, EndsOwn, GoesOwn
<1>6. ASSUME Describe(r) PROVE Own(r)
  BY <1>6, AnswerOwn, AwaitOwn, EndsOwn DEF Describe
<1>7. ASSUME Walk(r) PROVE Own(r)
  BY <1>7, WriteOwn, AwaitOwn, EndsOwn DEF Walk
<1>8. ASSUME EnsureFails(r) PROVE Own(r)
  BY <1>8, EndsOwn DEF EnsureFails
<1>9. UNCHANGED <<active, blocked, deleting, op, lifted>>
  BY DEF Lookup, Activate, Describe, Walk, EnsureFails
<1> QED
  BY <1>1, <1>2, <1>6, <1>7, <1>8, <1>9

\* A step that leaves the server and the operations alone keeps the invariant, if no
\* registered request returns.
LEMMA QuietFrame ==
  ASSUME QuietInv, UNCHANGED <<active, blocked, deleting, op, lifted>>, RequestsTyped',
         \A r \in active : req'[r].pc \notin {"new", "end"}
  PROVE  QuietInv'
  BY DEF QuietInv, OpsTyped, ActiveInv, BlockInv, Markers, Deleters

\* Requests, timers and fetches keep the invariant: a request that arrives finds no block,
\* so no deletion under way relies on one.
LEMMA RequestQuiet ==
  ASSUME QuietInv, RequestStep PROVE QuietInv'
<1> RequestsTyped /\ ActiveInv /\ OpsTyped /\ BlockInv
  BY DEF QuietInv
<1> USE DEF othersOfRequest, othersOfArrival, serverVars
<1>1. ASSUME TimerFires \/ TimerStops \/ \E t \in firing : TimerRuns(t) PROVE QuietInv'
  <2>1. UNCHANGED <<active, blocked, deleting, op, lifted, req>>
    BY <1>1 DEF TimerFires, TimerStops, TimerRuns
  <2> QED
    BY <2>1, QuietFrame DEF RequestsTyped, ActiveInv
<1>2. ASSUME Shutdown PROVE QuietInv'
  <2>1. UNCHANGED <<active, blocked, deleting, op, lifted>>
    BY <1>2 DEF Shutdown
  <2>2. req' = [r \in Request |-> IF req[r].pc \in {"new", "end"} THEN req[r]
                                  ELSE [req[r] EXCEPT !.cancelled = TRUE]]
    BY <1>2 DEF Shutdown
  <2>3. RequestsTyped' /\ \A r \in Request : req'[r].pc = req[r].pc
    BY <2>2 DEF RequestsTyped, RequestRecord
  <2> QED
    BY <2>1, <2>3, QuietFrame DEF ActiveInv
<1>3. ASSUME NEW b \in Blob, FlightEnds(b) PROVE QuietInv'
  <2> DEFINE pc == IF fetch[b].st = "won" THEN "got" ELSE "lost"
  <2>1. UNCHANGED <<active, blocked, deleting, op, lifted>>
    BY <1>3 DEF FlightEnds
  <2>2. req' = [r \in Request |-> IF r \notin Waiters(b) THEN req[r] ELSE [req[r] EXCEPT !.pc = pc]]
    BY <1>3 DEF FlightEnds
  <2>3. pc \in {"got", "lost"}
    OBVIOUS
  <2> HIDE DEF pc
  <2>4. RequestsTyped' /\ \A r \in Request : req'[r].pc \in {req[r].pc, pc}
    BY <2>2 DEF RequestsTyped, RequestRecord
  <2> QED
    BY <2>1, <2>3, <2>4, QuietFrame DEF ActiveInv
<1>4. ASSUME NEW r \in Request, Lookup(r) \/ Activate(r) \/ Describe(r) \/ Walk(r) \/ EnsureFails(r)
      PROVE  QuietInv'
  BY <1>4, RequestOwn, QuietFrame DEF Own, ActiveInv
<1>5. ASSUME NEW r \in Request, Disconnect(r) PROVE QuietInv'
  <2>1. UNCHANGED <<active, blocked, deleting, op, lifted>> /\ req' = [req EXCEPT ![r].cancelled = TRUE]
    BY <1>5 DEF Disconnect
  <2>2. RequestsTyped' /\ \A q \in Request : req'[q].pc = req[q].pc
    BY <2>1 DEF RequestsTyped, RequestRecord
  <2> QED
    BY <2>1, <2>2, QuietFrame DEF ActiveInv
<1>6. ASSUME NEW r \in Request, Arrive(r) PROVE QuietInv'
  <2>1. CASE blocked
    <3>1. Ends(r, 404) /\ UNCHANGED <<active, blocked, deleting, op, lifted>> /\ r \notin active
      BY <1>6, <2>1 DEF Arrive, ActiveInv
    <3> QED
      BY <3>1, EndsOwn, QuietFrame DEF Own, ActiveInv
  <2>2. CASE ~blocked
    <3>1. /\ active' = active \union {r} /\ UNCHANGED <<blocked, deleting, op, lifted>>
          /\ req' = [req EXCEPT ![r].pc = "lookup", ![r].cancelled = @ \/ down]
      BY <1>6, <2>2 DEF Arrive, registerStream
    <3>2. RequestsTyped' /\ req'[r].pc = "lookup" /\ \A q \in Request \ {r} : req'[q] = req[q]
      BY <3>1 DEF RequestsTyped, RequestRecord
    <3>3. OpsTyped' /\ ActiveInv'
      BY <3>1, <3>2 DEF OpsTyped, ActiveInv
    <3>4. BlockInv'
      BY <2>2, <3>1 DEF BlockInv, Markers, Deleters
    <3> QED
      BY <3>2, <3>3, <3>4 DEF QuietInv
  <2> QED
    BY <2>1, <2>2
<1>7. ASSUME NEW r \in Request, ReleaseRequest(r) PROVE QuietInv'
  <2>1. /\ active' = active \ {r} /\ UNCHANGED <<blocked, deleting, op, lifted>>
        /\ req' = [req EXCEPT ![r].pc = "end", ![r].plan = << >>]
    BY <1>7 DEF ReleaseRequest, Release
  <2>2. RequestsTyped' /\ \A q \in Request \ {r} : req'[q] = req[q]
    BY <2>1 DEF RequestsTyped, RequestRecord
  <2>3. OpsTyped' /\ ActiveInv'
    BY <2>1, <2>2 DEF OpsTyped, ActiveInv
  <2>4. BlockInv'
    BY <2>1 DEF BlockInv, Markers, Deleters
  <2> QED
    BY <2>2, <2>3, <2>4 DEF QuietInv
<1> QED
  BY <1>1, <1>2, <1>3, <1>4, <1>5, <1>6, <1>7 DEF RequestStep

\* Gets keep the invariant: a registration that lifts the block sees the mark of a deletion,
\* and an allowance tells the deletions whose block it lifts.
LEMMA GetQuiet ==
  ASSUME QuietInv, GetStep PROVE QuietInv'
<1> RequestsTyped /\ ActiveInv /\ OpsTyped /\ BlockInv
  BY DEF QuietInv
<1> USE DEF othersOfGet, othersOfWork, serverVars
<1>1. ASSUME NEW g \in Get,
             \/ Forbid(g) \/ Ask(g) \/ GiveUp(g) \/ WaitDone(g) \/ WaitCancelled(g)
             \/ Resolve(g) \/ ListFiles(g) \/ Pay(g) \/ EnsureDescriptor(g) \/ DescribeStream(g)
             \/ Persist(g) \/ Link(g) \/ SaveStream(g) \/ Broadcast(g) \/ WorkFails(g) \/ CloseFlight(g)
      PROVE  QuietInv'
  <2>1. UNCHANGED <<active, blocked, deleting, op, lifted, req>>
    BY <1>1 DEF Forbid, Ask, GiveUp, WaitDone, WaitCancelled, Resolve, ListFiles, Pay,
       EnsureDescriptor, DescribeStream, Persist, Link, SaveStream, Broadcast, WorkFails, CloseFlight
  <2> QED
    BY <2>1, QuietFrame DEF RequestsTyped, ActiveInv
<1>2. ASSUME NEW g \in Get, RegisterStream(g) \/ AllowStream(g) PROVE QuietInv'
  <2>1. /\ UNCHANGED <<active, deleting, op, req>>
        /\ \/ ~deleting /\ ~blocked' /\ UNCHANGED lifted
           \/ UNCHANGED <<blocked, lifted>>
           \/ lifted' = lifted \union Deleters
    BY <1>2 DEF RegisterStream, AllowStream, MayRegister
  <2>2. RequestsTyped' /\ OpsTyped' /\ ActiveInv'
    BY <2>1 DEF RequestsTyped, OpsTyped, ActiveInv
  <2>3. BlockInv'
    BY <2>1 DEF BlockInv, Markers, Deleters
  <2> QED
    BY <2>2, <2>3 DEF QuietInv
<1> QED
  BY <1>1, <1>2 DEF GetStep

\* An operation that goes on, short of the steps of a deletion that block, drain and end.
LEMMA OpFrame ==
  ASSUME QuietInv, NEW o \in Op, NEW pc \in OpPlace, op' = [op EXCEPT ![o].pc = pc],
         UNCHANGED <<req, active, deleting>>,
         pc = "cancel" => op[o].kind = "stop",
         op[o].pc # "end" \/ pc = "end",
         pc \in {"drain", "stop", "purge", "wipe", "finish"} =>
            op[o].pc \in {"stop", "purge", "wipe", "finish"},
         UNCHANGED <<blocked, lifted>> \/ lifted' = lifted \union Deleters,
         pc \notin {"block", "drain"}
  PROVE  QuietInv'
<1> USE DEF QuietInv
<1>1. RequestsTyped' /\ ActiveInv'
  BY DEF RequestsTyped, ActiveInv
<1>2. OpsTyped' /\ \A d \in Op : op'[d].kind = op[d].kind /\ op'[d].waits = op[d].waits
  BY DEF OpsTyped, OpRecord, OpPlace
<1>3. op'[o].pc = pc /\ \A d \in Op \ {o} : op'[d] = op[d]
  BY DEF OpsTyped, OpRecord, OpPlace
<1>4. Deleters' \subseteq Deleters /\ Markers' \subseteq Markers
  BY <1>2, <1>3 DEF Markers, Deleters
<1>5. BlockInv'
  BY <1>2, <1>3, <1>4 DEF BlockInv
<1> QED
  BY <1>1, <1>2, <1>5

\* The end of a deletion lifts the marks and the blocks of all the others.
LEMMA FinishQuiet ==
  ASSUME QuietInv, NEW o \in Op, Unmark(o), UNCHANGED req
  PROVE  QuietInv'
<1> USE DEF QuietInv
<1>1. RequestsTyped' /\ ActiveInv'
  BY DEF Unmark, RequestsTyped, ActiveInv
<1>2. OpsTyped' /\ op'[o].pc = "end" /\ \A d \in Op \ {o} : op'[d] = op[d]
  BY DEF Unmark, OpsTyped, OpRecord, OpPlace
<1>3. \A d : d \in Markers' => d # o /\ d \in Markers
  BY <1>2 DEF Markers, Deleters
<1>4. \A d : d \in Deleters' => d \in Markers'
  BY DEF Markers
<1>5. \A d : d \in Markers' => d \in lifted'
  BY <1>3 DEF Unmark
<1>6. BlockInv'
  BY <1>2, <1>4, <1>5 DEF BlockInv
<1> QED
  BY <1>1, <1>2, <1>6

\* Every operation keeps the invariant: the requests that are left when the stream is
\* blocked are the ones that the deletion waits for, and all of them have returned, and so
\* are released, when it goes on.
LEMMA OpQuiet ==
  ASSUME QuietInv, OpStep PROVE QuietInv'
<1> RequestsTyped /\ ActiveInv /\ OpsTyped /\ BlockInv
  BY DEF QuietInv
<1> \A o \in Op : op[o] \in OpRecord /\ op[o].kind \in OpKind
  BY DEF OpsTyped, OpRecord, OpPlace
<1> USE DEF othersOfOp, serverVars
<1>1. ASSUME SaveEnds PROVE QuietInv'
  <2>1. UNCHANGED <<active, blocked, deleting, op, lifted, req>>
    BY <1>1 DEF SaveEnds
  <2> QED
    BY <2>1, QuietFrame DEF RequestsTyped, ActiveInv
<1>2. ASSUME NEW o \in Op, Select(o) PROVE QuietInv'
  <2> DEFINE pc == IF \/ ~row.persisted
                      \/ op[o].kind = "start" /\ row.status = "running"
                      \/ op[o].kind = "stop" /\ row.status # "running" THEN "end"
                   ELSE CASE op[o].kind \in {"start", "save"} -> "save"
                          [] op[o].kind = "stop" -> "cancel"
                          [] op[o].kind = "delete" -> "mark"
  <2>1. op' = [op EXCEPT ![o].pc = pc] /\ UNCHANGED <<active, blocked, deleting, lifted, req>>
    BY <1>2 DEF Select, Goto
  <2>3. op[o].pc = "new" /\ op[o].kind # "clean"
    BY <1>2 DEF Select
  <2>2. op[o].kind # "none" => pc \in {"end", "save", "mark"} \/ (pc = "cancel" /\ op[o].kind = "stop")
    BY <2>3 DEF OpKind
  <2> HIDE DEF pc
  <2> QED
    BY <2>1, <2>2, <2>3, OpFrame DEF BlockInv, OpPlace
<1>3. ASSUME NEW o \in Op,
             FilesSave(o) \/ PauseFiles(o) \/ CleanFiles(o) \/ Allow(o) \/ ScheduleIdle(o)
      PROVE  QuietInv'
  <2>1. \E pc \in {"allow", "end", "schedule", "clean"} : op' = [op EXCEPT ![o].pc = pc]
    BY <1>3 DEF FilesSave, PauseFiles, CleanFiles, Allow, ScheduleIdle, Goto
  <2>2. /\ UNCHANGED <<active, deleting, req>> /\ op[o].pc # "end"
        /\ UNCHANGED <<blocked, lifted>> \/ lifted' = lifted \union Deleters
    BY <1>3 DEF FilesSave, PauseFiles, CleanFiles, Allow, ScheduleIdle
  <2> QED
    BY <2>1, <2>2, OpFrame DEF OpPlace
<1>4. ASSUME NEW o \in Op, Cancel(o) \/ Block(o) PROVE QuietInv'
  <2>1. req' = [r \in Request |-> IF r \in active THEN [req[r] EXCEPT !.cancelled = TRUE] ELSE req[r]]
    BY <1>4 DEF Cancel, Block, cancelManagedStream
  <2>2. RequestsTyped' /\ \A r \in Request : req'[r].pc = req[r].pc
    BY <2>1 DEF RequestsTyped, RequestRecord
  <2>3. op' = [op EXCEPT ![o].pc = "drain", ![o].waits = active] /\ UNCHANGED <<active, deleting, lifted>>
    BY <1>4 DEF Cancel, Block, cancelManagedStream
  <2>4. ActiveInv'
    BY <2>2, <2>3 DEF ActiveInv
  <2>5. /\ OpsTyped' /\ \A d \in Op \ {o} : op'[d] = op[d]
        /\ op'[o].pc = "drain" /\ op'[o].waits = active /\ op'[o].kind = op[o].kind
    BY <2>3 DEF OpsTyped, OpRecord, OpPlace, ActiveInv
  <2>6. /\ op[o].kind # "none" /\ (blocked => blocked')
        /\ op[o].kind = "delete" => op[o].pc = "block" /\ blocked'
    BY <1>4 DEF Cancel, Block, cancelManagedStream, BlockInv
  <2>7. \A d : d \in Deleters' => d \in Deleters \/ d = o
    BY <2>5 DEF Deleters
  <2>8. \A d : d \in Markers' => d \in Markers
    BY <2>5, <2>6, <2>7 DEF Markers, Deleters
  <2>9. ASSUME NEW d \in Deleters' \ lifted' PROVE blocked' /\ active' \subseteq op'[d].waits
    <3>1. CASE d = o
      BY <2>3, <2>5, <2>6, <2>9, <3>1 DEF Deleters
    <3>2. CASE d # o
      BY <2>3, <2>5, <2>6, <2>7, <2>9, <3>2 DEF Deleters, BlockInv
    <3> QED
      BY <3>1, <3>2
  <2>10. \A x \in Op : /\ op'[x].kind = "none" => op'[x].pc = "end"
                       /\ op'[x].pc = "cancel" => op'[x].kind = "stop"
                       /\ op'[x].pc \in {"stop", "purge", "wipe", "finish"} => op'[x].waits = {}
    BY <2>5, <2>6 DEF BlockInv
  <2>11. \A d \in Markers' \ lifted' : deleting'
    BY <2>3, <2>8 DEF BlockInv
  <2>12. BlockInv'
    BY <2>9, <2>10, <2>11 DEF BlockInv
  <2> QED
    BY <2>2, <2>4, <2>5, <2>12 DEF QuietInv
<1>5. ASSUME NEW o \in Op, MarkDeleting(o) PROVE QuietInv'
  <2>1. /\ op' = [op EXCEPT ![o].pc = "block"] /\ deleting' /\ op[o].pc = "mark"
        /\ UNCHANGED <<req, active, blocked, lifted>>
    BY <1>5 DEF MarkDeleting, Goto
  <2>2. /\ OpsTyped' /\ \A d \in Op \ {o} : op'[d] = op[d]
        /\ op'[o].pc = "block" /\ op'[o].waits = op[o].waits /\ op'[o].kind = op[o].kind
    BY <2>1 DEF OpsTyped, OpRecord, OpPlace
  <2>3. RequestsTyped' /\ ActiveInv'
    BY <2>1 DEF RequestsTyped, ActiveInv
  <2>4. Deleters' \subseteq Deleters
    BY <2>2 DEF Deleters
  <2>5. BlockInv'
    BY <2>1, <2>2, <2>4 DEF BlockInv
  <2> QED
    BY <2>2, <2>3, <2>5 DEF QuietInv
<1>6. ASSUME NEW o \in Op, Drained(o) PROVE QuietInv'
  <2>1. CASE /\ \A r \in op[o].waits : req[r].pc = "end"
             /\ op' = [op EXCEPT ![o].pc = "stop", ![o].waits = {}]
             /\ UNCHANGED <<req, active, blocked, deleting, lifted>>
    <3>1. RequestsTyped' /\ ActiveInv'
      BY <2>1 DEF RequestsTyped, ActiveInv
    <3>2. /\ OpsTyped' /\ \A d \in Op \ {o} : op'[d] = op[d]
          /\ op'[o].pc = "stop" /\ op'[o].waits = {} /\ op'[o].kind = op[o].kind
      BY <2>1 DEF OpsTyped, OpRecord, OpPlace
    <3>3. op[o].pc = "drain"
      BY <1>6 DEF Drained
    <3>4. Deleters' = Deleters /\ Markers' = Markers
      BY <3>2, <3>3 DEF Deleters, Markers
    <3>5. o \in Deleters \ lifted => active = {}
      BY <2>1 DEF BlockInv, ActiveInv
    <3>6. ASSUME NEW d \in Deleters' \ lifted' PROVE blocked' /\ active' \subseteq op'[d].waits
      <4>1. d \in Deleters \ lifted /\ d \in Op
        BY <2>1, <3>4, <3>6 DEF Deleters
      <4>2. blocked /\ active \subseteq op[d].waits
        BY <4>1 DEF BlockInv
      <4> QED
        BY <2>1, <3>2, <3>5, <4>1, <4>2
    <3>7. \A x \in Op : /\ op'[x].kind = "none" => op'[x].pc = "end"
                        /\ op'[x].pc = "cancel" => op'[x].kind = "stop"
                        /\ op'[x].pc \in {"stop", "purge", "wipe", "finish"} => op'[x].waits = {}
      BY <3>2, <3>3 DEF BlockInv
    <3>8. \A d \in Markers' \ lifted' : deleting'
      BY <2>1, <3>4 DEF BlockInv
    <3>9. BlockInv'
      BY <3>6, <3>7, <3>8 DEF BlockInv
    <3> QED
      BY <3>1, <3>2, <3>9 DEF QuietInv
  <2>2. CASE Unmark(o) /\ UNCHANGED req
    BY <2>2, FinishQuiet
  <2>3. CASE Goto(o, "end") /\ UNCHANGED <<req, active, blocked, deleting, lifted>>
    BY <2>3, OpFrame DEF Goto, OpPlace
  <2> QED
    BY <1>6, <2>1, <2>2, <2>3 DEF Drained, Fails
<1>7. ASSUME NEW o \in Op, FilesStops(o) \/ Purge(o) \/ Wipe(o) \/ FinishManagedFileDelete(o)
      PROVE  QuietInv'
  <2>1. /\ op[o].pc \in {"stop", "purge", "wipe", "finish"} /\ UNCHANGED req
        /\ \/ Unmark(o)
           \/ /\ \E pc \in {"purge", "wipe", "finish", "end"} : op' = [op EXCEPT ![o].pc = pc]
              /\ UNCHANGED <<active, blocked, deleting, lifted>>
    BY <1>7 DEF FilesStops, Purge, Wipe, FinishManagedFileDelete, Finish, Fails, Goto
  <2> QED
    BY <2>1, FinishQuiet, OpFrame DEF OpPlace
<1> QED
  BY <1>1, <1>2, <1>3, <1>4, <1>5, <1>6, <1>7 DEF OpStep

\* The mark, the block and the drain of a deletion hold in every state.
THEOREM QuietInvariance == Spec => []QuietInv
<1>1. ASSUME Init PROVE QuietInv
  <2> PICK s \in Scenarios :
        /\ active = {} /\ lifted = {}
        /\ req = [r \in Request |-> NewRequest(s.requests[r])]
        /\ op = [o \in Op |-> [kind |-> s.ops[o], waits |-> {},
                               pc |-> IF s.ops[o] = "none" THEN "end" ELSE "new"]]
    BY <1>1 DEF Init
  <2>1. RequestsTyped
    BY DEF RequestsTyped, NewRequest, RequestRecord
  <2>2. OpsTyped
    BY StreamingAssumption DEF OpsTyped, OpRecord, OpPlace
  <2>3. Markers = {} /\ Deleters = {}
    BY DEF Markers, Deleters
  <2> QED
    BY <2>1, <2>2, <2>3 DEF QuietInv, ActiveInv, BlockInv
<1>2. ASSUME QuietInv, [Next]_vars PROVE QuietInv'
  <2>1. ASSUME UNCHANGED <<active, blocked, deleting, op, lifted, req>> PROVE QuietInv'
    BY <1>2, <2>1, QuietFrame DEF QuietInv, RequestsTyped, ActiveInv
  <2>2. RequestStep \/ OpStep \/ GetStep \/ UNCHANGED <<active, blocked, deleting, op, lifted, req>>
    BY <1>2 DEF Next, vars, serverVars
  <2> QED
    BY <1>2, <2>1, <2>2, RequestQuiet, OpQuiet, GetQuiet
<1> QED
  BY <1>1, <1>2, PTL DEF Spec

\* From the moment a deletion has drained the stream nobody plays it until the deletion
\* ends, unless somebody else lifted its mark or its block (PrepareManagedFileDelete and
\* BlockManagedStream against handleSDHash and RegisterManagedFile).
THEOREM DeletionQuietHolds == Spec => []DeletionQuiet
<1>1. QuietInv => DeletionQuiet
  BY DEF QuietInv, BlockInv, Deleters, DeletionQuiet
<1> QED
  BY <1>1, QuietInvariance, PTL

(***************************************************************************)
(* Payments                                                                *)
(***************************************************************************)

\* A step that leaves the gets and their workers alone, and the row in the database.
LEMMA PaidFrame ==
  ASSUME PaidInv, UNCHANGED <<get, flights, flight, payments, renewed>>, row' \in Row,
         row.persisted => row'.persisted
  PROVE  PaidInv'
<1>1. GetsTyped' /\ FlightsTyped' /\ RegisteredInv'
  BY DEF PaidInv, GetsTyped, FlightsTyped, RegisteredInv
<1>2. OneKey' = OneKey
  BY DEF OneKey
<1>3. PaymentInv'
  BY <1>2 DEF PaidInv, PaymentInv
<1> QED
  BY <1>1, <1>3 DEF PaidInv

\* The calls keep their keys.
SameKeys == GetsTyped' /\ \A g \in Get : get'[g].key = get[g].key

\* A worker goes on: it is cancelled by nobody in this step.
Onward(g) ==
    /\ flight' \in [Get -> FlightRecord]
    /\ \A h \in Get \ {g} : flight'[h] = flight[h]
    /\ flight'[g].cancelled = flight[g].cancelled
    /\ flight[g].pc \in Work /\ flight'[g].pc \in Work
    /\ flight'[g].pc = "wait" => flight'[g].next # "none"

\* A worker that goes on without paying keeps the invariant, if the row is there for what it
\* does next and it reserves a payment only without a row.
LEMMA OnwardPaid ==
  ASSUME PaidInv, NEW g \in Get, Onward(g), UNCHANGED <<get, flights, payments, renewed>>,
         row' \in Row, row.persisted => row'.persisted,
         Settled(flight'[g]) => Settled(flight[g]) \/ row'.persisted,
         flight'[g].pc \in {"resolve", "list", "pay", "close"} => flight'[g].payment # "reserved",
         Paying(flight'[g]) => Paying(flight[g]) \/ (~row.persisted /\ ~flight[g].cancelled)
  PROVE  PaidInv'
<1> USE DEF PaidInv, Onward
<1>1. GetsTyped' /\ FlightsTyped'
  BY DEF GetsTyped, FlightsTyped
<1>2. RegisteredInv'
  BY DEF RegisteredInv, FlightsTyped
<1>3. \A h \in Get : Settled(flight'[h]) => row'.persisted \/ renewed
  BY DEF PaymentInv, Settled
<1>4. \A h \in Get : flight'[h].pc \in {"none", "resolve", "list", "pay", "close", "done"} =>
          flight'[h].payment # "reserved"
  BY DEF PaymentInv, Work
<1>5. OneKey' = OneKey
  BY DEF OneKey
<1>6. ASSUME OneKey, ~renewed, payments > 0
      PROVE  payments = 1 /\ row'.persisted /\ \A h \in Get : ~Paying(flight'[h])
  BY <1>6 DEF PaymentInv
<1>7. ASSUME OneKey, ~renewed, NEW h \in Get, Paying(flight'[g]), Paying(flight'[h]), h # g PROVE FALSE
  <2>1. Paying(flight[h])
    BY <1>7
  <2>2. ~row.persisted /\ ~flight[g].cancelled
    BY <1>7, <2>1 DEF PaymentInv
  <2>3. ~Settled(flight[h])
    BY <1>7, <2>2 DEF PaymentInv
  <2>4. ~flight[h].cancelled /\ (flight[h].pc = "pay" \/ flight[h].payment = "reserved")
    BY <2>1, <2>3 DEF Paying, Settled
  <2>5. flight[h] \in FlightRecord
    BY DEF FlightsTyped
  <2>6. flight[h].pc \in Work
    BY <2>4, <2>5 DEF PaymentInv, FlightRecord, Work
  <2> QED
    BY <1>7, <2>2, <2>4, <2>6 DEF RegisteredInv, OneKey
<1>8. ASSUME OneKey, ~renewed, NEW h \in Get, NEW x \in Get, Paying(flight'[h]), Paying(flight'[x])
      PROVE  h = x
  <2>1. CASE h = g \/ x = g
    BY <1>7, <1>8, <2>1
  <2>2. CASE h # g /\ x # g
    BY <1>8, <2>2 DEF PaymentInv
  <2> QED
    BY <2>1, <2>2
<1>9. PaymentInv'
  BY <1>3, <1>4, <1>5, <1>6, <1>8 DEF PaymentInv
<1> QED
  BY <1>1, <1>2, <1>9

\* Requests, timers and operations keep the invariant.  Only a deletion removes the row.
LEMMA RowPaid ==
  ASSUME PaidInv, RequestStep \/ OpStep PROVE PaidInv'
<1> row \in Row /\ GetsTyped /\ FlightsTyped
  BY DEF PaidInv
<1> USE DEF serverVars, getVars, othersOfRequest, othersOfArrival, othersOfOp, Row
<1>1. ASSUME \/ TimerFires \/ TimerStops \/ \E t \in firing : TimerRuns(t)
             \/ \E r \in Request : \/ Arrive(r) \/ Lookup(r) \/ Activate(r) \/ Describe(r) \/ Walk(r)
                                   \/ EnsureFails(r) \/ ReleaseRequest(r) \/ Disconnect(r)
      PROVE  PaidInv'
  <2>1. UNCHANGED <<get, flights, flight, payments, renewed>>
    BY <1>1 DEF TimerFires, TimerStops, TimerRuns, Arrive, Lookup, Activate, Describe, Walk,
       EnsureFails, ReleaseRequest, Disconnect
  <2>2. UNCHANGED row \/ row' = MarkActive \/ row' = StopIfIdle
    BY <1>1 DEF TimerFires, TimerStops, TimerRuns, Arrive, Lookup, Activate, Describe, Walk,
       EnsureFails, ReleaseRequest, Disconnect
  <2>3. row' \in Row /\ row'.persisted = row.persisted
    BY <2>2 DEF MarkActive, StopIfIdle
  <2> QED
    BY <2>1, <2>3, PaidFrame
<1>2. ASSUME NEW o \in Op,
             \/ Select(o) \/ FilesSave(o) \/ PauseFiles(o) \/ CleanFiles(o) \/ Allow(o)
             \/ ScheduleIdle(o) \/ Cancel(o) \/ MarkDeleting(o) \/ Block(o)
             \/ Drained(o) \/ FilesStops(o) \/ Wipe(o) \/ FinishManagedFileDelete(o)
      PROVE  PaidInv'
  <2>1. UNCHANGED <<get, flights, flight, payments, renewed>>
    BY <1>2 DEF Select, FilesSave, PauseFiles, CleanFiles, Allow, ScheduleIdle, Cancel, MarkDeleting,
       Block, Drained, FilesStops, Wipe, FinishManagedFileDelete
  <2>2. \/ UNCHANGED row \/ row' = FilesBegin \/ row' = [FilesBegin EXCEPT !.saving = FALSE]
        \/ row' = FilesStop \/ row' = [row EXCEPT !.managed = FALSE] \/ row' = [row EXCEPT !.saving = FALSE]
        \/ \E saving \in BOOLEAN : row' = [row EXCEPT !.status = "stopped", !.saving = saving]
    BY <1>2 DEF Select, FilesSave, PauseFiles, CleanFiles, Allow, ScheduleIdle, Cancel, MarkDeleting,
       Block, Drained, FilesStops, Wipe, FinishManagedFileDelete, Finish, Fails, cancelManagedStream
  <2>3. row' \in Row /\ row'.persisted = row.persisted
    BY <2>2 DEF FilesStop, FilesBegin
  <2> QED
    BY <2>1, <2>3, PaidFrame
<1>3. ASSUME SaveEnds PROVE PaidInv'
  <2>1. UNCHANGED <<get, flights, flight, payments, renewed>>
    BY <1>3 DEF SaveEnds
  <2>2. row' \in Row /\ row'.persisted = row.persisted
    BY <1>3 DEF SaveEnds
  <2> QED
    BY <2>1, <2>2, PaidFrame
<1>4. ASSUME NEW o \in Op, Purge(o) PROVE PaidInv'
  <2>1. UNCHANGED <<get, flights, flight, payments>>
    BY <1>4 DEF Purge
  <2>2. CASE renewed' = TRUE /\ row' = [row EXCEPT !.persisted = FALSE]
    <3>1. row' \in Row /\ renewed'
      BY <2>2
    <3>2. GetsTyped' /\ FlightsTyped' /\ RegisteredInv'
      BY <2>1 DEF PaidInv, GetsTyped, FlightsTyped, RegisteredInv
    <3>3. PaymentInv'
      BY <2>1, <3>1 DEF PaidInv, PaymentInv
    <3> QED
      BY <3>1, <3>2, <3>3 DEF PaidInv
  <2>3. CASE Fails(o, row) /\ UNCHANGED renewed
    BY <2>1, <2>3, PaidFrame DEF Fails
  <2> QED
    BY <1>4, <2>2, <2>3 DEF Purge
<1>5. ASSUME Shutdown PROVE PaidInv'
  <2>1. /\ UNCHANGED <<flights, flight, payments, renewed, row>>
        /\ get' = [g \in Get |-> IF get[g].pc = "wait" /\ get[g].http
                                 THEN [get[g] EXCEPT !.cancelled = TRUE] ELSE get[g]]
    BY <1>5 DEF Shutdown
  <2>2. SameKeys /\ \A g \in Get : get'[g].pc = get[g].pc /\ get'[g].on = get[g].on
    BY <2>1 DEF SameKeys, GetsTyped, GetRecord
  <2>3. FlightsTyped' /\ RegisteredInv'
    BY <2>1, <2>2 DEF PaidInv, FlightsTyped, RegisteredInv, SameKeys
  <2>4. OneKey' => OneKey
    BY <2>2 DEF OneKey, SameKeys
  <2> QED
    BY <2>1, <2>2, <2>3, <2>4 DEF PaidInv, PaymentInv, SameKeys
<1>6. ASSUME NEW b \in Blob, FlightEnds(b) PROVE PaidInv'
  <2>1. /\ UNCHANGED <<get, flights, payments, renewed, row>>
        /\ \E won \in BOOLEAN :
            flight' = [g \in Get |-> IF g \notin Waiters(b) THEN flight[g]
                                     ELSE [flight[g] EXCEPT !.pc = IF won THEN flight[g].next ELSE "fail"]]
    BY <1>6 DEF FlightEnds
  <2>2. PICK won \in BOOLEAN :
            flight' = [g \in Get |-> IF g \notin Waiters(b) THEN flight[g]
                                     ELSE [flight[g] EXCEPT !.pc = IF won THEN flight[g].next ELSE "fail"]]
    BY <2>1
  <2>3. ASSUME NEW g \in Get
        PROVE  \/ flight'[g] = flight[g]
               \/ /\ flight[g].pc = "wait" /\ flight'[g].pc \in {flight[g].next, "fail"}
                  /\ flight'[g] = [flight[g] EXCEPT !.pc = flight'[g].pc]
    <3>1. flight[g] \in FlightRecord /\ g \notin Request
      BY StreamingAssumption DEF FlightsTyped
    <3>2. CASE g \in Waiters(b)
      <4>1. flight[g].pc = "wait"
        BY <3>1, <3>2 DEF Waiters
      <4>2. flight'[g] = [flight[g] EXCEPT !.pc = IF won THEN flight[g].next ELSE "fail"]
        BY <2>2, <3>2
      <4> QED
        BY <3>1, <4>1, <4>2 DEF FlightRecord
    <3>3. CASE g \notin Waiters(b)
      BY <2>2, <3>3
    <3> QED
      BY <3>2, <3>3
  <2>4. flight' = [g \in Get |-> flight'[g]]
    BY <2>2
  <2> HIDE DEF Row
  <2>5. ASSUME NEW g \in Get
        PROVE
          /\ flight'[g] \in FlightRecord /\ flight'[g].cancelled = flight[g].cancelled
          /\ flight'[g].payment = flight[g].payment
          /\ flight'[g].next = flight[g].next
          /\ \/ flight'[g].pc = flight[g].pc
             \/ flight[g].pc = "wait" /\ flight'[g].pc \in {"fail", "describe"}
             \/ flight[g].pc = "wait" /\ flight[g].next = "register" /\ flight'[g].pc = "register"
    <3>1. flight[g] \in FlightRecord /\ (flight[g].pc = "wait" => flight[g].next \in {"describe", "register"})
      BY DEF PaidInv, FlightsTyped, FlightRecord, RegisteredInv
    <3> QED
      BY <2>3, <3>1 DEF FlightRecord, Work
  <2>6. FlightsTyped'
    BY <2>1, <2>4, <2>5 DEF FlightsTyped
  <2>7. RegisteredInv'
    BY <2>1, <2>5 DEF PaidInv, RegisteredInv, Work
  <2>8. \A g \in Get : Settled(flight'[g]) => Settled(flight[g])
    BY <2>5 DEF Settled
  <2>9. \A g \in Get : Paying(flight'[g]) => Paying(flight[g])
    BY <2>5 DEF Paying
  <2>10. \A g \in Get : flight'[g].pc \in {"none", "resolve", "list", "pay", "close", "done"} =>
            flight'[g].payment # "reserved"
    BY <2>5 DEF PaidInv, PaymentInv
  <2>11. OneKey' = OneKey
    BY <2>1 DEF OneKey
  <2>12. PaymentInv'
    BY <2>1, <2>8, <2>9, <2>10, <2>11 DEF PaidInv, PaymentInv
  <2> QED
    BY <2>1, <2>6, <2>7, <2>12 DEF PaidInv, GetsTyped
<1> QED
  BY <1>1, <1>2, <1>3, <1>4, <1>5, <1>6 DEF RequestStep, OpStep

\* What To does.
LEMMA ToOnward ==
  ASSUME FlightsTyped, NEW g \in Get, NEW pc \in Work \ {"wait"}, To(g, pc), flight[g].pc \in Work
  PROVE  /\ Onward(g) /\ flight'[g].pc = pc /\ flight'[g].next = flight[g].next
         /\ flight'[g].payment = flight[g].payment
  BY ZenonT(30) DEF To, Onward, FlightsTyped, FlightRecord, Work

\* A worker goes on to a step that comes before the row, or fails, or ends unpaid.
LEMMA EarlyPaid ==
  ASSUME PaidInv, NEW g \in Get, NEW pc \in {"list", "ensure", "describe", "persist", "fail"}, To(g, pc),
         flight[g].pc \in Work \ {"fail"}, pc = "list" => flight[g].payment # "reserved",
         UNCHANGED <<get, flights, payments, renewed, row>>
  PROVE  PaidInv'
<1>1. /\ Onward(g) /\ flight'[g].pc = pc /\ flight'[g].payment = flight[g].payment
      /\ flight'[g].cancelled = flight[g].cancelled
  BY ToOnward DEF PaidInv, Work, Onward
<1>2. ~Settled(flight'[g]) /\ (Paying(flight'[g]) => Paying(flight[g]))
  BY <1>1 DEF Settled, Paying
<1> QED
  BY <1>1, <1>2, OnwardPaid DEF PaidInv

\* A worker goes on to a step for which the row is there.
LEMMA LatePaid ==
  ASSUME PaidInv, NEW g \in Get, NEW pc \in {"link", "finish", "register", "save", "allow", "pay off"},
         To(g, pc), flight[g].pc \in Work \ {"fail"}, ~flight[g].cancelled \/ flight[g].pc = "allow",
         Settled(flight[g]) \/ row'.persisted,
         UNCHANGED <<get, flights, payments, renewed>>, row' \in Row, row.persisted => row'.persisted
  PROVE  PaidInv'
<1>1. /\ Onward(g) /\ flight'[g].pc = pc /\ flight'[g].payment = flight[g].payment
      /\ flight'[g].cancelled = flight[g].cancelled
  BY ToOnward DEF PaidInv, Work, Onward
<1>2. Paying(flight'[g]) => Paying(flight[g])
  BY <1>1 DEF Paying
<1> QED
  BY <1>1, <1>2, OnwardPaid

\* The worker's steps short of its end and of the payment keep the invariant: it reserves
\* only if it found no row, and has saved the row before it can send.
LEMMA WorkPaid ==
  ASSUME PaidInv, NEW g \in Get,
         \/ Resolve(g) \/ ListFiles(g) \/ Pay(g) \/ EnsureDescriptor(g) \/ DescribeStream(g)
         \/ Persist(g) \/ Link(g) \/ RegisterStream(g) \/ SaveStream(g) \/ AllowStream(g)
         \/ WorkFails(g)
  PROVE  PaidInv'
<1> row \in Row /\ FlightsTyped /\ flight[g] \in FlightRecord
  BY DEF PaidInv, FlightsTyped
<1> USE DEF othersOfGet, othersOfWork, Live
<1>1. CASE Resolve(g)
  <2>1. flight[g].pc = "resolve" /\ To(g, "list") /\ UNCHANGED <<get, flights, payments, renewed, row>>
    BY <1>1 DEF Resolve
  <2> QED
    BY <2>1, EarlyPaid DEF PaidInv, PaymentInv, Work
<1>2. CASE ListFiles(g)
  <2>1. /\ flight[g].pc = "list" /\ ~flight[g].cancelled
        /\ UNCHANGED <<get, flights, payments, renewed, row>>
    BY <1>2 DEF ListFiles
  <2>2. CASE row.persisted /\ To(g, "finish")
    BY <2>1, <2>2, LatePaid DEF Work
  <2>3. CASE ~row.persisted /\ To(g, "pay")
    <3>1. /\ Onward(g) /\ flight'[g].pc = "pay" /\ flight'[g].payment = flight[g].payment
          /\ flight[g].payment # "reserved"
      BY <2>1, <2>3, ToOnward DEF Work, PaidInv, PaymentInv
    <3> QED
      BY <2>1, <2>3, <3>1, OnwardPaid DEF Settled
  <2>4. CASE To(g, "ensure")
    BY <2>1, <2>4, EarlyPaid DEF Work
  <2> QED
    BY <1>2, <2>2, <2>3, <2>4 DEF ListFiles
<1>3. CASE Pay(g)
  <2>1. /\ flight[g].pc = "pay" /\ ~flight[g].cancelled
        /\ UNCHANGED <<get, flights, payments, renewed, row>>
        /\ flight' = [flight EXCEPT ![g].pc = "ensure", ![g].payment = "reserved"]
    BY <1>3 DEF Pay
  <2>2. Onward(g) /\ flight'[g].pc = "ensure"
    BY <2>1 DEF Onward, FlightsTyped, FlightRecord, Work
  <2> QED
    BY <2>1, <2>2, OnwardPaid DEF Settled, Paying
<1>4. CASE EnsureDescriptor(g)
  <2>1. ~flight[g].cancelled /\ UNCHANGED <<get, flights, payments, renewed, row>>
    BY <1>4 DEF EnsureDescriptor
  <2>2. CASE flight[g].pc = "ensure" /\ To(g, "describe")
    BY <2>1, <2>2, EarlyPaid DEF Work
  <2>3. CASE flight[g].pc = "finish" /\ To(g, "register")
    BY <2>1, <2>3, LatePaid DEF Work, Settled
  <2>4. ASSUME NEW next \in {"describe", "register"}, next = "register" => flight[g].pc = "finish",
               flight[g].pc \in {"ensure", "finish"},
               flight' = [flight EXCEPT ![g].pc = "wait", ![g].next = next]
        PROVE  PaidInv'
    <3>1. /\ Onward(g) /\ flight'[g].pc = "wait" /\ flight'[g].next = next
          /\ flight'[g].payment = flight[g].payment
      BY <2>4 DEF Onward, FlightsTyped, FlightRecord, Work
    <3> QED
      BY <2>1, <2>4, <3>1, OnwardPaid DEF Settled, Paying, Onward
  <2>5. \/ flight[g].pc = "ensure" /\ To(g, "describe")
        \/ flight[g].pc = "finish" /\ To(g, "register")
        \/ flight[g].pc = "ensure" /\ flight' = [flight EXCEPT ![g].pc = "wait", ![g].next = "describe"]
        \/ flight[g].pc = "finish" /\ flight' = [flight EXCEPT ![g].pc = "wait", ![g].next = "register"]
    BY <1>4 DEF EnsureDescriptor
  <2> QED
    BY <2>2, <2>3, <2>4, <2>5
<1>5. CASE DescribeStream(g)
  <2>1. /\ flight[g].pc = "describe" /\ (To(g, "persist") \/ To(g, "fail"))
        /\ UNCHANGED <<get, flights, payments, renewed, row>>
    BY <1>5 DEF DescribeStream
  <2> QED
    BY <2>1, EarlyPaid DEF Work
<1>6. CASE Persist(g)
  <2>1. /\ flight[g].pc = "persist" /\ To(g, "link") /\ UNCHANGED <<get, flights, payments, renewed>>
        /\ row' = [row EXCEPT !.persisted = TRUE, !.status = "running", !.file = "none"]
        /\ ~flight[g].cancelled
    BY <1>6 DEF Persist, SaveManagedFile
  <2>2. row' \in Row /\ row'.persisted
    BY <2>1 DEF Row
  <2> QED
    BY <2>1, <2>2, LatePaid DEF Work
<1>7. CASE Link(g)
  <2>1. /\ flight[g].pc = "link" /\ ~flight[g].cancelled /\ UNCHANGED <<get, flights, payments, renewed, row>>
        /\ To(g, "finish") \/ To(g, "fail")
    BY <1>7 DEF Link
  <2> QED
    BY <2>1, EarlyPaid, LatePaid DEF Work, Settled
<1>8. CASE RegisterStream(g)
  <2>1. /\ flight[g].pc = "register" /\ ~flight[g].cancelled /\ UNCHANGED <<get, flights, payments, renewed>>
        /\ \/ row' = [row EXCEPT !.managed = TRUE] /\ (To(g, "save") \/ To(g, "pay off"))
           \/ row' = row /\ To(g, "fail")
    BY <1>8 DEF RegisterStream
  <2>2. row' \in Row /\ row'.persisted = row.persisted
    BY <2>1 DEF Row
  <2> QED
    BY <2>1, <2>2, EarlyPaid, LatePaid DEF Work, Settled
<1>9. CASE SaveStream(g)
  <2>1. /\ flight[g].pc = "save" /\ ~flight[g].cancelled /\ UNCHANGED <<get, flights, payments, renewed>>
        /\ \/ row' = row /\ To(g, "fail")
           \/ row' = FilesBegin /\ To(g, "allow")
    BY <1>9 DEF SaveStream
  <2>2. row' \in Row /\ row'.persisted = row.persisted
    BY <2>1 DEF Row, FilesBegin
  <2> QED
    BY <2>1, <2>2, EarlyPaid, LatePaid DEF Work, Settled
<1>10. CASE AllowStream(g)
  <2>1. flight[g].pc = "allow" /\ UNCHANGED <<get, flights, payments, renewed, row>> /\ To(g, "pay off")
    BY <1>10 DEF AllowStream
  <2> QED
    BY <2>1, LatePaid DEF Work, Settled
<1>11. CASE WorkFails(g)
  <2> DEFINE f == [flight[g] EXCEPT !.pc = "close", !.next = "none", !.payment = "none",
                                    !.result = IF flight[g].cancelled THEN "cancelled" ELSE "error"]
  <2>1. /\ flight[g].pc \in Work /\ UNCHANGED <<get, flights, payments, renewed, row>>
        /\ flight' = [flight EXCEPT ![g] = f]
    BY <1>11 DEF WorkFails, Work
  <2>2. f \in FlightRecord /\ f.pc = "close" /\ f.payment = "none" /\ f.cancelled = flight[g].cancelled
    BY DEF FlightRecord, Work
  <2> HIDE DEF f
  <2>3. Onward(g) /\ flight'[g] = f
    BY <2>1, <2>2 DEF Onward, FlightsTyped, Work
  <2> QED
    BY <2>1, <2>2, <2>3, OnwardPaid DEF Settled, Paying
<1> QED
  BY <1>1, <1>2, <1>3, <1>4, <1>5, <1>6, <1>7, <1>8, <1>9, <1>10, <1>11

\* The payment is sent at most once, and nobody else may send one then.
LEMMA BroadcastPaid ==
  ASSUME PaidInv, NEW g \in Get, Broadcast(g) PROVE PaidInv'
<1> row \in Row /\ FlightsTyped /\ flight[g] \in FlightRecord
  BY DEF PaidInv, FlightsTyped
<1>1. flight[g].pc = "pay off" /\ UNCHANGED <<get, flights, renewed, row>>
  BY DEF Broadcast, othersOfGet, othersOfWork
<1>2. CASE /\ flight[g].payment = "none" /\ UNCHANGED payments
           /\ flight' = [flight EXCEPT ![g].pc = "close", ![g].result = "ok"]
  <2>1. Onward(g) /\ flight'[g].pc = "close" /\ flight'[g].payment = "none"
    BY <1>1, <1>2 DEF Onward, FlightsTyped, FlightRecord, Work
  <2> QED
    BY <1>1, <1>2, <2>1, OnwardPaid DEF Settled, Paying
<1>3. CASE To(g, "fail") /\ UNCHANGED payments
  BY <1>1, <1>3, EarlyPaid DEF Work
\* The server takes the payment, and the answer comes back or is lost.
<1>4. CASE /\ flight[g].payment = "reserved" /\ payments' = payments + 1
           /\ \/ flight' = [flight EXCEPT ![g].pc = "close", ![g].payment = "sent", ![g].result = "ok"]
              \/ To(g, "fail")
  <2>1. Onward(g) /\ (flight'[g].pc = "fail" \/ (flight'[g].pc = "close" /\ flight'[g].payment = "sent"))
    <3>1. CASE flight' = [flight EXCEPT ![g].pc = "close", ![g].payment = "sent", ![g].result = "ok"]
      BY <1>1, <3>1 DEF Onward, FlightsTyped, FlightRecord, Work
    <3>2. CASE To(g, "fail")
      BY <1>1, <3>2, ToOnward DEF Work
    <3> QED
      BY <1>4, <3>1, <3>2
  <2>2. Paying(flight[g]) /\ Settled(flight[g])
    BY <1>1, <1>4 DEF Paying, Settled
  <2>3. ~Paying(flight'[g]) /\ ~Settled(flight'[g])
    BY <2>1 DEF Paying, Settled
  <2>4. \A h \in Get \ {g} : flight'[h] = flight[h]
    BY <2>1 DEF Onward
  <2>5. GetsTyped' /\ FlightsTyped'
    BY <1>1, <2>1, ZenonT(30) DEF PaidInv, GetsTyped, FlightsTyped, Onward
  <2>6. RegisteredInv'
    BY <1>1, <2>1, <2>4 DEF PaidInv, RegisteredInv, Onward, Work
  <2>7. OneKey' = OneKey
    BY <1>1 DEF OneKey
  <2>8. ASSUME OneKey, ~renewed PROVE payments' = 1 /\ row'.persisted /\ \A h \in Get : ~Paying(flight'[h])
    <3>1. payments = 0 /\ row.persisted
      BY <2>2, <2>8 DEF PaidInv, PaymentInv
    <3>2. ASSUME NEW h \in Get, Paying(flight'[h]) PROVE FALSE
      <4>1. h # g /\ flight'[h] = flight[h]
        BY <2>3, <2>4, <3>2
      <4>2. Paying(flight[h])
        BY <3>2, <4>1
      <4> QED
        BY <2>2, <2>8, <4>1, <4>2 DEF PaidInv, PaymentInv
    <3>3. payments' = 1
      BY <1>4, <3>1
    <3>4. row'.persisted
      BY <1>1, <3>1
    <3> QED
      BY <3>2, <3>3, <3>4
  <2>9. \A h \in Get : Settled(flight'[h]) => row'.persisted \/ renewed'
    BY <1>1, <2>3, <2>4 DEF PaidInv, PaymentInv
  <2>10. \A h \in Get : flight'[h].pc \in {"none", "resolve", "list", "pay", "close", "done"} =>
            flight'[h].payment # "reserved"
    BY <2>1, <2>4 DEF PaidInv, PaymentInv
  <2>11. payments' \in Nat
    BY <1>4 DEF PaidInv, PaymentInv
  <2>12. PaymentInv'
    BY <1>1, <2>7, <2>8, <2>9, <2>10, <2>11 DEF PaymentInv
  <2> QED
    BY <1>1, <2>5, <2>6, <2>12 DEF PaidInv
<1> QED
  BY <1>2, <1>3, <1>4 DEF Broadcast

\* A step of the registry that takes a worker out, puts it in or leaves it, and does not touch
\* what the others have reserved.
LEMMA RegistryPaid ==
  ASSUME PaidInv, SameKeys, FlightsTyped', RegisteredInv', UNCHANGED <<payments, renewed, row>>,
         \A g \in Get : /\ Settled(flight'[g]) => Settled(flight[g])
                        /\ Paying(flight'[g]) => Paying(flight[g])
                        /\ flight'[g].pc \in {"none", "resolve", "list", "pay", "close", "done"} =>
                                flight'[g].payment # "reserved"
  PROVE  PaidInv'
<1>1. OneKey' => OneKey
  BY DEF OneKey, SameKeys
<1>2. PaymentInv'
  BY <1>1 DEF PaidInv, PaymentInv
<1> QED
  BY <1>2 DEF PaidInv, SameKeys

\* A worker that a get launches has not paid and is not cancelled.
LEMMA FlightLaunched ==
    /\ NoFlight \in FlightRecord
    /\ [NoFlight EXCEPT !.pc = "resolve", !.waiters = 1] \in FlightRecord
<1>1. NoFlight \in FlightRecord
  BY DEF NoFlight, FlightRecord
<1>2. ASSUME NEW q \in FlightRecord, NEW pc \in Work, NEW n \in Int
      PROVE  [q EXCEPT !.pc = pc, !.waiters = n] \in FlightRecord
  BY DEF FlightRecord
<1>3. "resolve" \in Work /\ 1 \in Int
  BY DEF Work
<1> QED
  BY <1>1, <1>2, <1>3

\* A worker that its last caller leaves is cancelled and has nobody waiting.
LEMMA FlightCancelled ==
    ASSUME NEW q \in FlightRecord
    PROVE  [q EXCEPT !.waiters = 0, !.cancelled = TRUE] \in FlightRecord
<1>1. ASSUME NEW n \in Int
      PROVE  [q EXCEPT !.waiters = n, !.cancelled = TRUE] \in FlightRecord
  BY DEF FlightRecord
<1>2. 0 \in Int
  OBVIOUS
<1> QED
  BY <1>1, <1>2

\* The calls of a get keep the invariant: a worker begins only where its key finds none, and
\* the last caller that leaves takes the worker it cancels out of the registry.
LEMMA CallPaid ==
  ASSUME PaidInv, NEW g \in Get,
         Forbid(g) \/ Ask(g) \/ GiveUp(g) \/ WaitDone(g) \/ WaitCancelled(g) \/ CloseFlight(g)
  PROVE  PaidInv'
<1> row \in Row /\ GetsTyped /\ FlightsTyped /\ flight[g] \in FlightRecord /\ RegisteredInv /\ PaymentInv
  BY DEF PaidInv, FlightsTyped
<1> /\ \A h \in Get : flight[h] \in FlightRecord /\ get[h].key \in DOMAIN flights
    /\ DOMAIN flights = {get[h].key : h \in Get} /\ flights = [k \in DOMAIN flights |-> flights[k]]
    /\ \A k \in DOMAIN flights : flights[k] \in Get \union {NoGet}
  BY DEF FlightsTyped
<1> USE DEF othersOfGet
<1>1. ASSUME NEW on, NEW pc, pc = "wait" => on \in Get,
             SameKeys, get'[g].pc = pc, get'[g].on = on,
             \A h \in Get \ {g} : get'[h] = get[h],
             UNCHANGED <<flights, flight, payments, renewed, row>>
      PROVE  PaidInv'
  <2>1. FlightsTyped'
    BY <1>1 DEF FlightsTyped, SameKeys
  <2>2. RegisteredInv'
    BY <1>1 DEF RegisteredInv, SameKeys
  <2> QED
    BY <1>1, <2>1, <2>2, RegistryPaid DEF PaymentInv
<1>2. CASE Forbid(g) \/ GiveUp(g) \/ WaitDone(g)
  <2>1. UNCHANGED <<flights, flight, payments, renewed, row>>
    BY <1>2 DEF Forbid, GiveUp, WaitDone
  <2>2. \/ \E result : get' = [get EXCEPT ![g].pc = "end", ![g].result = result]
        \/ get' = [get EXCEPT ![g].cancelled = TRUE]
    BY <1>2 DEF Forbid, GiveUp, WaitDone
  <2>3. /\ SameKeys /\ get'[g].on = get[g].on /\ get'[g].pc \in {"end", get[g].pc}
        /\ \A h \in Get \ {g} : get'[h] = get[h]
    <3>1. CASE get' = [get EXCEPT ![g].cancelled = TRUE]
      BY <3>1 DEF SameKeys, GetsTyped, GetRecord
    <3>2. ASSUME NEW result, get' = [get EXCEPT ![g].pc = "end", ![g].result = result]
          PROVE  /\ SameKeys /\ get'[g].on = get[g].on /\ get'[g].pc = "end"
                 /\ \A h \in Get \ {g} : get'[h] = get[h]
      BY <3>2 DEF SameKeys, GetsTyped, GetRecord
    <3> QED
      BY <2>2, <3>1, <3>2
  <2>4. get'[g].pc = "wait" => get'[g].on \in Get
    BY <2>3 DEF RegisteredInv
  <2> QED
    BY <1>1, <2>1, <2>3, <2>4
<1>3. CASE Ask(g)
  <2> DEFINE k == get[g].key
             on == IF flights[k] = NoGet THEN g ELSE flights[k]
  <2>1. UNCHANGED <<payments, renewed, row>>
    BY <1>3 DEF Ask
  <2>2. get' = [get EXCEPT ![g].pc = "wait", ![g].on = on, ![g].cancelled = get[g].http /\ down]
    BY <1>3 DEF Ask
  <2>3. on \in Get
    OBVIOUS
  <2>4. SameKeys /\ get'[g].pc = "wait" /\ get'[g].on = on /\ \A h \in Get \ {g} : get'[h] = get[h]
    BY <2>2 DEF SameKeys, GetsTyped, GetRecord
  <2>5. {get'[h].key : h \in Get} = {get[h].key : h \in Get}
    BY <2>4 DEF SameKeys
  <2>6. CASE flights[k] = NoGet
    <3> DEFINE f == [NoFlight EXCEPT !.pc = "resolve", !.waiters = 1]
    <3>1. flights' = [flights EXCEPT ![k] = g] /\ flight' = [flight EXCEPT ![g] = f]
      BY <1>3, <2>6 DEF Ask
    <3>2. /\ f \in FlightRecord /\ f.pc = "resolve" /\ f.payment = "none" /\ ~f.cancelled
          /\ ~Settled(f) /\ ~Paying(f)
      <4>1. NoFlight \in FlightRecord /\ NoFlight.payment = "none" /\ ~NoFlight.cancelled
        BY DEF NoFlight, FlightRecord
      <4>2. f.pc = "resolve" /\ f.payment = "none" /\ ~f.cancelled
        BY <4>1 DEF FlightRecord
      <4>3. f \in FlightRecord
        BY FlightLaunched
      <4> HIDE DEF f
      <4> QED
        BY <4>2, <4>3 DEF Settled, Paying
    <3> HIDE DEF f
    <3>3. flight'[g] = f /\ \A h \in Get \ {g} : flight'[h] = flight[h]
      BY <3>1 DEF FlightsTyped
    <3>4. FlightsTyped'
      BY <2>5, <3>1, <3>2 DEF FlightsTyped
    <3>5. flights'[k] = g /\ \A x \in DOMAIN flights \ {k} : flights'[x] = flights[x]
      BY <3>1
    <3>6. RegisteredInv'
      BY <2>3, <2>4, <2>6, <3>2, <3>3, <3>5, StreamingAssumption DEF RegisteredInv, SameKeys
    <3> QED
      BY <2>1, <2>4, <3>2, <3>3, <3>4, <3>6, RegistryPaid DEF PaymentInv
  <2>7. CASE flights[k] # NoGet
    <3>1. flights' = flights /\ flight' = [flight EXCEPT ![on].waiters = @ + 1]
      BY <1>3, <2>7 DEF Ask
    <3> DEFINE q == [flight[on] EXCEPT !.waiters = flight[on].waiters + 1]
    <3> HIDE DEF on
    <3>a. flight' = [flight EXCEPT ![on] = q]
      BY <2>3, <3>1
    <3>b. /\ q \in FlightRecord /\ q.pc = flight[on].pc /\ q.next = flight[on].next
          /\ q.cancelled = flight[on].cancelled /\ q.payment = flight[on].payment
      BY <2>3 DEF FlightRecord
    <3> HIDE DEF q
    <3>2. /\ flight' \in [Get -> FlightRecord]
          /\ \A h \in Get : /\ flight'[h].pc = flight[h].pc /\ flight'[h].next = flight[h].next
                            /\ flight'[h].cancelled = flight[h].cancelled
                            /\ flight'[h].payment = flight[h].payment
      BY <2>3, <3>a, <3>b DEF FlightsTyped
    <3>3. FlightsTyped'
      BY <2>5, <3>1, <3>2 DEF FlightsTyped
    <3>4. RegisteredInv'
      BY <2>3, <2>4, <3>1, <3>2 DEF RegisteredInv, SameKeys
    <3> QED
      BY <2>1, <2>4, <3>2, <3>3, <3>4, RegistryPaid DEF PaymentInv, Settled, Paying
  <2> QED
    BY <2>6, <2>7
<1>4. CASE WaitCancelled(g)
  <2> DEFINE f == get[g].on
  <2>1. get[g].pc = "wait" /\ f \in Get /\ UNCHANGED <<payments, renewed, row>>
    BY <1>4 DEF WaitCancelled, RegisteredInv
  <2>2. get' = [get EXCEPT ![g].pc = "end", ![g].result = "cancelled"]
    BY <1>4 DEF WaitCancelled
  <2>3. /\ SameKeys /\ get'[g].on = get[g].on /\ get'[g].pc = "end"
        /\ \A h \in Get \ {g} : get'[h] = get[h]
    BY <2>2 DEF SameKeys, GetsTyped, GetRecord
  <2>4. {get'[h].key : h \in Get} = {get[h].key : h \in Get}
    BY <2>3 DEF SameKeys
  <2>5. CASE UNCHANGED <<flights, flight>>
    BY <1>1, <2>1, <2>3, <2>5
  <2>6. CASE UNCHANGED flights /\ flight' = [flight EXCEPT ![f].waiters = @ - 1]
    <3> HIDE DEF f
    <3>1. /\ flight' \in [Get -> FlightRecord]
          /\ \A h \in Get : /\ flight'[h].pc = flight[h].pc /\ flight'[h].next = flight[h].next
                            /\ flight'[h].cancelled = flight[h].cancelled
                            /\ flight'[h].payment = flight[h].payment
      BY <2>1, <2>6 DEF FlightsTyped, FlightRecord
    <3>2. FlightsTyped'
      BY <2>4, <2>6, <3>1 DEF FlightsTyped
    <3>3. RegisteredInv'
      BY <2>3, <2>6, <3>1 DEF RegisteredInv, SameKeys
    <3> QED
      BY <2>1, <2>3, <3>1, <3>2, <3>3, RegistryPaid, ZenonT(30) DEF PaymentInv, Settled, Paying
  <2>7. CASE /\ flights' = [k \in DOMAIN flights |-> IF flights[k] = f THEN NoGet ELSE flights[k]]
             /\ flight' = [flight EXCEPT ![f].waiters = 0, ![f].cancelled = TRUE]
    <3> DEFINE q == [flight[f] EXCEPT !.waiters = 0, !.cancelled = TRUE]
    <3> HIDE DEF f
    <3>a. flight' = [flight EXCEPT ![f] = q]
      BY <2>1, <2>7 DEF FlightsTyped
    <3>b. /\ q \in FlightRecord /\ q.pc = flight[f].pc /\ q.next = flight[f].next
          /\ q.cancelled = TRUE /\ q.payment = flight[f].payment
      <4>1. flight[f] \in FlightRecord
        BY <2>1
      <4>2. q.waiters = 0 /\ q.cancelled = TRUE
        BY <4>1 DEF FlightRecord
      <4>3. /\ q.pc = flight[f].pc /\ q.next = flight[f].next /\ q.payment = flight[f].payment
            /\ q.result = flight[f].result
        BY <4>1 DEF FlightRecord
      <4>4. q \in FlightRecord
        BY <4>1, FlightCancelled
      <4> QED
        BY <4>2, <4>3, <4>4
    <3> HIDE DEF q
    <3>1. /\ flight' \in [Get -> FlightRecord]
          /\ \A h \in Get : /\ flight'[h].pc = flight[h].pc /\ flight'[h].next = flight[h].next
                            /\ flight'[h].payment = flight[h].payment
                            /\ IF h = f THEN flight'[h].cancelled
                               ELSE flight'[h].cancelled = flight[h].cancelled
      BY <2>1, <3>a, <3>b DEF FlightsTyped
    <3>2. FlightsTyped'
      BY <2>4, <2>7, <3>1 DEF FlightsTyped
    <3>3. \A h \in Get : h # f /\ flights[get[h].key] = h => flights'[get[h].key] = h
      BY <2>7
    <3>4. RegisteredInv'
      BY <2>3, <3>1, <3>3 DEF RegisteredInv, SameKeys
    <3> QED
      BY <2>1, <2>3, <3>1, <3>2, <3>4, RegistryPaid, ZenonT(30) DEF PaymentInv, Settled, Paying
  <2> QED
    BY <1>4, <2>5, <2>6, <2>7 DEF WaitCancelled, Abandon
<1>5. CASE CloseFlight(g)
  <2>1. /\ flight[g].pc = "close" /\ UNCHANGED <<get, payments, renewed, row>>
        /\ flight' = [flight EXCEPT ![g].pc = "done"]
        /\ flights' = [k \in DOMAIN flights |-> IF flights[k] = g THEN NoGet ELSE flights[k]]
    BY <1>5 DEF CloseFlight, To
  <2>2. /\ flight' \in [Get -> FlightRecord] /\ flight'[g].pc = "done"
        /\ flight'[g].payment = flight[g].payment /\ flight'[g].cancelled = flight[g].cancelled
        /\ \A h \in Get \ {g} : flight'[h] = flight[h]
    BY <2>1 DEF FlightsTyped, FlightRecord
  <2>3. SameKeys /\ FlightsTyped'
    BY <2>1, <2>2 DEF SameKeys, GetsTyped, FlightsTyped
  <2>4. \A h \in Get : h # g /\ flights[get[h].key] = h => flights'[get[h].key] = h
    BY <2>1
  <2>5. RegisteredInv'
    BY <2>1, <2>2, <2>4 DEF RegisteredInv, Work
  <2> QED
    BY <2>1, <2>2, <2>3, <2>5, RegistryPaid, ZenonT(30) DEF PaymentInv, Settled, Paying
<1> QED
  BY <1>2, <1>3, <1>4, <1>5

\* The row and the registry keep payments apart in every state.
THEOREM PaidInvariance == Spec => []PaidInv
<1>1. ASSUME Init PROVE PaidInv
  <2> PICK s \in Scenarios :
        /\ row = s.row /\ get = [g \in Get |-> NewGet(s.gets[g])]
        /\ flights = [k \in {s.gets[g].key : g \in Get} |-> NoGet]
        /\ flight = [g \in Get |-> NoFlight] /\ payments = 0
    BY <1>1 DEF Init
  <2>1. GetsTyped /\ \A g \in Get : get[g].key = s.gets[g].key /\ get[g].pc # "wait"
    BY DEF GetsTyped, NewGet, GetRecord
  <2>2. NoFlight \in FlightRecord /\ NoFlight.pc = "none" /\ NoFlight.payment = "none"
    BY DEF NoFlight, FlightRecord
  <2>3. FlightsTyped /\ row \in Row
    BY <2>1, <2>2, StreamingAssumption DEF FlightsTyped
  <2>4. RegisteredInv
    BY <2>1, <2>2 DEF RegisteredInv, Work
  <2>5. PaymentInv
    <3>1. ~Settled(NoFlight) /\ ~Paying(NoFlight) /\ \A g \in Get : flight[g] = NoFlight
      BY <2>2 DEF Settled, Paying
    <3>2. payments \in Nat /\ ~(payments > 0)
      OBVIOUS
    <3> QED
      BY <2>2, <3>1, <3>2 DEF PaymentInv
  <2> QED
    BY <2>1, <2>3, <2>4, <2>5 DEF PaidInv
<1>2. ASSUME PaidInv, [Next]_vars PROVE PaidInv'
  <2>1. ASSUME UNCHANGED <<row, get, flights, flight, payments, renewed>> PROVE PaidInv'
    BY <1>2, <2>1, PaidFrame DEF PaidInv
  <2>2. RequestStep \/ OpStep \/ GetStep \/ UNCHANGED <<row, get, flights, flight, payments, renewed>>
    BY <1>2 DEF Next, vars, getVars
  <2>3. ASSUME GetStep PROVE PaidInv'
    BY <1>2, <2>3, WorkPaid, BroadcastPaid, CallPaid DEF GetStep
  <2> QED
    BY <1>2, <2>1, <2>2, <2>3, RowPaid
<1> QED
  BY <1>1, <1>2, PTL DEF Spec

\* Gets with the same parameters buy a stream at most once, whoever gives up and starts over
\* (waitManagedGet, and downloadFromURIOnce, which saves the row before it broadcasts).
THEOREM PaidOnceHolds == Spec => []PaidOnce
<1>1. PaidInv => PaidOnce
  BY DEF PaidInv, PaymentInv, OneKey, PaidOnce
<1> QED
  BY <1>1, PaidInvariance, PTL


---------------------------------------------------------------------------
(* Fetches                                                                 *)
---------------------------------------------------------------------------

\* A fetch that begins has everything to ask, or nobody to ask at all.
LEMMA FreshFetch ==
    /\ NoFetch \in FetchRecord /\ NoFetch.st = "none"
    /\ [NoFetch EXCEPT !.st = "won"] \in FetchRecord /\ [NoFetch EXCEPT !.st = "won"].st = "won"
    /\ [NoFetch EXCEPT !.st = "failed"] \in FetchRecord /\ [NoFetch EXCEPT !.st = "failed"].st = "failed"
    /\ NewFetch \in FetchRecord /\ NewFetch.st = "running" /\ Asking(NewFetch)
<1>1. NoFetch \in FetchRecord /\ NoFetch.st = "none" /\ NoFetch.call = [p \in Peer |-> "none"]
  BY DEF NoFetch, FetchRecord
<1>2. ASSUME NEW q \in FetchRecord, NEW st \in {"none", "running", "won", "failed"}
      PROVE  [q EXCEPT !.st = st] \in FetchRecord /\ [q EXCEPT !.st = st].st = st
  BY DEF FetchRecord
<1> DEFINE looking == [s \in Source |-> IF Configured(s) THEN "looking" ELSE "off"]
<1>3. looking \in [Source -> {"off", "looking", "sent", "taken"}]
  OBVIOUS
<1>4. \A s \in Source : Configured(s) => looking[s] = "looking"
  OBVIOUS
<1> HIDE DEF looking
<1>5. NewFetch = [NoFetch EXCEPT !.st = "running", !.source = looking]
  BY DEF NewFetch, looking
<1>6. /\ NewFetch \in FetchRecord /\ NewFetch.st = "running" /\ NewFetch.source = looking
      /\ NewFetch.call = NoFetch.call
  BY <1>1, <1>3, <1>5 DEF FetchRecord
<1>7. Asking(NewFetch)
  BY <1>1, <1>4, <1>6 DEF Asking
<1> QED
  BY <1>1, <1>2, <1>6, <1>7

\* What a failed fetch shows of the world.
Explained ==
    \A s \in Source : Configured(s) =>
        \A p \in Batch(s) \ world.portless : world.kind[p] # "holds"

\* One fetch changes: it is typed again, it still asks if it runs, and its failure is explained.
LEMMA FetchStep ==
  ASSUME FetchInv, world' = world, NEW b \in Blob, NEW q \in FetchRecord,
         fetch' = [fetch EXCEPT ![b] = q],
         q.st = "running" => Asking(q), q.st = "failed" => Explained
  PROVE  FetchInv'
<1>1. FetchTyped'
  BY DEF FetchInv, FetchTyped
<1>2. fetch'[b] = q /\ \A c \in Blob \ {b} : fetch'[c] = fetch[c]
  BY DEF FetchInv, FetchTyped
<1>3. /\ \A s \in Source : Configured(s)' = Configured(s) /\ Batch(s)' = Batch(s)
      /\ WorldTyped' = WorldTyped
  BY DEF Configured, Batch, WorldTyped
<1>4. ASSUME NEW c \in Blob, fetch'[c].st = "running"
      PROVE  Asking(fetch[c])'
  <2>1. Asking(fetch'[c])
    BY <1>2, <1>4 DEF FetchInv
  <2> QED
    BY <1>3, <2>1 DEF Asking
<1>5. FetchFailureExplained'
  BY <1>2, <1>3 DEF FetchInv, FetchFailureExplained, Explained
<1> QED
  BY <1>1, <1>3, <1>4, <1>5 DEF FetchInv

\* Every source names peers.
LEMMA BatchPeers ==
  ASSUME WorldTyped, NEW s \in Source PROVE Batch(s) \subseteq Peer
  BY DEF WorldTyped, Source, Batch, Named

\* A change of one peer's call that does not blame a peer that holds the blob.
LEMMA CallStep ==
  ASSUME WorldTyped, NEW f \in FetchRecord, f.st = "running", Asking(f), NEW p \in Peer,
         f.call[p] # "none",
         NEW v \in {"asked", "good", "bad", "used"},
         v \in {"bad", "used"} => world.kind[p] # "holds"
  PROVE  LET q == [f EXCEPT !.call[p] = v]
         IN  q \in FetchRecord /\ q.st = "running" /\ Asking(q)
<1> DEFINE q == [f EXCEPT !.call[p] = v]
<1>1. q \in FetchRecord /\ q.st = f.st /\ q.source = f.source
  BY DEF FetchRecord
<1>2. q.call[p] = v /\ \A x \in Peer \ {p} : q.call[x] = f.call[x]
  BY DEF FetchRecord
<1>3. \A x \in Peer : f.call[x] # "none" => q.call[x] # "none"
  BY <1>2
<1> HIDE DEF q
<1>4. ASSUME NEW s \in Source, Configured(s), q.source[s] = "taken",
             NEW x \in Batch(s) \ world.portless
      PROVE  q.call[x] # "none"
  <2>1. f.call[x] # "none"
    BY <1>1, <1>4 DEF Asking
  <2> QED
    BY <1>3, <2>1, BatchPeers
<1> QED
  BY <1>1, <1>2, <1>4 DEF Asking, q

\* A peer that holds the blob is reachable, and what it sends is accepted.
LEMMA HolderAnswers ==
  ASSUME NEW b PROVE Accepts(b, handleConnection("holds", b))
  BY DEF handleConnection, getRequestedBlob, Reply, Accepts, validateIncomingBlob

\* The loop of NetworkFetcher keeps the invariant: a batch is taken as a whole, and only an
\* answer that a holder never gives is bad.
LEMMA ExchangeFetch ==
  ASSUME FetchInv, ExchangeStep PROVE FetchInv'
<1>1. PICK b \in Blob : \/ \E s \in Source : Discover(b, s) \/ TakeBatch(b, s)
                        \/ \E p \in Peer : Dial(b, p) \/ Receive(b, p) \/ TakeResult(b, p)
                        \/ Exhausted(b)
  BY DEF ExchangeStep
<1> DEFINE f == fetch[b]
<1>2. /\ world' = world /\ f.st = "running" /\ f \in FetchRecord /\ Asking(f) /\ WorldTyped
      /\ fetch \in [Blob -> FetchRecord]
  BY <1>1 DEF Discover, TakeBatch, Dial, Receive, TakeResult, Exhausted, Running, FetchInv, FetchTyped
<1>3. ASSUME NEW p \in Peer, f.call[p] # "none", NEW v \in {"asked", "good", "bad", "used"},
             v \in {"bad", "used"} => world.kind[p] # "holds",
             fetch' = [fetch EXCEPT ![b].call[p] = v]
      PROVE  FetchInv'
  <2> DEFINE q == [f EXCEPT !.call[p] = v]
  <2>1. fetch' = [fetch EXCEPT ![b] = q]
    BY <1>2, <1>3
  <2>2. q \in FetchRecord /\ q.st = "running" /\ Asking(q)
    BY <1>2, <1>3, CallStep
  <2> HIDE DEF q
  <2> QED
    BY <1>2, <2>1, <2>2, FetchStep
<1>4. ASSUME NEW s \in Source, Discover(b, s)
      PROVE  FetchInv'
  <2> DEFINE q == [f EXCEPT !.source[s] = "sent"]
  <2>1. fetch' = [fetch EXCEPT ![b] = q] /\ f.source[s] = "looking"
    BY <1>2, <1>4 DEF Discover
  <2>2. q \in FetchRecord /\ q.st = "running" /\ q.call = f.call
    BY <1>2 DEF FetchRecord
  <2>3. q.source[s] = "sent" /\ \A x \in Source \ {s} : q.source[x] = f.source[x]
    BY <1>2 DEF FetchRecord
  <2> HIDE DEF q
  <2>4. Asking(q)
    BY <1>2, <2>2, <2>3 DEF Asking
  <2> QED
    BY <1>2, <2>1, <2>2, <2>4, FetchStep
<1>5. ASSUME NEW s \in Source, TakeBatch(b, s)
      PROVE  FetchInv'
  <2> DEFINE calls == [p \in Peer |-> IF p \in Batch(s) \ world.portless /\ f.call[p] = "none"
                                      THEN "dialing" ELSE f.call[p]]
             q == [f EXCEPT !.source[s] = "taken", !.call = calls]
  <2>1. fetch' = [fetch EXCEPT ![b] = q]
    BY <1>2, <1>5 DEF TakeBatch, FetchRecord
  <2>2. /\ calls \in [Peer -> {"none", "dialing", "asked", "good", "bad", "used"}]
        /\ \A p \in Peer : f.call[p] # "none" => calls[p] = f.call[p]
        /\ \A p \in Batch(s) \ world.portless : p \in Peer => calls[p] # "none"
        /\ \A p \in Peer : calls[p] \in {"bad", "used"} => f.call[p] = calls[p]
    BY <1>2 DEF FetchRecord
  <2> HIDE DEF calls
  <2>3. q \in FetchRecord /\ q.st = "running" /\ q.call = calls
    BY <1>2, <2>2 DEF FetchRecord
  <2>4. q.source[s] = "taken" /\ \A x \in Source \ {s} : q.source[x] = f.source[x]
    BY <1>2 DEF FetchRecord
  <2> HIDE DEF q
  <2>5. Asking(q)
    <3>1. ASSUME NEW x \in Source, Configured(x), q.source[x] = "taken",
                 NEW p \in Batch(x) \ world.portless
          PROVE  calls[p] # "none"
      BY <1>2, <2>2, <2>4, <3>1, BatchPeers DEF Asking
    <3> QED
      BY <1>2, <2>2, <2>3, <2>4, <3>1 DEF Asking
  <2> QED
    BY <1>2, <2>1, <2>3, <2>5, FetchStep
<1>6. ASSUME NEW p \in Peer, Dial(b, p)
      PROVE  FetchInv'
  BY <1>3, <1>6 DEF Dial
<1>7. ASSUME NEW p \in Peer, Receive(b, p)
      PROVE  FetchInv'
  <2> DEFINE good == world.kind[p] # "silent" /\ Accepts(b, handleConnection(world.kind[p], b))
             v == IF good THEN "good" ELSE "bad"
  <2>1. fetch' = [fetch EXCEPT ![b].call[p] = v] /\ f.call[p] = "asked"
    BY <1>7 DEF Receive
  <2>2. world.kind[p] = "holds" => good
    BY HolderAnswers
  <2> HIDE DEF good
  <2> QED
    BY <1>3, <2>1, <2>2
<1>8. ASSUME NEW p \in Peer, TakeResult(b, p)
      PROVE  FetchInv'
  <2>1. CASE f.call[p] = "good"
    <3>1. fetch' = [fetch EXCEPT ![b] = [NoFetch EXCEPT !.st = "won"]]
      BY <1>8, <2>1 DEF TakeResult
    <3> QED
      BY <1>2, <3>1, FreshFetch, FetchStep
  <2>2. CASE f.call[p] = "bad"
    <3>1. fetch' = [fetch EXCEPT ![b].call[p] = "used"]
      BY <1>8, <2>2 DEF TakeResult
    <3>2. world.kind[p] # "holds"
      BY <1>2, <2>2 DEF Asking
    <3> QED
      BY <1>3, <2>2, <3>1, <3>2
  <2> QED
    BY <1>8, <2>1, <2>2 DEF TakeResult
<1>9. ASSUME Exhausted(b)
      PROVE  FetchInv'
  <2>1. fetch' = [fetch EXCEPT ![b] = [NoFetch EXCEPT !.st = "failed"]]
    BY <1>9 DEF Exhausted
  <2>2. Explained
    <3>1. ASSUME NEW s \in Source, Configured(s), NEW p \in Batch(s) \ world.portless
          PROVE  world.kind[p] # "holds"
      <4>1. f.source[s] = "taken"
        BY <1>2, <1>9, <3>1 DEF Exhausted, LoopEnds, Asking
      <4>2. p \in Peer /\ f.call[p] # "none"
        BY <1>2, <3>1, <4>1, BatchPeers DEF Asking
      <4>3. f.call[p] = "used"
        BY <1>9, <4>2 DEF Exhausted, LoopEnds
      <4> QED
        BY <1>2, <4>2, <4>3 DEF Asking
    <3> QED
      BY <3>1 DEF Explained
  <2> QED
    BY <1>2, <2>1, <2>2, FreshFetch, FetchStep
<1> QED
  BY <1>1, <1>4, <1>5, <1>6, <1>7, <1>8, <1>9

\* Nothing is fetched and nothing asked.
LEMMA FetchFrame ==
  ASSUME FetchInv, UNCHANGED <<world, fetch>> PROVE FetchInv'
<1>1. \A s \in Source : Configured(s)' = Configured(s) /\ Batch(s)' = Batch(s)
  BY DEF Configured, Batch
<1>2. WorldTyped' /\ FetchTyped'
  BY DEF FetchInv, WorldTyped, FetchTyped
<1>3. \A b \in Blob : fetch'[b].st = "running" => Asking(fetch[b])'
  BY <1>1 DEF FetchInv, Asking
<1>4. FetchFailureExplained'
  BY <1>1 DEF FetchInv, FetchFailureExplained
<1> QED
  BY <1>2, <1>3, <1>4 DEF FetchInv

\* A flight that is joined, launched, left or ended.  Without any source a new one fails, and
\* there is nobody whom it could have asked.
LEMMA FlightFetch ==
  ASSUME FetchInv, world' = world, NEW b, NEW who,
         Join(b) \/ LeaveFlight(b, who) \/ fetch' = [fetch EXCEPT ![b] = NoFetch]
  PROVE  FetchInv'
<1>1. fetch \in [Blob -> FetchRecord]
  BY DEF FetchInv, FetchTyped
<1>2. CASE fetch' = fetch
  BY <1>2, FetchFrame
<1>3. ASSUME NEW q, fetch' = [fetch EXCEPT ![b] = q], b \notin Blob
      PROVE  FetchInv'
  BY <1>1, <1>2, <1>3
<1>4. CASE fetch' = [fetch EXCEPT ![b] = NoFetch]
  BY <1>3, <1>4, FreshFetch, FetchStep
<1>5. CASE Launch(b)
  <2>1. CASE \A s \in Source : ~Configured(s)
    <3>1. fetch' = [fetch EXCEPT ![b] = [NoFetch EXCEPT !.st = "failed"]]
      BY <1>5, <2>1 DEF Launch
    <3>2. Explained
      BY <2>1 DEF Explained
    <3> QED
      BY <1>3, <3>1, <3>2, FreshFetch, FetchStep
  <2>2. CASE ~ \A s \in Source : ~Configured(s)
    <3>1. fetch' = [fetch EXCEPT ![b] = NewFetch]
      BY <1>5, <2>2 DEF Launch
    <3> QED
      BY <1>3, <3>1, FreshFetch, FetchStep
  <2> QED
    BY <2>1, <2>2
<1> QED
  BY <1>2, <1>4, <1>5 DEF Join, LeaveFlight

\* Every step: requests and gets change a fetch only by joining or leaving its flight.
LEMMA StepFetch ==
  ASSUME FetchInv, [Next]_vars PROVE FetchInv'
<1>1. CASE ExchangeStep
  BY <1>1, ExchangeFetch
<1>2. CASE UNCHANGED vars
  BY <1>2, FetchFrame DEF vars
<1>3. CASE RequestStep
  <2>1. ASSUME NEW b \in Blob, FlightEnds(b)
        PROVE  FetchInv'
    <3>1. fetch' = [fetch EXCEPT ![b] = NoFetch] /\ world' = world
      BY <2>1 DEF FlightEnds
    <3> QED
      BY <3>1, FlightFetch
  <2>2. CASE TimerFires \/ TimerStops \/ Shutdown \/ \E t \in firing : TimerRuns(t)
    BY <2>2, FetchFrame DEF TimerFires, TimerStops, Shutdown, TimerRuns
  <2>3. ASSUME NEW r \in Request,
               Arrive(r) \/ Lookup(r) \/ Activate(r) \/ ReleaseRequest(r) \/ Disconnect(r)
        PROVE  FetchInv'
    BY <2>3, FetchFrame DEF Arrive, Lookup, Activate, ReleaseRequest, Disconnect, othersOfRequest, othersOfArrival
  <2>4. ASSUME NEW r \in Request, Describe(r) \/ Walk(r) \/ EnsureFails(r)
        PROVE  FetchInv'
    <3>1. world' = world /\ \/ fetch' = fetch
                            \/ Join(0) \/ Join(req[r].blob) \/ LeaveFlight(req[r].blob, r)
      BY <2>4 DEF Describe, Walk, EnsureFails, Await, othersOfRequest, othersOfArrival
    <3> QED
      BY <3>1, FlightFetch, FetchFrame
  <2> QED
    BY <1>3, <2>1, <2>2, <2>3, <2>4 DEF RequestStep
<1>4. CASE OpStep
  <2>1. UNCHANGED <<world, fetch>>
    BY <1>4 DEF OpStep, SaveEnds, Select, FilesSave, PauseFiles, CleanFiles, Allow, ScheduleIdle, Cancel, MarkDeleting, Block,
                Drained, FilesStops, Purge, Wipe, FinishManagedFileDelete, othersOfOp
  <2> QED
    BY <2>1, FetchFrame
<1>5. CASE GetStep
  <2>1. PICK g \in Get :
            \/ Forbid(g) \/ Ask(g) \/ GiveUp(g) \/ WaitDone(g) \/ WaitCancelled(g)
            \/ Resolve(g) \/ ListFiles(g) \/ Pay(g) \/ EnsureDescriptor(g) \/ DescribeStream(g)
            \/ Persist(g) \/ Link(g) \/ RegisterStream(g) \/ SaveStream(g) \/ AllowStream(g)
            \/ Broadcast(g) \/ WorkFails(g) \/ CloseFlight(g)
    BY <1>5 DEF GetStep
  <2> USE DEF othersOfGet, othersOfWork
  <2>2. CASE EnsureDescriptor(g) \/ WorkFails(g)
    <3>1. world' = world /\ (fetch' = fetch \/ Join(0) \/ LeaveFlight(0, g))
      BY <2>2 DEF EnsureDescriptor, WorkFails
    <3> QED
      BY <3>1, FlightFetch, FetchFrame
  <2>3. CASE Forbid(g) \/ Ask(g) \/ GiveUp(g) \/ WaitDone(g) \/ WaitCancelled(g) \/ CloseFlight(g)
    BY <2>3, FetchFrame DEF Forbid, Ask, GiveUp, WaitDone, WaitCancelled, CloseFlight
  <2>4. CASE \/ Resolve(g) \/ ListFiles(g) \/ Pay(g) \/ DescribeStream(g) \/ Persist(g) \/ Link(g)
             \/ RegisterStream(g) \/ SaveStream(g) \/ AllowStream(g) \/ Broadcast(g)
    BY <2>4, FetchFrame DEF Resolve, ListFiles, Pay, DescribeStream, Persist, Link, RegisterStream,
                            SaveStream, AllowStream, Broadcast
  <2> QED
    BY <2>1, <2>2, <2>3, <2>4
<1> QED
  BY <1>1, <1>2, <1>3, <1>4, <1>5 DEF Next

\* While a fetch runs it has asked, or still has to ask, every usable peer that its sources
\* named, and no peer that holds the blob has failed it.
THEOREM FetchInvariance == Spec => []FetchInv
<1>1. Init => FetchInv
  <2> SUFFICES ASSUME Init PROVE FetchInv
    OBVIOUS
  <2>1. PICK s \in Scenarios : world = s.world /\ fetch = [b \in Blob |-> NoFetch]
    BY DEF Init
  <2>2. WorldTyped
    BY <2>1, StreamingAssumption DEF WorldTyped
  <2>3. FetchTyped /\ \A b \in Blob : fetch[b].st = "none"
    BY <2>1, FreshFetch DEF FetchTyped
  <2> QED
    BY <2>2, <2>3 DEF FetchInv, FetchFailureExplained
<1>2. FetchInv /\ [Next]_vars => FetchInv'
  BY StepFetch
<1> QED
  BY <1>1, <1>2, PTL DEF Spec

\* A fetch that fails was told of no usable peer that holds the blob, for any sources, peers
\* and order of the answers (NetworkFetcher's loop).
THEOREM FetchFailureExplainedHolds == Spec => []FetchFailureExplained
<1>1. FetchInv => FetchFailureExplained
  BY DEF FetchInv
<1> QED
  BY <1>1, FetchInvariance, PTL

---------------------------------------------------------------------------
(* Idle streams                                                            *)
---------------------------------------------------------------------------

\* No request begins to play or to mark the row.
Tame == \A r \in Request : /\ req'[r].pc \in Playing => req[r].pc \in Playing
                           /\ req'[r].pc = "activate" => req[r].pc = "activate"

\* The row stays, and awake, or everybody who plays has been overruled.
LEMMA PlayFrame ==
  ASSUME PlayInv, active \subseteq Request, active' \subseteq active, overruled \subseteq overruled',
         idling' \in {0, idling}, Tame,
         \/ (row.managed => row'.managed) /\ (row.status # "stopped" => row'.status # "stopped")
         \/ active \subseteq overruled'
  PROVE  PlayInv'
  BY DEF PlayInv, Tame

\* No request is registered, and none has answered that had not.
Calm == \A r \in Request : /\ req'[r].pc \notin {"new", "end"} => req[r].pc \notin {"new", "end"}
                           /\ req'[r].status = 206 => req[r].status = 206

\* Nobody who would put the stream to sleep is lost, or nobody is needed.
LEMMA SleepFrame ==
  ASSUME SleepInv, Calm, active' = active, CountersInv', DeletersInv', down => down',
         row'.managed => row.managed,
         \A g \in Get : flight'[g].pc = "none" => flight[g].pc = "none",
         ~missed' /\ row'.status = "running" => Sleeper' \/ (~missed /\ row.status = "running" /\ ~Sleeper)
  PROVE  SleepInv'
<1>1. RegisterInv'
  BY DEF SleepInv, RegisterInv, Calm
<1>2. Undisturbed' /\ ~missed => Undisturbed
  BY DEF Undisturbed, Calm
<1> QED
  BY <1>1, <1>2 DEF SleepInv, Undisturbed

\* A step of a registered request: it is still there afterwards, and will schedule the timer.
LEMMA OwnIdle ==
  ASSUME QuietInv, IdleInv, NEW r \in Request, r \in active, Own(r),
         UNCHANGED <<active, blocked, op, timers, firing>>
  PROVE  SleepInv'
<1>1. RegisterInv'
  BY DEF IdleInv, SleepInv, RegisterInv, Own
<1>2. CountersInv' /\ DeletersInv'
  BY DEF IdleInv, SleepInv, CountersInv, DeletersInv, Deleters
<1> QED
  BY <1>1, <1>2 DEF SleepInv, Sleeper

\* What handleSDHash does between registration and release.  The row is marked under
\* lifecycleMu, so no timer function is stopping it.
LEMMA StepIdle ==
  ASSUME QuietInv, row \in Row, IdleInv, NEW r \in Request,
         Lookup(r) \/ Activate(r) \/ Describe(r) \/ Walk(r) \/ EnsureFails(r)
  PROVE  IdleInv'
<1> RequestsTyped /\ active \subseteq Request /\ PlayInv /\ SleepInv
  BY DEF QuietInv, ActiveInv, IdleInv
<1> USE DEF othersOfRequest, othersOfArrival, serverVars
<1>1. Own(r) /\ UNCHANGED <<active, blocked, op>>
  BY RequestOwn
<1>2. UNCHANGED <<timers, firing, idling, overruled>>
  BY DEF Lookup, Activate, Describe, Walk, EnsureFails
<1>3. r \in active
  BY DEF Lookup, Activate, Describe, Walk, EnsureFails, SleepInv, RegisterInv
<1>4. SleepInv'
  BY <1>1, <1>2, <1>3, OwnIdle
<1>5. \A q \in Request \ {r} : req'[q] = req[q]
  BY <1>1 DEF Own
<1>6. ASSUME Describe(r) \/ Walk(r) \/ EnsureFails(r) PROVE PlayInv'
  <2>1. req[r].pc \in Playing /\ row' = row
    BY <1>6 DEF Describe, Walk, EnsureFails, Playing
  <2> QED
    BY <1>1, <1>2, <1>3, <1>5, <2>1 DEF PlayInv
<1>7. ASSUME NEW status, Ends(r, status), row' = row
      PROVE  PlayInv'
  <2>1. req'[r].pc \notin Playing \union {"activate"}
    BY <1>7 DEF Ends, RequestsTyped, RequestRecord, Playing
  <2>2. Tame
    BY <1>5, <2>1 DEF Tame
  <2> QED
    BY <1>1, <1>2, <1>7, <2>2, PlayFrame
<1>8. ASSUME Lookup(r) PROVE PlayInv'
  <2>1. row' = row /\ \/ \E status : Ends(r, status)
                      \/ row.managed /\ req' = [req EXCEPT ![r].pc = "activate"]
    BY <1>8 DEF Lookup
  <2>2. CASE row.managed /\ req' = [req EXCEPT ![r].pc = "activate"]
    <3>1. req'[r].pc = "activate"
      BY <2>2 DEF RequestsTyped, RequestRecord
    <3> QED
      BY <1>1, <1>2, <1>5, <2>1, <2>2, <3>1 DEF PlayInv, Playing
  <2> QED
    BY <1>7, <2>1, <2>2
<1>9. ASSUME Activate(r) PROVE PlayInv'
  <2>1. /\ req[r].pc = "activate" /\ idling = 0
        /\ \/ row' = row /\ \E status : Ends(r, status)
           \/ row' = MarkActive /\ req' = [req EXCEPT ![r].pc = "describe"]
    BY <1>9 DEF Activate, MayActivate
  <2>2. CASE row' = MarkActive /\ req' = [req EXCEPT ![r].pc = "describe"]
    <3>1. req'[r].pc = "describe"
      BY <2>2 DEF RequestsTyped, RequestRecord
    <3>2. /\ row'.managed = row.managed /\ (row.status # "stopped" => row'.status # "stopped")
          /\ row.managed => row'.status # "stopped"
      BY <2>2 DEF MarkActive, Row
    <3> QED
      BY <1>1, <1>2, <1>5, <2>1, <3>1, <3>2 DEF PlayInv
  <2> QED
    BY <1>7, <2>1, <2>2
<1> QED
  BY <1>4, <1>6, <1>8, <1>9 DEF IdleInv

\* Requests and timers keep the invariant: the last request that leaves schedules a timer,
\* unless a deletion that will forget the row has blocked the stream.
LEMMA RequestIdle ==
  ASSUME QuietInv, PaidInv, IdleInv, RequestStep PROVE IdleInv'
<1> /\ RequestsTyped /\ active \subseteq Request /\ ActiveInv /\ PlayInv /\ SleepInv /\ row \in Row
    /\ RegisterInv /\ CountersInv /\ DeletersInv
  BY DEF QuietInv, ActiveInv, IdleInv, SleepInv, PaidInv
<1> USE DEF othersOfRequest, othersOfArrival, serverVars, getVars
<1>1. ASSUME UNCHANGED <<op, blocked>> PROVE DeletersInv'
  BY <1>1 DEF DeletersInv, Deleters
<1>2. ASSUME UNCHANGED req PROVE Tame /\ Calm
  BY <1>2 DEF Tame, Calm
<1>3. ASSUME TimerFires PROVE IdleInv'
  <2>1. /\ timer # 0 /\ firing' = firing \union {timer}
        /\ UNCHANGED <<active, op, blocked, req, row, timer, timers, idling, missed, down, overruled, flight>>
    BY <1>3 DEF TimerFires
  <2>2. CountersInv' /\ (Sleeper => Sleeper')
    BY <2>1 DEF CountersInv, Sleeper
  <2> QED
    BY <1>1, <1>2, <2>1, <2>2, PlayFrame, SleepFrame DEF IdleInv
<1>4. ASSUME NEW t \in firing, TimerRuns(t) PROVE IdleInv'
  <2>1. /\ firing' = firing \ {t} /\ t # 0
        /\ UNCHANGED <<active, op, blocked, req, row, timers, down, overruled, flight>>
        /\ \/ UNCHANGED <<timer, idling, missed>>
           \/ active = {} /\ idling' = t /\ UNCHANGED missed
           \/ missed' /\ UNCHANGED idling
    BY <1>4 DEF TimerRuns, CountersInv
  <2>2. CountersInv' /\ (~missed' => ~missed) /\ (~missed' /\ Sleeper => Sleeper')
    BY <2>1 DEF CountersInv, Sleeper
  <2>3. PlayInv'
    BY <2>1 DEF PlayInv
  <2> QED
    BY <1>1, <1>2, <2>1, <2>2, <2>3, SleepFrame DEF IdleInv
<1>5. ASSUME TimerStops PROVE IdleInv'
  <2>1. /\ idling # 0 /\ idling' = 0
        /\ \/ row' = IF down THEN row ELSE StopIfIdle
           \/ row' = row /\ missed'
        /\ Paused => missed'
        /\ UNCHANGED <<active, op, blocked, req, timer, timers, firing, down, overruled, flight>>
    BY <1>5 DEF TimerStops
  <2>2. /\ row'.managed = row.managed /\ row'.saving = row.saving
        /\ ~down /\ ~missed' /\ row.managed /\ row'.status = "running" => row.saving
        /\ row'.status = "running" => row.status = "running"
    BY <2>1 DEF StopIfIdle, Row
  <2>3. CountersInv'
    BY <2>1 DEF CountersInv
  <2>4. PlayInv'
    BY <2>1, <2>2 DEF PlayInv
  <2>5. RegisterInv'
    BY <2>1 DEF RegisterInv
  <2>6. Undisturbed' /\ row'.status = "running" => Sleeper'
    BY <2>1, <2>2 DEF Undisturbed, Sleeper, CountersInv
  <2> QED
    BY <1>1, <2>1, <2>3, <2>4, <2>5, <2>6 DEF IdleInv, SleepInv
<1>6. ASSUME Shutdown PROVE IdleInv'
  <2>1. /\ down'
        /\ UNCHANGED <<active, op, blocked, row, timers, firing, idling, overruled>>
    BY <1>6 DEF Shutdown
  <2>2. req' = [r \in Request |-> IF req[r].pc \in {"new", "end"} THEN req[r]
                                  ELSE [req[r] EXCEPT !.cancelled = TRUE]]
    BY <1>6 DEF Shutdown
  <2>3. \A r \in Request : req'[r].pc = req[r].pc
    BY <2>2 DEF RequestsTyped, RequestRecord
  <2>5. CountersInv' /\ RegisterInv' /\ Tame
    BY <2>1, <2>3 DEF CountersInv, RegisterInv, Tame
  <2> QED
    BY <1>1, <2>1, <2>5, PlayFrame DEF IdleInv, SleepInv, Undisturbed
<1>7. ASSUME NEW r \in Request, Disconnect(r) PROVE IdleInv'
  <2>1. /\ req' = [req EXCEPT ![r].cancelled = TRUE]
        /\ UNCHANGED <<active, op, blocked, row, timer, timers, firing, idling, down, missed, overruled, flight>>
    BY <1>7 DEF Disconnect
  <2>2. \A q \in Request : req'[q].pc = req[q].pc /\ req'[q].status = req[q].status
    BY <2>1 DEF RequestsTyped, RequestRecord
  <2>3. Sleeper => Sleeper'
    BY <2>1 DEF Sleeper
  <2>4. CountersInv' /\ Tame /\ Calm
    BY <2>1, <2>2 DEF CountersInv, Tame, Calm
  <2> QED
    BY <1>1, <2>1, <2>3, <2>4, PlayFrame, SleepFrame DEF IdleInv
<1>8. ASSUME NEW b \in Blob, FlightEnds(b) PROVE IdleInv'
  <2> DEFINE pc == IF fetch[b].st = "won" THEN "got" ELSE "lost"
  <2>1. UNCHANGED <<active, op, blocked, row, timer, timers, firing, idling, missed, down, overruled>>
    BY <1>8 DEF FlightEnds
  <2>2. req' = [r \in Request |-> IF r \notin Waiters(b) THEN req[r] ELSE [req[r] EXCEPT !.pc = pc]]
    BY <1>8 DEF FlightEnds
  <2>3. \A r \in Waiters(b) : r \in Request => req[r].pc = "wait"
    BY StreamingAssumption DEF Waiters
  <2>4. pc \in {"got", "lost"}
    OBVIOUS
  <2> HIDE DEF pc
  <2>5. \A r \in Request : /\ req'[r].status = req[r].status
                           /\ \/ req'[r].pc = req[r].pc
                              \/ req[r].pc = "wait" /\ req'[r].pc \in {"got", "lost"}
    BY <2>2, <2>3, <2>4 DEF RequestsTyped, RequestRecord
  <2>6. Tame /\ Calm
    BY <2>5 DEF Tame, Calm, Playing
  <2>7. \A g \in Get : flight'[g].pc = "none" => flight[g].pc = "none"
    <3> SUFFICES ASSUME NEW g \in Get, flight[g].pc # "none" PROVE flight'[g].pc # "none"
      OBVIOUS
    <3>1. flight'[g] = flight[g] \/ (g \in Waiters(b) /\ \E p \in {flight[g].next, "fail"} : flight'[g] = [flight[g] EXCEPT !.pc = p])
      BY <1>8 DEF FlightEnds
    <3>2. g \in Waiters(b) => flight[g].pc = "wait"
      BY StreamingAssumption DEF Waiters
    <3>3. g \in Waiters(b) => flight[g].next # "none"
      BY <3>2 DEF PaidInv, RegisteredInv
    <3>4. \A p : [flight[g] EXCEPT !.pc = p].pc = p
      BY DEF PaidInv, FlightsTyped, FlightRecord
    <3> QED
      BY <3>1, <3>3, <3>4
  <2>8. CountersInv' /\ (Sleeper => Sleeper')
    BY <2>1 DEF CountersInv, Sleeper
  <2> QED
    BY <1>1, <2>1, <2>6, <2>7, <2>8, PlayFrame, SleepFrame DEF IdleInv
<1>9. ASSUME NEW r \in Request, Arrive(r) PROVE IdleInv'
  <2>1. req[r].pc = "new" /\ UNCHANGED <<op, blocked, row, timers, firing, idling, down, overruled, flight>>
    BY <1>9 DEF Arrive, registerStream
  <2>2. CountersInv' /\ DeletersInv'
    BY <1>1, <2>1 DEF CountersInv
  <2>3. CASE blocked
    <3>1. Ends(r, 404) /\ UNCHANGED <<active, timer, missed>> /\ r \notin active
      BY <1>9, <2>1, <2>3 DEF Arrive, ActiveInv
    <3>2. req'[r].pc = "end" /\ req'[r].status = 404 /\ \A q \in Request \ {r} : req'[q] = req[q]
      BY <3>1 DEF Ends, RequestsTyped, RequestRecord
    <3>3. Tame /\ Calm
      BY <3>2 DEF Tame, Calm, Playing
    <3>4. Sleeper => Sleeper'
      BY <2>1, <3>1 DEF Sleeper
    <3> QED
      BY <2>1, <2>2, <3>1, <3>3, <3>4, PlayFrame, SleepFrame DEF IdleInv
  <2>4. CASE ~blocked
    <3>1. /\ active' = active \union {r}
          /\ req' = [req EXCEPT ![r].pc = "lookup", ![r].cancelled = @ \/ down]
      BY <1>9, <2>4 DEF Arrive, registerStream
    <3>2. req'[r].pc = "lookup" /\ \A q \in Request \ {r} : req'[q] = req[q]
      BY <3>1 DEF RequestsTyped, RequestRecord
    <3>3. PlayInv'
      BY <2>1, <3>1, <3>2 DEF PlayInv, Playing
    <3>4. RegisterInv' /\ Sleeper'
      BY <3>1, <3>2 DEF RegisterInv, Sleeper
    <3> QED
      BY <2>2, <3>3, <3>4 DEF IdleInv, SleepInv
  <2> QED
    BY <2>3, <2>4
<1>10. ASSUME NEW r \in Request, ReleaseRequest(r) PROVE IdleInv'
  <2>1. /\ req[r].pc = "release" /\ active' = active \ {r}
        /\ req' = [req EXCEPT ![r].pc = "end", ![r].plan = << >>]
        /\ UNCHANGED <<op, blocked, row, firing, idling, down, overruled, flight>>
        /\ timers' \in {timers, timers + 1}
        /\ active = {r} => blocked \/ down \/ timer' = timers + 1
    BY <1>10 DEF ReleaseRequest, Release, Schedule
  <2>2. req'[r].pc = "end" /\ \A q \in Request \ {r} : req'[q] = req[q]
    BY <2>1 DEF RequestsTyped, RequestRecord
  <2>3. r \in active
    BY <2>1 DEF RegisterInv
  <2>4. Tame /\ RegisterInv'
    BY <2>1, <2>2 DEF Tame, RegisterInv, Playing
  <2>5. CountersInv' /\ timers + 1 # 0
    BY <2>1 DEF CountersInv
  <2>6. ~down => Sleeper'
    <3>1. CASE active # {r}
      BY <2>1, <2>3, <3>1 DEF Sleeper
    <3>2. CASE blocked
      BY <2>1, <3>2 DEF DeletersInv, Deleters, Sleeper
    <3>3. CASE timer' = timers + 1
      BY <2>5, <3>3 DEF Sleeper
    <3> QED
      BY <2>1, <3>1, <3>2, <3>3
  <2>7. SleepInv'
    BY <1>1, <2>1, <2>4, <2>5, <2>6 DEF SleepInv, Undisturbed
  <2> QED
    BY <2>1, <2>4, <2>7, PlayFrame DEF IdleInv
<1> QED
  BY <1>3, <1>4, <1>5, <1>6, <1>7, <1>8, <1>9, <1>10, StepIdle DEF RequestStep

\* The operation o goes on; the others are where they were.
Goes(o, pc) ==
    /\ \A d \in Op \ {o} : op'[d] = op[d]
    /\ op'[o].pc = pc /\ op'[o].kind = op[o].kind

\* What Goto does.
LEMMA GotoGoes ==
  ASSUME OpsTyped, NEW o \in Op, NEW pc, op' = [op EXCEPT ![o].pc = pc] PROVE Goes(o, pc)
  BY DEF OpsTyped, OpRecord, Goes

\* An operation that goes on keeps the deleters, or lifts the block.
LEMMA GoesDeleters ==
  ASSUME DeletersInv, NEW o \in Op, NEW pc, Goes(o, pc),
         pc \in {"mark", "block", "purge", "wipe", "finish"} => op[o].kind = "delete",
         \/ ~blocked'
         \/ (blocked' => blocked) /\ (o \in Deleters => pc \in {"drain", "stop", "purge", "wipe", "finish"})
         \/ op[o].kind = "delete" /\ pc = "drain"
  PROVE  DeletersInv'
<1>1. \A d \in Op : op'[d].pc \in {"mark", "block", "purge", "wipe", "finish"} => op'[d].kind = "delete"
  BY DEF DeletersInv, Goes
<1>2. CASE (blocked' => blocked) /\ (o \in Deleters => pc \in {"drain", "stop", "purge", "wipe", "finish"})
  <2>1. \A d : d \in Deleters => d \in Deleters'
    BY <1>2 DEF Deleters, Goes
  <2> QED
    BY <1>1, <1>2, <2>1 DEF DeletersInv
<1>3. CASE op[o].kind = "delete" /\ pc = "drain"
  BY <1>1, <1>3 DEF DeletersInv, Deleters, Goes
<1> QED
  BY <1>1, <1>2, <1>3 DEF DeletersInv

\* The end of a stop or a deletion: the row is forgotten, or something failed.
LEMMA FinishIdle ==
  ASSUME QuietInv, row \in Row, IdleInv, NEW o \in Op, Finish(o) \/ \E left : Fails(o, left), UNCHANGED req
  PROVE  IdleInv'
<1> active \subseteq Request /\ PlayInv /\ RegisterInv /\ CountersInv /\ DeletersInv /\ OpsTyped
  BY DEF QuietInv, ActiveInv, IdleInv, SleepInv
<1>1. /\ UNCHANGED <<active, timer, firing, idling, timers>>
      /\ ~blocked' \/ (op[o].kind # "delete" /\ blocked' = blocked)
  BY DEF Finish, Fails, Unmark, serverVars
<1>2. Goes(o, "end")
  BY DEF Finish, Fails, Unmark, Goto, OpsTyped, OpRecord, Goes
<1>3. /\ (row' = row /\ overruled' = overruled)
         \/ (active \subseteq overruled' /\ overruled \subseteq overruled')
      /\ missed' \/ ~row'.managed
  BY DEF Finish, Fails, Row
<1>4. PlayInv'
  BY <1>1, <1>3, PlayFrame DEF Tame
<1>5. CountersInv' /\ RegisterInv'
  BY <1>1 DEF CountersInv, RegisterInv
<1>6. DeletersInv'
  BY <1>1, <1>2, GoesDeleters DEF Deleters
<1> QED
  BY <1>3, <1>4, <1>5, <1>6 DEF IdleInv, SleepInv, Undisturbed

\* Operations keep the invariant.  A start that finds nobody playing schedules a timer, a save
\* ends with the row stopped or finished, and a stop or a deletion that takes the timer away
\* stops or forgets the row itself.
LEMMA OpIdle ==
  ASSUME QuietInv, PaidInv, IdleInv, OpStep PROVE IdleInv'
<1> /\ RequestsTyped /\ active \subseteq Request /\ OpsTyped /\ PlayInv /\ SleepInv /\ row \in Row
    /\ RegisterInv /\ CountersInv /\ DeletersInv /\ BlockInv
  BY DEF QuietInv, ActiveInv, IdleInv, SleepInv, PaidInv
<1> USE DEF othersOfOp, serverVars, getVars
<1>1. ASSUME UNCHANGED req PROVE Tame /\ Calm
  BY <1>1 DEF Tame, Calm
\* An operation that does not touch the server: the row stays awake and whoever puts it to
\* sleep stays too.
<1>3. ASSUME NEW o \in Op, NEW pc, Goes(o, pc), DeletersInv',
             UNCHANGED <<req, active, timer, timers, firing, idling, down, flight>>,
             overruled \subseteq overruled', ~missed' => ~missed \/ row'.saving,
             row'.managed = row.managed,
             row.status # "stopped" => row'.status # "stopped" \/ active \subseteq overruled',
             op[o].pc \in {"drain", "stop", "purge", "wipe", "finish"} =>
                \/ pc \in {"drain", "stop", "purge", "wipe", "finish"}
                \/ row'.status # "running" \/ missed',
             row'.status = "running" => row'.saving \/ missed' \/ (row.status = "running" /\ ~row.saving)
      PROVE  IdleInv'
  <2>1. CountersInv' /\ Tame /\ Calm
    BY <1>1, <1>3 DEF CountersInv
  <2>2. PlayInv'
    BY <1>3, <2>1, PlayFrame
  <2>3. ~missed' /\ row'.status = "running" => Sleeper' \/ (~missed /\ row.status = "running" /\ ~Sleeper)
    BY <1>3 DEF Sleeper, Goes
  <2> QED
    BY <1>3, <2>1, <2>2, <2>3, SleepFrame DEF IdleInv
<1>4. ASSUME SaveEnds PROVE IdleInv'
  <2>1. /\ UNCHANGED <<req, active, op, blocked, timer, timers, firing, idling, down, missed, flight>>
        /\ \/ row' = [row EXCEPT !.saving = FALSE, !.status = "finished", !.file = "saved"] /\ overruled' = overruled
           \/ row' = [row EXCEPT !.saving = FALSE, !.status = "stopped"] /\ overruled' = overruled \union active
    BY <1>4 DEF SaveEnds
  <2>2. /\ row'.managed = row.managed /\ row'.status # "running" /\ overruled \subseteq overruled'
        /\ row'.status # "stopped" \/ active \subseteq overruled'
    BY <2>1 DEF Row
  <2>3. CountersInv' /\ DeletersInv'
    BY <2>1 DEF CountersInv, DeletersInv, Deleters
  <2>4. PlayInv'
    BY <1>1, <2>1, <2>2, PlayFrame
  <2> QED
    BY <1>1, <2>1, <2>2, <2>3, <2>4, SleepFrame DEF IdleInv
<1>5. ASSUME NEW o \in Op, Select(o) PROVE IdleInv'
  <2> DEFINE pc == IF \/ ~row.persisted
                      \/ op[o].kind = "start" /\ row.status = "running"
                      \/ op[o].kind = "stop" /\ row.status # "running" THEN "end"
                   ELSE CASE op[o].kind \in {"start", "save"} -> "save"
                          [] op[o].kind = "stop" -> "cancel"
                          [] op[o].kind = "delete" -> "mark"
  <2>1. /\ op' = [op EXCEPT ![o].pc = pc] /\ op[o].pc = "new"
        /\ UNCHANGED <<req, active, blocked, row, timer, timers, firing, idling, down, missed, flight, overruled>>
    BY <1>5 DEF Select, Goto
  <2>2. op[o].kind \notin {"none", "clean"} /\ op[o].kind \in OpKind
    BY <1>5, <2>1 DEF Select, OpsTyped, OpRecord, BlockInv
  <2>3. pc \in {"end", "save", "cancel"} \/ (pc = "mark" /\ op[o].kind = "delete")
    BY <2>2 DEF OpKind
  <2> HIDE DEF pc
  <2>4. Goes(o, pc)
    BY <2>1, GotoGoes
  <2>5. DeletersInv'
    BY <2>1, <2>3, <2>4, GoesDeleters DEF Deleters
  <2> QED
    BY <1>3, <2>1, <2>4, <2>5 DEF CountersInv
<1>6. ASSUME NEW o \in Op, FilesSave(o) \/ PauseFiles(o) \/ CleanFiles(o) PROVE IdleInv'
  <2>1. /\ op[o].pc \in {"save", "new", "clean"} /\ (Goes(o, "allow") \/ Goes(o, "end") \/ Goes(o, "clean"))
        /\ \/ row' = FilesBegin /\ ~missed'
           \/ row' = row /\ missed' = missed
           \/ row' \in {row, [row EXCEPT !.saving = FALSE], [FilesBegin EXCEPT !.saving = FALSE], FilesBegin} /\ missed'
           \/ row' = [row EXCEPT !.saving = FALSE] /\ missed' = (missed \/ row.saving)
        /\ UNCHANGED <<req, active, blocked, timer, timers, firing, idling, down, flight, overruled>>
    <3>1. CASE FilesSave(o)
      BY <3>1, GotoGoes DEF FilesSave, Goto
    <3>2. CASE PauseFiles(o)
      BY <3>2, GotoGoes DEF PauseFiles, Goto
    <3>3. CASE CleanFiles(o)
      BY <3>3, GotoGoes DEF CleanFiles, Goto
    <3> QED
      BY <1>6, <3>1, <3>2, <3>3
  <2>2. row'.managed = row.managed /\ (row.status # "stopped" => row'.status # "stopped")
    <3>1. row' \in {row, [row EXCEPT !.saving = FALSE], [FilesBegin EXCEPT !.saving = FALSE], FilesBegin}
      BY <2>1
    <3> QED
      BY <3>1 DEF Row, FilesBegin
  <2>3. DeletersInv'
    BY <2>1, GoesDeleters DEF Deleters
  <2>4. CountersInv' /\ Tame /\ Calm
    BY <1>1, <2>1 DEF CountersInv
  <2>5. PlayInv'
    BY <2>1, <2>2, <2>4, PlayFrame
  <2>6. ~missed' /\ row'.status = "running" => Sleeper' \/ (~missed /\ row.status = "running" /\ ~Sleeper)
    <3>1. CASE row' = FilesBegin
      BY <3>1 DEF FilesBegin, Row, Sleeper
    <3>2. CASE row' = row /\ missed' = missed
      BY <2>1, <3>2 DEF Sleeper, Goes
    <3>3. CASE row' = [row EXCEPT !.saving = FALSE] /\ missed' = (missed \/ row.saving)
      <4>1. row'.status = row.status /\ row'.managed = row.managed /\ ~row'.saving
        BY <3>3 DEF Row
      <4> QED
        BY <2>1, <3>3, <4>1 DEF Sleeper, Goes
    <3> QED
      BY <2>1, <3>1, <3>2, <3>3
  <2> QED
    BY <2>1, <2>2, <2>3, <2>4, <2>5, <2>6, SleepFrame DEF IdleInv
<1>7. ASSUME NEW o \in Op, Allow(o) PROVE IdleInv'
  <2>1. /\ op[o].pc = "allow" /\ ~blocked' /\ (Goes(o, "schedule") \/ Goes(o, "end"))
        /\ UNCHANGED <<req, active, row, timer, timers, firing, idling, down, missed, flight, overruled>>
    BY <1>7, GotoGoes DEF Allow, Goto
  <2>2. DeletersInv'
    BY <2>1, GoesDeleters
  <2> QED
    BY <1>3, <2>1, <2>2 DEF CountersInv
<1>8. ASSUME NEW o \in Op, MarkDeleting(o) PROVE IdleInv'
  <2>1. /\ op[o].pc = "mark" /\ Goes(o, "block")
        /\ UNCHANGED <<req, active, blocked, row, timer, timers, firing, idling, down, missed, flight, overruled>>
    BY <1>8, GotoGoes DEF MarkDeleting, Goto
  <2>2. DeletersInv'
    BY <2>1, GoesDeleters DEF DeletersInv, Deleters
  <2> QED
    BY <1>3, <2>1, <2>2 DEF CountersInv
<1>9. ASSUME NEW o \in Op, ScheduleIdle(o) PROVE IdleInv'
  <2>1. /\ op[o].pc = "schedule" /\ Goes(o, "end")
        /\ UNCHANGED <<req, active, blocked, row, firing, idling, down, missed, flight, overruled>>
        /\ \/ UNCHANGED <<timer, timers>>
           \/ timers' = timers + 1 /\ timer' = timers + 1
    BY <1>9, GotoGoes DEF ScheduleIdle, Goto, Schedule
  <2>2. DeletersInv' /\ CountersInv'
    BY <2>1, GoesDeleters DEF Deleters, CountersInv
  <2>3. Sleeper => Sleeper'
    <3>1. timer # 0 => timer' # 0
      BY <2>1 DEF CountersInv
    <3> QED
      BY <2>1, <3>1 DEF Sleeper, Goes
  <2> QED
    BY <1>1, <2>1, <2>2, <2>3, PlayFrame, SleepFrame DEF IdleInv
<1>10. ASSUME NEW o \in Op, Cancel(o) \/ Block(o) PROVE IdleInv'
  <2>1. /\ req' = [r \in Request |-> IF r \in active THEN [req[r] EXCEPT !.cancelled = TRUE] ELSE req[r]]
        /\ op' = [op EXCEPT ![o].pc = "drain", ![o].waits = active]
        /\ UNCHANGED <<active, row, timers, firing, idling, overruled>>
        /\ op[o].pc = "block" \/ (op[o].pc = "cancel" /\ (blocked' => blocked))
    BY <1>10 DEF Cancel, Block, cancelManagedStream
  <2>2. \A r \in Request : req'[r].pc = req[r].pc
    BY <2>1 DEF RequestsTyped, RequestRecord
  <2>3. Goes(o, "drain")
    BY <2>1 DEF OpsTyped, OpRecord, Goes
  <2>4. DeletersInv'
    BY <2>1, <2>3, GoesDeleters DEF DeletersInv, Deleters
  <2>5. CountersInv' /\ RegisterInv' /\ Tame /\ Sleeper'
    BY <2>1, <2>2, <2>3 DEF CountersInv, RegisterInv, Tame, Sleeper, Goes
  <2> QED
    BY <2>1, <2>4, <2>5, PlayFrame DEF IdleInv, SleepInv
<1>11. ASSUME NEW o \in Op, Drained(o) PROVE IdleInv'
  <2>1. CASE /\ op' = [op EXCEPT ![o].pc = "stop", ![o].waits = {}] /\ op[o].pc = "drain"
             /\ UNCHANGED <<req, active, blocked, row, timer, timers, firing, idling, down, missed, flight, overruled>>
    <3>1. Goes(o, "stop")
      BY <2>1 DEF OpsTyped, OpRecord, Goes
    <3>2. DeletersInv'
      BY <2>1, <3>1, GoesDeleters
    <3> QED
      BY <1>3, <2>1, <3>1, <3>2 DEF CountersInv
  <2>2. CASE (\E left : Fails(o, left)) /\ UNCHANGED req
    BY <2>2, FinishIdle
  <2> QED
    BY <1>11, <2>1, <2>2 DEF Drained
<1>12. ASSUME NEW o \in Op, FilesStops(o) PROVE IdleInv'
  <2>1. CASE /\ row' = FilesStop /\ overruled' = overruled \union active /\ op[o].pc = "stop"
             /\ op' = [op EXCEPT ![o].pc = IF op[o].kind = "delete" THEN "purge" ELSE "end"]
             /\ UNCHANGED <<req, active, blocked, timer, timers, firing, idling, down, missed, flight>>
    <3> DEFINE pc == IF op[o].kind = "delete" THEN "purge" ELSE "end"
    <3>1. Goes(o, pc)
      BY <2>1, GotoGoes
    <3>2. row'.managed = row.managed /\ row'.status # "running"
      BY <2>1 DEF FilesStop, Row
    <3>3. DeletersInv'
      BY <2>1, <3>1, GoesDeleters DEF Deleters
    <3> QED
      BY <1>3, <2>1, <3>1, <3>2, <3>3 DEF CountersInv
  <2>2. CASE (\E left : Fails(o, left)) /\ UNCHANGED req
    BY <2>2, FinishIdle
  <2> QED
    BY <1>12, <2>1, <2>2 DEF FilesStops, Goto
<1>13. ASSUME NEW o \in Op, Purge(o) \/ Wipe(o) PROVE IdleInv'
  <2>1. CASE /\ op[o].pc \in {"purge", "wipe"} /\ \E pc \in {"wipe", "finish"} : op' = [op EXCEPT ![o].pc = pc]
             /\ row' \in {row, [row EXCEPT !.persisted = FALSE]}
             /\ UNCHANGED <<req, active, blocked, timer, timers, firing, idling, down, missed, flight, overruled>>
    <3>1. PICK pc \in {"wipe", "finish"} : Goes(o, pc)
      BY <2>1, GotoGoes
    <3>2. row'.managed = row.managed /\ row'.status = row.status /\ row'.saving = row.saving
      BY <2>1 DEF Row
    <3>3. DeletersInv'
      BY <2>1, <3>1, GoesDeleters DEF DeletersInv
    <3>4. CountersInv' /\ PlayInv'
      BY <1>1, <2>1, <3>2, PlayFrame DEF CountersInv
    <3>5. Sleeper'
      BY <3>1 DEF Sleeper, Goes
    <3> QED
      BY <1>1, <2>1, <3>2, <3>3, <3>4, <3>5, SleepFrame DEF IdleInv
  <2>2. CASE (Finish(o) \/ \E left : Fails(o, left)) /\ UNCHANGED req
    BY <2>2, FinishIdle
  <2> QED
    BY <1>13, <2>1, <2>2 DEF Purge, Wipe, Goto
<1>14. ASSUME NEW o \in Op, FinishManagedFileDelete(o) PROVE IdleInv'
  <2>1. Finish(o) /\ UNCHANGED req
    BY <1>14 DEF FinishManagedFileDelete
  <2> QED
    BY <2>1, FinishIdle
<1> QED
  BY <1>4, <1>5, <1>6, <1>7, <1>8, <1>9, <1>10, <1>11, <1>12, <1>13, <1>14 DEF OpStep

\* Gets keep the invariant: a row that a get saves or registers is awake or was never
\* looked up, and the end of a played stream is promised only where no get ran.
LEMMA GetIdle ==
  ASSUME QuietInv, PaidInv, IdleInv, GetStep PROVE IdleInv'
<1> /\ active \subseteq Request /\ PlayInv /\ SleepInv /\ row \in Row /\ FlightsTyped
    /\ RegisterInv /\ CountersInv /\ DeletersInv
    /\ \A h \in Get : flight[h] \in FlightRecord
  BY DEF QuietInv, ActiveInv, IdleInv, SleepInv, PaidInv, FlightsTyped
<1> USE DEF othersOfGet, othersOfWork, serverVars
<1>1. PICK g \in Get :
          \/ Forbid(g) \/ Ask(g) \/ GiveUp(g) \/ WaitDone(g) \/ WaitCancelled(g)
          \/ Resolve(g) \/ ListFiles(g) \/ Pay(g) \/ EnsureDescriptor(g) \/ DescribeStream(g)
          \/ Persist(g) \/ Link(g) \/ RegisterStream(g) \/ SaveStream(g) \/ AllowStream(g)
          \/ Broadcast(g) \/ WorkFails(g) \/ CloseFlight(g)
  BY DEF GetStep
<1>2. UNCHANGED <<req, active, op, timer, timers, firing, idling, down, overruled, missed>>
  BY <1>1 DEF Forbid, Ask, GiveUp, WaitDone, WaitCancelled, Resolve, ListFiles, Pay, EnsureDescriptor,
     DescribeStream, Persist, Link, RegisterStream, SaveStream, AllowStream, Broadcast, WorkFails, CloseFlight
<1>4. Tame /\ Calm
  BY <1>2 DEF Tame, Calm
<1>5. CountersInv'
  BY <1>2 DEF CountersInv
<1>6. blocked' => blocked
  BY <1>1 DEF Forbid, Ask, GiveUp, WaitDone, WaitCancelled, Resolve, ListFiles, Pay, EnsureDescriptor,
     DescribeStream, Persist, Link, RegisterStream, SaveStream, AllowStream, Broadcast, WorkFails, CloseFlight
<1>7. DeletersInv'
  BY <1>2, <1>6 DEF DeletersInv, Deleters
<1>8. /\ (row.managed => row'.managed) /\ (row.status # "stopped" => row'.status # "stopped")
  BY <1>1 DEF Forbid, Ask, GiveUp, WaitDone, WaitCancelled, Resolve, ListFiles, Pay, EnsureDescriptor,
     DescribeStream, Persist, Link, RegisterStream, SaveStream, AllowStream, Broadcast, WorkFails, CloseFlight,
     SaveManagedFile, FilesBegin, Row
<1>9. PlayInv'
  BY <1>2, <1>4, <1>8, PlayFrame
<1>10. CASE row' = row /\ \A h \in Get : flight'[h].pc = "none" => flight[h].pc = "none"
  <2>1. Sleeper => Sleeper'
    BY <1>2, <1>10 DEF Sleeper
  <2> QED
    BY <1>2, <1>4, <1>5, <1>7, <1>9, <1>10, <2>1, SleepFrame DEF IdleInv
<1>11. ASSUME NEW pc, pc # "none", To(g, pc)
       PROVE  flight'[g].pc # "none" /\ \A h \in Get \ {g} : flight'[h] = flight[h]
  BY <1>11 DEF To, FlightsTyped, FlightRecord
<1>12. CASE \E h \in Get : flight'[h].pc # "none" /\ flight[h].pc # "none"
  <2>1. RegisterInv' /\ ~Undisturbed'
    BY <1>2, <1>12 DEF RegisterInv, Undisturbed
  <2> QED
    BY <1>5, <1>7, <1>9, <2>1 DEF IdleInv, SleepInv
<1>13. CASE Forbid(g) \/ GiveUp(g) \/ WaitDone(g)
  BY <1>10, <1>13 DEF Forbid, GiveUp, WaitDone
<1>14. CASE \/ Resolve(g) \/ ListFiles(g) \/ DescribeStream(g) \/ Persist(g) \/ Link(g)
            \/ RegisterStream(g) \/ SaveStream(g) \/ AllowStream(g)
  <2>1. flight[g].pc # "none" /\ \E pc : pc # "none" /\ To(g, pc)
    BY <1>14 DEF Resolve, ListFiles, DescribeStream, Persist, Link, RegisterStream, SaveStream, AllowStream, Live
  <2> QED
    BY <1>11, <1>12, <2>1
<1>15. CASE Ask(g) \/ WaitCancelled(g)
  <2>1. row' = row
    BY <1>15 DEF Ask, WaitCancelled
  <2>2. \A h \in Get : flight'[h].pc = "none" => flight[h].pc = "none"
    <3>1. ASSUME NEW f, NEW n, flight' = [flight EXCEPT ![f].waiters = n]
          PROVE  \A h \in Get : flight'[h].pc = flight[h].pc
      BY <3>1 DEF FlightsTyped, FlightRecord
    <3>2. ASSUME NEW f, flight' = [flight EXCEPT ![f].waiters = 0, ![f].cancelled = TRUE]
          PROVE  \A h \in Get : flight'[h].pc = flight[h].pc
      BY <3>2 DEF FlightsTyped, FlightRecord
    <3>3. ASSUME NEW q, q.pc = "resolve", flight' = [flight EXCEPT ![g] = q]
          PROVE  \A h \in Get : flight'[h].pc \in {flight[h].pc, "resolve"}
      BY <3>3 DEF FlightsTyped
    <3>4. [NoFlight EXCEPT !.pc = "resolve", !.waiters = 1].pc = "resolve"
      BY DEF NoFlight
    <3>5. \/ flight' = [flight EXCEPT ![g] = [NoFlight EXCEPT !.pc = "resolve", !.waiters = 1]]
          \/ \E f, n : flight' = [flight EXCEPT ![f].waiters = n]
          \/ \E f : flight' = [flight EXCEPT ![f].waiters = 0, ![f].cancelled = TRUE]
          \/ flight' = flight
      BY <1>15, ZenonT(30) DEF Ask, WaitCancelled, Abandon
    <3> QED
      BY <3>1, <3>2, <3>3, <3>4, <3>5
  <2> QED
    BY <1>10, <2>1, <2>2
<1>16. CASE Pay(g) \/ EnsureDescriptor(g) \/ Broadcast(g) \/ WorkFails(g) \/ CloseFlight(g)
  <2>1. flight[g].pc # "none"
    <3>1. EnsureDescriptor(g) => flight[g].pc \in {"ensure", "finish"}
      BY DEF EnsureDescriptor, Live
    <3> QED
      BY <1>16, <3>1 DEF Pay, Broadcast, WorkFails, CloseFlight, Live
  <2>2. flight'[g].pc # "none"
    <3>1. CASE Pay(g)
      BY <3>1 DEF Pay, FlightsTyped, FlightRecord
    <3>2. CASE EnsureDescriptor(g)
      <4>1. ASSUME NEW next, flight' = [flight EXCEPT ![g].pc = "wait", ![g].next = next]
            PROVE  flight'[g].pc = "wait"
        BY <4>1 DEF FlightsTyped, FlightRecord
      <4>2. \/ To(g, "describe") \/ To(g, "register")
            \/ \E next : flight' = [flight EXCEPT ![g].pc = "wait", ![g].next = next]
        BY <3>2 DEF EnsureDescriptor
      <4> QED
        BY <1>11, <4>1, <4>2
    <3>3. CASE Broadcast(g)
      <4>1. \/ flight' = [flight EXCEPT ![g].pc = "close", ![g].result = "ok"]
            \/ flight' = [flight EXCEPT ![g].pc = "close", ![g].payment = "sent", ![g].result = "ok"]
            \/ To(g, "fail")
        BY <3>3 DEF Broadcast
      <4> QED
        BY <1>11, <4>1 DEF FlightsTyped, FlightRecord
    <3>4. CASE WorkFails(g)
      <4> DEFINE result == IF flight[g].cancelled THEN "cancelled" ELSE "error"
                 q == [flight[g] EXCEPT !.pc = "close", !.next = "none", !.payment = "none", !.result = result]
      <4>1. flight' = [flight EXCEPT ![g] = q]
        BY <3>4 DEF WorkFails
      <4>2. q.pc = "close"
        BY DEF FlightRecord
      <4> HIDE DEF q
      <4> QED
        BY <4>1, <4>2 DEF FlightsTyped
    <3>5. CASE CloseFlight(g)
      BY <1>11, <3>5 DEF CloseFlight
    <3> QED
      BY <1>16, <3>1, <3>2, <3>3, <3>4, <3>5
  <2> QED
    BY <1>12, <2>1, <2>2
<1> QED
  BY <1>1, <1>13, <1>14, <1>15, <1>16

\* Timers, marks and stops agree in every state on whether the stream is awake.
THEOREM IdleInvariance == Spec => []IdleInv
<1>1. ASSUME Init PROVE IdleInv
  <2> PICK s \in Scenarios :
        /\ active = {} /\ idling = 0 /\ timers = 0 /\ firing = {}
        /\ blocked = FALSE
        /\ req = [r \in Request |-> NewRequest(s.requests[r])]
        /\ op = [o \in Op |-> [kind |-> s.ops[o], waits |-> {},
                               pc |-> IF s.ops[o] = "none" THEN "end" ELSE "new"]]
    BY <1>1 DEF Init
  <2>1. PlayInv
    BY DEF PlayInv
  <2>2. RegisterInv /\ ~Undisturbed
    <3>1. \A r \in Request : req[r].pc \in {"new", "end"} /\ req[r].status = 0
      BY DEF NewRequest
    <3> QED
      BY <3>1 DEF RegisterInv, Undisturbed
  <2>3. CountersInv
    BY DEF CountersInv
  <2>4. DeletersInv
    BY DEF DeletersInv
  <2> QED
    BY <2>1, <2>2, <2>3, <2>4 DEF IdleInv, SleepInv
<1>2. ASSUME QuietInv, PaidInv, IdleInv, [Next]_vars PROVE IdleInv'
  <2>1. CASE UNCHANGED <<req, active, op, blocked, row, timer, timers, firing, idling, missed, down,
                         overruled, flight>>
    BY <1>2, <2>1 DEF IdleInv, PlayInv, SleepInv, RegisterInv, CountersInv, DeletersInv, Deleters,
                      Undisturbed, Sleeper
  <2>2. \/ RequestStep \/ OpStep \/ GetStep
        \/ UNCHANGED <<req, active, op, blocked, row, timer, timers, firing, idling, missed, down,
                       overruled, flight>>
    BY <1>2 DEF Next, vars, serverVars, getVars
  <2> QED
    BY <1>2, <2>1, <2>2, RequestIdle, OpIdle, GetIdle
<1> QED
  BY <1>1, <1>2, QuietInvariance, PaidInvariance, PTL DEF Spec

\* A stream that is played is not put to sleep, and one that was played goes to sleep unless
\* the server is down or the last attempt to stop it came to nothing, for any number of
\* requests, timers, operations, cleanups and gets (scheduleIdleLocked, registerStream and
\* streamActive under lifecycleMu, StopManagedStreamIfIdle while the file manager is paused).
THEOREM IdleExactHolds == Spec => []IdleExact
<1>1. QuietInv /\ IdleInv => IdleExact
  <2> SUFFICES ASSUME QuietInv, IdleInv PROVE IdleExact
    OBVIOUS
  <2>1. PlayedNotIdled
    BY DEF IdleInv, PlayInv, Playing, PlayedNotIdled
  <2>2. PlayedGoesIdle
    BY DEF QuietInv, ActiveInv, IdleInv, SleepInv, Undisturbed, Sleeper, Quiet, PlayedGoesIdle
  <2> QED
    BY <2>1, <2>2 DEF IdleExact
<1> QED
  BY <1>1, QuietInvariance, IdleInvariance, PTL

(***************************************************************************)
(* Ranges                                                                  *)
(***************************************************************************)

\* A nonempty set of numbers has a lowest one.
LEMMA LowestNumber ==
  ASSUME NEW T \in SUBSET Nat, T # {}
  PROVE  \E x \in T : \A y \in T : x <= y
<1>1. PICK x \in T : \A y \in T : ~(<<y, x>> \in OpToRel(<, Nat))
  BY NatLessThanWellFounded, WFMin
<1>2. \A y \in T : ~(y < x)
  BY <1>1 DEF OpToRel
<1> QED
  BY <1>2

\* A recurrence over the numbers up to N.
Recurrence(S, N, base, step, g) ==
    g \in [0..N -> S] /\ g[0] = base /\ \A k \in 1..N : g[k] = step[k][g[k - 1]]

\* It has a solution: otherwise there is a shortest prefix that has none.
LEMMA RecurrenceSolved ==
  ASSUME NEW S, NEW N \in Nat, NEW base \in S, NEW step \in [1..N -> [S -> S]]
  PROVE  \E g : Recurrence(S, N, base, step, g)
<1> DEFINE G(n, g) == g \in [0..n -> S] /\ g[0] = base /\ \A k \in 1..n : g[k] = step[k][g[k - 1]]
           Wrong == {n \in 0..N : ~\E g : G(n, g)}
<1>0. Wrong \in SUBSET Nat /\ Wrong \subseteq 0..N /\ \A n \in 0..N : n \notin Wrong => \E g : G(n, g)
  OBVIOUS
<1>1. ASSUME Wrong # {} PROVE FALSE
  <2>1. PICK n \in Wrong : \A y \in Wrong : n <= y
    <3> HIDE DEF Wrong
    <3> QED
      BY <1>0, <1>1, LowestNumber, Zenon
  <2>2. CASE n = 0
    <3>1. G(0, [k \in 0..0 |-> base])
      OBVIOUS
    <3> QED
      BY <2>1, <2>2, <3>1
  <2>3. CASE n # 0
    <3>1. n \in 1..N /\ n - 1 \in 0..N /\ n - 1 \notin Wrong
      <4> HIDE DEF Wrong
      <4>1. n \in 0..N
        BY <1>0
      <4>2. n - 1 \in Nat /\ ~(n <= n - 1) /\ n \in 1..N /\ n - 1 \in 0..N
        BY <2>3, <4>1
      <4> QED
        BY <2>1, <4>2
    <3>2. PICK g : G(n - 1, g)
      BY <1>0, <3>1, Zenon
    <3> DEFINE h == [k \in 0..n |-> IF k = n THEN step[n][g[n - 1]] ELSE g[k]]
    <3>3. g[n - 1] \in S /\ step[n][g[n - 1]] \in S
      BY <3>1, <3>2
    <3>4. h \in [0..n -> S] /\ h[0] = base
      BY <3>1, <3>2, <3>3
    <3>5. ASSUME NEW k \in 1..n PROVE h[k] = step[k][h[k - 1]]
      BY <3>1, <3>2
    <3>6. G(n, h)
      BY <3>4, <3>5
    <3> QED
      BY <2>1, <3>6
  <2> QED
    BY <2>2, <2>3
<1>2. N \in 0..N
  OBVIOUS
<1>3. \E g : G(N, g)
  BY <1>0, <1>1, <1>2, Zenon
<1> QED
  BY <1>3 DEF Recurrence

Info == [num : Int, length : Int]
Infos == Seq(Info)

\* The lengths of the blobs.
LEMMA LengthFacts ==
  ASSUME NEW blobs \in Infos
  PROVE  /\ Len(blobs) \in Nat
         /\ \A k \in 1..Len(blobs) : blobs[k].length \in Int /\ ContentLength(blobs[k]) \in Nat
<1>1. Len(blobs) \in Nat /\ \A k \in 1..Len(blobs) : blobs[k] \in Info
  BY DEF Infos
<1>2. \A k \in 1..Len(blobs) : blobs[k].length \in Int
  BY <1>1 DEF Info
<1> QED
  BY <1>1, <1>2 DEF ContentLength

\* Where the blobs of a descriptor begin.
LEMMA PositionFacts ==
  ASSUME NEW blobs \in Infos
  PROVE  /\ Position(blobs) \in [0..Len(blobs) -> Nat]
         /\ Position(blobs)[0] = 0
         /\ \A k \in 1..Len(blobs) : Position(blobs)[k] = Position(blobs)[k - 1] + ContentLength(blobs[k])
<1> DEFINE N == Len(blobs)
           size(k) == ContentLength(blobs[k])
           E(g) == g = [k \in 0..N |-> IF k = 0 THEN 0 ELSE g[k - 1] + size(k)]
           position == CHOOSE g : E(g)
<1>1. N \in Nat /\ \A k \in 1..N : size(k) \in Nat
  BY LengthFacts
<1>2. Position(blobs) = position
  BY DEF Position
<1> HIDE DEF N, size
<1>3. \E g \in [0..N -> Nat] : E(g)
  <2> DEFINE step == [k \in 1..N |-> [x \in Nat |-> x + size(k)]]
  <2>1. step \in [1..N -> [Nat -> Nat]]
    BY <1>1
  <2>2. \A k \in 1..N, x \in Nat : step[k][x] = x + size(k)
    OBVIOUS
  <2> HIDE DEF step
  <2>3. PICK g \in [0..N -> Nat] : g[0] = 0 /\ \A k \in 1..N : g[k] = step[k][g[k - 1]]
    <3>1. \E g : Recurrence(Nat, N, 0, step, g)
      BY <1>1, <2>1, RecurrenceSolved
    <3> QED
      BY <3>1 DEF Recurrence
  <2>4. \A k \in 1..N : k - 1 \in 0..N /\ g[k] = g[k - 1] + size(k)
    <3>1. \A k \in 1..N : k - 1 \in 0..N
      BY <1>1
    <3> QED
      BY <2>2, <2>3, <3>1
  <2>5. \A k \in 0..N : g[k] = IF k = 0 THEN 0 ELSE g[k - 1] + size(k)
    BY <1>1, <2>3, <2>4
  <2>6. E(g)
    BY <2>3, <2>5
  <2> QED
    BY <2>6
<1>4. E(position)
  BY <1>3
<1> HIDE DEF position
<1>5. position[0] = 0 /\ \A k \in 1..N : position[k] = position[k - 1] + size(k)
  BY <1>1, <1>4
<1>6. \A k \in 0..N : position[k] \in Nat
  <2> DEFINE Wrong == {k \in 0..N : position[k] \notin Nat}
  <2>1. ASSUME Wrong # {} PROVE FALSE
    <3>1. Wrong \in SUBSET Nat
      BY <1>1
    <3>2. PICK k \in Wrong : \A y \in Wrong : k <= y
      <4> HIDE DEF Wrong
      <4> QED
        BY <2>1, <3>1, LowestNumber, Zenon
    <3>3. k # 0
      BY <1>5, <3>2
    <3>4. k \in 1..N /\ k - 1 \in 0..N /\ k - 1 \notin Wrong
      BY <1>1, <3>2, <3>3
    <3> QED
      BY <1>1, <1>5, <3>2, <3>4
  <2> QED
    BY <2>1
<1>7. position \in [0..N -> Nat]
  BY <1>4, <1>6
<1> QED
  BY <1>2, <1>5, <1>7 DEF N, size

\* Blobs begin in their order.
LEMMA PositionsGrow ==
  ASSUME NEW blobs \in Infos, NEW m \in 0..Len(blobs), NEW n \in 0..Len(blobs), m <= n
  PROVE  Position(blobs)[m] <= Position(blobs)[n]
<1> DEFINE N == Len(blobs)
           P == Position(blobs)
           Wrong == {k \in m..N : ~(P[m] <= P[k])}
<1>1. N \in Nat /\ \A k \in 1..N : ContentLength(blobs[k]) \in Nat
  BY LengthFacts
<1>2. P \in [0..N -> Nat] /\ \A k \in 1..N : P[k] = P[k - 1] + ContentLength(blobs[k])
  BY PositionFacts
<1> HIDE DEF N, P
<1>3. m \in 0..N /\ n \in m..N
  BY <1>1 DEF N
<1>4. ASSUME Wrong # {} PROVE FALSE
  <2>1. Wrong \in SUBSET Nat
    BY <1>1, <1>3
  <2>2. PICK k \in Wrong : \A y \in Wrong : k <= y
    <3> HIDE DEF Wrong
    <3> QED
      BY <1>4, <2>1, LowestNumber, Zenon
  <2>3. k # m
    <3>1. P[m] \in Nat
      BY <1>2, <1>3
    <3> QED
      BY <2>2, <3>1
  <2>4. k \in 1..N /\ k - 1 \in m..N /\ k - 1 \notin Wrong
    BY <1>1, <1>3, <2>2, <2>3
  <2> QED
    BY <1>1, <1>2, <1>3, <2>2, <2>4
<1> QED
  BY <1>3, <1>4 DEF N, P

\* One sequence after another.
LEMMA ConcatFacts ==
  ASSUME NEW c \in Seq(Nat), NEW p \in Seq(Nat)
  PROVE  /\ c \o p \in Seq(Nat) /\ Len(c) \in Nat /\ Len(p) \in Nat /\ Len(c \o p) = Len(c) + Len(p)
         /\ \A i \in 1..Len(c) : (c \o p)[i] = c[i]
         /\ \A i \in 1..Len(p) : (c \o p)[Len(c) + i] = p[i]
OBVIOUS

\* Every blob but the last is as full as it can be.
Filled(blobs, plain) ==
    /\ plain \in Seq(Seq(Nat)) /\ Len(plain) = Len(blobs) - 1
    /\ \A i \in 1..Len(plain) : /\ Len(plain[i]) <= blobs[i].length - 1
                                /\ i < Len(plain) => Len(plain[i]) = blobs[i].length - 1

\* The bytes of the file: blob b's begin where the descriptor says.
LEMMA FileFacts ==
  ASSUME NEW blobs \in Infos, NEW plain, Filled(blobs, plain)
  PROVE  /\ Joined(plain) \in Seq(Nat)
         /\ \A b \in 1..Len(plain) : \A k \in 1..Len(plain[b]) :
                /\ Position(blobs)[b - 1] + k <= Len(Joined(plain))
                /\ Joined(plain)[Position(blobs)[b - 1] + k] = plain[b][k]
         /\ Len(Joined(plain)) = IF Len(plain) = 0 THEN 0
                        ELSE Position(blobs)[Len(plain) - 1] + Len(plain[Len(plain)])
<1> DEFINE M == Len(plain)
           P == Position(blobs)
           E(g) == g = [n \in 0..M |-> IF n = 0 THEN << >> ELSE g[n - 1] \o plain[n]]
           concat == CHOOSE g : E(g)
<1>1. /\ M \in Nat /\ M = Len(blobs) - 1
      /\ \A i \in 1..M : plain[i] \in Seq(Nat) /\ Len(plain[i]) \in Nat
  BY DEF Filled
<1>2. Joined(plain) = concat[M]
  BY DEF Joined
<1>3. /\ \A n \in 0..M : P[n] \in Nat
      /\ P[0] = 0
      /\ \A n \in 1..M : P[n] = P[n - 1] + blobs[n].length - 1 /\ blobs[n].length \in Int
  <2>1. \A n \in 1..M : n \in 1..Len(blobs) /\ Len(plain[n]) <= blobs[n].length - 1 /\ Len(plain[n]) \in Nat
    <3>1. \A n \in 1..M : Len(plain[n]) <= blobs[n].length - 1
      BY Zenon DEF Filled
    <3>2. \A n \in 1..M : n \in 1..Len(blobs)
      <4> HIDE DEF M
      <4> QED
        BY <1>1, LengthFacts
    <3> QED
      BY <1>1, <3>1, <3>2, Zenon
  <2>2. \A n \in 1..M : blobs[n].length \in Int /\ blobs[n].length > 0
    <3>1. \A n \in 1..M : blobs[n].length \in Int
      BY <2>1, LengthFacts
    <3> HIDE DEF M
    <3>2. ASSUME NEW n \in 1..M PROVE blobs[n].length > 0
      <4>1. Len(plain[n]) <= blobs[n].length - 1 /\ Len(plain[n]) \in Nat /\ blobs[n].length \in Int
        BY <2>1, <3>1
      <4> QED
        BY <4>1
    <3> QED
      BY <3>1, <3>2
  <2>3. \A n \in 1..M : ContentLength(blobs[n]) = blobs[n].length - 1
    BY <2>2 DEF ContentLength
  <2>4. \A n \in 1..M : P[n] = P[n - 1] + ContentLength(blobs[n]) /\ P[n - 1] \in Nat
    <3>1. \A n \in 1..M : n - 1 \in 0..Len(blobs)
      BY <1>1
    <3> HIDE DEF M
    <3> QED
      BY <2>1, <3>1, PositionFacts
  <2>5. (\A n \in 0..M : P[n] \in Nat) /\ P[0] = 0
    <3>1. \A n \in 0..M : n \in 0..Len(blobs)
      <4> HIDE DEF M
      <4> QED
        BY <1>1, LengthFacts
    <3> HIDE DEF M
    <3> QED
      BY <3>1, PositionFacts
  <2> QED
    BY <2>2, <2>3, <2>4, <2>5
<1>4. \A m, n \in 0..M : m <= n => P[m] <= P[n]
  <2>1. \A m \in 0..M : m \in 0..Len(blobs)
    BY <1>1
  <2> QED
    BY <2>1, PositionsGrow
<1>5. \A i \in 1..M : /\ Len(plain[i]) <= blobs[i].length - 1
                      /\ i < M => Len(plain[i]) = blobs[i].length - 1
  BY Zenon DEF Filled
<1> HIDE DEF M, P
<1>6. \E g : E(g)
  <2> DEFINE step == [n \in 1..M |-> [x \in Seq(Nat) |-> x \o plain[n]]]
  <2>1. \A n \in 1..M, x \in Seq(Nat) : x \o plain[n] \in Seq(Nat)
    BY <1>1
  <2>2. step \in [1..M -> [Seq(Nat) -> Seq(Nat)]]
    BY <2>1
  <2>3. \A n \in 1..M, x \in Seq(Nat) : step[n][x] = x \o plain[n]
    OBVIOUS
  <2> HIDE DEF step
  <2>4. << >> \in Seq(Nat)
    OBVIOUS
  <2>5. PICK g \in [0..M -> Seq(Nat)] : g[0] = << >> /\ \A n \in 1..M : g[n] = step[n][g[n - 1]]
    <3>1. \E g : Recurrence(Seq(Nat), M, << >>, step, g)
      BY <1>1, <2>2, <2>4, RecurrenceSolved
    <3> QED
      BY <3>1 DEF Recurrence
  <2>6. \A n \in 1..M : n - 1 \in 0..M /\ g[n - 1] \in Seq(Nat)
    <3>1. \A n \in 1..M : n - 1 \in 0..M
      BY <1>1
    <3> QED
      BY <2>5, <3>1
  <2>7. \A n \in 1..M : g[n] = g[n - 1] \o plain[n]
    BY <2>3, <2>5, <2>6
  <2>8. \A n \in 0..M : n = 0 \/ n \in 1..M
    BY <1>1
  <2>9. \A n \in 0..M : g[n] = IF n = 0 THEN << >> ELSE g[n - 1] \o plain[n]
    BY <2>5, <2>7, <2>8
  <2>10. E(g)
    BY <2>5, <2>9
  <2> QED
    BY <2>10
<1>7. E(concat)
  BY <1>6
<1> HIDE DEF concat
<1>8. concat[0] = << >> /\ \A n \in 1..M : concat[n] = concat[n - 1] \o plain[n]
  <2>1. 0 \in 0..M /\ \A n \in 1..M : n \in 0..M /\ n # 0
    BY <1>1
  <2> QED
    BY <1>7, <2>1
<1> DEFINE Laid(n) == /\ concat[n] \in Seq(Nat)
                      /\ Len(concat[n]) = IF n = 0 THEN 0 ELSE P[n - 1] + Len(plain[n])
                      /\ \A b \in 1..n : \A k \in 1..Len(plain[b]) :
                            P[b - 1] + k <= Len(concat[n]) /\ concat[n][P[b - 1] + k] = plain[b][k]
           Wrong == {n \in 0..M : ~Laid(n)}
<1>9. ASSUME NEW n \in 1..M, Laid(n - 1) PROVE Laid(n)
  <2> DEFINE c == concat[n - 1]
             p == plain[n]
  <2>1. n - 1 \in 0..M /\ n \in 0..M /\ n \in Nat /\ c \in Seq(Nat) /\ p \in Seq(Nat) /\ Len(p) \in Nat
    <3>1. n - 1 \in 0..M /\ n \in 0..M /\ n \in Nat
      BY <1>1
    <3> QED
      BY <1>1, <1>9, <3>1
  <2>2. concat[n] = c \o p /\ p = plain[n]
    BY <1>8
  <2>a. /\ Len(c) = IF n - 1 = 0 THEN 0 ELSE P[n - 1 - 1] + Len(plain[n - 1])
        /\ \A b \in 1..(n - 1) : \A k \in 1..Len(plain[b]) :
              P[b - 1] + k <= Len(c) /\ c[P[b - 1] + k] = plain[b][k]
    BY <1>9
  <2> HIDE DEF c, p
  <2>b. /\ concat[n] \in Seq(Nat) /\ Len(concat[n]) = Len(c) + Len(p)
        /\ \A i \in 1..Len(c) : concat[n][i] = c[i]
        /\ \A i \in 1..Len(p) : concat[n][Len(c) + i] = p[i]
    <3>1. c \in Seq(Nat) /\ p \in Seq(Nat)
      BY <2>1
    <3>2. /\ c \o p \in Seq(Nat) /\ Len(c \o p) = Len(c) + Len(p)
          /\ \A i \in 1..Len(c) : (c \o p)[i] = c[i]
          /\ \A i \in 1..Len(p) : (c \o p)[Len(c) + i] = p[i]
      BY <3>1, ConcatFacts, Zenon
    <3> QED
      BY <2>2, <3>2, Zenon
  <2>3. Len(c) = P[n - 1]
    <3>1. CASE n - 1 = 0
      BY <1>3, <2>a, <3>1
    <3>2. CASE n - 1 # 0
      <4>1. n - 1 \in 1..M /\ n - 1 < M
        BY <1>1, <2>1, <3>2
      <4>2. Len(c) = P[n - 1 - 1] + Len(plain[n - 1])
        BY <2>a, <3>2
      <4>3. Len(plain[n - 1]) = blobs[n - 1].length - 1
        BY <1>5, <4>1
      <4>4. n - 1 - 1 \in 0..M
        BY <1>1, <4>1
      <4> QED
        BY <1>3, <4>1, <4>2, <4>3, <4>4
    <3> QED
      BY <3>1, <3>2
  <2>4. P[n - 1] \in Nat
    BY <1>3, <2>1
  <2>5. concat[n] \in Seq(Nat) /\ Len(concat[n]) = P[n - 1] + Len(p)
    BY <2>3, <2>b
  <2>6. ASSUME NEW b \in 1..n, NEW k \in 1..Len(plain[b])
        PROVE  P[b - 1] + k <= Len(concat[n]) /\ concat[n][P[b - 1] + k] = plain[b][k]
    <3>1. CASE b = n
      <4>1. k \in 1..Len(p) /\ P[b - 1] = P[n - 1] /\ plain[b] = p
        BY <2>2, <2>6, <3>1
      <4>2. concat[n][P[n - 1] + k] = p[k]
        BY <2>3, <2>b, <4>1
      <4> QED
        BY <2>1, <2>4, <2>5, <4>1, <4>2
    <3>2. CASE b # n
      <4>1. b \in 1..(n - 1) /\ b - 1 \in 0..M /\ b \in 1..M
        <5>1. b \in Nat /\ b >= 1 /\ b <= n /\ n <= M
          BY <1>1, <2>1, <2>6
        <5> QED
          BY <1>1, <2>1, <3>2, <5>1, SMTT(30)
      <4>2. P[b - 1] + k <= Len(c) /\ c[P[b - 1] + k] = plain[b][k]
        BY <2>a, <4>1
      <4>3. P[b - 1] \in Nat /\ k \in Nat \ {0}
        BY <1>1, <1>3, <4>1
      <4>4. concat[n][P[b - 1] + k] = c[P[b - 1] + k]
        <5>1. Len(c) \in Nat /\ P[b - 1] + k \in 1..Len(c)
          BY <2>3, <2>4, <4>2, <4>3
        <5> QED
          BY <2>b, <5>1
      <4>5. Len(c) <= Len(concat[n])
        BY <2>1, <2>3, <2>4, <2>5
      <4>6. P[b - 1] + k <= Len(concat[n])
        <5>1. Len(c) \in Nat /\ Len(concat[n]) \in Nat
          BY <2>1, <2>3, <2>4, <2>5
        <5> QED
          BY <4>2, <4>3, <4>5, <5>1
      <4> QED
        BY <4>2, <4>4, <4>6
    <3> QED
      BY <3>1, <3>2
  <2>7. n # 0 /\ Len(concat[n]) = P[n - 1] + Len(plain[n])
    BY <2>1, <2>2, <2>5
  <2> QED
    BY <2>5, <2>6, <2>7, Zenon
<1>10. Laid(0)
  BY <1>8
<1> HIDE DEF Laid
<1>11. ASSUME Wrong # {} PROVE FALSE
  <2>1. Wrong \in SUBSET Nat
    BY <1>1
  <2>2. PICK n \in Wrong : \A y \in Wrong : n <= y
    <3> HIDE DEF Wrong
    <3> QED
      BY <1>11, <2>1, LowestNumber, Zenon
  <2>3. n # 0
    BY <1>10, <2>2
  <2>4. n \in 1..M /\ n - 1 \in 0..M /\ n - 1 \notin Wrong
    BY <1>1, <2>2, <2>3
  <2> QED
    BY <1>9, <2>2, <2>4
<1>12. Laid(M)
  BY <1>1, <1>11
<1> QED
  BY <1>2, <1>12 DEF Laid, M, P

\* The lower and the higher of two numbers.
LEMMA MinMax ==
  ASSUME NEW a \in Int, NEW b \in Int
  PROVE  Max({a, b}) = (IF a >= b THEN a ELSE b) /\ Min({a, b}) = (IF a <= b THEN a ELSE b)
<1>1. \E x \in {a, b} : \A y \in {a, b} : x >= y
  OBVIOUS
<1>2. \E x \in {a, b} : \A y \in {a, b} : x <= y
  OBVIOUS
<1>3. Max({a, b}) \in {a, b} /\ Max({a, b}) >= a /\ Max({a, b}) >= b
  BY <1>1 DEF Max
<1>4. Min({a, b}) \in {a, b} /\ Min({a, b}) <= a /\ Min({a, b}) <= b
  BY <1>2 DEF Min
<1> QED
  BY <1>3, <1>4

\* Min finds the lowest of them.
LEMMA LeastOf ==
  ASSUME NEW T \in SUBSET Nat, T # {}
  PROVE  Min(T) \in T /\ \A y \in T : Min(T) <= y
  BY LowestNumber DEF Min

\* writePlannedBlob writes what the plan asks for: the bytes of the plaintext, then zeroes.
LEMMA WrittenFacts ==
  ASSUME NEW data \in Seq(Nat), NEW part, part.start \in Nat, part.end \in Nat, part.start <= part.end
  PROVE  LET w == writePlannedBlob(data, part)
         IN  /\ w \in Seq(Nat) /\ Len(w) = part.end - part.start
             /\ \A j \in 1..(part.end - part.start) :
                    w[j] = IF part.start + j <= Len(data) THEN data[part.start + j] ELSE 0
<1> DEFINE s == part.start
           e == part.end
           D == Len(data)
           f == Min({e, D})
           n == Max({e - Max({s, D}), 0})
           head == SubSeq(data, s + 1, f)
           tail == Zeroes(n)
<1>1. s \in Nat /\ e \in Nat /\ s <= e /\ D \in Nat
  OBVIOUS
<1>2. writePlannedBlob(data, part) = head \o tail
  BY DEF writePlannedBlob
<1> HIDE DEF s, e, D
<1>3. f = (IF e <= D THEN e ELSE D) /\ n = (IF e >= D THEN e - (IF s >= D THEN s ELSE D) ELSE 0)
  <2> DEFINE x == Max({s, D})
  <2>1. x = IF s >= D THEN s ELSE D
    BY <1>1, MinMax
  <2>2. n = Max({e - x, 0})
    OBVIOUS
  <2> HIDE DEF x, n
  <2>3. x \in Nat /\ e - x \in Int /\ 0 \in Int
    BY <1>1, <2>1
  <2>4. n = IF e - x >= 0 THEN e - x ELSE 0
    BY <2>2, <2>3, MinMax
  <2>5. f = IF e <= D THEN e ELSE D
    <3>1. f = Min({e, D}) /\ e \in Int /\ D \in Int
      BY <1>1
    <3> HIDE DEF f
    <3> QED
      BY <3>1, MinMax
  <2> HIDE DEF f
  <2> QED
    BY <1>1, <2>1, <2>4, <2>5
<1> HIDE DEF f, n
<1>4. f \in Nat /\ n \in Nat /\ f <= D
  BY <1>1, <1>3
<1>5. tail \in Seq(Nat) /\ Len(tail) = n /\ \A i \in 1..n : tail[i] = 0
  BY <1>4 DEF Zeroes
<1>6. /\ head \in Seq(Nat) /\ Len(head) = (IF s < f THEN f - s ELSE 0)
      /\ \A i \in 1..Len(head) : head[i] = data[s + i]
  BY <1>1, <1>4 DEF D
<1> HIDE DEF head, tail
<1>7. /\ head \o tail \in Seq(Nat) /\ Len(head \o tail) = Len(head) + Len(tail)
      /\ \A i \in 1..Len(head) : (head \o tail)[i] = head[i]
      /\ \A i \in 1..Len(tail) : (head \o tail)[Len(head) + i] = tail[i]
  BY <1>5, <1>6, ConcatFacts, Zenon
<1> DEFINE w == head \o tail
<1> HIDE DEF w
<1>8. /\ w \in Seq(Nat) /\ Len(w) = Len(head) + n
      /\ \A i \in 1..Len(head) : w[i] = data[s + i]
      /\ \A i \in 1..n : w[Len(head) + i] = 0
  BY <1>5, <1>6, <1>7 DEF w
<1>9. Len(head) \in Nat /\ Len(head) + n = e - s
  BY <1>1, <1>3, <1>4, <1>6
<1>10. ASSUME NEW j \in 1..(e - s) PROVE w[j] = IF s + j <= D THEN data[s + j] ELSE 0
  <2>1. CASE j <= Len(head)
    <3>1. j \in 1..Len(head) /\ s + j <= D
      BY <1>1, <1>3, <1>4, <1>6, <1>9, <1>10, <2>1
    <3> QED
      BY <1>8, <3>1
  <2>2. CASE ~(j <= Len(head))
    <3>1. j - Len(head) \in 1..n /\ ~(s + j <= D)
      BY <1>1, <1>3, <1>4, <1>6, <1>9, <1>10, <2>2
    <3>2. w[Len(head) + (j - Len(head))] = 0
      BY <1>8, <3>1
    <3>3. Len(head) + (j - Len(head)) = j
      BY <1>9, <1>1, <1>10
    <3> QED
      BY <3>1, <3>2, <3>3
  <2> QED
    BY <2>1, <2>2
<1> QED
  BY <1>2, <1>8, <1>9, <1>10 DEF w, s, e, D

Blobs(t) == t.descriptor.blobs
Contents(t) == Len(Blobs(t)) - 1
Begin(t, b) == Position(Blobs(t))[b - 1]
End(t, b) == Position(Blobs(t))[b]
RangeOf(t, h) == prepareStreamRange(h, t.descriptor, t.claim)
PlanOf(t, h) == planStreamBlobs(t.descriptor, RangeOf(t, h))
ByteAt(t, p) == IF p <= Len(Joined(t.plain)) THEN Joined(t.plain)[p] ELSE 0

\* The stream is one of the scenarios'.
Known(t) == t \in {s.stream : s \in Scenarios}

\* The headers promised the range.
Promised(t, h) == ValidateDescriptor(t.descriptor) /\ RangeOf(t, h).status = 206

\* A valid descriptor's content blobs, one after the other.
LEMMA DescriptorFacts ==
  ASSUME NEW t, Known(t), ValidateDescriptor(t.descriptor)
  PROVE  /\ Blobs(t) \in Infos /\ Contents(t) \in Nat
         /\ \A b \in 1..Contents(t) : /\ Begin(t, b) \in Nat /\ End(t, b) \in Nat
                                      /\ Blobs(t)[b].length \in Int /\ Blobs(t)[b].length > 0
                                      /\ End(t, b) = Begin(t, b) + Blobs(t)[b].length - 1
         /\ Begin(t, 1) = 0
         /\ \A b, c \in 1..Contents(t) : b < c => End(t, b) <= Begin(t, c)
         /\ Total(t.descriptor) \in Nat
         /\ Contents(t) > 0 => Total(t.descriptor) = End(t, Contents(t))
         /\ Contents(t) = 0 => Total(t.descriptor) = 0
<1> DEFINE N == Len(Blobs(t))
           P == Position(Blobs(t))
<1>1. Blobs(t) \in Infos
  BY PlaintextAssumption DEF Known, Blobs, Infos, Info
<1>2. /\ N \in Nat /\ N > 0 /\ Contents(t) = N - 1
      /\ \A b \in 1..(N - 1) : Blobs(t)[b].length \in BlockSize..MaxBlobSize
      /\ Blobs(t)[N].length = 0
  BY <1>1, LengthFacts DEF ValidateDescriptor, Blobs, Contents
<1>3. \A b \in 1..Contents(t) : Blobs(t)[b].length \in Int /\ Blobs(t)[b].length > 0
  BY <1>2, PlaintextAssumption, StreamingAssumption
<1>4. P \in [0..N -> Nat] /\ P[0] = 0 /\ \A k \in 1..N : P[k] = P[k - 1] + ContentLength(Blobs(t)[k])
  BY <1>1, PositionFacts
<1>5. \A m, n \in 0..N : m <= n => P[m] <= P[n]
  BY <1>1, PositionsGrow
<1> HIDE DEF N, P
<1>6. ASSUME NEW b \in 1..Contents(t)
      PROVE  /\ P[b - 1] \in Nat /\ P[b] \in Nat /\ P[b] = P[b - 1] + Blobs(t)[b].length - 1
  <2>1. b \in 1..N /\ b - 1 \in 0..N /\ b \in 0..N
    BY <1>2
  <2>2. ContentLength(Blobs(t)[b]) = Blobs(t)[b].length - 1
    BY <1>3 DEF ContentLength
  <2>3. P[b - 1] \in Nat /\ P[b] \in Nat /\ P[b] = P[b - 1] + ContentLength(Blobs(t)[b])
    BY <1>4, <2>1
  <2> QED
    BY <1>3, <2>2, <2>3
<1>7. ASSUME NEW b \in 1..Contents(t), NEW c \in 1..Contents(t), b < c PROVE P[b] <= P[c - 1]
  <2>1. b \in 0..N /\ c - 1 \in 0..N /\ b <= c - 1
    BY <1>2, <1>7
  <2> QED
    BY <1>5, <2>1
<1>8. P[N] = P[N - 1] /\ P[N] \in Nat
  <2>1. N \in 1..N /\ N - 1 \in 0..N /\ N \in 0..N
    BY <1>2
  <2>2. ContentLength(Blobs(t)[N]) = 0
    BY <1>2 DEF ContentLength
  <2>3. P[N - 1] \in Nat /\ P[N] \in Nat /\ P[N] = P[N - 1] + ContentLength(Blobs(t)[N])
    BY <1>4, <2>1
  <2> QED
    BY <2>2, <2>3
<1>9. Total(t.descriptor) = P[N]
  BY DEF Total, P, N, Blobs
<1>10. Begin(t, 1) = P[0]
  BY DEF Begin, P
<1>11. Contents(t) \in Nat /\ P[N - 1] = P[Contents(t)] /\ (Contents(t) = 0 => P[Contents(t)] = 0)
  BY <1>2, <1>4
<1> QED
  BY <1>1, <1>3, <1>4, <1>6, <1>7, <1>8, <1>9, <1>10, <1>11 DEF Begin, End, P

\* What is promised lies in the file's blobs.
LEMMA RangeFacts ==
  ASSUME NEW t, Known(t), NEW h, Promised(t, h)
  PROVE  /\ RangeOf(t, h).start \in Nat /\ RangeOf(t, h).end \in Nat /\ RangeOf(t, h).start <= RangeOf(t, h).end
         /\ Contents(t) > 0 /\ RangeOf(t, h).end < End(t, Contents(t))
<1> DEFINE d == t.descriptor
           total == IF t.claim > 0 THEN t.claim ELSE Total(d)
           start == IF h.form = "none" THEN 0 ELSE h.start
           end == IF h.form = "closed" THEN h.end ELSE total - 1
<1>1. /\ Total(d) \in Nat /\ Contents(t) \in Nat
      /\ Contents(t) > 0 => Total(d) = End(t, Contents(t))
      /\ Contents(t) = 0 => Total(d) = 0
  BY DescriptorFacts DEF Promised
<1>2. t.claim \in Nat
  BY PlaintextAssumption DEF Known
<1>3. RangeOf(t, h) = IF Implausible(d, t.claim) THEN [status |-> 500, start |-> start, end |-> end]
                   ELSE IF total <= 0 THEN [status |-> 416, start |-> start, end |-> end]
                   ELSE IF h.form = "malformed" THEN [status |-> 500, start |-> start, end |-> end]
                   ELSE IF start \notin 0..(total - 1) \/ end \notin start..(total - 1)
                        THEN [status |-> 416, start |-> start, end |-> end]
                   ELSE [status |-> 206, start |-> start, end |-> end]
  BY Zenon DEF RangeOf, prepareStreamRange
<1> HIDE DEF start, end
<1>4. /\ ~Implausible(d, t.claim) /\ start \in 0..(total - 1) /\ end \in start..(total - 1)
      /\ RangeOf(t, h).start = start /\ RangeOf(t, h).end = end
  <2>1. RangeOf(t, h).status = 206
    BY DEF Promised
  <2> HIDE DEF total, d
  <2> QED
    BY <1>3, <2>1
<1>5. total \in Nat /\ total <= Total(d)
  BY <1>1, <1>2, <1>4 DEF Implausible
<1> HIDE DEF total, d
<1>6. start \in Nat /\ end \in Nat /\ start <= end /\ end < Total(d)
  BY <1>1, <1>4, <1>5
<1> QED
  BY <1>1, <1>4, <1>6

\* The plan holds the blobs that the range touches, each with the part that it touches.
LEMMA PlanFacts ==
  ASSUME NEW t, Known(t), NEW h, Promised(t, h)
  PROVE  LET start == RangeOf(t, h).start
             end == RangeOf(t, h).end
         IN  /\ DOMAIN PlanOf(t, h) = {b \in 1..Contents(t) : start < End(t, b) /\ end >= Begin(t, b)}
             /\ \A b \in DOMAIN PlanOf(t, h) :
                    /\ PlanOf(t, h)[b].start = IF start >= Begin(t, b) THEN start - Begin(t, b) ELSE 0
                    /\ PlanOf(t, h)[b].end = IF end < End(t, b) THEN end - Begin(t, b) + 1 ELSE End(t, b) - Begin(t, b)
<1> DEFINE start == RangeOf(t, h).start
           end == RangeOf(t, h).end
           wanted == {b \in 1..Contents(t) : start < Begin(t, b) + (Blobs(t)[b].length - 1) /\ end >= Begin(t, b)}
<1>1. PlanOf(t, h) = [b \in wanted |-> [start |-> Max({start - Begin(t, b), 0}),
                                     end |-> Min({end - Begin(t, b) + 1, Blobs(t)[b].length - 1})]]
  BY DEF PlanOf, planStreamBlobs, Begin, Blobs, Contents
<1>2. start \in Nat /\ end \in Nat
  BY RangeFacts
<1>3. \A b \in 1..Contents(t) : /\ Begin(t, b) \in Nat /\ End(t, b) \in Nat /\ Blobs(t)[b].length \in Int
                                /\ End(t, b) = Begin(t, b) + Blobs(t)[b].length - 1
  BY DescriptorFacts DEF Promised
<1> HIDE DEF start, end
<1>4. \A b \in 1..Contents(t) : Begin(t, b) + (Blobs(t)[b].length - 1) = End(t, b)
  BY <1>3
<1>5. wanted = {b \in 1..Contents(t) : start < End(t, b) /\ end >= Begin(t, b)}
  BY <1>4
<1>6. DOMAIN PlanOf(t, h) = wanted /\ wanted \subseteq 1..Contents(t)
  BY <1>1
<1>7. \A b \in wanted : /\ PlanOf(t, h)[b].start = Max({start - Begin(t, b), 0})
                        /\ PlanOf(t, h)[b].end = Min({end - Begin(t, b) + 1, Blobs(t)[b].length - 1})
  BY <1>1
<1> HIDE DEF wanted
<1>8. ASSUME NEW b \in wanted
      PROVE  /\ PlanOf(t, h)[b].start = IF start >= Begin(t, b) THEN start - Begin(t, b) ELSE 0
             /\ PlanOf(t, h)[b].end = IF end < End(t, b) THEN end - Begin(t, b) + 1 ELSE End(t, b) - Begin(t, b)
  <2> DEFINE s == start - Begin(t, b)
             e == end - Begin(t, b) + 1
             l == Blobs(t)[b].length - 1
  <2>1. b \in 1..Contents(t)
    BY <1>6
  <2>2. s \in Int /\ e \in Int /\ l \in Int /\ 0 \in Int
    BY <1>2, <1>3, <2>1
  <2>3. PlanOf(t, h)[b].start = Max({s, 0}) /\ PlanOf(t, h)[b].end = Min({e, l})
    BY <1>7
  <2>4. (s >= 0 <=> start >= Begin(t, b)) /\ l = End(t, b) - Begin(t, b) /\ (e <= l <=> end < End(t, b))
    BY <1>2, <1>3, <2>1
  <2> HIDE DEF s, e, l
  <2>5. PlanOf(t, h)[b].start = (IF s >= 0 THEN s ELSE 0) /\ PlanOf(t, h)[b].end = (IF e <= l THEN e ELSE l)
    BY <2>2, <2>3, MinMax
  <2> QED
    BY <2>4, <2>5 DEF s, e
<1> QED
  BY <1>5, <1>6, <1>8 DEF start, end

\* The walk begins with the blob that holds the first byte.
LEMMA PlanBegins ==
  ASSUME NEW t, Known(t), NEW h, Promised(t, h), DOMAIN PlanOf(t, h) # {}
  PROVE  LET b == Min(DOMAIN PlanOf(t, h))
         IN  b \in DOMAIN PlanOf(t, h) /\ Begin(t, b) <= RangeOf(t, h).start
<1> DEFINE start == RangeOf(t, h).start
           end == RangeOf(t, h).end
           D == DOMAIN PlanOf(t, h)
           b == Min(D)
<1>1. start \in Nat /\ end \in Nat
  BY RangeFacts
<1>2. /\ Contents(t) \in Nat /\ Begin(t, 1) = 0
      /\ \A c \in 1..Contents(t) : Begin(t, c) \in Nat /\ End(t, c) \in Nat /\ Begin(t, c) <= End(t, c)
  <2>1. \A c \in 1..Contents(t) : /\ Begin(t, c) \in Nat /\ End(t, c) \in Nat
                                  /\ Blobs(t)[c].length \in Int /\ Blobs(t)[c].length > 0
                                  /\ End(t, c) = Begin(t, c) + Blobs(t)[c].length - 1
    BY DescriptorFacts DEF Promised
  <2>2. \A c \in 1..Contents(t) : Begin(t, c) <= End(t, c)
    BY <2>1
  <2> QED
    BY <2>1, <2>2, DescriptorFacts DEF Promised
<1>3. D = {c \in 1..Contents(t) : start < End(t, c) /\ end >= Begin(t, c)}
  BY PlanFacts
<1> HIDE DEF start, end, D
<1>4. D \in SUBSET Nat /\ D # {}
  BY <1>2, <1>3 DEF D
<1>5. b \in D /\ \A c \in D : b <= c
  BY <1>4, LeastOf
<1> HIDE DEF b
<1>6. ASSUME ~(Begin(t, b) <= start) PROVE FALSE
  <2>1. b \in 1..Contents(t) /\ end >= Begin(t, b) /\ Begin(t, b) \in Nat
    BY <1>2, <1>3, <1>5
  <2>2. b # 1
    BY <1>1, <1>2, <1>6
  <2>3. b - 1 \in 1..Contents(t) /\ ~(b <= b - 1)
    BY <1>2, <2>1, <2>2
  <2>4. End(t, b - 1) = Begin(t, b)
    BY DEF End, Begin
  <2>5. start < End(t, b - 1) /\ end >= Begin(t, b - 1)
    BY <1>1, <1>2, <1>6, <2>1, <2>3, <2>4
  <2> QED
    BY <1>3, <1>5, <2>3, <2>5
<1> QED
  BY <1>5, <1>6 DEF b, D, start

\* A blob begins where the one before it ends.
LEMMA NextBegins ==
  ASSUME NEW t, NEW b \in Int PROVE Begin(t, b + 1) = End(t, b)
<1>1. \A x, y : x - 1 = y => Begin(t, x) = End(t, y)
  BY Zenon DEF Begin, End
<1>2. PICK x : x = b + 1
  OBVIOUS
<1>3. x - 1 = b
  BY <1>2
<1> QED
  BY <1>1, <1>2, <1>3, Zenon

\* It goes on with the next blob, until the range ends.
LEMMA PlanGoesOn ==
  ASSUME NEW t, Known(t), NEW h, Promised(t, h), NEW b \in DOMAIN PlanOf(t, h)
  PROVE  LET more == {i \in DOMAIN PlanOf(t, h) : i > b}
         IN  /\ more = {} => RangeOf(t, h).end < End(t, b)
             /\ more # {} => /\ Min(more) = b + 1 /\ b + 1 \in DOMAIN PlanOf(t, h)
                             /\ Begin(t, b + 1) <= RangeOf(t, h).end
<1> DEFINE start == RangeOf(t, h).start
           end == RangeOf(t, h).end
           D == DOMAIN PlanOf(t, h)
           more == {i \in D : i > b}
<1>1. start \in Nat /\ end \in Nat /\ end < End(t, Contents(t))
  BY RangeFacts
<1>2. /\ Contents(t) \in Nat
      /\ \A c \in 1..Contents(t) : Begin(t, c) \in Nat /\ End(t, c) \in Nat /\ Begin(t, c) <= End(t, c)
      /\ \A c, e \in 1..Contents(t) : c < e => End(t, c) <= Begin(t, e)
  <2>1. \A c \in 1..Contents(t) : /\ Begin(t, c) \in Nat /\ End(t, c) \in Nat
                                  /\ Blobs(t)[c].length \in Int /\ Blobs(t)[c].length > 0
                                  /\ End(t, c) = Begin(t, c) + Blobs(t)[c].length - 1
    BY DescriptorFacts DEF Promised
  <2>2. \A c \in 1..Contents(t) : Begin(t, c) <= End(t, c)
    BY <2>1
  <2> QED
    BY <2>1, <2>2, DescriptorFacts DEF Promised
<1>3. D = {c \in 1..Contents(t) : start < End(t, c) /\ end >= Begin(t, c)}
  BY PlanFacts
<1>4. Begin(t, b + 1) = End(t, b)
  <2>1. b \in Int
    BY <1>2, <1>3
  <2> QED
    BY <2>1, NextBegins
<1>5. b \in D
  OBVIOUS
<1> HIDE DEF start, end, D
<1>6. b \in 1..Contents(t) /\ start < End(t, b) /\ end >= Begin(t, b) /\ End(t, b) \in Nat /\ b \in Nat
  BY <1>2, <1>3, <1>5
<1>7. ASSUME end >= End(t, b) PROVE b + 1 \in D /\ b + 1 > b
  <2>1. b # Contents(t)
    BY <1>1, <1>6, <1>7
  <2>2. b + 1 \in 1..Contents(t)
    BY <1>2, <1>6, <2>1
  <2>3. start < End(t, b + 1) /\ end >= Begin(t, b + 1)
    BY <1>1, <1>2, <1>4, <1>6, <1>7, <2>2
  <2> QED
    BY <1>3, <1>6, <2>2, <2>3
<1>8. ASSUME more = {} PROVE end < End(t, b)
  BY <1>1, <1>6, <1>7, <1>8
<1>9. ASSUME more # {} PROVE Min(more) = b + 1 /\ b + 1 \in D /\ Begin(t, b + 1) <= end
  <2>1. more \in SUBSET Nat /\ more \subseteq D /\ \A c \in more : c > b
    BY <1>2, <1>3
  <2> HIDE DEF more
  <2>2. Min(more) \in more /\ \A c \in more : Min(more) <= c
    BY <1>9, <2>1, LeastOf
  <2>3. PICK m \in more : m = Min(more)
    BY <2>2
  <2>4. m \in 1..Contents(t) /\ b < m /\ end >= Begin(t, m) /\ Begin(t, m) \in Nat /\ m \in Nat
    BY <1>2, <1>3, <2>1
  <2>5. End(t, b) <= Begin(t, m)
    BY <1>2, <1>6, <2>4
  <2>6. b + 1 \in D /\ b + 1 > b
    BY <1>1, <1>6, <1>7, <2>4, <2>5
  <2>7. b + 1 \in more
    BY <2>6 DEF more
  <2>8. m = b + 1
    BY <1>6, <2>2, <2>3, <2>4, <2>7
  <2> QED
    BY <2>3, <2>4, <2>6, <2>8
<1> QED
  BY <1>8, <1>9 DEF more, D, end

\* The bytes so far are the first of the range.
Begun(t, h, sent) ==
    /\ sent \in Seq(Nat) /\ Len(sent) <= RangeOf(t, h).end - RangeOf(t, h).start + 1
    /\ \A i \in 1..Len(sent) : sent[i] = ByteAt(t, RangeOf(t, h).start + i)

\* How much of the range lies before blob b.
Before(t, h, b) == IF Begin(t, b) > RangeOf(t, h).start THEN Begin(t, b) - RangeOf(t, h).start ELSE 0

\* Where the bytes of blob b lie in the file, and that they are all of them for the last.
Lies(t, b) ==
    /\ t.plain[b] \in Seq(Nat) /\ Len(t.plain[b]) \in Nat
    /\ Len(t.plain[b]) <= Blobs(t)[b].length - 1
    /\ b < Contents(t) => Len(t.plain[b]) = Blobs(t)[b].length - 1
    /\ \A k \in 1..Len(t.plain[b]) :
            Begin(t, b) + k <= Len(Joined(t.plain)) /\ Joined(t.plain)[Begin(t, b) + k] = t.plain[b][k]
    /\ b = Contents(t) => Len(Joined(t.plain)) = Begin(t, b) + Len(t.plain[b])

\* The plaintexts of a stream with a valid descriptor.
LEMMA PlainFacts ==
  ASSUME NEW t, Known(t), ValidateDescriptor(t.descriptor)
  PROVE  Len(Joined(t.plain)) \in Nat /\ \A b \in 1..Contents(t) : Lies(t, b)
<1> DEFINE plain == t.plain
<1>1. /\ plain \in Seq(Seq(Nat)) /\ Len(plain) = Len(Blobs(t)) - 1
      /\ \A i \in 1..Len(plain) : /\ Len(plain[i]) <= Blobs(t)[i].length - 1
                                  /\ i < Len(plain) => Len(plain[i]) = Blobs(t)[i].length - 1
  <2>1. PICK s \in Scenarios : t = s.stream
    BY DEF Known
  <2> QED
    BY <2>1, PlaintextAssumption, Zenon DEF Blobs
<1>2. Blobs(t) \in Infos /\ Contents(t) \in Nat
  BY DescriptorFacts
<1>3. /\ Joined(t.plain) \in Seq(Nat)
      /\ \A b \in 1..Len(plain) : \A k \in 1..Len(plain[b]) :
            /\ Position(Blobs(t))[b - 1] + k <= Len(Joined(t.plain))
            /\ Joined(t.plain)[Position(Blobs(t))[b - 1] + k] = plain[b][k]
      /\ Len(Joined(t.plain)) = IF Len(plain) = 0 THEN 0
                     ELSE Position(Blobs(t))[Len(plain) - 1] + Len(plain[Len(plain)])
  <2>1. Filled(Blobs(t), t.plain)
    BY <1>1, Zenon DEF Filled
  <2> QED
    BY <1>2, <2>1, FileFacts, Zenon
<1>4. Len(plain) = Contents(t)
  BY <1>1 DEF Contents
<1>5. \A b \in 1..Contents(t) : plain[b] \in Seq(Nat) /\ Len(plain[b]) \in Nat
  BY <1>1, <1>4
<1>6. Len(Joined(t.plain)) \in Nat
  BY <1>3
<1>7. Contents(t) # 0 => Len(Joined(t.plain)) = Begin(t, Contents(t)) + Len(plain[Contents(t)])
  BY <1>3, <1>4 DEF Begin
<1>8. \A b \in 1..Contents(t) : b # 0
  BY <1>2
<1> HIDE DEF plain
<1>9. \A b \in 1..Contents(t) : b = Contents(t) => Len(Joined(t.plain)) = Begin(t, b) + Len(plain[b])
  BY <1>7, <1>8
<1>10. \A b \in 1..Contents(t) : /\ Len(plain[b]) <= Blobs(t)[b].length - 1
                                 /\ b < Contents(t) => Len(plain[b]) = Blobs(t)[b].length - 1
  <2> TAKE b \in 1..Contents(t)
  <2>1. b \in 1..Len(plain)
    BY <1>4
  <2>2. /\ Len(plain[b]) <= Blobs(t)[b].length - 1
        /\ b < Len(plain) => Len(plain[b]) = Blobs(t)[b].length - 1
    BY <1>1, <2>1, Zenon
  <2> QED
    BY <1>4, <2>2
<1>11. \A b \in 1..Contents(t) : \A k \in 1..Len(plain[b]) :
            Begin(t, b) + k <= Len(Joined(t.plain)) /\ Joined(t.plain)[Begin(t, b) + k] = plain[b][k]
  BY <1>3, <1>4, Zenon DEF Begin
<1> QED
  <2>1. ASSUME NEW b \in 1..Contents(t) PROVE Lies(t, b)
    <3>1. plain[b] \in Seq(Nat) /\ Len(plain[b]) \in Nat
      BY <1>5
    <3>2. /\ Len(plain[b]) <= Blobs(t)[b].length - 1
          /\ b < Contents(t) => Len(plain[b]) = Blobs(t)[b].length - 1
      BY <1>10
    <3>3. \A k \in 1..Len(plain[b]) :
            Begin(t, b) + k <= Len(Joined(t.plain)) /\ Joined(t.plain)[Begin(t, b) + k] = plain[b][k]
      BY <1>11
    <3>4. b = Contents(t) => Len(Joined(t.plain)) = Begin(t, b) + Len(plain[b])
      BY <1>9
    <3> QED
      BY <3>1, <3>2, <3>3, <3>4, Zenon DEF plain, Lies
  <2> QED
    BY <1>6, <2>1

\* One more blob.
LEMMA BlobWritten ==
  ASSUME NEW t, Known(t), NEW h, Promised(t, h), NEW b \in DOMAIN PlanOf(t, h), NEW sent,
         Begun(t, h, sent), Len(sent) = Before(t, h, b)
  PROVE  LET whole == sent \o writePlannedBlob(t.plain[b], PlanOf(t, h)[b])
         IN  /\ Begun(t, h, whole)
             /\ Len(whole) = (IF RangeOf(t, h).end < End(t, b) THEN RangeOf(t, h).end + 1 ELSE End(t, b))
                                - RangeOf(t, h).start
<1> DEFINE start == RangeOf(t, h).start
           end == RangeOf(t, h).end
           data == t.plain[b]
           D == Len(data)
           part == PlanOf(t, h)[b]
           s == part.start
           e == part.end
           w == writePlannedBlob(data, part)
           n == Len(sent)
           B == Begin(t, b)
           F == End(t, b)
<1>1. start \in Nat /\ end \in Nat /\ start <= end
  BY RangeFacts
<1>2. /\ b \in 1..Contents(t) /\ start < F /\ end >= B
      /\ s = (IF start >= B THEN start - B ELSE 0)
      /\ e = IF end < F THEN end - B + 1 ELSE F - B
  BY PlanFacts
<1>3. /\ B \in Nat /\ F \in Nat /\ Blobs(t)[b].length \in Int /\ Blobs(t)[b].length > 0
      /\ F = B + Blobs(t)[b].length - 1
  BY <1>2, DescriptorFacts DEF Promised
<1>4. /\ data \in Seq(Nat) /\ D \in Nat /\ D <= Blobs(t)[b].length - 1 /\ Len(Joined(t.plain)) \in Nat
      /\ b < Contents(t) => D = Blobs(t)[b].length - 1
      /\ \A k \in 1..D : B + k <= Len(Joined(t.plain)) /\ Joined(t.plain)[B + k] = data[k]
      /\ b = Contents(t) => Len(Joined(t.plain)) = B + D
  <2>1. Len(Joined(t.plain)) \in Nat /\ Lies(t, b)
    BY <1>2, PlainFacts DEF Promised
  <2> QED
    BY <2>1, Zenon DEF Lies
<1>5. /\ sent \in Seq(Nat) /\ n \in Nat
      /\ n = (IF B > start THEN B - start ELSE 0)
      /\ \A i \in 1..n : sent[i] = ByteAt(t, start + i)
  BY DEF Begun, Before
<1>6. b \in Nat /\ Contents(t) \in Nat /\ b <= Contents(t)
  BY <1>2, DescriptorFacts DEF Promised
<1> HIDE DEF start, end, B, F, n, s, e
<1>a. B <= F
  BY <1>3
<1>b. B \in Nat /\ F \in Nat
  BY <1>3
<1>7. s \in Nat /\ e \in Nat /\ s <= e /\ e <= F - B
  <2>1. s \in Nat /\ (start >= B => s = start - B) /\ (start < B => s = 0)
    BY <1>1, <1>2, <1>b
  <2>2. e \in Nat /\ (end < F => e = end - B + 1) /\ (end >= F => e = F - B)
    BY <1>1, <1>2, <1>a, <1>b
  <2> QED
    BY <1>1, <1>2, <1>a, <1>b, <2>1, <2>2
<1>8. /\ w \in Seq(Nat) /\ Len(w) = e - s
      /\ \A j \in 1..(e - s) : w[j] = IF s + j <= D THEN data[s + j] ELSE 0
  <2>1. part.start \in Nat /\ part.end \in Nat /\ part.start <= part.end
    BY <1>7 DEF s, e
  <2> HIDE DEF part, data
  <2> QED
    BY <1>4, <2>1, WrittenFacts DEF s, e
<1> HIDE DEF data, D, part, w
<1> DEFINE whole == sent \o w
<1>9. /\ whole \in Seq(Nat) /\ Len(whole) = n + (e - s)
      /\ \A i \in 1..n : whole[i] = sent[i]
      /\ \A i \in 1..(e - s) : whole[n + i] = w[i]
  <2>1. /\ sent \o w \in Seq(Nat) /\ Len(sent \o w) = Len(sent) + Len(w)
        /\ \A i \in 1..Len(sent) : (sent \o w)[i] = sent[i]
        /\ \A i \in 1..Len(w) : (sent \o w)[Len(sent) + i] = w[i]
    BY <1>5, <1>8, ConcatFacts, Zenon
  <2> QED
    BY <1>8, <2>1, Zenon DEF n
<1> HIDE DEF whole
<1>10. start + n = B + s
  BY <1>1, <1>2, <1>3, <1>5
<1>11. Len(whole) = (IF end < F THEN end + 1 ELSE F) - start
  <2>1. Len(whole) = start + n + e - s - start
    BY <1>1, <1>5, <1>7, <1>9
  <2>2. Len(whole) = B + e - start
    BY <1>1, <1>5, <1>7, <1>10, <1>b, <2>1
  <2>3. B + e = IF end < F THEN end + 1 ELSE F
    BY <1>1, <1>2, <1>b
  <2> QED
    BY <1>1, <1>7, <1>b, <2>2, <2>3
<1>12. Len(whole) \in Nat /\ Len(whole) <= end - start + 1
  BY <1>1, <1>b, <1>5, <1>7, <1>9, <1>11
<1>13. ASSUME NEW j \in 1..(e - s) PROVE w[j] = ByteAt(t, start + (n + j))
  <2>1. j \in Nat /\ j >= 1 /\ j <= e - s
    BY <1>7
  <2>2. start + (n + j) = B + (s + j)
    BY <1>1, <1>3, <1>5, <1>7, <1>10, <2>1
  <2>3. CASE s + j <= D
    <3>1. s + j \in 1..D
      BY <1>4, <1>7, <2>1, <2>3
    <3> QED
      BY <1>4, <1>8, <2>2, <2>3, <3>1 DEF ByteAt
  <2>4. CASE ~(s + j <= D)
    <3>1. b = Contents(t)
      <4>1. D < Blobs(t)[b].length - 1
        BY <1>3, <1>4, <1>7, <2>1, <2>4
      <4>2. ~(b < Contents(t))
        BY <1>3, <1>4, <4>1
      <4> QED
        BY <1>6, <4>2
    <3>2. ~(B + (s + j) <= Len(Joined(t.plain)))
      BY <1>3, <1>4, <1>7, <2>1, <2>4, <3>1
    <3> QED
      BY <1>8, <2>2, <2>4, <3>2 DEF ByteAt
  <2> QED
    BY <2>3, <2>4
<1>14. ASSUME NEW i \in 1..Len(whole) PROVE whole[i] = ByteAt(t, start + i)
  <2>1. CASE i <= n
    <3>1. i \in 1..n
      BY <1>5, <1>12, <2>1
    <3> QED
      BY <1>5, <1>9, <3>1
  <2>2. CASE ~(i <= n)
    <3>1. i - n \in 1..(e - s) /\ n + (i - n) = i
      <4>1. i \in Nat /\ i <= n + (e - s)
        BY <1>9, <1>12
      <4> QED
        BY <1>5, <1>7, <2>2, <4>1
    <3>2. whole[n + (i - n)] = w[i - n] /\ w[i - n] = ByteAt(t, start + (n + (i - n)))
      BY <1>9, <1>13, <3>1
    <3> QED
      BY <3>1, <3>2
  <2> QED
    BY <2>1, <2>2
<1>15. Begun(t, h, whole)
  BY <1>9, <1>12, <1>14 DEF Begun, start, end
<1> QED
  BY <1>11, <1>15 DEF whole, w, data, part, start, end, F

\* Before the range is planned, and while its blobs are written.
Fresh(q) ==
    \/ q.pc \in {"new", "lookup", "activate", "describe"}
    \/ q.pc \in {"wait", "got", "lost"} /\ q.blob = 0
Walking(q) == q.pc = "walk" \/ (q.pc \in {"wait", "got", "lost"} /\ q.blob # 0)

\* A request has written nothing before its range is planned; then it has written what lies
\* before the blob that it is about to write, and all of it when it is done.
RangeOk(t, q) ==
    /\ q.sent = << >> \/ (Promised(t, q.header) /\ Begun(t, q.header, q.sent))
    /\ Fresh(q) => q.sent = << >>
    /\ Walking(q) => /\ Promised(t, q.header) /\ q.plan = PlanOf(t, q.header)
                     /\ q.blob \in DOMAIN q.plan /\ Len(q.sent) = Before(t, q.header, q.blob)
    /\ q.done => /\ q.pc \in {"release", "end"}
                 /\ Len(q.sent) = RangeOf(t, q.header).end - RangeOf(t, q.header).start + 1

RangeInv == Known(stream) /\ \A r \in Request : RangeOk(stream, req[r])

\* What does not write.
LEMMA NothingWritten ==
  ASSUME NEW t, NEW q, NEW p, RangeOk(t, q), p.header = q.header, p.sent = q.sent, p.done = q.done,
         \/ p.pc = q.pc /\ p.blob = q.blob /\ p.plan = q.plan
         \/ p.pc \in {"release", "end"}
         \/ Fresh(q) /\ Fresh(p)
         \/ Walking(q) /\ Walking(p) /\ p.blob = q.blob /\ p.plan = q.plan
  PROVE  RangeOk(t, p)
  BY DEF RangeOk, Fresh, Walking

\* The plan is made, and the walk begins.
LEMMA Planned ==
  ASSUME NEW t, Known(t), NEW q, NEW p, RangeOk(t, q), Fresh(q), Promised(t, q.header),
         DOMAIN PlanOf(t, q.header) # {},
         p.pc = "walk", p.header = q.header, p.sent = q.sent, p.done = q.done,
         p.plan = PlanOf(t, q.header), p.blob = Min(DOMAIN PlanOf(t, q.header))
  PROVE  RangeOk(t, p)
<1> DEFINE h == q.header
<1>1. p.blob \in DOMAIN p.plan /\ Begin(t, p.blob) <= RangeOf(t, h).start
  BY PlanBegins
<1>2. q.sent = << >> /\ ~q.done
  BY DEF RangeOk, Fresh
<1>3. RangeOf(t, h).start \in Nat
  BY RangeFacts
<1>4. Begin(t, p.blob) \in Nat
  <2>1. p.blob \in 1..Contents(t)
    BY <1>1, PlanFacts
  <2> QED
    BY <2>1, DescriptorFacts DEF Promised
<1>5. Before(t, h, p.blob) = 0
  BY <1>1, <1>3, <1>4 DEF Before
<1>6. Len(<< >>) = 0
  OBVIOUS
<1> QED
  BY <1>1, <1>2, <1>5, <1>6 DEF RangeOk, Fresh, Walking

\* A blob is written.
LEMMA Written ==
  ASSUME NEW t, Known(t), NEW q, RangeOk(t, q), Walking(q)
  PROVE  LET b == q.blob
             h == q.header
             sent == q.sent \o writePlannedBlob(t.plain[b], q.plan[b])
             more == {i \in DOMAIN q.plan : i > b}
         IN  /\ Promised(t, h) /\ Begun(t, h, sent)
             /\ more = {} => Len(sent) = RangeOf(t, h).end - RangeOf(t, h).start + 1
             /\ more # {} => Min(more) \in DOMAIN q.plan /\ Len(sent) = Before(t, h, Min(more))
             /\ ~q.done /\ q.plan = PlanOf(t, h)
<1> DEFINE b == q.blob
           h == q.header
           start == RangeOf(t, h).start
           end == RangeOf(t, h).end
           sent == q.sent \o writePlannedBlob(t.plain[b], PlanOf(t, h)[b])
           more == {i \in DOMAIN PlanOf(t, h) : i > b}
<1>1. /\ Promised(t, h) /\ q.plan = PlanOf(t, h) /\ b \in DOMAIN PlanOf(t, h)
      /\ Len(q.sent) = Before(t, h, b) /\ ~q.done
  BY DEF RangeOk, Walking
<1>2. start \in Nat /\ end \in Nat /\ start <= end
  BY <1>1, RangeFacts
<1>3. Begun(t, h, q.sent)
  <2>1. CASE q.sent = << >>
    <3>1. q.sent \in Seq(Nat) /\ Len(q.sent) = 0
      BY <2>1
    <3> HIDE DEF start, end
    <3>2. Len(q.sent) <= end - start + 1 /\ 1..Len(q.sent) = {}
      BY <1>2, <3>1
    <3> QED
      BY <3>1, <3>2 DEF Begun, start, end
  <2> QED
    BY <2>1 DEF RangeOk
<1> HIDE DEF h, b
<1>4. Begun(t, h, sent) /\ Len(sent) = (IF end < End(t, b) THEN end + 1 ELSE End(t, b)) - start
  BY <1>1, <1>3, BlobWritten
<1>5. /\ more = {} => end < End(t, b)
      /\ more # {} => Min(more) = b + 1 /\ b + 1 \in DOMAIN PlanOf(t, h) /\ Begin(t, b + 1) <= end
  BY <1>1, PlanGoesOn
<1>6. b \in 1..Contents(t) /\ start < End(t, b)
  <2>1. DOMAIN PlanOf(t, h) = {c \in 1..Contents(t) : start < End(t, c) /\ end >= Begin(t, c)}
    BY <1>1, PlanFacts
  <2> QED
    BY <1>1, <2>1
<1>7. End(t, b) \in Nat
  BY <1>1, <1>6, DescriptorFacts DEF Promised
<1>8. Begin(t, b + 1) = End(t, b)
  BY <1>1, <1>6, NextBegins
<1> HIDE DEF start, end, sent, more
<1>9. more = {} => Len(sent) = end - start + 1
  BY <1>2, <1>4, <1>5
<1>10. ASSUME more # {} PROVE Len(sent) = Before(t, h, b + 1)
  <2>1. Len(sent) = End(t, b) - start
    BY <1>2, <1>4, <1>5, <1>7, <1>8, <1>10
  <2> QED
    BY <1>2, <1>6, <1>7, <1>8, <2>1 DEF Before, start
<1> QED
  BY <1>1, <1>4, <1>5, <1>9, <1>10, Zenon DEF sent, more, start, end, h, b

\* A step of r that leaves the other requests and the stream alone.
LEMMA OwnRange ==
  ASSUME RangeInv, NEW r \in Request, Own(r), UNCHANGED stream, RangeOk(stream, req'[r])
  PROVE  RangeInv'
  BY DEF RangeInv, Own

\* A request that ends has written nothing more.
LEMMA EndsRange ==
  ASSUME RequestsTyped, RangeInv, NEW r \in Request, NEW status, Ends(r, status)
  PROVE  RangeOk(stream, req'[r])
<1> DEFINE q == req[r]
           p == req'[r]
<1>1. /\ p.header = q.header /\ p.sent = q.sent /\ p.done = q.done
      /\ p.pc \in {"release", "end"}
  BY DEF Ends, RequestsTyped, RequestRecord
<1>2. RangeOk(stream, q)
  BY DEF RangeInv
<1> HIDE DEF q, p
<1>3. RangeOk(stream, p)
  BY <1>1, <1>2, NothingWritten
<1> QED
  BY <1>3 DEF p

\* Nor has one that goes on to its lookup, its activation or the descriptor.
LEMMA GoesRange ==
  ASSUME RequestsTyped, RangeInv, NEW r \in Request, NEW pc \in {"lookup", "activate", "describe"},
         Fresh(req[r]), NEW c,
         req' = [req EXCEPT ![r].pc = pc] \/ req' = [req EXCEPT ![r].pc = pc, ![r].cancelled = c]
  PROVE  RangeOk(stream, req'[r])
<1> DEFINE q == req[r]
           p == req'[r]
<1>1. p.header = q.header /\ p.sent = q.sent /\ p.done = q.done /\ p.pc = pc
  BY DEF RequestsTyped, RequestRecord
<1>2. RangeOk(stream, q) /\ Fresh(q) /\ Fresh(p)
  BY <1>1 DEF RangeInv, Fresh
<1> HIDE DEF q, p
<1>3. RangeOk(stream, p)
  BY <1>1, <1>2, NothingWritten
<1> QED
  BY <1>3 DEF p

\* Nor one that waits.
LEMMA AwaitRange ==
  ASSUME RequestsTyped, RangeInv, NEW r \in Request, NEW b, Await(r, b),
         (Fresh(req[r]) /\ b = 0) \/ (Walking(req[r]) /\ b = req[r].blob /\ b # 0)
  PROVE  RangeOk(stream, req'[r])
<1> DEFINE q == req[r]
           p == req'[r]
<1>1. /\ p.header = q.header /\ p.sent = q.sent /\ p.done = q.done /\ p.plan = q.plan
      /\ p.pc = "wait" /\ p.blob = b
  BY DEF Await, RequestsTyped, RequestRecord
<1>2. /\ RangeOk(stream, q)
      /\ (Fresh(q) /\ Fresh(p)) \/ (Walking(q) /\ Walking(p) /\ p.blob = q.blob)
  BY <1>1 DEF RangeInv, Fresh, Walking
<1> HIDE DEF q, p
<1>3. RangeOk(stream, p)
  BY <1>1, <1>2, NothingWritten
<1> QED
  BY <1>3 DEF p

\* The answer plans what the headers promise.
LEMMA AnswerRange ==
  ASSUME RequestsTyped, RangeInv, NEW r \in Request, Fresh(req[r]), Answer(r)
  PROVE  RangeOk(stream, req'[r])
<1> DEFINE q == req[r]
           p == req'[r]
           range == RangeOf(stream, q.header)
           plan == PlanOf(stream, q.header)
<1>1. \/ \E status : Ends(r, status)
      \/ /\ ValidateDescriptor(stream.descriptor) /\ range.status = 206 /\ DOMAIN plan # {}
         /\ req' = [req EXCEPT ![r].pc = "walk", ![r].plan = plan, ![r].blob = Min(DOMAIN plan)]
  <2> DEFINE range0 == prepareStreamRange(req[r].header, stream.descriptor, stream.claim)
             plan0 == planStreamBlobs(stream.descriptor, range0)
  <2>1. range0 = range /\ plan0 = plan
    BY DEF RangeOf, PlanOf
  <2>2. \/ Ends(r, 500) \/ Ends(r, range0.status) \/ Ends(r, 206)
        \/ /\ ValidateDescriptor(stream.descriptor) /\ range0.status = 206 /\ DOMAIN plan0 # {}
           /\ req' = [req EXCEPT ![r].pc = "walk", ![r].plan = plan0, ![r].blob = Min(DOMAIN plan0)]
    BY Zenon DEF Answer
  <2> HIDE DEF range, plan, range0, plan0
  <2> QED
    BY <2>1, <2>2, Zenon
<1>2. CASE \E status : Ends(r, status)
  BY <1>2, EndsRange
<1>3. CASE /\ ValidateDescriptor(stream.descriptor) /\ range.status = 206 /\ DOMAIN plan # {}
           /\ req' = [req EXCEPT ![r].pc = "walk", ![r].plan = plan, ![r].blob = Min(DOMAIN plan)]
  <2>1. Promised(stream, q.header) /\ DOMAIN plan # {}
    BY <1>3 DEF Promised
  <2> HIDE DEF plan
  <2>2. /\ p.header = q.header /\ p.sent = q.sent /\ p.done = q.done
        /\ p.pc = "walk" /\ p.plan = plan /\ p.blob = Min(DOMAIN plan)
    BY <1>3 DEF RequestsTyped, RequestRecord
  <2>3. RangeOk(stream, q) /\ Fresh(q) /\ Known(stream)
    BY DEF RangeInv
  <2> HIDE DEF q, p
  <2>4. RangeOk(stream, p)
    BY <2>1, <2>2, <2>3, Planned DEF plan
  <2> QED
    BY <2>4 DEF p
<1> QED
  BY <1>1, <1>2, <1>3

\* What is written follows what was written.
LEMMA WriteRange ==
  ASSUME RequestsTyped, RangeInv, NEW r \in Request, Walking(req[r]), WriteBlob(r)
  PROVE  RangeOk(stream, req'[r])
<1> DEFINE q == req[r]
           p == req'[r]
           h == q.header
           b == q.blob
           sent == q.sent \o writePlannedBlob(stream.plain[b], q.plan[b])
           more == {i \in DOMAIN q.plan : i > b}
<1>1. /\ Promised(stream, h) /\ Begun(stream, h, sent)
      /\ more = {} => Len(sent) = RangeOf(stream, h).end - RangeOf(stream, h).start + 1
      /\ more # {} => Min(more) \in DOMAIN q.plan /\ Len(sent) = Before(stream, h, Min(more))
      /\ ~q.done /\ q.plan = PlanOf(stream, h)
  BY Written DEF RangeInv
<1>2. CASE more = {}
  <2>1. req' = [req EXCEPT ![r] = [req[r] EXCEPT !.pc = "release", !.status = 206, !.sent = sent,
                                                 !.done = TRUE, !.blob = 0]]
    BY <1>2 DEF WriteBlob
  <2> HIDE DEF sent
  <2>2. p = [req[r] EXCEPT !.pc = "release", !.status = 206, !.sent = sent, !.done = TRUE, !.blob = 0]
    BY <2>1 DEF RequestsTyped
  <2>3. p.header = h /\ p.sent = sent /\ p.pc = "release"
    BY <2>2 DEF RequestsTyped, RequestRecord
  <2> HIDE DEF p, h
  <2>4. RangeOk(stream, p)
    BY <1>1, <1>2, <2>3 DEF RangeOk, Fresh, Walking
  <2> QED
    BY <2>4 DEF p
<1>3. CASE more # {}
  <2>1. req' = [req EXCEPT ![r].pc = "walk", ![r].sent = sent, ![r].blob = Min(more)]
    BY <1>3 DEF WriteBlob
  <2> HIDE DEF sent, more
  <2>2. /\ p.header = h /\ p.sent = sent /\ p.pc = "walk" /\ p.blob = Min(more)
        /\ p.plan = q.plan /\ p.done = q.done
    BY <2>1 DEF RequestsTyped, RequestRecord
  <2> HIDE DEF p, h
  <2>3. RangeOk(stream, p)
    BY <1>1, <1>3, <2>2 DEF RangeOk, Fresh, Walking
  <2> QED
    BY <2>3 DEF p
<1> QED
  BY <1>2, <1>3

\* A step that only cancels requests, or wakes those who wait.
LEMMA WokenRange ==
  ASSUME RangeInv, UNCHANGED stream,
         \A r \in Request :
            /\ req'[r].header = req[r].header /\ req'[r].sent = req[r].sent /\ req'[r].done = req[r].done
            /\ req'[r].blob = req[r].blob /\ req'[r].plan = req[r].plan
            /\ req'[r].pc = req[r].pc \/ (req[r].pc = "wait" /\ req'[r].pc \in {"got", "lost"})
  PROVE  RangeInv'
<1>1. ASSUME NEW r \in Request PROVE RangeOk(stream, req'[r])
  <2> DEFINE q == req[r]
             p == req'[r]
  <2>1. /\ p.header = q.header /\ p.sent = q.sent /\ p.done = q.done
        /\ p.blob = q.blob /\ p.plan = q.plan
        /\ p.pc = q.pc \/ (q.pc = "wait" /\ p.pc \in {"got", "lost"})
    OBVIOUS
  <2>2. RangeOk(stream, q)
    BY DEF RangeInv
  <2> HIDE DEF q, p
  <2>3. p.pc = q.pc \/ (Fresh(q) /\ Fresh(p)) \/ (Walking(q) /\ Walking(p))
    BY <2>1 DEF Fresh, Walking
  <2>4. RangeOk(stream, p)
    BY <2>1, <2>2, <2>3, NothingWritten
  <2> QED
    BY <2>4 DEF p
<1> QED
  BY <1>1 DEF RangeInv

\* Only the answer and the blobs of a request change what it has planned and written.
LEMMA RequestRange ==
  ASSUME RequestsTyped, RangeInv, RequestStep PROVE RangeInv'
<1> USE DEF othersOfRequest, othersOfArrival
<1>1. ASSUME TimerFires \/ TimerStops \/ \E t \in firing : TimerRuns(t) PROVE RangeInv'
  <2>1. UNCHANGED <<stream, req>>
    BY <1>1 DEF TimerFires, TimerStops, TimerRuns
  <2> QED
    BY <2>1 DEF RangeInv
<1>2. ASSUME Shutdown PROVE RangeInv'
  <2>1. /\ UNCHANGED stream
        /\ req' = [r \in Request |-> IF req[r].pc \in {"new", "end"} THEN req[r]
                                     ELSE [req[r] EXCEPT !.cancelled = TRUE]]
    BY <1>2 DEF Shutdown
  <2> QED
    BY <2>1, WokenRange DEF RequestsTyped, RequestRecord
<1>3. ASSUME NEW b \in Blob, FlightEnds(b) PROVE RangeInv'
  <2> DEFINE pc == IF fetch[b].st = "won" THEN "got" ELSE "lost"
  <2>1. /\ UNCHANGED stream
        /\ req' = [r \in Request |-> IF r \notin Waiters(b) THEN req[r] ELSE [req[r] EXCEPT !.pc = pc]]
    BY <1>3 DEF FlightEnds
  <2>2. pc \in {"got", "lost"} /\ \A r \in Request : r \in Waiters(b) => req[r].pc = "wait"
    BY StreamingAssumption DEF Waiters
  <2> HIDE DEF pc
  <2> QED
    BY <2>1, <2>2, WokenRange DEF RequestsTyped, RequestRecord
<1>4. ASSUME NEW r \in Request, Disconnect(r) PROVE RangeInv'
  <2>1. UNCHANGED stream /\ req' = [req EXCEPT ![r].cancelled = TRUE]
    BY <1>4 DEF Disconnect
  <2> QED
    BY <2>1, WokenRange DEF RequestsTyped, RequestRecord
<1>5. ASSUME NEW r \in Request, Arrive(r) PROVE RangeInv'
  <2>1. UNCHANGED stream /\ Fresh(req[r])
    BY <1>5 DEF Arrive, Fresh
  <2>2. \/ Ends(r, 404)
        \/ req' = [req EXCEPT ![r].pc = "lookup", ![r].cancelled = @ \/ down]
    BY <1>5 DEF Arrive
  <2>3. RangeOk(stream, req'[r])
    BY <2>1, <2>2, EndsRange, GoesRange
  <2>4. \A p \in Request \ {r} : req'[p] = req[p]
    BY <2>2 DEF Ends, RequestsTyped
  <2> QED
    BY <2>1, <2>3, <2>4 DEF RangeInv
<1>6. ASSUME NEW r \in Request, ReleaseRequest(r) PROVE RangeInv'
  <2>1. UNCHANGED stream /\ req' = [req EXCEPT ![r].pc = "end", ![r].plan = << >>]
    BY <1>6 DEF ReleaseRequest
  <2> DEFINE q == req[r]
             p == req'[r]
  <2>2. p.header = q.header /\ p.sent = q.sent /\ p.done = q.done /\ p.pc = "end"
    BY <2>1 DEF RequestsTyped, RequestRecord
  <2>3. RangeOk(stream, q)
    BY DEF RangeInv
  <2>4. \A o \in Request \ {r} : req'[o] = req[o]
    BY <2>1 DEF RequestsTyped
  <2> HIDE DEF q, p
  <2>5. RangeOk(stream, p)
    BY <2>2, <2>3, NothingWritten
  <2> QED
    BY <2>1, <2>4, <2>5 DEF RangeInv, p
<1>7. ASSUME NEW r \in Request, Lookup(r) \/ Activate(r) \/ Describe(r) \/ Walk(r) \/ EnsureFails(r)
      PROVE  RangeInv'
  <2>1. UNCHANGED stream
    BY <1>7 DEF Lookup, Activate, Describe, Walk, EnsureFails
  <2>2. RangeOk(stream, req'[r])
    <3>1. CASE Lookup(r)
      <4>1. (\E status : Ends(r, status)) \/ req' = [req EXCEPT ![r].pc = "activate"]
        BY <3>1 DEF Lookup
      <4>2. Fresh(req[r])
        BY <3>1 DEF Lookup, Fresh
      <4> QED
        BY <4>1, <4>2, EndsRange, GoesRange
    <3>2. CASE Activate(r)
      <4>1. (\E status : Ends(r, status)) \/ req' = [req EXCEPT ![r].pc = "describe"]
        BY <3>2 DEF Activate
      <4>2. Fresh(req[r])
        BY <3>2 DEF Activate, Fresh
      <4> QED
        BY <4>1, <4>2, EndsRange, GoesRange
    <3>3. CASE Describe(r)
      <4>1. Answer(r) \/ Ends(r, 404) \/ Await(r, 0)
        BY <3>3 DEF Describe
      <4>2. Fresh(req[r])
        BY <3>3 DEF Describe, Fresh
      <4> QED
        BY <4>1, <4>2, EndsRange, AnswerRange, AwaitRange
    <3>4. CASE Walk(r)
      <4>1. WriteBlob(r) \/ Ends(r, 206) \/ Await(r, req[r].blob)
        BY <3>4 DEF Walk
      <4>2. Walking(req[r])
        BY <3>4 DEF Walk, Walking
      <4>3. req[r].blob # 0
        <5> DEFINE q == req[r]
        <5>1. RangeOk(stream, q) /\ Known(stream) /\ Walking(q)
          BY <4>2 DEF RangeInv
        <5> HIDE DEF q
        <5>2. Promised(stream, q.header) /\ q.blob \in DOMAIN PlanOf(stream, q.header)
          BY <5>1 DEF RangeOk
        <5>3. q.blob \in 1..Contents(stream) /\ Contents(stream) \in Nat
          <6>1. DOMAIN PlanOf(stream, q.header) \subseteq 1..Contents(stream)
            BY <5>1, <5>2, PlanFacts
          <6>2. Contents(stream) \in Nat
            BY <5>1, <5>2, DescriptorFacts DEF Promised
          <6> QED
            BY <5>2, <6>1, <6>2
        <5> QED
          BY <5>3 DEF q
      <4> QED
        BY <4>1, <4>2, <4>3, EndsRange, WriteRange, AwaitRange
    <3>5. CASE EnsureFails(r)
      BY <3>5, EndsRange DEF EnsureFails
    <3> QED
      BY <1>7, <3>1, <3>2, <3>3, <3>4, <3>5
  <2>3. Own(r)
    BY <1>7, RequestOwn
  <2> QED
    BY <2>1, <2>2, <2>3, OwnRange
<1> QED
  BY <1>1, <1>2, <1>3, <1>4, <1>5, <1>6, <1>7 DEF RequestStep

\* Operations only cancel requests.
LEMMA OpRange ==
  ASSUME RequestsTyped, RangeInv, OpStep PROVE RangeInv'
<1> USE DEF othersOfOp
<1>1. ASSUME NEW o \in Op, Cancel(o) \/ Block(o) PROVE RangeInv'
  <2>1. /\ UNCHANGED stream
        /\ req' = [r \in Request |-> IF r \in active THEN [req[r] EXCEPT !.cancelled = TRUE] ELSE req[r]]
    BY <1>1 DEF Cancel, Block, cancelManagedStream
  <2> QED
    BY <2>1, WokenRange DEF RequestsTyped, RequestRecord
<1>2. ASSUME UNCHANGED <<stream, req>> PROVE RangeInv'
  BY <1>2 DEF RangeInv
<1>3. SaveEnds => UNCHANGED <<stream, req>>
  BY DEF SaveEnds
<1>4. ASSUME NEW o \in Op,
             \/ Select(o) \/ FilesSave(o) \/ PauseFiles(o) \/ CleanFiles(o) \/ Allow(o)
             \/ ScheduleIdle(o) \/ MarkDeleting(o)
      PROVE  UNCHANGED <<stream, req>>
  BY <1>4 DEF Select, FilesSave, PauseFiles, CleanFiles, Allow, ScheduleIdle, MarkDeleting
<1>5. ASSUME NEW o \in Op,
             Drained(o) \/ FilesStops(o) \/ Purge(o) \/ Wipe(o) \/ FinishManagedFileDelete(o)
      PROVE  UNCHANGED <<stream, req>>
  BY <1>5 DEF Drained, FilesStops, Purge, Wipe, FinishManagedFileDelete
<1> QED
  BY <1>1, <1>2, <1>3, <1>4, <1>5 DEF OpStep

\* What every request has written and is about to write, in every state.
THEOREM RangeInvariance == Spec => []RangeInv
<1>1. ASSUME Init PROVE RangeInv
  <2> PICK s \in Scenarios : stream = s.stream /\ req = [r \in Request |-> NewRequest(s.requests[r])]
    BY <1>1 DEF Init
  <2>1. Known(stream)
    BY DEF Known
  <2>2. ASSUME NEW r \in Request
        PROVE  req[r].sent = << >> /\ req[r].done = FALSE /\ req[r].pc \in {"new", "end"}
    BY DEF NewRequest
  <2> QED
    BY <2>1, <2>2 DEF RangeInv, RangeOk, Fresh, Walking
<1>2. ASSUME QuietInv, RangeInv, [Next]_vars PROVE RangeInv'
  <2>1. RequestsTyped
    BY <1>2 DEF QuietInv
  <2>2. GetStep => UNCHANGED <<stream, req>>
    BY DEF GetStep, Forbid, Ask, GiveUp, WaitDone, WaitCancelled, Resolve, ListFiles, Pay,
           EnsureDescriptor, DescribeStream, Persist, Link, RegisterStream, SaveStream, AllowStream,
           Broadcast, WorkFails, CloseFlight, othersOfGet, othersOfWork
  <2>3. RequestStep \/ OpStep \/ UNCHANGED <<stream, req>>
    BY <1>2, <2>2 DEF Next, vars
  <2>4. ASSUME UNCHANGED <<stream, req>> PROVE RangeInv'
    BY <1>2, <2>4 DEF RangeInv
  <2> QED
    BY <1>2, <2>1, <2>3, <2>4, RequestRange, OpRange
<1> QED
  BY <1>1, <1>2, QuietInvariance, PTL DEF Spec

\* What a request has written is the beginning of the range its headers promised, and all of
\* it when it completed, for every descriptor, every size of the claim and every header, with
\* any number of blobs that are there, fetched or lost (planStreamBlobs, writePlannedBlob,
\* WalkStreamRange).
THEOREM RangeExactHolds == Spec => []RangeExact
<1>1. ASSUME RangeInv PROVE RangeExact
  <2> SUFFICES ASSUME NEW r \in Request, req[r].sent # << >>
               PROVE  LET wanted == Wanted(prepareStreamRange(req[r].header, stream.descriptor, stream.claim))
                          n == Len(req[r].sent)
                      IN  /\ n <= Len(wanted) /\ req[r].sent = SubSeq(wanted, 1, n)
                          /\ req[r].done => n = Len(wanted)
    BY DEF RangeExact
  <2> DEFINE q == req[r]
             h == q.header
             start == RangeOf(stream, h).start
             end == RangeOf(stream, h).end
             wanted == Wanted(RangeOf(stream, h))
             sent == q.sent
             n == Len(sent)
             k == end - start + 1
             Byte == {ByteAt(stream, start + i) : i \in 1..k}
  <2>1. /\ Known(stream) /\ Promised(stream, h) /\ Begun(stream, h, sent)
        /\ q.done => n = k
    BY <1>1 DEF RangeInv, RangeOk
  <2> HIDE DEF h, sent
  <2>2. start \in Nat /\ end \in Nat /\ start <= end
    BY <2>1, RangeFacts
  <2>3. /\ sent \in Seq(Nat) /\ n \in Nat /\ n <= k
        /\ \A i \in 1..n : sent[i] = ByteAt(stream, start + i)
    BY <2>1 DEF Begun
  <2>4. wanted = [i \in 1..k |-> ByteAt(stream, start + i)]
    BY Zenon DEF Wanted, ByteAt, File
  <2> HIDE DEF start, end, wanted, n
  <2>5. k \in Nat
    BY <2>2
  <2> HIDE DEF k
  <2>6. /\ wanted \in Seq(Byte) /\ Len(wanted) = k
        /\ \A i \in 1..k : wanted[i] = ByteAt(stream, start + i)
    BY <2>4, <2>5
  <2> HIDE DEF Byte
  <2>7. sent = SubSeq(wanted, 1, n)
    <3>1. \A i \in 1..n : i \in 1..k
      BY <2>3, <2>5
    <3>2. \A i \in 1..n : sent[i] = wanted[i]
      BY <2>3, <2>6, <3>1
    <3>3. SubSeq(wanted, 1, n) \in Seq(Byte) /\ Len(SubSeq(wanted, 1, n)) = n
      BY <2>3, <2>6
    <3>4. \A i \in 1..n : SubSeq(wanted, 1, n)[i] = wanted[i]
      BY <2>3, <2>6
    <3>5. Len(sent) = n
      BY DEF n
    <3> DEFINE sub == SubSeq(wanted, 1, n)
    <3>6. sub \in Seq(Byte) /\ Len(sub) = Len(sent) /\ \A i \in 1..Len(sent) : sent[i] = sub[i]
      BY <3>2, <3>3, <3>4, <3>5
    <3> HIDE DEF sub
    <3>7. sent = sub
      BY <2>3, <3>6
    <3> QED
      BY <3>7 DEF sub
  <2>8. n <= Len(wanted) /\ (q.done => n = Len(wanted))
    BY <2>1, <2>3, <2>6
  <2> QED
    BY <2>7, <2>8, Zenon DEF wanted, n, sent, h, RangeOf
<1> QED
  BY <1>1, RangeInvariance, PTL
=============================================================================
