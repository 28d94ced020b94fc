----------------------------- MODULE Streaming -----------------------------
(* Playing, getting and deleting one managed stream: the HTTP requests of the *)
(* stream server with their idle timer (stream/server.go), the file           *)
(* operations that stop, block or allow them (streamingFileController in       *)
(* app.go, rpc/file_mutations.go), and the managed gets that bring the stream  *)
(* in and pay for it (rpc/get.go).                                            *)
(*                                                                            *)
(* Everything is keyed by the descriptor's hash, so one stream stands for     *)
(* all. Blob 0 is the descriptor. The file manager appears with the calls the  *)
(* stream server makes of it; FileManager models its saves, BlobManager the    *)
(* store, Spending the money and Resolve the resolution.                      *)
EXTENDS BlobExchange, Sequences, FiniteSetsExt

CONSTANTS
    Request,        \* HTTP requests for the stream, each made at most once
    Op,             \* file_set_status, file_save, file_delete and blob_clean calls
    Get,            \* managed gets
    NoGet,
    Scenarios,      \* what is there at the start and who calls what
    BlockSize,      \* aes.BlockSize
    MaxBlobSize,
    MaxFaults       \* disconnections, cancellations, failures and shutdowns

\* The stream's row in memory and in the database, and the calls that change it.
\* A row without an output file is only streamed, and one that was saved stays saved.
Row == [managed : BOOLEAN, persisted : BOOLEAN, status : {"running", "stopped", "finished"},
        saving : BOOLEAN, file : {"none", "named", "saved"}]
OpKind == {"none", "start", "stop", "save", "delete", "clean"}

ASSUME StreamingAssumption ==
    /\ Blob \subseteq Nat /\ 0 \in Blob
    /\ {BlockSize, MaxBlobSize, MaxFaults} \subseteq Nat
    /\ NoGet \notin Get /\ Request \intersect Get = {}
    /\ \A s \in Scenarios :
        /\ s.row \in Row /\ s.ops \in [Op -> OpKind]
        /\ s.world.found \subseteq Peer
        /\ \A r \in s.world.trackers \union s.world.fixed : r.peers \subseteq Peer

VARIABLES
    stream,         \* the descriptor and plaintexts; the claim: readable, its size, priced
    row,            \* the stream's row: managed (in memory), persisted, status, saving, file
    active,         \* registered requests
    blocked,        \* the stream is blocked
    timer,          \* idleTimers: 0 or the number of the timer that has yet to do its work
    firing,         \* timers whose function has been called
    idling,         \* the timer function that holds lifecycleMu for streamIdle, or 0
    timers,         \* timers made so far
    req, op, get,
    flights,        \* getFlights: the worker by key, a get's own name
    flight,         \* the workers, named for the get that launched them
    deleting,       \* streamingFileController.deleting
    down,           \* Shutdown was called
    payments,       \* purchases the server accepted
    faults,
    overruled,      \* history: requests whose stream was stopped by command or forgotten
    lifted,         \* history: deletions whose block or mark somebody else lifted
    missed,         \* history: since the last request or save, what would stop the row failed
    renewed         \* history: the row was deleted, or gets with two keys ran

serverVars == <<active, blocked, timer, firing, idling, timers>>
getVars == <<get, flights, flight, payments, renewed>>
vars == <<world, cache, fetch, stream, row, serverVars, req, op, getVars, deleting, down,
          faults, overruled, lifted, missed>>

---------------------------------------------------------------------------
(* Descriptors, ranges and plans.                                             *)

\* ValidateDescriptor: the numbers, the lengths and the terminator. "intact"
\* stands for the hash, key, ivs, names and the stream hash.
ValidateDescriptor(d) ==
    LET last == Len(d.blobs)
    IN  /\ d.intact /\ last > 0
        /\ \A i \in 1..last : d.blobs[i].num = i - 1
        /\ \A i \in 1..(last - 1) :
               /\ d.blobs[i].length \in BlockSize..MaxBlobSize
               /\ d.blobs[i].length % BlockSize = 0
        /\ d.blobs[last].length = 0

\* ContentBlobs leaves the empty terminator out. Of a blob's length at least one byte is
\* padding.
ContentLength(info) == IF info.length > 0 THEN info.length - 1 ELSE 0

\* The bytes of text that the first n blobs promise.
Position(blobs) ==
    LET position[n \in 0..Len(blobs)] ==
            IF n = 0 THEN 0 ELSE position[n - 1] + ContentLength(blobs[n])
    IN  position

Total(d) == Position(d.blobs)[Len(d.blobs)]

\* prepareStreamRangeWithClaimSize. A header is none, malformed, or a start with
\* an end or without one; text that is no number is a start below zero.
Implausible(d, claim) == claim > 0 /\ (claim > Total(d) \/ Total(d) - claim > BlockSize)

prepareStreamRange(header, d, claim) ==
    LET total == IF claim > 0 THEN claim ELSE Total(d)
        start == IF header.form = "none" THEN 0 ELSE header.start
        end == IF header.form = "closed" THEN header.end ELSE total - 1
        Outcome(status) == [status |-> status, start |-> start, end |-> end]
    IN  IF Implausible(d, claim) THEN Outcome(500)
        ELSE IF total <= 0 THEN Outcome(416)
        ELSE IF header.form = "malformed" THEN Outcome(500)
        ELSE IF start \notin 0..(total - 1) \/ end \notin start..(total - 1) THEN Outcome(416)
        ELSE Outcome(206)

\* Mutant: the end of a blob is counted with its padding byte.
planStreamBlobsPadded(d, range) ==
    LET before(i) == Position(d.blobs)[i - 1] + i - 1
        length(i) == d.blobs[i].length
        wanted == {i \in 1..(Len(d.blobs) - 1) : /\ range.start < before(i) + length(i)
                                                 /\ range.end >= before(i)}
    IN  [i \in wanted |-> [start |-> Max({range.start - before(i), 0}),
                           end |-> Min({range.end - before(i) + 1, length(i)})]]

\* planStreamBlobs: the part [start, end) of each blob but the terminator that is wanted.
planStreamBlobs(d, range) ==
    LET before(i) == Position(d.blobs)[i - 1]
        length(i) == d.blobs[i].length - 1
        wanted == {i \in 1..(Len(d.blobs) - 1) : /\ range.start < before(i) + length(i)
                                                 /\ range.end >= before(i)}
    IN  [i \in wanted |-> [start |-> Max({range.start - before(i), 0}),
                           end |-> Min({range.end - before(i) + 1, length(i)})]]

\* What the blobs of a stream decrypt to. The padding that DecryptBlob removes has at least
\* one byte, and CreateStreamDescriptor fills every blob but the last.
ASSUME PlaintextAssumption ==
    /\ BlockSize > 0
    /\ \A s \in Scenarios :
        LET blobs == s.stream.descriptor.blobs
            plain == s.stream.plain
        IN  /\ s.stream.claim \in Nat
            /\ blobs \in Seq([num : Int, length : Int]) /\ plain \in Seq(Seq(Nat))
            /\ ValidateDescriptor(s.stream.descriptor) =>
                /\ Len(plain) = Len(blobs) - 1
                /\ \A i \in 1..Len(plain) : /\ Len(plain[i]) <= blobs[i].length - 1
                                            /\ i < Len(plain) => Len(plain[i]) = blobs[i].length - 1

Zeroes(n) == [i \in 1..n |-> 0]

\* writePlannedBlob: the plaintext, then zeroes for what the descriptor promised.
writePlannedBlob(data, part) ==
    SubSeq(data, part.start + 1, Min({part.end, Len(data)}))
        \o Zeroes(Max({part.end - Max({part.start, Len(data)}), 0}))

---------------------------------------------------------------------------
(* The file manager, as the stream server and the operations use it.          *)

\* MarkManagedStreamActive.
MarkActive == IF row.managed /\ row.status = "stopped" THEN [row EXCEPT !.status = "running"] ELSE row

\* While a cleanup of the disk goes on.
Paused == \E o \in Op : op[o].pc = "clean"

\* StopManagedStreamIfIdle.
StopIfIdle ==
    IF row.managed /\ ~row.saving /\ ~Paused /\ row.status = "running"
    THEN [row EXCEPT !.status = "stopped"] ELSE row

\* prepareSave and launchSave.
FilesBegin == [row EXCEPT !.saving = TRUE, !.status = "running",
                          !.file = IF @ = "saved" THEN @ ELSE "named"]

\* StopManagedFile: the save is cancelled and awaited.
FilesStop == [row EXCEPT !.saving = FALSE,
                         !.status = IF @ = "finished" THEN @ ELSE "stopped"]

Fault == faults < MaxFaults /\ faults' = faults + 1

---------------------------------------------------------------------------
(* registerStream, its release, and the idle timer.                           *)

\* scheduleIdleLocked.
Schedule ==
    IF blocked \/ down THEN UNCHANGED <<timer, timers>>
    ELSE timers' = timers + 1 /\ timer' = timers + 1

registerStream(r) ==
    /\ timer' = 0
    /\ active' = active \union {r}
    /\ UNCHANGED <<blocked, firing, idling, timers>>

Release(r) ==
    /\ active' = active \ {r}
    /\ IF active = {r} THEN Schedule ELSE UNCHANGED <<timer, timers>>
    /\ UNCHANGED <<blocked, firing, idling>>

\* The delay of the timer in the map is over.
TimerFires ==
    /\ timer # 0 /\ timer \notin firing
    /\ firing' = firing \union {timer}
    /\ UNCHANGED <<world, cache, fetch, stream, row, active, blocked, timer, idling, timers, req,
                   op, getVars, deleting, down, faults, overruled, lifted, missed>>

\* Its function, with lifecycleMu: it looks whether it is still wanted, and whether it did
\* not wait for the mutex until its five seconds were over ...
TimerRuns(t) ==
    /\ t \in firing /\ idling = 0
    /\ firing' = firing \ {t}
    /\ \/ /\ IF timer # t \/ active # {} \/ blocked \/ down
             THEN UNCHANGED <<timer, idling>>
             ELSE timer' = 0 /\ idling' = t
          /\ UNCHANGED <<faults, missed>>
       \/ timer = t /\ timer' = 0 /\ Fault /\ missed' = TRUE /\ UNCHANGED idling
    /\ UNCHANGED <<world, cache, fetch, stream, row, active, blocked, timers, req, op, getVars,
                   deleting, down, overruled, lifted>>

\* ... and stops the stream without activeMu. Nobody tries again when that fails, takes
\* longer than what is left of the five seconds, or finds the file manager paused.
TimerStops ==
    /\ idling # 0
    /\ idling' = 0
    /\ \/ /\ row' = IF down THEN row ELSE StopIfIdle
          /\ missed' = (missed \/ Paused)
          /\ UNCHANGED faults
       \/ Fault /\ missed' = TRUE /\ UNCHANGED row
    /\ UNCHANGED <<world, cache, fetch, stream, active, blocked, timer, firing, timers, req, op,
                   getVars, deleting, down, overruled, lifted>>

---------------------------------------------------------------------------
(* The blob manager: a hit, or a flight that is joined or launched. When its  *)
(* last waiter leaves the flight is cancelled.                                *)

Waiters(b) ==
    {r \in Request : req[r].pc = "wait" /\ req[r].blob = b}
        \union {g \in Get : flight[g].pc = "wait" /\ b = 0}

Join(b) == IF fetch[b].st = "none" THEN Launch(b) ELSE UNCHANGED fetch

LeaveFlight(b, who) ==
    fetch' = IF Waiters(b) = {who} THEN [fetch EXCEPT ![b] = NoFetch] ELSE fetch

\* The flight ends: what it won is stored, and everyone who waits wakes.
FlightEnds(b) ==
    /\ fetch[b].st \in {"won", "failed"}
    /\ LET won == fetch[b].st = "won"
       IN  /\ cache' = IF won THEN cache \union {b} ELSE cache
           /\ req' = [r \in Request |-> IF r \notin Waiters(b) THEN req[r]
                                        ELSE [req[r] EXCEPT !.pc = IF won THEN "got" ELSE "lost"]]
           /\ flight' = [g \in Get |-> IF g \notin Waiters(b) THEN flight[g]
                                       ELSE [flight[g] EXCEPT !.pc = IF won THEN flight[g].next ELSE "fail"]]
    /\ fetch' = [fetch EXCEPT ![b] = NoFetch]
    /\ UNCHANGED <<world, stream, row, serverVars, op, get, flights, payments, renewed, deleting,
                   down, faults, overruled, lifted, missed>>

---------------------------------------------------------------------------
(* handleSDHash.                                                              *)

Ends(r, status) ==
    req' = [req EXCEPT ![r].pc = IF r \in active THEN "release" ELSE "end", ![r].status = status,
                       ![r].blob = 0]

othersOfArrival == <<world, stream, op, getVars, deleting, down, overruled, lifted>>
othersOfRequest == <<othersOfArrival, missed>>

\* The request arrives; when the server is going down its context is born
\* cancelled. A blocked stream is not found.
Arrive(r) ==
    /\ req[r].pc = "new"
    /\ IF blocked
       THEN Ends(r, 404) /\ UNCHANGED <<serverVars, missed>>
       ELSE /\ registerStream(r)
            /\ req' = [req EXCEPT ![r].pc = "lookup", ![r].cancelled = @ \/ down]
            /\ missed' = FALSE
    /\ UNCHANGED <<othersOfArrival, cache, fetch, row, faults>>

\* The managed stream lookup. A cancelled one may fail; the claim may not decode.
Lookup(r) ==
    /\ req[r].pc = "lookup"
    /\ \/ req[r].cancelled /\ Ends(r, 0)
       \/ ~row.managed /\ Ends(r, 404)
       \/ row.managed /\ ~stream.readable /\ Ends(r, 500)
       \/ row.managed /\ stream.readable /\ req' = [req EXCEPT ![r].pc = "activate"]
    /\ UNCHANGED <<othersOfRequest, cache, fetch, row, serverVars, faults>>

\* Mutant: the activation does not take lifecycleMu.
MayActivateAnyway == TRUE

\* lifecycleMu is held for the call of streamActive.
MayActivate == idling = 0

Activate(r) ==
    /\ req[r].pc = "activate" /\ MayActivate
    /\ IF MarkActive # row /\ req[r].cancelled
       THEN Ends(r, 0) /\ UNCHANGED row
       ELSE row' = MarkActive /\ req' = [req EXCEPT ![r].pc = "describe"]
    /\ UNCHANGED <<othersOfRequest, cache, fetch, serverVars, faults>>

\* GetLocal or Ensure.
Await(r, b) ==
    /\ req' = [req EXCEPT ![r].pc = "wait", ![r].blob = b]
    /\ Join(b)

\* The descriptor is decoded and the range prepared and planned; the headers
\* promise it. HEAD ends here.
Answer(r) ==
    LET range == prepareStreamRange(req[r].header, stream.descriptor, stream.claim)
    IN  IF ~ValidateDescriptor(stream.descriptor) THEN Ends(r, 500)
        ELSE IF range.status # 206 THEN Ends(r, range.status)
        ELSE IF req[r].head THEN Ends(r, 206)
        ELSE LET plan == planStreamBlobs(stream.descriptor, range)
             IN  IF DOMAIN plan = {} THEN Ends(r, 500)
                 ELSE req' = [req EXCEPT ![r].pc = "walk", ![r].plan = plan, ![r].blob = Min(DOMAIN plan)]

Describe(r) ==
    /\ \/ req[r].pc = "describe" \/ (req[r].pc = "got" /\ req[r].blob = 0)
    /\ IF 0 \in cache THEN Answer(r) /\ UNCHANGED fetch
       ELSE IF req[r].pc = "got" THEN Ends(r, 404) /\ UNCHANGED fetch
       ELSE Await(r, 0)
    /\ UNCHANGED <<othersOfRequest, cache, row, serverVars, faults>>

\* WalkStreamRange: one blob is acquired, decrypted and written.
WriteBlob(r) ==
    LET b == req[r].blob
        sent == req[r].sent \o writePlannedBlob(stream.plain[b], req[r].plan[b])
        more == {i \in DOMAIN req[r].plan : i > b}
    IN  IF more = {}
        THEN req' = [req EXCEPT ![r] = [@ EXCEPT !.pc = "release", !.status = 206, !.sent = sent,
                                                 !.done = TRUE, !.blob = 0]]
        ELSE req' = [req EXCEPT ![r].pc = "walk", ![r].sent = sent, ![r].blob = Min(more)]

Walk(r) ==
    /\ \/ req[r].pc = "walk" \/ (req[r].pc = "got" /\ req[r].blob # 0)
    /\ IF req[r].cancelled THEN Ends(r, 206) /\ UNCHANGED fetch
       ELSE IF req[r].blob \in cache THEN WriteBlob(r) /\ UNCHANGED fetch
       ELSE IF req[r].pc = "got" THEN Ends(r, 206) /\ UNCHANGED fetch
       ELSE Await(r, req[r].blob)
    /\ UNCHANGED <<othersOfRequest, cache, row, serverVars, faults>>

\* Ensure returns the error of the flight, or leaves it.
EnsureFails(r) ==
    /\ \/ req[r].pc = "lost" /\ UNCHANGED fetch
       \/ req[r].pc = "wait" /\ req[r].cancelled /\ LeaveFlight(req[r].blob, r)
    /\ Ends(r, IF req[r].blob = 0 /\ ~req[r].cancelled THEN 404 ELSE 206)
    /\ UNCHANGED <<othersOfRequest, cache, row, serverVars, faults>>

\* The deferred release closes the stream's done channel.
ReleaseRequest(r) ==
    /\ req[r].pc = "release"
    /\ Release(r)
    /\ req' = [req EXCEPT ![r].pc = "end", ![r].plan = << >>]
    /\ UNCHANGED <<othersOfRequest, cache, fetch, row, faults>>

\* The client goes away.
Disconnect(r) ==
    /\ req[r].pc \notin {"new", "end"} /\ ~req[r].cancelled
    /\ Fault
    /\ req' = [req EXCEPT ![r].cancelled = TRUE]
    /\ UNCHANGED <<othersOfRequest, cache, fetch, row, serverVars>>

\* Shutdown cancels every stream and stops the timers. The daemon stops the file manager
\* when it shuts down too.
Shutdown ==
    /\ ~down /\ Fault
    /\ down' = TRUE
    /\ timer' = 0
    /\ req' = [r \in Request |-> IF req[r].pc \in {"new", "end"} THEN req[r]
                                 ELSE [req[r] EXCEPT !.cancelled = TRUE]]
    /\ get' = [g \in Get |-> IF get[g].pc = "wait" /\ get[g].http
                             THEN [get[g] EXCEPT !.cancelled = TRUE] ELSE get[g]]
    /\ UNCHANGED <<world, cache, fetch, stream, row, active, blocked, firing, idling, timers, op,
                   flights, flight, payments, renewed, deleting, overruled, lifted, missed>>

RequestStep ==
    \/ TimerFires \/ TimerStops \/ Shutdown
    \/ \E t \in firing : TimerRuns(t)
    \/ \E b \in Blob : FlightEnds(b)
    \/ \E r \in Request :
           \/ Arrive(r) \/ Lookup(r) \/ Activate(r) \/ Describe(r) \/ Walk(r)
           \/ EnsureFails(r) \/ ReleaseRequest(r) \/ Disconnect(r)

---------------------------------------------------------------------------
(* File operations. Their handlers list the row first; the controller then    *)
(* makes its calls of the file manager and the stream server in order.        *)

othersOfOp == <<world, fetch, stream, req, getVars, down>>

Goto(o, pc) == op' = [op EXCEPT ![o].pc = pc]

\* handleFileSetStatus, handleFileSave and handleFileDelete choose the row.
Select(o) ==
    /\ op[o].pc = "new" /\ op[o].kind # "clean"
    /\ Goto(o, IF \/ ~row.persisted
                  \/ op[o].kind = "start" /\ row.status = "running"
                  \/ op[o].kind = "stop" /\ row.status # "running" THEN "end"
               ELSE CASE op[o].kind \in {"start", "save"} -> "save"
                      [] op[o].kind = "stop" -> "cancel"
                      [] op[o].kind = "delete" -> "mark")
    /\ UNCHANGED <<othersOfOp, cache, row, serverVars, deleting, faults, overruled, lifted, missed>>

\* SaveManagedFile: the save runs on its own and the call returns when it has
\* begun, ended or timed out. A call that fails has changed nothing, has cancelled the save
\* before it, has marked the row as running or has left the new save behind.
FilesSave(o) ==
    /\ op[o].pc = "save"
    /\ \/ /\ ~Paused
          /\ row' = FilesBegin /\ missed' = FALSE
          /\ Goto(o, "allow")
          /\ UNCHANGED faults
       \/ Paused /\ Goto(o, "end") /\ UNCHANGED <<row, faults, missed>>
       \/ /\ ~Paused /\ Fault /\ Goto(o, "end") /\ missed' = TRUE
          /\ row' \in {row, [row EXCEPT !.saving = FALSE], [FilesBegin EXCEPT !.saving = FALSE],
                        FilesBegin}
    /\ UNCHANGED <<othersOfOp, cache, serverVars, deleting, overruled, lifted>>

\* The save of the file is over, or could not begin in time.
SaveEnds ==
    /\ row.saving
    /\ \/ /\ row' = [row EXCEPT !.saving = FALSE, !.status = "finished", !.file = "saved"]
          /\ UNCHANGED overruled
       \/ /\ row' = [row EXCEPT !.saving = FALSE, !.status = "stopped"]
          /\ overruled' = overruled \union active
    /\ UNCHANGED <<othersOfOp, cache, op, serverVars, deleting, faults, lifted, missed>>

\* Clean of the disk space manager, one at a time. Pause cancels the save and awaits it;
\* the row stays running.
PauseFiles(o) ==
    /\ op[o].pc = "new" /\ op[o].kind = "clean" /\ ~Paused
    /\ Goto(o, "clean")
    /\ row' = [row EXCEPT !.saving = FALSE]
    /\ missed' = (missed \/ row.saving)
    /\ UNCHANGED <<othersOfOp, cache, serverVars, deleting, faults, overruled, lifted>>

\* Some blobs are deleted, and Resume begins the saves of running rows with an output file
\* that was not saved yet, unless it cannot list them.
CleanFiles(o) ==
    /\ op[o].pc = "clean"
    /\ Goto(o, "end")
    /\ cache' \in SUBSET cache
    /\ \/ /\ IF row.persisted /\ row.status = "running" /\ row.file = "named"
             THEN row' = FilesBegin /\ missed' = FALSE
             ELSE UNCHANGED <<row, missed>>
          /\ UNCHANGED faults
       \/ Fault /\ UNCHANGED <<row, missed>>
    /\ UNCHANGED <<othersOfOp, serverVars, deleting, overruled, lifted>>

\* The deletions under way that have blocked the stream, and with them the ones that have
\* only marked it as being deleted.
Deleters == {d \in Op : op[d].kind = "delete" /\ op[d].pc \in {"drain", "stop", "purge", "wipe", "finish"}}

Markers == Deleters \union {d \in Op : op[d].kind = "delete" /\ op[d].pc = "block"}

\* AllowManagedStream, after a start or a save.
Allow(o) ==
    /\ op[o].pc = "allow"
    /\ blocked' = FALSE
    /\ lifted' = lifted \union Deleters
    /\ Goto(o, IF op[o].kind = "start" THEN "schedule" ELSE "end")
    /\ UNCHANGED <<othersOfOp, cache, row, active, timer, firing, idling, timers, deleting, faults,
                   overruled, missed>>

\* ScheduleManagedStreamIdle: an old timer is stopped, not removed.
ScheduleIdle(o) ==
    /\ op[o].pc = "schedule"
    /\ IF active = {} THEN Schedule ELSE UNCHANGED <<timer, timers>>
    /\ Goto(o, "end")
    /\ UNCHANGED <<othersOfOp, cache, row, active, blocked, firing, idling, deleting, faults,
                   overruled, lifted, missed>>

\* cancelManagedStream: the requests it finds are cancelled, then awaited.
cancelManagedStream(o, block) ==
    /\ blocked' = (blocked \/ block)
    /\ timer' = 0
    /\ req' = [r \in Request |-> IF r \in active THEN [req[r] EXCEPT !.cancelled = TRUE] ELSE req[r]]
    /\ op' = [op EXCEPT ![o].pc = "drain", ![o].waits = active]
    /\ UNCHANGED <<active, firing, idling, timers>>

Cancel(o) ==
    /\ op[o].pc = "cancel"
    /\ cancelManagedStream(o, FALSE)
    /\ UNCHANGED <<world, cache, fetch, stream, getVars, down, row, deleting, faults, overruled,
                   lifted, missed>>

\* PrepareManagedFileDelete: controller.mu, then the block.
MarkDeleting(o) ==
    /\ op[o].pc = "mark"
    /\ deleting' = TRUE
    /\ Goto(o, "block")
    /\ UNCHANGED <<othersOfOp, cache, row, serverVars, faults, overruled, lifted, missed>>

Block(o) ==
    /\ op[o].pc = "block"
    /\ cancelManagedStream(o, TRUE)
    /\ UNCHANGED <<world, cache, fetch, stream, getVars, down, row, deleting, faults, overruled,
                   lifted, missed>>

\* finishDelete, which also undoes the block and the mark of another deletion.
Unmark(o) ==
    /\ blocked' = FALSE
    /\ deleting' = FALSE
    /\ lifted' = lifted \union (Markers \ {o})
    /\ op' = [op EXCEPT ![o].pc = "end", ![o].waits = {}]
    /\ UNCHANGED <<active, timer, firing, idling, timers>>

\* The deletion is done: the file manager forgets the row.
Finish(o) ==
    /\ Unmark(o)
    /\ row' = [row EXCEPT !.managed = FALSE]
    /\ overruled' = overruled \union active
    /\ UNCHANGED missed

\* A stop or a deletion fails, after it has taken the timer, and leaves the row so.
Fails(o, left) ==
    /\ Fault
    /\ IF op[o].kind = "delete" THEN Unmark(o)
       ELSE Goto(o, "end") /\ UNCHANGED <<serverVars, deleting, lifted>>
    /\ row' = left
    /\ overruled' = IF left = row THEN overruled ELSE overruled \union active
    /\ missed' = TRUE

\* Every awaited request is done, or the caller's context is.
Drained(o) ==
    /\ op[o].pc = "drain"
    /\ \/ /\ \A r \in op[o].waits : req[r].pc = "end"
          /\ op' = [op EXCEPT ![o].pc = "stop", ![o].waits = {}]
          /\ UNCHANGED <<row, serverVars, deleting, faults, overruled, lifted, missed>>
       \/ Fails(o, row)
    /\ UNCHANGED <<othersOfOp, cache>>

\* StopManagedFile of the file manager. When the context ends while it awaits the save, the
\* row is marked as stopped before the call fails, and the save may still wind down.
FilesStops(o) ==
    /\ op[o].pc = "stop"
    /\ \/ /\ row' = FilesStop
          /\ overruled' = overruled \union active
          /\ Goto(o, IF op[o].kind = "delete" THEN "purge" ELSE "end")
          /\ UNCHANGED <<serverVars, deleting, faults, lifted, missed>>
       \/ Fails(o, row)
       \/ /\ row.saving
          /\ \E saving \in BOOLEAN : Fails(o, [row EXCEPT !.status = "stopped", !.saving = saving])
    /\ UNCHANGED <<othersOfOp, cache>>

\* DeleteManagedStream of the database.
Purge(o) ==
    /\ op[o].pc = "purge"
    /\ \/ /\ row' = [row EXCEPT !.persisted = FALSE]
          /\ renewed' = TRUE
          /\ Goto(o, "wipe")
          /\ UNCHANGED <<serverVars, deleting, faults, overruled, lifted, missed>>
       \/ Fails(o, row) /\ UNCHANGED renewed
    /\ UNCHANGED <<world, fetch, stream, req, get, flights, flight, payments, down, cache>>

\* The blobs and the output file; when one cannot be removed the rest stays.
Wipe(o) ==
    /\ op[o].pc = "wipe"
    /\ \/ /\ cache' = {} /\ Goto(o, "finish")
          /\ UNCHANGED <<row, serverVars, deleting, faults, overruled, lifted, missed>>
       \/ Fault /\ Finish(o) /\ cache' \in SUBSET cache
    /\ UNCHANGED othersOfOp

FinishManagedFileDelete(o) ==
    /\ op[o].pc = "finish"
    /\ Finish(o)
    /\ UNCHANGED <<othersOfOp, cache, faults>>

OpStep ==
    \/ SaveEnds
    \/ \E o \in Op :
           \/ Select(o) \/ FilesSave(o) \/ PauseFiles(o) \/ CleanFiles(o) \/ Allow(o) \/ ScheduleIdle(o) \/ Cancel(o)
           \/ MarkDeleting(o) \/ Block(o) \/ Drained(o) \/ FilesStops(o) \/ Purge(o) \/ Wipe(o)
           \/ FinishManagedFileDelete(o)

---------------------------------------------------------------------------
(* Managed gets: calls with the same parameters share one worker, which the   *)
(* last of them to give up cancels. A call the worker makes with a cancelled   *)
(* context fails.                                                             *)

othersOfGet == <<world, stream, req, op, deleting, down, overruled, missed>>

NoFlight == [pc |-> "none", next |-> "none", cancelled |-> FALSE, waiters |-> 0,
             payment |-> "none", result |-> "none"]

\* handleGet of the stream server, with streaming_get off.
Forbidden(g) == get[g].http /\ ~get[g].enabled

Forbid(g) ==
    /\ get[g].pc = "new" /\ Forbidden(g)
    /\ get' = [get EXCEPT ![g].pc = "end", ![g].result = "forbidden"]
    /\ UNCHANGED <<othersOfGet, cache, fetch, row, serverVars, flights, flight, payments, renewed,
                   faults, lifted>>

\* downloadFromURI, from the stream server's handleGet or from the RPC.
Ask(g) ==
    /\ get[g].pc = "new" /\ ~Forbidden(g)
    /\ LET running == flights[get[g].key]
       IN  IF running = NoGet
           THEN /\ flights' = [flights EXCEPT ![get[g].key] = g]
                /\ flight' = [flight EXCEPT ![g] = [NoFlight EXCEPT !.pc = "resolve", !.waiters = 1]]
                /\ get' = [get EXCEPT ![g].pc = "wait", ![g].on = g, ![g].cancelled = get[g].http /\ down]
           ELSE /\ flight' = [flight EXCEPT ![running].waiters = @ + 1]
                /\ get' = [get EXCEPT ![g].pc = "wait", ![g].on = running, ![g].cancelled = get[g].http /\ down]
                /\ UNCHANGED flights
    /\ UNCHANGED <<othersOfGet, cache, fetch, row, serverVars, payments, renewed, faults, lifted>>

GiveUp(g) ==
    /\ get[g].pc = "wait" /\ ~get[g].cancelled /\ Fault
    /\ get' = [get EXCEPT ![g].cancelled = TRUE]
    /\ UNCHANGED <<othersOfGet, cache, fetch, row, serverVars, flights, flight, payments, renewed,
                   lifted>>

\* waitManagedGet.
WaitDone(g) ==
    /\ get[g].pc = "wait" /\ flight[get[g].on].pc = "done"
    /\ get' = [get EXCEPT ![g].pc = "end", ![g].result = flight[get[g].on].result]
    /\ UNCHANGED <<othersOfGet, cache, fetch, row, serverVars, flights, flight, payments, renewed,
                   faults, lifted>>

\* Mutant: the worker that nobody waits for goes on.
AbandonRunning(f) ==
    IF flight[f].waiters > 1
    THEN UNCHANGED flights /\ flight' = [flight EXCEPT ![f].waiters = @ - 1]
    ELSE /\ flights' = [k \in DOMAIN flights |-> IF flights[k] = f THEN NoGet ELSE flights[k]]
         /\ flight' = [flight EXCEPT ![f].waiters = 0]

\* The last waiter takes the worker out of getFlights and cancels it.
Abandon(f) ==
    IF flight[f].waiters > 1
    THEN UNCHANGED flights /\ flight' = [flight EXCEPT ![f].waiters = @ - 1]
    ELSE /\ flights' = [k \in DOMAIN flights |-> IF flights[k] = f THEN NoGet ELSE flights[k]]
         /\ flight' = [flight EXCEPT ![f].waiters = 0, ![f].cancelled = TRUE]

WaitCancelled(g) ==
    /\ get[g].pc = "wait" /\ get[g].cancelled
    /\ IF flights[get[g].key] = get[g].on THEN Abandon(get[g].on) ELSE UNCHANGED <<flights, flight>>
    /\ get' = [get EXCEPT ![g].pc = "end", ![g].result = "cancelled"]
    /\ UNCHANGED <<othersOfGet, cache, fetch, row, serverVars, payments, renewed, faults, lifted>>

\* downloadFromURIOnce. "Live" is what every call of the worker needs.
Live(g, pc) == flight[g].pc = pc /\ ~flight[g].cancelled

To(g, pc) == flight' = [flight EXCEPT ![g].pc = pc]

othersOfWork == <<othersOfGet, get, flights, renewed>>

Resolve(g) ==
    /\ Live(g, "resolve") /\ To(g, "list")
    /\ UNCHANGED <<othersOfWork, cache, fetch, row, serverVars, payments, faults, lifted>>

\* A stream that is managed already is not paid for again.
ListFiles(g) ==
    /\ Live(g, "list")
    /\ To(g, IF row.persisted THEN "finish" ELSE IF stream.priced THEN "pay" ELSE "ensure")
    /\ UNCHANGED <<othersOfWork, cache, fetch, row, serverVars, payments, faults, lifted>>

\* CreatePurchaseTransaction reserves the outputs it spends.
Pay(g) ==
    /\ Live(g, "pay")
    /\ flight' = [flight EXCEPT ![g].pc = "ensure", ![g].payment = "reserved"]
    /\ UNCHANGED <<othersOfWork, cache, fetch, row, serverVars, payments, faults, lifted>>

\* Ensure of the descriptor, for a new stream and again in finishExistingDownload.
EnsureDescriptor(g) ==
    /\ \E step \in {<<"ensure", "describe">>, <<"finish", "register">>} :
           /\ Live(g, step[1])
           /\ IF 0 \in cache THEN To(g, step[2]) /\ UNCHANGED fetch
              ELSE flight' = [flight EXCEPT ![g].pc = "wait", ![g].next = step[2]] /\ Join(0)
    /\ UNCHANGED <<othersOfWork, cache, row, serverVars, payments, faults, lifted>>

\* SaveStreamDescriptor and MarkManagedBlobsFinished.
DescribeStream(g) ==
    /\ Live(g, "describe")
    /\ To(g, IF 0 \in cache /\ ValidateDescriptor(stream.descriptor) THEN "persist" ELSE "fail")
    /\ UNCHANGED <<othersOfWork, cache, fetch, row, serverVars, payments, faults, lifted>>

\* SaveManagedFile of the database: INSERT OR REPLACE of a row that is running.
SaveManagedFile == row' = [row EXCEPT !.persisted = TRUE, !.status = "running", !.file = "none"]

\* The row is saved, then the claim is linked and the row listed.
Persist(g) ==
    /\ Live(g, "persist") /\ To(g, "link")
    /\ SaveManagedFile
    /\ UNCHANGED <<othersOfWork, cache, fetch, serverVars, payments, faults, lifted>>

Link(g) ==
    /\ Live(g, "link") /\ To(g, IF row.persisted THEN "finish" ELSE "fail")
    /\ UNCHANGED <<othersOfWork, cache, fetch, row, serverVars, payments, faults, lifted>>

\* Mutant: a deletion that is under way is not noticed.
MayRegisterAnyway == 0 \in cache /\ row.persisted

\* RegisterManagedFile, under controller.mu: not while the stream is deleted.
MayRegister == ~deleting /\ 0 \in cache /\ row.persisted

RegisterStream(g) ==
    /\ Live(g, "register")
    /\ IF MayRegister
       THEN /\ row' = [row EXCEPT !.managed = TRUE]
            /\ blocked' = FALSE
            /\ To(g, IF get[g].save /\ row.status # "finished" THEN "save" ELSE "pay off")
       ELSE To(g, "fail") /\ UNCHANGED <<row, blocked>>
    /\ UNCHANGED <<othersOfWork, cache, fetch, active, timer, firing, idling, timers, payments,
                   faults, lifted>>

\* SaveManagedFile of the controller, the allowance included.
SaveStream(g) ==
    /\ Live(g, "save")
    /\ IF Paused THEN To(g, "fail") /\ UNCHANGED row
       ELSE To(g, "allow") /\ row' = FilesBegin
    /\ UNCHANGED <<othersOfWork, cache, fetch, serverVars, payments, faults, lifted>>

AllowStream(g) ==
    /\ flight[g].pc = "allow" /\ To(g, "pay off")
    /\ blocked' = FALSE
    /\ lifted' = lifted \union Deleters
    /\ UNCHANGED <<othersOfWork, cache, fetch, row, active, timer, firing, idling, timers, payments,
                   faults>>

\* BroadcastOrRelease: a broadcast that fails releases, and fails the get, whether the
\* server took the transaction before the answer was lost or not.
Broadcast(g) ==
    /\ flight[g].pc = "pay off"
    /\ \/ /\ flight[g].payment = "none"
          /\ flight' = [flight EXCEPT ![g].pc = "close", ![g].result = "ok"]
          /\ UNCHANGED <<payments, faults>>
       \/ /\ flight[g].payment = "reserved" /\ ~flight[g].cancelled
          /\ payments' = payments + 1
          /\ flight' = [flight EXCEPT ![g].pc = "close", ![g].payment = "sent", ![g].result = "ok"]
          /\ UNCHANGED faults
       \/ /\ flight[g].payment = "reserved"
          /\ IF flight[g].cancelled THEN UNCHANGED faults ELSE Fault
          /\ To(g, "fail")
          /\ payments' \in {payments, payments + 1}
    /\ UNCHANGED <<othersOfWork, cache, fetch, row, serverVars, lifted>>

\* A step fails; what the payment reserved is released.
WorkFails(g) ==
    /\ \/ flight[g].pc = "fail" /\ UNCHANGED <<fetch, faults>>
       \/ /\ flight[g].pc \in {"resolve", "list", "pay", "ensure", "describe", "persist", "link",
                                "finish", "register", "save"}
          /\ IF flight[g].cancelled THEN UNCHANGED faults ELSE Fault
          /\ UNCHANGED fetch
       \/ /\ flight[g].pc = "wait" /\ flight[g].cancelled
          /\ LeaveFlight(0, g)
          /\ UNCHANGED faults
    /\ flight' = [flight EXCEPT ![g] =
                    [@ EXCEPT !.pc = "close", !.next = "none", !.payment = "none",
                              !.result = IF flight[g].cancelled THEN "cancelled" ELSE "error"]]
    /\ UNCHANGED <<othersOfWork, cache, row, serverVars, payments, lifted>>

\* The deferred end: getFlights forgets the worker, and done is closed.
CloseFlight(g) ==
    /\ flight[g].pc = "close" /\ To(g, "done")
    /\ flights' = [k \in DOMAIN flights |-> IF flights[k] = g THEN NoGet ELSE flights[k]]
    /\ UNCHANGED <<othersOfGet, get, renewed, cache, fetch, row, serverVars, payments, faults, lifted>>

GetStep ==
    \E g \in Get :
        \/ Forbid(g) \/ Ask(g) \/ GiveUp(g) \/ WaitDone(g) \/ WaitCancelled(g)
        \/ Resolve(g) \/ ListFiles(g) \/ Pay(g) \/ EnsureDescriptor(g) \/ DescribeStream(g)
        \/ Persist(g) \/ Link(g) \/ RegisterStream(g) \/ SaveStream(g) \/ AllowStream(g)
        \/ Broadcast(g) \/ WorkFails(g) \/ CloseFlight(g)

---------------------------------------------------------------------------
NewRequest(call) ==
    [pc |-> IF call.used THEN "new" ELSE "end", head |-> call.head, header |-> call.header,
     cancelled |-> FALSE, blob |-> 0, plan |-> << >>, sent |-> << >>, done |-> FALSE, status |-> 0]

NewGet(call) ==
    [pc |-> IF call.used THEN "new" ELSE "end", key |-> call.key, http |-> call.http, enabled |-> call.enabled,
     save |-> call.save, on |-> NoGet, cancelled |-> FALSE, result |-> "none"]

Init ==
    \E s \in Scenarios :
        /\ world = s.world /\ cache = s.cache /\ stream = s.stream /\ row = s.row
        /\ fetch = [b \in Blob |-> NoFetch]
        /\ active = {} /\ blocked = FALSE /\ timer = 0 /\ firing = {} /\ idling = 0 /\ timers = 0
        /\ req = [r \in Request |-> NewRequest(s.requests[r])]
        /\ op = [o \in Op |-> [kind |-> s.ops[o], waits |-> {},
                               pc |-> IF s.ops[o] = "none" THEN "end" ELSE "new"]]
        /\ get = [g \in Get |-> NewGet(s.gets[g])]
        /\ flights = [k \in {s.gets[g].key : g \in Get} |-> NoGet]
        /\ flight = [g \in Get |-> NoFlight]
        /\ deleting = FALSE /\ down = FALSE /\ payments = 0 /\ faults = 0
        /\ overruled = {} /\ lifted = {} /\ renewed = FALSE /\ missed = FALSE

\* Everyone has returned and nothing is left to happen.
Quiet ==
    /\ \A r \in Request : req[r].pc = "end"
    /\ \A o \in Op : op[o].pc = "end"
    /\ \A g \in Get : get[g].pc = "end" /\ flight[g].pc \in {"none", "done"}
    /\ timer = 0 /\ firing = {} /\ idling = 0 /\ ~row.saving

Next ==
    \/ ExchangeStep /\ UNCHANGED <<stream, row, serverVars, req, op, getVars, deleting, down, faults,
                                   overruled, lifted, missed>>
    \/ RequestStep \/ OpStep \/ GetStep
    \/ Quiet /\ UNCHANGED vars

Spec == Init /\ [][Next]_vars

---------------------------------------------------------------------------
(* Properties.                                                                *)

\* A stream that is being played is not put to sleep: while a request that has
\* marked the row active still runs, the row is there and is not stopped, whatever
\* idle timers were scheduled or had fired before, unless a stop, a deletion or a
\* save that timed out said so after the request registered (scheduleIdleLocked
\* against registerStream and streamActive under lifecycleMu).
PlayedNotIdled ==
    \A r \in active \ overruled :
        req[r].pc \in {"describe", "wait", "got", "lost", "walk"}
            => row.managed /\ row.status # "stopped"

\* A stream that was played goes to sleep: when every request and operation has
\* returned and no timer is left, the row of a stream that somebody played is not
\* running any more, although clients disconnected, files were saved and the disk
\* was cleaned meanwhile (the timer that the last release, or a start that finds
\* nobody playing, schedules; nothing else would stop it). It stays running only
\* when the server is down, or when since the last request registered or a save
\* began the one attempt to stop it came to nothing: the function of the timer
\* failed, took five seconds or found the file manager paused, a cleanup cancelled
\* a save that Resume does not take up, or a save, a stop or a deletion failed.
PlayedGoesIdle ==
    /\ Quiet /\ ~down /\ ~missed /\ row.managed
    /\ \A g \in Get : flight[g].pc = "none"
    /\ \E r \in Request : req[r].status = 206
    => row.status # "running"

\* From the moment PrepareManagedFileDelete has drained the stream until the
\* deletion ends nobody plays it, although requests keep arriving and a get
\* registers the same stream: only a start, a save or the end of another
\* deletion, which allow the stream without asking, can let one in.
DeletionQuiet ==
    \A d \in Op : /\ op[d].kind = "delete" /\ d \notin lifted
                  /\ op[d].pc \in {"stop", "purge", "wipe", "finish"}
                  => active = {}

\* The bytes of a range: those of the file, and zeroes where the descriptor
\* promises more than there is.
Joined(plain) ==
    LET concat[n \in 0..Len(plain)] == IF n = 0 THEN << >> ELSE concat[n - 1] \o plain[n]
    IN  concat[Len(plain)]

File == Joined(stream.plain)

Wanted(range) == [i \in 1..(range.end - range.start + 1) |->
                     IF range.start + i <= Len(File) THEN File[range.start + i] ELSE 0]

\* What a request has written is the beginning of the range its headers promised,
\* and all of it when it completed, across blob boundaries, padding and claims
\* that give the true size (planStreamBlobs, writePlannedBlob).
RangeExact ==
    \A r \in Request : req[r].sent # << >> =>
        LET wanted == Wanted(prepareStreamRange(req[r].header, stream.descriptor, stream.claim))
            n == Len(req[r].sent)
        IN  /\ n <= Len(wanted) /\ req[r].sent = SubSeq(wanted, 1, n)
            /\ req[r].done => n = Len(wanted)

\* Gets with the same parameters buy a stream at most once, even when the calls
\* of a first get give up at any step and another get starts over while the
\* worker of the first still winds down, as long as the file is not deleted in
\* between (waitManagedGet, and the row that is saved before the broadcast).
PaidOnce ==
    (\A g, h \in Get : get[g].key = get[h].key) /\ ~renewed => payments <= 1

\* A row is stopped for idleness when nobody plays the stream any more, and only then.
IdleExact == PlayedNotIdled /\ PlayedGoesIdle
=============================================================================
