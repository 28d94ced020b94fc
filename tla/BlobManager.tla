----------------------------- MODULE BlobManager -----------------------------
(***************************************************************************)
(* The blob cache of the daemon (src/blob/manager.go) with the two stores  *)
(* that must agree with it: the blob directory on disk and the `blob'      *)
(* table of the database (src/database/managed_streams.go).                *)
(*                                                                         *)
(* Ensure is a single-flight fetch: the first caller that misses starts a  *)
(* goroutine (a flight), later callers join it, a caller whose context     *)
(* ends leaves it, and the flight is cancelled when its last waiter left.  *)
(* Deletions come from three handlers (blob_delete, file_delete, the disk  *)
(* cleaner) and race with flights.  mu sections are one step each; diskMu  *)
(* is a variable because it is held across two visible effects.            *)
(***************************************************************************)
EXTENDS Naturals, FiniteSets

CONSTANTS
    Blob,       \* blob hashes
    Caller,     \* goroutines that call Ensure
    Flight,     \* identities of fetchFlight objects; bounds the fetches of one process
    Handler,    \* other goroutines that delete or store one blob at a time
    None        \* nil: no flight, no lock holder, no blob

\* The identities are pairwise disjoint sets; TLC evaluates this on every run.
ASSUME IdentityAssumption ==
    /\ None \notin Blob \cup Caller \cup Flight \cup Handler
    /\ Flight \cap Handler = {}
    /\ IsFiniteSet(Caller)

VARIABLES
    life,       \* "down": blobStart has not run; "up"; "stopped": after Stop
    persist,    \* BlobManager.persist, the save_blobs setting of this process
    blobs,      \* BlobManager.blobs: entry backed by the file ("disk") or by bytes ("memory")
    inFlight,   \* BlobManager.inFlight
    diskMu,     \* holder of BlobManager.diskMu
    flight,     \* fetchFlight objects and where their goroutine stands
    caller,     \* Ensure calls
    handler,    \* deletions and reflector uploads under way
    disk,       \* files of the blob directory (survive a crash)
    finished,   \* blob rows with status 'finished' (survive a crash)
    excused     \* history: blobs the code itself leaves cached without a row

vars == <<life, persist, blobs, inFlight, diskMu, flight, caller, handler, disk, finished, excused>>

FlightPhase == {"unused", "fetching", "fetched", "publishing", "recording",
                "rollback", "unlinking", "finishing", "done"}
FlightRecord == [phase : FlightPhase, blob : Blob \cup {None}, waiters : Nat,
                 cancelled : BOOLEAN, ok : BOOLEAN]
CallerRecord == [phase : {"idle", "waiting", "ok", "fail"}, flight : Flight \cup {None},
                 ctxDone : BOOLEAN]
HandlerRecord == [phase : {"idle", "remove", "unlink", "row", "set", "publish"},
                  blob : Blob \cup {None},
                  kind : {"none", "loose", "stream", "clean", "reflect"}]
FreshFlight == [phase |-> "unused", blob |-> None, waiters |-> 0,
                cancelled |-> FALSE, ok |-> FALSE]
\* A caller outside Ensure, with the result of its last call; it may call again.
Returned(result) == [phase |-> result, flight |-> None, ctxDone |-> FALSE]
IdleCaller  == Returned("idle")
IdleHandler == [phase |-> "idle", blob |-> None, kind |-> "none"]

\* Every variable has its type; a waiter count never goes below zero.
TypeOK ==
    /\ life \in {"down", "up", "stopped"}
    /\ persist \in BOOLEAN
    /\ blobs \in [Blob -> {"absent", "disk", "memory"}]
    /\ inFlight \in [Blob -> Flight \cup {None}]
    /\ diskMu \in Flight \cup Handler \cup {None}
    /\ flight \in [Flight -> FlightRecord]
    /\ caller \in [Caller -> CallerRecord]
    /\ handler \in [Handler -> HandlerRecord]
    /\ disk \in SUBSET Blob
    /\ finished \in SUBSET Blob
    /\ excused \in SUBSET Blob

Init ==
    /\ life = "down"
    /\ persist \in BOOLEAN
    /\ blobs = [b \in Blob |-> "absent"]
    /\ inFlight = [b \in Blob |-> None]
    /\ diskMu = None
    /\ flight = [f \in Flight |-> FreshFlight]
    /\ caller = [c \in Caller |-> IdleCaller]
    /\ handler = [d \in Handler |-> IdleHandler]
    /\ disk \in SUBSET Blob
    /\ finished \in SUBSET Blob
    /\ excused = {}

(***************************************************************************)
(* Process life cycle                                                      *)
(***************************************************************************)

\* The finished rows become exactly the files found.
SyncStoredBlobs == finished' = disk

\* app.blobStart: Start scans the directory into lazy disk entries, then
\* SyncStoredBlobs.
Start ==
    /\ life = "down"
    /\ life' = "up"
    /\ blobs' = [b \in Blob |-> IF b \in disk THEN "disk" ELSE "absent"]
    /\ SyncStoredBlobs
    /\ UNCHANGED <<persist, inFlight, diskMu, flight, caller, handler, disk, excused>>

\* Stop cancels the registered flights and forgets every entry; goroutines go on.
Stop ==
    /\ life = "up"
    /\ life' = "stopped"
    /\ flight' = [f \in Flight |->
                    IF \E b \in Blob : inFlight[b] = f
                    THEN [flight[f] EXCEPT !.cancelled = TRUE] ELSE flight[f]]
    /\ blobs' = [b \in Blob |-> "absent"]
    /\ inFlight' = [b \in Blob |-> None]
    /\ UNCHANGED <<persist, diskMu, caller, handler, disk, finished, excused>>

\* The process ends, cleanly or not: only the directory and the database remain,
\* and the next process may run with another save_blobs setting.
Crash ==
    /\ life # "down"
    /\ life' = "down"
    /\ persist' \in BOOLEAN
    /\ blobs' = [b \in Blob |-> "absent"]
    /\ inFlight' = [b \in Blob |-> None]
    /\ diskMu' = None
    /\ flight' = [f \in Flight |-> FreshFlight]
    /\ caller' = [c \in Caller |-> IdleCaller]
    /\ handler' = [d \in Handler |-> IdleHandler]
    /\ excused' = {}
    /\ UNCHANGED <<disk, finished>>

(***************************************************************************)
(* Ensure and its waiters                                                  *)
(***************************************************************************)

\* Ensure: the entry exists, nothing to do.
EnsureHit(c, b) ==
    /\ life # "down" /\ caller[c].phase # "waiting"
    /\ blobs[b] # "absent"
    /\ caller' = [caller EXCEPT ![c] = Returned("ok")]
    /\ UNCHANGED <<life, persist, blobs, inFlight, diskMu, flight, handler, disk, finished, excused>>

\* Ensure: join the flight that still has a waiter.
EnsureJoin(c, b) ==
    /\ life # "down" /\ caller[c].phase # "waiting"
    /\ blobs[b] = "absent" /\ inFlight[b] # None
    /\ flight[inFlight[b]].waiters > 0
    /\ flight' = [flight EXCEPT ![inFlight[b]].waiters = @ + 1]
    /\ caller' = [caller EXCEPT ![c] = [phase |-> "waiting", flight |-> inFlight[b],
                                        ctxDone |-> FALSE]]
    /\ UNCHANGED <<life, persist, blobs, inFlight, diskMu, handler, disk, finished, excused>>

\* Ensure: no flight, or an abandoned one, which is replaced by a new flight.
EnsureLaunch(c, b, f) ==
    /\ life # "down" /\ caller[c].phase # "waiting"
    /\ blobs[b] = "absent"
    /\ inFlight[b] # None => flight[inFlight[b]].waiters = 0
    /\ flight[f].phase = "unused"
    /\ flight' = [flight EXCEPT ![f] = [phase |-> "fetching", blob |-> b, waiters |-> 1,
                                        cancelled |-> FALSE, ok |-> FALSE]]
    /\ inFlight' = [inFlight EXCEPT ![b] = f]
    /\ caller' = [caller EXCEPT ![c] = [phase |-> "waiting", flight |-> f,
                                        ctxDone |-> FALSE]]
    /\ UNCHANGED <<life, persist, blobs, diskMu, handler, disk, finished, excused>>

\* The caller's own context ends while it waits.
ContextDone(c) ==
    /\ caller[c].phase = "waiting" /\ ~caller[c].ctxDone
    /\ caller' = [caller EXCEPT ![c].ctxDone = TRUE]
    /\ UNCHANGED <<life, persist, blobs, inFlight, diskMu, flight, handler, disk, finished, excused>>

\* waitForFlight, case <-flight.done.
WaitDone(c) ==
    /\ caller[c].phase = "waiting"
    /\ flight[caller[c].flight].phase = "done"
    /\ caller' = [caller EXCEPT ![c] =
                    Returned(IF flight[caller[c].flight].ok THEN "ok" ELSE "fail")]
    /\ UNCHANGED <<life, persist, blobs, inFlight, diskMu, flight, handler, disk, finished, excused>>

\* Mutant: a leaving waiter cancels the flight whoever else still waits.
LeaveAlwaysCancels(r) == [r EXCEPT !.waiters = @ - 1, !.cancelled = TRUE]

\* Mutant: the last waiter leaves and nobody cancels the fetch.
LeaveNeverCancels(r) == [r EXCEPT !.waiters = @ - 1]

\* A flight after one waiter left: the last one cancels the fetch.
Leave(r) == IF r.waiters = 1 THEN [r EXCEPT !.waiters = 0, !.cancelled = TRUE]
                             ELSE [r EXCEPT !.waiters = @ - 1]

\* waitForFlight, case <-ctx.Done(): leave the flight if it is still registered.
WaitCancelled(c) ==
    LET f == caller[c].flight
        b == flight[f].blob IN
    /\ caller[c].phase = "waiting" /\ caller[c].ctxDone
    /\ flight' = IF inFlight[b] = f THEN [flight EXCEPT ![f] = Leave(@)] ELSE flight
    /\ caller' = [caller EXCEPT ![c] = Returned("fail")]
    /\ UNCHANGED <<life, persist, blobs, inFlight, diskMu, handler, disk, finished, excused>>

(***************************************************************************)
(* The flight's goroutine: fetchAndStore, then the epilogue in Ensure      *)
(***************************************************************************)

\* The database's mutex is free: CleanManagedBlobs holds it across its deletions.
StoreFree == \A d \in Handler : handler[d].kind # "clean"

\* The fetcher returns bytes of the right hash; a cancelled context may come too late.
FetchOk(f) ==
    /\ flight[f].phase = "fetching"
    /\ flight' = [flight EXCEPT ![f].phase = "fetched"]
    /\ UNCHANGED <<life, persist, blobs, inFlight, diskMu, caller, handler, disk, finished, excused>>

\* The fetcher fails, or returns bytes of another hash.
FetchFail(f) ==
    /\ flight[f].phase = "fetching"
    /\ flight' = [flight EXCEPT ![f].phase = "finishing"]
    /\ UNCHANGED <<life, persist, blobs, inFlight, diskMu, caller, handler, disk, finished, excused>>

\* Set with save_blobs: take diskMu; writePersistent ends in an atomic rename.
SetDisk(f) ==
    /\ persist /\ flight[f].phase = "fetched" /\ diskMu = None
    /\ diskMu' = f
    /\ disk' = disk \cup {flight[f].blob}
    /\ flight' = [flight EXCEPT ![f].phase = "publishing"]
    /\ UNCHANGED <<life, persist, blobs, inFlight, caller, handler, finished, excused>>

\* writePersistent fails before the rename; the temporary file is removed.
SetFail(f) ==
    /\ persist /\ flight[f].phase = "fetched" /\ diskMu = None
    /\ flight' = [flight EXCEPT ![f].phase = "finishing"]
    /\ UNCHANGED <<life, persist, blobs, inFlight, diskMu, caller, handler, disk, finished, excused>>

\* Set publishes the entry under mu: a nil (disk) entry, or the bytes themselves.
Publish(f) ==
    /\ flight[f].phase = IF persist THEN "publishing" ELSE "fetched"
    /\ blobs' = [blobs EXCEPT ![flight[f].blob] = IF persist THEN "disk" ELSE "memory"]
    /\ diskMu' = IF persist THEN None ELSE diskMu
    /\ flight' = [flight EXCEPT ![f].phase = "recording"]
    /\ UNCHANGED <<life, persist, inFlight, caller, handler, disk, finished, excused>>

\* RecordCompletedBlob on a live context.
Record(f) ==
    /\ flight[f].phase = "recording" /\ ~flight[f].cancelled
    /\ StoreFree
    /\ finished' = finished \cup {flight[f].blob}
    /\ flight' = [flight EXCEPT ![f] = [@ EXCEPT !.phase = "finishing", !.ok = TRUE]]
    /\ UNCHANGED <<life, persist, blobs, inFlight, diskMu, caller, handler, disk, excused>>

\* Mutant: a failed record leaves the blob in the cache.
RecordFailKeepsBlob(f) ==
    /\ flight[f].phase = "recording"
    /\ StoreFree
    /\ finished' \in {finished, finished \cup {flight[f].blob}}
    /\ flight' = [flight EXCEPT ![f].phase = "finishing"]
    /\ UNCHANGED <<life, persist, blobs, inFlight, diskMu, caller, handler, disk, excused>>

\* RecordCompletedBlob fails (cancelled context, database error), possibly
\* between its INSERT and its UPDATE, which are not one transaction.
RecordFail(f) ==
    /\ flight[f].phase = "recording"
    /\ StoreFree
    /\ finished' \in {finished, finished \cup {flight[f].blob}}
    /\ flight' = [flight EXCEPT ![f].phase = "rollback"]
    /\ UNCHANGED <<life, persist, blobs, inFlight, diskMu, caller, handler, disk, excused>>

\* The roll back calls Delete: take diskMu and remove the file.
RollbackRemove(f) ==
    /\ flight[f].phase = "rollback" /\ diskMu = None
    /\ diskMu' = f
    /\ disk' = disk \ {flight[f].blob}
    /\ flight' = [flight EXCEPT ![f].phase = "unlinking"]
    /\ UNCHANGED <<life, persist, blobs, inFlight, caller, handler, finished, excused>>

\* Mutant: Delete returns the error of os.Remove with diskMu locked.
RollbackFailLocked(f) ==
    /\ flight[f].phase = "rollback" /\ diskMu = None
    /\ diskMu' = f
    /\ excused' = excused \cup {flight[f].blob}
    /\ flight' = [flight EXCEPT ![f].phase = "finishing"]
    /\ UNCHANGED <<life, persist, blobs, inFlight, caller, handler, disk, finished>>

\* Delete: os.Remove fails, the entry stays.
RollbackFail(f) ==
    /\ flight[f].phase = "rollback" /\ diskMu = None
    /\ excused' = excused \cup {flight[f].blob}
    /\ flight' = [flight EXCEPT ![f].phase = "finishing"]
    /\ UNCHANGED <<life, persist, blobs, inFlight, diskMu, caller, handler, disk, finished>>

\* Delete: drop the entry under mu, release diskMu.
RollbackUnlink(f) ==
    /\ flight[f].phase = "unlinking"
    /\ blobs' = [blobs EXCEPT ![flight[f].blob] = "absent"]
    /\ diskMu' = None
    /\ flight' = [flight EXCEPT ![f].phase = "finishing"]
    /\ UNCHANGED <<life, persist, inFlight, caller, handler, disk, finished, excused>>

\* The goroutine unregisters itself if it is still registered, and closes done.
Finish(f) ==
    LET b == flight[f].blob IN
    /\ flight[f].phase = "finishing"
    /\ inFlight' = [inFlight EXCEPT ![b] = IF @ = f THEN None ELSE @]
    /\ flight' = [flight EXCEPT ![f] = [@ EXCEPT !.phase = "done", !.cancelled = TRUE]]
    /\ UNCHANGED <<life, persist, blobs, diskMu, caller, handler, disk, finished, excused>>

(***************************************************************************)
(* Deletions and uploads by other goroutines                               *)
(***************************************************************************)

\* blob_delete of a blob that heads no stream: the manager's entry and file only.
DeleteLoose(d, b) ==
    /\ life = "up" /\ handler[d].phase = "idle"
    /\ handler' = [handler EXCEPT ![d] = [phase |-> "remove", blob |-> b, kind |-> "loose"]]
    /\ UNCHANGED <<life, persist, blobs, inFlight, diskMu, flight, caller, disk, finished, excused>>

\* file_delete: DeleteManagedStream commits the removal of the rows, then the manager deletes.
DeleteStream(d, b) ==
    /\ life = "up" /\ handler[d].phase = "idle"
    /\ StoreFree
    /\ finished' = finished \ {b}
    /\ handler' = [handler EXCEPT ![d] = [phase |-> "remove", blob |-> b, kind |-> "stream"]]
    /\ UNCHANGED <<life, persist, blobs, inFlight, diskMu, flight, caller, disk, excused>>

\* CleanManagedBlobs picks a candidate and keeps the database locked.  Candidates
\* are finished rows and the descriptors of files, whatever the status of their row.
DeleteClean(d, b) ==
    /\ life = "up" /\ handler[d].phase = "idle"
    /\ StoreFree
    /\ handler' = [handler EXCEPT ![d] = [phase |-> "remove", blob |-> b, kind |-> "clean"]]
    /\ UNCHANGED <<life, persist, blobs, inFlight, diskMu, flight, caller, disk, finished, excused>>

\* Delete: take diskMu and remove the file.
DeleteRemove(d) ==
    /\ handler[d].phase = "remove" /\ diskMu = None
    /\ diskMu' = d
    /\ disk' = disk \ {handler[d].blob}
    /\ handler' = [handler EXCEPT ![d].phase = "unlink"]
    /\ UNCHANGED <<life, persist, blobs, inFlight, flight, caller, finished, excused>>

\* Delete: os.Remove fails; the handler gives up and its rows stay as they are.
DeleteFail(d) ==
    /\ handler[d].phase = "remove" /\ diskMu = None
    /\ excused' = excused \cup {handler[d].blob}
    /\ handler' = [handler EXCEPT ![d] = IdleHandler]
    /\ UNCHANGED <<life, persist, blobs, inFlight, diskMu, flight, caller, disk, finished>>

\* Delete: drop the entry under mu, release diskMu; the cleaner goes on to its row.
DeleteUnlink(d) ==
    /\ handler[d].phase = "unlink"
    /\ blobs' = [blobs EXCEPT ![handler[d].blob] = "absent"]
    /\ diskMu' = None
    /\ handler' = [handler EXCEPT ![d] = IF handler[d].kind = "clean"
                                         THEN [handler[d] EXCEPT !.phase = "row"]
                                         ELSE IdleHandler]
    /\ UNCHANGED <<life, persist, inFlight, flight, caller, disk, finished, excused>>

\* CleanManagedBlobs: DELETE FROM blob (or an error), then the database is unlocked.
DeleteRow(d) ==
    /\ handler[d].phase = "row"
    /\ finished' \in {finished, finished \ {handler[d].blob}}
    /\ handler' = [handler EXCEPT ![d] = IdleHandler]
    /\ UNCHANGED <<life, persist, blobs, inFlight, diskMu, flight, caller, disk, excused>>

\* GetLocal: the bytes are at hand, in memory or in the file of a nil entry.
GetLocal(b) == blobs[b] = "memory" \/ (blobs[b] = "disk" /\ b \in disk)

\* The reflector server accepts an upload GetLocal cannot serve; it calls Set and
\* records nothing.
ReflectBegin(d, b) ==
    /\ life = "up" /\ handler[d].phase = "idle"
    /\ ~GetLocal(b)
    /\ handler' = [handler EXCEPT ![d] = [phase |-> "set", blob |-> b, kind |-> "reflect"]]
    /\ excused' = excused \cup {b}
    /\ UNCHANGED <<life, persist, blobs, inFlight, diskMu, flight, caller, disk, finished>>

\* Set with save_blobs, as in SetDisk.
ReflectDisk(d) ==
    /\ persist /\ handler[d].phase = "set" /\ diskMu = None
    /\ diskMu' = d
    /\ disk' = disk \cup {handler[d].blob}
    /\ handler' = [handler EXCEPT ![d].phase = "publish"]
    /\ UNCHANGED <<life, persist, blobs, inFlight, flight, caller, finished, excused>>

\* writePersistent fails, or the upload does: nothing is stored.
ReflectFail(d) ==
    /\ handler[d].phase = "set" /\ diskMu = None
    /\ handler' = [handler EXCEPT ![d] = IdleHandler]
    /\ UNCHANGED <<life, persist, blobs, inFlight, diskMu, flight, caller, disk, finished, excused>>

\* Set publishes the entry, as in Publish.
ReflectPublish(d) ==
    /\ handler[d].phase = IF persist THEN "publish" ELSE "set"
    /\ blobs' = [blobs EXCEPT ![handler[d].blob] = IF persist THEN "disk" ELSE "memory"]
    /\ diskMu' = IF persist THEN None ELSE diskMu
    /\ handler' = [handler EXCEPT ![d] = IdleHandler]
    /\ UNCHANGED <<life, persist, inFlight, flight, caller, disk, finished, excused>>

(***************************************************************************)
(* Specification                                                           *)
(***************************************************************************)

CallerStep(c) ==
    \/ \E b \in Blob : EnsureHit(c, b) \/ EnsureJoin(c, b)
    \/ \E b \in Blob, f \in Flight : EnsureLaunch(c, b, f)
    \/ ContextDone(c) \/ WaitDone(c) \/ WaitCancelled(c)

FlightStep(f) ==
    \/ FetchOk(f) \/ FetchFail(f) \/ SetDisk(f) \/ SetFail(f) \/ Publish(f)
    \/ Record(f) \/ RecordFail(f)
    \/ RollbackRemove(f) \/ RollbackFail(f) \/ RollbackUnlink(f) \/ Finish(f)

HandlerBegin(d) ==
    \E b \in Blob : DeleteLoose(d, b) \/ DeleteStream(d, b) \/ DeleteClean(d, b)
                    \/ ReflectBegin(d, b)

HandlerStep(d) ==
    \/ DeleteRemove(d) \/ DeleteFail(d) \/ DeleteUnlink(d) \/ DeleteRow(d)
    \/ ReflectDisk(d) \/ ReflectFail(d) \/ ReflectPublish(d)

Next ==
    \/ Start \/ Stop \/ Crash
    \/ \E c \in Caller : CallerStep(c)
    \/ \E f \in Flight : FlightStep(f)
    \/ \E d \in Handler : HandlerBegin(d) \/ HandlerStep(d)

Spec == Init /\ [][Next]_vars

(***************************************************************************)
(* Properties                                                              *)
(***************************************************************************)

\* The flight's goroutine exists and has not closed done.
Running(f) == flight[f].phase \notin {"unused", "done"}

\* Ensure never has two live fetches of one blob: every running flight that was
\* not cancelled is the one registered in inFlight, also when flights are
\* abandoned, replaced, or outlive Stop.
SingleFlight ==
    \A f \in Flight : Running(f) /\ ~flight[f].cancelled => inFlight[flight[f].blob] = f

\* A caller whose own context is alive never waits on a flight that another
\* caller's cancellation killed (waitForFlight counts waiters for this).  Only
\* Stop may cancel it.
NoInheritedCancellation ==
    \A c \in Caller :
        /\ life = "up"
        /\ caller[c].phase = "waiting" /\ ~caller[c].ctxDone
        /\ Running(caller[c].flight)
        => ~flight[caller[c].flight].cancelled

\* Whenever diskMu is free, the nil entries of the manager are exactly the files of
\* the directory (Set and Delete change both under diskMu); after Stop the entries
\* are gone but a late Set still never publishes an entry without its file.
DiskBacked ==
    diskMu = None =>
        \A b \in Blob : /\ blobs[b] = "disk" => b \in disk
                        /\ life = "up" /\ b \in disk => blobs[b] = "disk"

\* Nobody is between two steps of an operation on b.
Quiet(b) ==
    /\ \A f \in Flight : flight[f].blob = b => ~Running(f)
    /\ \A d \in Handler : handler[d].blob # b

\* A completed blob that came through Ensure has its finished row once no operation
\* on it is under way: whatever order fetches, failed records, roll backs and the
\* three kinds of deletion happen in.  Excused are blobs the reflector server
\* stored, and those whose file os.Remove refused to remove.
CompletedIsRecorded ==
    \A b \in Blob : life = "up" /\ Quiet(b) /\ blobs[b] # "absent" /\ b \notin excused
                    => b \in finished

\* Cache, directory and database agree, each at the moments the code promises it.
CacheAgrees == DiskBacked /\ CompletedIsRecorded

\* Whenever no flight, waiter or deletion has a step left, no Ensure is still waiting:
\* the flight it joined closes done on every path, and nobody keeps diskMu.
EnsureReturns ==
    ~ENABLED (\/ \E c \in Caller : WaitDone(c)
              \/ \E f \in Flight : FlightStep(f)
              \/ \E d \in Handler : HandlerStep(d))
    => diskMu = None /\ \A c \in Caller : caller[c].phase # "waiting"
=============================================================================
