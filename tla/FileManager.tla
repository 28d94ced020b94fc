----------------------------- MODULE FileManager -----------------------------
(***************************************************************************)
(* Saving managed files (src/filemanager/manager.go) and the disk cleanup  *)
(* that pauses it (Clean of src/diskspace/manager.go).                     *)
(*                                                                         *)
(* A save is a goroutine that writes one stream to a file.  Users start    *)
(* and stop saves, the idle timer of the stream server changes statuses,   *)
(* a cleanup cancels every save, deletes blobs and restarts what the       *)
(* database still calls running, and a pause that timed out leaves a       *)
(* goroutine behind that resumes later.  startMu is held over several      *)
(* steps and is a variable; a step is what happens under mu, or one        *)
(* statement of the database.                                              *)
(***************************************************************************)
EXTENDS Naturals, FiniteSets

CONSTANTS
    Stream,     \* managed streams
    Op,         \* identities of save operations
    User,       \* RPC requests that save or stop a file
    Cleaner,    \* callers of Clean: the ticker and blob_clean
    Late,       \* goroutines left by a timed-out pause (bounds those alive at once)
    None

\* The identities are distinct.
ASSUME IdentityAssumption ==
    /\ None \notin Stream \cup Op \cup User \cup Cleaner \cup Late
    /\ Cleaner \cap Late = {} /\ {"startup", "stop"} \cap (Cleaner \cup Late) = {}

Startup == "startup"            \* the caller of Start, which resumes the restored files
Resumer == {Startup} \cup Cleaner \cup Late
Status == {"running", "stopped", "finished"}

VARIABLES
    manager,        \* running, stopping and paused of the Manager
    startMu,        \* holder of startMu
    active,         \* Manager.active: per stream, its save
    op,             \* saves
    db,             \* rows of the file table
    rows,           \* statuses in Manager.rows
    user,           \* RPC requests under way
    clean,          \* per cleaner, where its Clean stands; only one is not idle (cleanMu)
    resume,         \* per resumer, where its Resume stands and the rows it listed
    drained,        \* pauses whose saveTasks.Wait has returned
    stopper         \* the goroutine of Stop

vars == <<manager, startMu, active, op, db, rows, user, clean, resume, drained, stopper>>
processes == <<user, clean, resume, stopper>>

FreeOp == [phase |-> "free", stream |-> None, cancelled |-> FALSE, wrote |-> FALSE, ok |-> FALSE]
IdleUser == [phase |-> "idle", stream |-> None, op |-> None]
IdleResumer == [phase |-> "idle", rows |-> {}, stream |-> None]

\* The database at start-up may hold any rows; a saved file has a path.
Init ==
    /\ manager = [running |-> FALSE, stopping |-> FALSE, paused |-> FALSE]
    /\ startMu = None
    /\ active = [s \in Stream |-> None] /\ op = [o \in Op |-> FreeOp]
    /\ db \in [Stream -> {r \in [status : Status, path : BOOLEAN, saved : BOOLEAN] : r.saved => r.path}]
    /\ rows = [s \in Stream |-> "absent"]
    /\ user = [u \in User |-> IdleUser]
    /\ clean = [c \in Cleaner |-> "idle"]
    /\ resume = [r \in Resumer |-> IdleResumer]
    /\ drained = {} /\ stopper = "new"

(***************************************************************************)
(* Saves                                                                   *)
(***************************************************************************)

Unfinished(o) == op[o].phase \notin {"free", "done"}

\* saveTasks.Wait calls under way.
Waiting ==
    {c \in Cleaner : clean[c] = "draining"} \cup {l \in Late : resume[l].phase = "waiting"}
        \cup (IF stopper = "draining" THEN {"stop"} ELSE {})

\* An operation nobody refers to any more; which one a new save gets does not matter.
Fresh(o) == ~Unfinished(o) /\ \A u \in User : user[u].op # o
NewOp == CHOOSE o \in Op : Fresh(o)

Accepting == manager.running /\ ~manager.paused

\* Rows Start and Resume restart.
Resumable == {s \in Stream : db[s].status = "running" /\ db[s].path /\ ~db[s].saved}

\* updateRowStatus: only a row that is there.
UpdateRowStatus(s, status) ==
    rows' = IF rows[s] = "absent" THEN rows ELSE [rows EXCEPT ![s] = status]

\* ChangeManagedFileStatus.
ChangeStatus(s, status) == db' = [db EXCEPT ![s].status = status]

\* prepareSave: a fresh path and the status running, in the database and in rows.
PrepareSave(s) ==
    /\ db' = [db EXCEPT ![s] = [@ EXCEPT !.status = "running", !.path = TRUE]]
    /\ rows' = [rows EXCEPT ![s] = "running"]

\* beginSave and launchSave of NewOp for s.
BeginSave(s) ==
    /\ Accepting /\ active[s] = None /\ \E o \in Op : Fresh(o)
    /\ active' = [active EXCEPT ![s] = NewOp]
    /\ op' = [op EXCEPT ![NewOp] = [FreeOp EXCEPT !.phase = "run", !.stream = s]]

\* beginSave refuses.
RefuseSave(s) ==
    /\ ~Accepting \/ active[s] # None
    /\ UNCHANGED <<active, op>>

\* resumeSave writes its first blob and closes firstWritten.
SaveWrite(o) ==
    /\ op[o].phase = "run" /\ ~op[o].cancelled /\ ~op[o].wrote
    /\ op' = [op EXCEPT ![o].wrote = TRUE]
    /\ UNCHANGED <<manager, startMu, active, db, rows, processes, drained>>

\* resumeSave: everything is written; CompleteManagedFileSave.
SaveComplete(o) ==
    /\ op[o].phase = "run" /\ ~op[o].cancelled /\ op[o].wrote
    /\ op' = [op EXCEPT ![o] = [@ EXCEPT !.phase = "completed", !.ok = TRUE]]
    /\ db' = [db EXCEPT ![op[o].stream] = [@ EXCEPT !.status = "finished", !.saved = TRUE]]
    /\ UNCHANGED <<manager, startMu, active, rows, processes, drained>>

\* resumeSave fails: the row is stopped.
SaveFail(o) ==
    /\ op[o].phase = "run"
    /\ op' = [op EXCEPT ![o].phase = "failed"]
    /\ ChangeStatus(op[o].stream, "stopped")
    /\ UNCHANGED <<manager, startMu, active, rows, processes, drained>>

\* resumeSave ends with an error of its context: the row is left alone.
SaveCancelled(o) ==
    /\ op[o].phase = "run" /\ op[o].cancelled
    /\ op' = [op EXCEPT ![o].phase = "ending"]
    /\ UNCHANGED <<manager, startMu, active, db, rows, processes, drained>>

\* The outcome is published in rows and the result is sent.
SavePublish(o) ==
    /\ op[o].phase \in {"completed", "failed"}
    /\ IF op[o].ok THEN rows' = [rows EXCEPT ![op[o].stream] = "finished"]
                   ELSE UpdateRowStatus(op[o].stream, "stopped")
    /\ op' = [op EXCEPT ![o].phase = "ending"]
    /\ UNCHANGED <<manager, startMu, active, db, processes, drained>>

\* finishSave: the save leaves active, closes done and saveTasks counts it off.
FinishSave(o) ==
    LET s == op[o].stream IN
    /\ op[o].phase = "ending"
    /\ active' = IF active[s] = o THEN [active EXCEPT ![s] = None] ELSE active
    /\ op' = [op EXCEPT ![o] = [@ EXCEPT !.phase = "done", !.stream = None, !.cancelled = FALSE]]
    /\ drained' = IF \A p \in Op \ {o} : ~Unfinished(p) THEN drained \cup Waiting ELSE drained
    /\ UNCHANGED <<manager, startMu, db, rows, processes>>

(***************************************************************************)
(* SaveManagedFile and StopManagedFile                                     *)
(***************************************************************************)

\* Take startMu, cancel the stream's save if there is one and wait for it in the
\* phase cancelling; next is what follows.
CancelActive(u, s, cancelling, next) ==
    /\ user[u].phase = "idle" /\ startMu = None
    /\ startMu' = u
    /\ user' = [user EXCEPT ![u] = [phase |-> IF active[s] = None THEN next ELSE cancelling,
                                    stream |-> s, op |-> active[s]]]
    /\ op' = IF active[s] = None THEN op ELSE [op EXCEPT ![active[s]].cancelled = TRUE]
    /\ UNCHANGED <<manager, active, db, rows, clean, resume, drained, stopper>>

\* SaveManagedFile is accepted.
SaveRequest(u, s) == Accepting /\ CancelActive(u, s, "cancel", "prepare")

\* StopManagedFile, from file_set_status or before file_delete.
StopRequest(u, s) == stopper # "new" /\ CancelActive(u, s, "stopCancel", "stopWrite")

\* <-active.done.
ActiveDone(u) ==
    /\ user[u].phase \in {"cancel", "stopCancel"} /\ op[user[u].op].phase = "done"
    /\ user' = [user EXCEPT ![u] = [@ EXCEPT !.op = None,
            !.phase = IF user[u].phase = "cancel" THEN "prepare" ELSE "stopWrite"]]
    /\ UNCHANGED <<manager, startMu, active, op, db, rows, clean, resume, drained, stopper>>

\* SaveManagedFile gives up: its context ends, or the descriptor is unavailable.
SaveGiveUp(u) ==
    /\ user[u].phase \in {"cancel", "prepare"}
    /\ startMu' = None
    /\ user' = [user EXCEPT ![u] = IdleUser]
    /\ UNCHANGED <<manager, active, op, db, rows, clean, resume, drained, stopper>>

\* prepareSave.
SavePrepare(u) ==
    /\ user[u].phase = "prepare"
    /\ PrepareSave(user[u].stream)
    /\ user' = [user EXCEPT ![u].phase = "begin"]
    /\ UNCHANGED <<manager, startMu, active, op, clean, resume, drained, stopper>>

\* beginSave and launchSave; startMu is released.
SaveLaunch(u) ==
    /\ user[u].phase = "begin"
    /\ startMu' = None
    /\ \/ /\ BeginSave(user[u].stream)
          /\ user' = [user EXCEPT ![u] = [@ EXCEPT !.phase = "wait", !.op = NewOp]]
       \/ RefuseSave(user[u].stream) /\ user' = [user EXCEPT ![u] = IdleUser]
    /\ UNCHANGED <<manager, db, rows, clean, resume, drained, stopper>>

\* currentRow: rows gets the status the database has.
CurrentRow(s) == rows' = [rows EXCEPT ![s] = db[s].status]

\* firstWritten or result: currentRow reloads the row.
SaveReturn(u) ==
    LET o == user[u].op IN
    /\ user[u].phase = "wait" /\ (op[o].wrote \/ op[o].phase \in {"ending", "done"})
    /\ CurrentRow(user[u].stream)
    /\ user' = [user EXCEPT ![u] = IdleUser]
    /\ UNCHANGED <<manager, startMu, active, op, db, clean, resume, drained, stopper>>

\* The request's context ends; the save goes on.
SaveDetach(u) ==
    /\ user[u].phase = "wait"
    /\ user' = [user EXCEPT ![u] = IdleUser]
    /\ UNCHANGED <<manager, startMu, active, op, db, rows, clean, resume, drained, stopper>>

\* The timer fires before the first write: the save is cancelled.
SaveExpire(u) ==
    /\ user[u].phase = "wait" /\ ~op[user[u].op].wrote
    /\ op' = [op EXCEPT ![user[u].op].cancelled = Unfinished(user[u].op)]
    /\ user' = [user EXCEPT ![u].phase = "expired"]
    /\ UNCHANGED <<manager, startMu, active, db, rows, clean, resume, drained, stopper>>

\* After op.done: the row is reloaded and its status looked at, without startMu.
SaveSettle(u) ==
    LET s == user[u].stream
        o == user[u].op IN
    /\ user[u].phase = "expired" /\ op[o].phase = "done"
    /\ CurrentRow(s)
    /\ user' = [user EXCEPT ![u] = IF op[o].ok \/ db[s].status = "finished" THEN IdleUser
                                   ELSE [@ EXCEPT !.phase = "settle", !.op = None]]
    /\ UNCHANGED <<manager, startMu, active, op, db, clean, resume, drained, stopper>>

\* ... and the row is stopped.
SaveTimedOut(u) ==
    /\ user[u].phase = "settle"
    /\ ChangeStatus(user[u].stream, "stopped")
    /\ UpdateRowStatus(user[u].stream, "stopped")
    /\ user' = [user EXCEPT ![u] = IdleUser]
    /\ UNCHANGED <<manager, startMu, active, op, clean, resume, drained, stopper>>

\* StopManagedFile's context ends while it waits: the row is stopped all the same.
StopGiveUp(u) ==
    /\ user[u].phase = "stopCancel"
    /\ ChangeStatus(user[u].stream, "stopped")
    /\ UpdateRowStatus(user[u].stream, "stopped")
    /\ startMu' = None
    /\ user' = [user EXCEPT ![u] = IdleUser]
    /\ UNCHANGED <<manager, active, op, clean, resume, drained, stopper>>

\* StopManagedFile: a row that has finished meanwhile stays so.
StopWrite(u) ==
    LET s == user[u].stream IN
    /\ user[u].phase = "stopWrite"
    /\ IF db[s].status = "finished"
       THEN rows' = [rows EXCEPT ![s] = "finished"] /\ UNCHANGED db
       ELSE ChangeStatus(s, "stopped") /\ rows' = [rows EXCEPT ![s] = "stopped"]
    /\ startMu' = None
    /\ user' = [user EXCEPT ![u] = IdleUser]
    /\ UNCHANGED <<manager, active, op, clean, resume, drained, stopper>>

\* RegisterManagedFile: the row of a new or changed file is read from the database.
Register(s) ==
    /\ startMu = None /\ manager.running
    /\ rows' = [rows EXCEPT ![s] = db[s].status]
    /\ UNCHANGED <<manager, startMu, active, op, db, processes, drained>>

\* MarkManagedStreamActive: a streamed file is running.
MarkActive(s) ==
    /\ startMu = None /\ rows[s] = "stopped"
    /\ ChangeStatus(s, "running") /\ UpdateRowStatus(s, "running")
    /\ UNCHANGED <<manager, startMu, active, op, processes, drained>>

\* StopManagedStreamIfIdle.
StopIfIdle(s) ==
    /\ startMu = None /\ rows[s] = "running" /\ active[s] = None
    /\ Accepting /\ ~manager.stopping
    /\ ChangeStatus(s, "stopped") /\ UpdateRowStatus(s, "stopped")
    /\ UNCHANGED <<manager, startMu, active, op, processes, drained>>

(***************************************************************************)
(* Clean, Pause and Resume                                                 *)
(***************************************************************************)

\* Clean takes cleanMu.
CleanBegin(c) ==
    /\ stopper # "new" /\ \A d \in Cleaner : clean[d] = "idle"
    /\ clean' = [clean EXCEPT ![c] = "pausing"]
    /\ UNCHANGED <<manager, startMu, active, op, db, rows, user, resume, drained, stopper>>

\* pause by the waiter w: paused is set and every active save is cancelled.
Pause(w) ==
    /\ startMu = None
    /\ manager' = [manager EXCEPT !.paused = TRUE]
    /\ op' = [o \in Op |-> IF \E s \in Stream : active[s] = o THEN [op[o] EXCEPT !.cancelled = TRUE] ELSE op[o]]
    /\ drained' = IF \E o \in Op : Unfinished(o) THEN drained \ {w} ELSE drained \cup {w}

\* Clean calls Pause.
CleanPause(c) ==
    /\ clean[c] = "pausing" /\ Pause(c)
    /\ clean' = [clean EXCEPT ![c] = "draining"]
    /\ UNCHANGED <<startMu, active, db, rows, user, resume, stopper>>

\* Mutant: Pause does not wait for the saves it cancelled.
CleanDrainedEarly(c) ==
    /\ clean[c] = "draining"
    /\ clean' = [clean EXCEPT ![c] = "deleting"]
    /\ drained' = drained \ {c}
    /\ UNCHANGED <<manager, startMu, active, op, db, rows, user, resume, stopper>>

\* Pause returns: saveTasks.Wait has.
CleanDrained(c) ==
    /\ clean[c] = "draining" /\ c \in drained
    /\ clean' = [clean EXCEPT ![c] = "deleting"]
    /\ drained' = drained \ {c}
    /\ UNCHANGED <<manager, startMu, active, op, db, rows, user, resume, stopper>>

\* Mutant: nobody resumes after a pause that timed out.
PauseTimeoutForgets(c, l) ==
    /\ clean[c] = "draining" /\ resume[l].phase = "idle"
    /\ clean' = [clean EXCEPT ![c] = "idle"]
    /\ drained' = drained \ {c}
    /\ UNCHANGED <<manager, startMu, active, op, db, rows, user, resume, stopper>>

\* The context of Pause ends first: Clean returns, and the goroutine l waits on and
\* resumes later.
PauseTimeout(c, l) ==
    /\ clean[c] = "draining" /\ resume[l].phase = "idle"
    /\ clean' = [clean EXCEPT ![c] = "idle"]
    /\ resume' = [resume EXCEPT ![l].phase = "waiting"]
    /\ drained' = IF c \in drained THEN (drained \ {c}) \cup {l} ELSE drained
    /\ UNCHANGED <<manager, startMu, active, op, db, rows, user, stopper>>

\* CleanManagedBlobs: if there is anything to delete, every row is stopped first.
\* Resume is deferred.
CleanDelete(c) ==
    /\ clean[c] = "deleting"
    /\ \/ db' = [s \in Stream |-> [db[s] EXCEPT !.status = "stopped"]]
       \/ UNCHANGED db
    /\ clean' = [clean EXCEPT ![c] = "resuming"]
    /\ resume' = [resume EXCEPT ![c].phase = "lift"]
    /\ UNCHANGED <<manager, startMu, active, op, rows, user, drained, stopper>>

\* Resume returns; a Clean unlocks cleanMu with it.
Resumed(r) ==
    /\ resume' = [resume EXCEPT ![r] = IdleResumer]
    /\ clean' = IF r \in Cleaner THEN [clean EXCEPT ![r] = "idle"] ELSE clean

\* Resume lifts the pause, whoever made it, unless the manager is stopping.
ResumeLift(r) ==
    /\ resume[r].phase = "lift" \/ (resume[r].phase = "waiting" /\ r \in drained)
    /\ drained' = drained \ {r}
    /\ IF manager.running /\ ~manager.stopping
       THEN /\ manager' = [manager EXCEPT !.paused = FALSE]
            /\ resume' = [resume EXCEPT ![r].phase = "list"]
            /\ UNCHANGED clean
       ELSE Resumed(r) /\ UNCHANGED manager
    /\ UNCHANGED <<startMu, active, op, db, rows, user, stopper>>

\* Resume lists the rows to restart.
ResumeList(r) ==
    /\ resume[r].phase = "list"
    /\ resume' = [resume EXCEPT ![r] = [@ EXCEPT !.phase = "each", !.rows = Resumable]]
    /\ UNCHANGED <<manager, startMu, active, op, db, rows, user, clean, drained, stopper>>

\* startSave of a listed row: prepareSave, unless it is active or runCtx has ended.
ResumePrepare(r, s) ==
    /\ resume[r].phase = "each" /\ s \in resume[r].rows /\ startMu = None
    /\ IF active[s] = None /\ manager.running
       THEN /\ PrepareSave(s)
            /\ startMu' = r
            /\ resume' = [resume EXCEPT ![r] = [phase |-> "begin", rows |-> @.rows \ {s}, stream |-> s]]
       ELSE /\ resume' = [resume EXCEPT ![r].rows = @ \ {s}]
            /\ UNCHANGED <<db, rows, startMu>>
    /\ UNCHANGED <<manager, active, op, user, clean, drained, stopper>>

\* startSave, then: beginSave and launchSave.
ResumeBegin(r) ==
    /\ resume[r].phase = "begin"
    /\ startMu' = None
    /\ BeginSave(resume[r].stream) \/ RefuseSave(resume[r].stream)
    /\ resume' = [resume EXCEPT ![r] = [@ EXCEPT !.phase = "each", !.stream = None]]
    /\ UNCHANGED <<manager, db, rows, user, clean, drained, stopper>>

\* The list is done.
ResumeEnd(r) ==
    /\ resume[r].phase = "each" /\ resume[r].rows = {}
    /\ Resumed(r)
    /\ UNCHANGED <<manager, startMu, active, op, db, rows, user, drained, stopper>>

(***************************************************************************)
(* Start and Stop                                                          *)
(***************************************************************************)

\* Start loads the rows whose descriptors can be restored and resumes as Resume does.
Start ==
    /\ stopper = "new" /\ stopper' = "none"
    /\ manager' = [manager EXCEPT !.running = TRUE]
    /\ \E loaded \in SUBSET Stream :
        /\ rows' = [s \in Stream |-> IF s \in loaded THEN db[s].status ELSE "absent"]
        /\ resume' = [resume EXCEPT ![Startup] = [@ EXCEPT !.phase = "each", !.rows = Resumable \cap loaded]]
    /\ UNCHANGED <<startMu, active, op, db, user, clean, drained>>

\* Stop: no more saves begin, runCtx ends.
StopBegin ==
    /\ stopper = "none" /\ startMu = None
    /\ stopper' = "pausing"
    /\ manager' = [manager EXCEPT !.running = FALSE, !.stopping = TRUE]
    /\ op' = [o \in Op |-> IF Unfinished(o) THEN [op[o] EXCEPT !.cancelled = TRUE] ELSE op[o]]
    /\ UNCHANGED <<startMu, active, db, rows, user, clean, resume, drained>>

\* Stop's goroutine pauses.
StopPause ==
    /\ stopper = "pausing" /\ Pause("stop")
    /\ stopper' = "draining"
    /\ UNCHANGED <<startMu, active, db, rows, user, clean, resume>>

\* Stop's goroutine has seen the saves end.
StopFinish ==
    /\ stopper = "draining" /\ "stop" \in drained
    /\ stopper' = "done"
    /\ rows' = [s \in Stream |-> "absent"]
    /\ manager' = [manager EXCEPT !.stopping = FALSE]
    /\ UNCHANGED <<startMu, active, op, db, user, clean, resume, drained>>

(***************************************************************************)
(* Specification                                                           *)
(***************************************************************************)

SaveStep(o) ==
    \/ SaveWrite(o) \/ SaveComplete(o) \/ SaveFail(o) \/ SaveCancelled(o) \/ SavePublish(o)
    \/ FinishSave(o)

UserStep(u) ==
    \/ ActiveDone(u) \/ SaveGiveUp(u) \/ SavePrepare(u) \/ SaveLaunch(u) \/ SaveReturn(u)
    \/ SaveDetach(u) \/ SaveExpire(u) \/ SaveSettle(u) \/ SaveTimedOut(u) \/ StopGiveUp(u)
    \/ StopWrite(u)

CleanStep(c) == CleanPause(c) \/ CleanDrained(c) \/ CleanDelete(c) \/ \E l \in Late : PauseTimeout(c, l)

ResumeStep(r) ==
    \/ ResumeLift(r) \/ ResumeList(r) \/ ResumeBegin(r) \/ ResumeEnd(r)
    \/ \E s \in Stream : ResumePrepare(r, s)

StopStep == StopPause \/ StopFinish

Next ==
    \/ Start \/ StopBegin \/ StopStep
    \/ \E o \in Op : SaveStep(o)
    \/ \E u \in User : UserStep(u)
    \/ \E u \in User, s \in Stream : SaveRequest(u, s) \/ StopRequest(u, s)
    \/ \E s \in Stream : Register(s) \/ MarkActive(s) \/ StopIfIdle(s)
    \/ \E c \in Cleaner : CleanBegin(c) \/ CleanStep(c)
    \/ \E r \in Resumer : ResumeStep(r)

Spec == Init /\ [][Next]_vars

(***************************************************************************)
(* Properties                                                              *)
(***************************************************************************)

\* Every save that has not ended is the one active has for its stream, so that two
\* saves never write one stream and Stop, Pause and StopManagedFile reach them all
\* (active, cancelActive, beginSave and finishSave together).
SaveTracked == \A o \in Op : Unfinished(o) => active[op[o].stream] = o

\* While CleanManagedBlobs deletes no save runs, as long as nobody lifts the pause: what
\* Pause cancelled has ended, and neither a user, Start nor a stale Resume begins a save.
CleanBarrier ==
    \A c \in Cleaner :
        clean[c] = "deleting" /\ manager.paused /\ manager.running => \A o \in Op : ~Unfinished(o)

\* Once Stop's goroutine is done no save runs and none begins.
StopQuiet == stopper = "done" => \A o \in Op : ~Unfinished(o)

\* Saves are where the manager expects them: each tracked, and none during a cleanup's
\* deletions or after Stop.
SavesAccounted == SaveTracked /\ CleanBarrier /\ StopQuiet

\* Whenever no save, request, cleanup, Resume or Stop has a step left, downloads are not
\* paused (a pause does not outlive its cleanup, even one that timed out), Stop has
\* completed and no request is still waiting.
RestIsFree ==
    ~ENABLED (\/ StopStep
              \/ \E o \in Op : SaveStep(o)
              \/ \E u \in User : UserStep(u)
              \/ \E c \in Cleaner : CleanStep(c)
              \/ \E r \in Resumer : ResumeStep(r))
    => /\ ~(manager.paused /\ manager.running)
       /\ stopper \in {"new", "none", "done"}
       /\ \A u \in User : user[u] = IdleUser
       /\ startMu = None /\ \A s \in Stream : active[s] = None
=============================================================================
