------------------------- MODULE FileManagerProofs -------------------------
(***************************************************************************)
(* Proofs about FileManager for any sets of streams, saves, requests,      *)
(* cleaners and timed-out pauses: SavesAccounted holds in every state.     *)
(* The inductive invariant says which way round active and the saves point *)
(* at each other, that only one Clean is under way, that Stop's first step *)
(* ends every later beginSave, and what a returned saveTasks.Wait is worth *)
(* until somebody lifts the pause.                                         *)
(***************************************************************************)
EXTENDS FileManager, TLAPS

OpPhase == {"free", "run", "completed", "failed", "ending", "done"}
OpRecord == [phase : OpPhase,
             stream : Stream \cup {None}, cancelled : BOOLEAN, wrote : BOOLEAN, ok : BOOLEAN]
UserPhase == {"idle", "cancel", "stopCancel", "prepare", "stopWrite", "begin", "wait", "expired",
              "settle"}
UserRecord == [phase : UserPhase,
               stream : Stream \cup {None}, op : Op \cup {None}]
ResumePhase == {"idle", "waiting", "lift", "list", "each", "begin"}
ResumeRecord == [phase : ResumePhase,
                 rows : SUBSET Stream, stream : Stream \cup {None}]

FileRecord == [status : Status, path : BOOLEAN, saved : BOOLEAN]
CleanPhase == {"idle", "pausing", "draining", "deleting", "resuming"}

OpsTyped == op \in [Op -> OpRecord] /\ active \in [Stream -> Op \cup {None}]

RowsTyped == db \in [Stream -> FileRecord] /\ rows \in [Stream -> Status \cup {"absent"}]

UsersTyped ==
    /\ user \in [User -> UserRecord]
    /\ \A u \in User : user[u].phase # "idle" => user[u].stream \in Stream

ResumesTyped ==
    /\ resume \in [Resumer -> ResumeRecord]
    /\ \A r \in Resumer : resume[r].phase = "begin" => resume[r].stream \in Stream

RestTyped ==
    /\ manager \in [running : BOOLEAN, stopping : BOOLEAN, paused : BOOLEAN]
    /\ startMu \in User \cup Resumer \cup {None}
    /\ clean \in [Cleaner -> CleanPhase]
    /\ drained \in SUBSET (Cleaner \cup Late \cup {"stop"})
    /\ stopper \in {"new", "none", "pausing", "draining", "done"}

\* Every variable has its type; whoever is about to begin a save knows its stream.
TypeOK == OpsTyped /\ RowsTyped /\ UsersTyped /\ ResumesTyped /\ RestTyped

\* No save is under way.
Quiet == \A o \in Op : ~Unfinished(o)

\* A save that has not ended is the active one of its stream, and the other way round.
TrackInv ==
    /\ \A o \in Op : Unfinished(o) => op[o].stream \in Stream /\ active[op[o].stream] = o
    /\ \A s \in Stream : active[s] # None => Unfinished(active[s]) /\ op[active[s]].stream = s

\* Before Start nothing is under way, after Stop's first step saves are refused, and
\* cleanMu admits one Clean.
LifeInv ==
    /\ stopper = "new" => /\ ~manager.running /\ ~manager.paused /\ Quiet
                          /\ \A c \in Cleaner : clean[c] = "idle"
    /\ stopper \in {"pausing", "draining", "done"} => ~manager.running
    /\ \A c, d \in Cleaner : clean[c] # "idle" /\ clean[d] # "idle" => c = d

\* Once saveTasks.Wait has returned to a Clean no save is under way until the pause
\* is lifted; once it has returned to Stop, none is ever again.
DrainInv ==
    /\ \A c \in Cleaner :
          /\ manager.paused /\ manager.running
          /\ clean[c] = "deleting" \/ (clean[c] = "draining" /\ c \in drained)
          => Quiet
    /\ stopper = "done" \/ (stopper = "draining" /\ "stop" \in drained) => Quiet

\* The inductive invariant.
IndInv == TypeOK /\ TrackInv /\ LifeInv /\ DrainInv

\* What beginSave and launchSave do: an operation nobody refers to becomes the
\* active save of the stream.
LEMMA BeginEffect ==
  ASSUME TypeOK, NEW s \in Stream, BeginSave(s)
  PROVE  \E n \in Op :
           /\ ~Unfinished(n) /\ active[s] = None /\ Accepting
           /\ active' = [active EXCEPT ![s] = n]
           /\ op' \in [Op -> OpRecord] /\ \A o \in Op \ {n} : op'[o] = op[o]
           /\ op'[n].phase = "run" /\ op'[n].stream = s
<1>1. NewOp \in Op /\ Fresh(NewOp)
  BY DEF BeginSave, NewOp
<1>2. /\ op' = [op EXCEPT ![NewOp] = [FreeOp EXCEPT !.phase = "run", !.stream = s]]
      /\ active' = [active EXCEPT ![s] = NewOp] /\ active[s] = None /\ Accepting
  BY DEF BeginSave
<1>3. op'[NewOp] = [FreeOp EXCEPT !.phase = "run", !.stream = s]
  BY <1>1, <1>2 DEF TypeOK, OpsTyped
<1>4. op'[NewOp].phase = "run" /\ op'[NewOp].stream = s /\ op'[NewOp] \in OpRecord
  BY <1>3 DEF FreeOp, OpRecord, OpPhase
<1>5. op' \in [Op -> OpRecord] /\ \A o \in Op \ {NewOp} : op'[o] = op[o]
  BY <1>1, <1>2, <1>3, <1>4 DEF TypeOK, OpsTyped
<1> QED
  BY <1>1, <1>2, <1>4, <1>5 DEF Fresh

\* What pause does to the saves: none changes but for its context.
LEMMA PauseEffect ==
  ASSUME TypeOK, NEW w, Pause(w)
  PROVE  /\ op' \in [Op -> OpRecord]
         /\ \A o \in Op : op'[o].phase = op[o].phase /\ op'[o].stream = op[o].stream
         /\ manager' = [manager EXCEPT !.paused = TRUE]
         /\ drained' = IF \E o \in Op : Unfinished(o) THEN drained \ {w} ELSE drained \cup {w}
<1>1. ASSUME NEW r \in OpRecord
      PROVE  LET q == [r EXCEPT !.cancelled = TRUE]
             IN  q \in OpRecord /\ q.phase = r.phase /\ q.stream = r.stream
  BY <1>1 DEF OpRecord
<1> QED
  BY <1>1 DEF TypeOK, OpsTyped, Pause

\* Every step keeps the types.
LEMMA TypeStep ==
  ASSUME TypeOK, [Next]_vars PROVE TypeOK'
<1>1. CASE Start
  <2>1. RowsTyped'
    BY <1>1 DEF TypeOK, RowsTyped, FileRecord, Status, Start
  <2>2. ResumesTyped'
    <3>1. PICK loaded \in SUBSET Stream :
             resume' = [resume EXCEPT ![Startup] = [resume[Startup] EXCEPT !.phase = "each", !.rows = Resumable \cap loaded]]
      BY <1>1 DEF Start
    <3>2. Startup \in Resumer /\ Resumable \cap loaded \in SUBSET Stream
      BY DEF Resumer, Resumable
    <3> QED
      BY <3>1, <3>2 DEF TypeOK, ResumesTyped, ResumeRecord, ResumePhase
  <2>3. RestTyped'
    BY <1>1 DEF TypeOK, RestTyped, CleanPhase, Start
  <2> QED
    BY <1>1, <2>1, <2>2, <2>3 DEF TypeOK, OpsTyped, UsersTyped, Start
<1>2. CASE StopBegin
  <2>1. OpsTyped'
    BY <1>2 DEF TypeOK, OpsTyped, OpRecord, OpPhase, Unfinished, StopBegin
  <2>2. RestTyped'
    BY <1>2 DEF TypeOK, RestTyped, CleanPhase, StopBegin
  <2> QED
    BY <1>2, <2>1, <2>2 DEF TypeOK, RowsTyped, UsersTyped, ResumesTyped, StopBegin
<1>3. CASE StopPause
  <2>1. OpsTyped'
    BY <1>3, PauseEffect DEF TypeOK, OpsTyped, Pause, StopPause
  <2>2. RestTyped'
    BY <1>3 DEF TypeOK, RestTyped, CleanPhase, Pause, StopPause
  <2> QED
    BY <1>3, <2>1, <2>2 DEF TypeOK, RowsTyped, UsersTyped, ResumesTyped, Pause, StopPause
<1>4. CASE StopFinish
  <2>1. RowsTyped'
    BY <1>4 DEF TypeOK, RowsTyped, FileRecord, Status, StopFinish
  <2>2. RestTyped'
    BY <1>4 DEF TypeOK, RestTyped, CleanPhase, StopFinish
  <2> QED
    BY <1>4, <2>1, <2>2 DEF TypeOK, OpsTyped, UsersTyped, ResumesTyped, StopFinish
<1>5. ASSUME NEW o \in Op, SaveWrite(o) PROVE TypeOK'
  <2>1. OpsTyped'
    BY <1>5 DEF TypeOK, OpsTyped, OpRecord, OpPhase, processes, SaveWrite
  <2> QED
    BY <1>5, <2>1 DEF TypeOK, RowsTyped, UsersTyped, ResumesTyped, RestTyped, processes, SaveWrite
<1>6. ASSUME NEW o \in Op, SaveComplete(o) PROVE TypeOK'
  <2>1. OpsTyped'
    BY <1>6 DEF TypeOK, OpsTyped, OpRecord, OpPhase, processes, SaveComplete
  <2>2. RowsTyped'
    BY <1>6 DEF TypeOK, RowsTyped, FileRecord, Status, processes, SaveComplete
  <2> QED
    BY <1>6, <2>1, <2>2 DEF TypeOK, UsersTyped, ResumesTyped, RestTyped, processes, SaveComplete
<1>7. ASSUME NEW o \in Op, SaveFail(o) PROVE TypeOK'
  <2>1. OpsTyped'
    BY <1>7 DEF TypeOK, OpsTyped, OpRecord, OpPhase, ChangeStatus, processes, SaveFail
  <2>2. RowsTyped'
    BY <1>7 DEF TypeOK, RowsTyped, FileRecord, Status, ChangeStatus, processes, SaveFail
  <2> QED
    BY <1>7, <2>1, <2>2 DEF TypeOK, UsersTyped, ResumesTyped, RestTyped, processes, SaveFail
<1>8. ASSUME NEW o \in Op, SaveCancelled(o) PROVE TypeOK'
  <2>1. OpsTyped'
    BY <1>8 DEF TypeOK, OpsTyped, OpRecord, OpPhase, processes, SaveCancelled
  <2> QED
    BY <1>8, <2>1 DEF TypeOK, RowsTyped, UsersTyped, ResumesTyped, RestTyped, processes,
       SaveCancelled
<1>9. ASSUME NEW o \in Op, SavePublish(o) PROVE TypeOK'
  <2>1. OpsTyped'
    BY <1>9 DEF TypeOK, OpsTyped, OpRecord, OpPhase, UpdateRowStatus, processes, SavePublish
  <2>2. RowsTyped'
    BY <1>9 DEF TypeOK, RowsTyped, FileRecord, Status, UpdateRowStatus, processes, SavePublish
  <2> QED
    BY <1>9, <2>1, <2>2 DEF TypeOK, UsersTyped, ResumesTyped, RestTyped, processes, SavePublish
<1>10. ASSUME NEW o \in Op, FinishSave(o) PROVE TypeOK'
  <2>1. OpsTyped'
    BY <1>10 DEF TypeOK, OpsTyped, OpRecord, OpPhase, Waiting, processes, FinishSave
  <2>2. RestTyped'
    BY <1>10 DEF TypeOK, RestTyped, CleanPhase, Waiting, Waiting, processes, FinishSave
  <2> QED
    BY <1>10, <2>1, <2>2 DEF TypeOK, RowsTyped, UsersTyped, ResumesTyped, processes, FinishSave
<1>11. ASSUME NEW u \in User, ActiveDone(u) PROVE TypeOK'
  <2>1. UsersTyped'
    BY <1>11 DEF TypeOK, UsersTyped, UserRecord, UserPhase, IdleUser, ActiveDone
  <2> QED
    BY <1>11, <2>1 DEF TypeOK, OpsTyped, RowsTyped, ResumesTyped, RestTyped, ActiveDone
<1>12. ASSUME NEW u \in User, SaveGiveUp(u) PROVE TypeOK'
  <2>1. UsersTyped'
    BY <1>12 DEF TypeOK, UsersTyped, UserRecord, UserPhase, IdleUser, SaveGiveUp
  <2>2. RestTyped'
    BY <1>12 DEF TypeOK, RestTyped, CleanPhase, IdleUser, SaveGiveUp
  <2> QED
    BY <1>12, <2>1, <2>2 DEF TypeOK, OpsTyped, RowsTyped, ResumesTyped, SaveGiveUp
<1>13. ASSUME NEW u \in User, SavePrepare(u) PROVE TypeOK'
  <2>1. RowsTyped'
    BY <1>13 DEF TypeOK, RowsTyped, FileRecord, Status, PrepareSave, IdleUser, SavePrepare
  <2>2. UsersTyped'
    BY <1>13 DEF TypeOK, UsersTyped, UserRecord, UserPhase, PrepareSave, IdleUser, SavePrepare
  <2> QED
    BY <1>13, <2>1, <2>2 DEF TypeOK, OpsTyped, ResumesTyped, RestTyped, SavePrepare
<1>14. ASSUME NEW u \in User, SaveLaunch(u) PROVE TypeOK'
  <2>1. user[u].stream \in Stream
    BY <1>14 DEF TypeOK, UsersTyped, SaveLaunch
  <2>2. CASE BeginSave(user[u].stream)
    <3>1. OpsTyped'
      BY <2>1, <2>2, BeginEffect DEF TypeOK, OpsTyped
    <3>2. NewOp \in Op
      BY <2>2 DEF BeginSave, NewOp
    <3>3. UsersTyped'
      <4>1. CASE user' = [user EXCEPT ![u] = IdleUser]
        BY <4>1 DEF TypeOK, UsersTyped, UserRecord, UserPhase, IdleUser
      <4>2. CASE user' = [user EXCEPT ![u] = [user[u] EXCEPT !.phase = "wait", !.op = NewOp]]
        BY <2>1, <3>2, <4>2 DEF TypeOK, UsersTyped, UserRecord, UserPhase
      <4> QED
        BY <1>14, <4>1, <4>2 DEF SaveLaunch
    <3> QED
      BY <1>14, <3>1, <3>3 DEF TypeOK, RowsTyped, ResumesTyped, RestTyped, SaveLaunch
  <2>3. CASE ~BeginSave(user[u].stream)
    <3>1. UsersTyped'
      BY <1>14, <2>3 DEF TypeOK, UsersTyped, UserRecord, UserPhase, IdleUser, SaveLaunch
    <3> QED
      BY <1>14, <2>3, <3>1 DEF TypeOK, OpsTyped, RowsTyped, ResumesTyped, RestTyped, SaveLaunch, RefuseSave
  <2> QED
    BY <2>2, <2>3
<1>15. ASSUME NEW u \in User, SaveReturn(u) PROVE TypeOK'
  <2>1. RowsTyped'
    BY <1>15 DEF TypeOK, RowsTyped, FileRecord, Status, CurrentRow, IdleUser, SaveReturn
  <2>2. UsersTyped'
    BY <1>15 DEF TypeOK, UsersTyped, UserRecord, UserPhase, CurrentRow, IdleUser, SaveReturn
  <2> QED
    BY <1>15, <2>1, <2>2 DEF TypeOK, OpsTyped, ResumesTyped, RestTyped, SaveReturn
<1>16. ASSUME NEW u \in User, SaveDetach(u) PROVE TypeOK'
  <2>1. UsersTyped'
    BY <1>16 DEF TypeOK, UsersTyped, UserRecord, UserPhase, IdleUser, SaveDetach
  <2> QED
    BY <1>16, <2>1 DEF TypeOK, OpsTyped, RowsTyped, ResumesTyped, RestTyped, SaveDetach
<1>17. ASSUME NEW u \in User, SaveExpire(u) PROVE TypeOK'
  <2>1. OpsTyped'
    BY <1>17, ZenonT(30) DEF TypeOK, OpsTyped, OpRecord, OpPhase, Unfinished, IdleUser, SaveExpire
  <2>2. UsersTyped'
    BY <1>17 DEF TypeOK, UsersTyped, UserRecord, UserPhase, IdleUser, SaveExpire
  <2> QED
    BY <1>17, <2>1, <2>2 DEF TypeOK, RowsTyped, ResumesTyped, RestTyped, SaveExpire
<1>18. ASSUME NEW u \in User, SaveSettle(u) PROVE TypeOK'
  <2>1. RowsTyped'
    BY <1>18 DEF TypeOK, RowsTyped, FileRecord, Status, CurrentRow, IdleUser, SaveSettle
  <2>2. UsersTyped'
    BY <1>18 DEF TypeOK, UsersTyped, UserRecord, UserPhase, CurrentRow, IdleUser, SaveSettle
  <2> QED
    BY <1>18, <2>1, <2>2 DEF TypeOK, OpsTyped, ResumesTyped, RestTyped, SaveSettle
<1>19. ASSUME NEW u \in User, SaveTimedOut(u) PROVE TypeOK'
  <2>1. RowsTyped'
    BY <1>19 DEF TypeOK, RowsTyped, FileRecord, Status, ChangeStatus, UpdateRowStatus, IdleUser,
       SaveTimedOut
  <2>2. UsersTyped'
    BY <1>19 DEF TypeOK, UsersTyped, UserRecord, UserPhase, ChangeStatus, UpdateRowStatus, IdleUser,
       SaveTimedOut
  <2> QED
    BY <1>19, <2>1, <2>2 DEF TypeOK, OpsTyped, ResumesTyped, RestTyped, SaveTimedOut
<1>20. ASSUME NEW u \in User, StopGiveUp(u) PROVE TypeOK'
  <2>1. RowsTyped'
    BY <1>20 DEF TypeOK, RowsTyped, FileRecord, Status, ChangeStatus, UpdateRowStatus, IdleUser,
       StopGiveUp
  <2>2. UsersTyped'
    BY <1>20 DEF TypeOK, UsersTyped, UserRecord, UserPhase, ChangeStatus, UpdateRowStatus, IdleUser,
       StopGiveUp
  <2>3. RestTyped'
    BY <1>20 DEF TypeOK, RestTyped, CleanPhase, ChangeStatus, UpdateRowStatus, IdleUser, StopGiveUp
  <2> QED
    BY <1>20, <2>1, <2>2, <2>3 DEF TypeOK, OpsTyped, ResumesTyped, StopGiveUp
<1>21. ASSUME NEW u \in User, StopWrite(u) PROVE TypeOK'
  <2>1. RowsTyped'
    BY <1>21 DEF TypeOK, RowsTyped, FileRecord, Status, ChangeStatus, IdleUser, StopWrite
  <2>2. UsersTyped'
    BY <1>21 DEF TypeOK, UsersTyped, UserRecord, UserPhase, ChangeStatus, IdleUser, StopWrite
  <2>3. RestTyped'
    BY <1>21 DEF TypeOK, RestTyped, CleanPhase, ChangeStatus, IdleUser, StopWrite
  <2> QED
    BY <1>21, <2>1, <2>2, <2>3 DEF TypeOK, OpsTyped, ResumesTyped, StopWrite
<1>22. ASSUME NEW u \in User, NEW s \in Stream, SaveRequest(u, s) PROVE TypeOK'
  <2>1. OpsTyped'
    BY <1>22 DEF TypeOK, OpsTyped, OpRecord, OpPhase, CancelActive, SaveRequest
  <2>2. UsersTyped'
    BY <1>22 DEF TypeOK, UsersTyped, UserRecord, UserPhase, OpsTyped, CancelActive, SaveRequest
  <2>3. RestTyped'
    BY <1>22 DEF TypeOK, RestTyped, CleanPhase, CancelActive, SaveRequest
  <2> QED
    BY <1>22, <2>1, <2>2, <2>3 DEF TypeOK, RowsTyped, ResumesTyped, CancelActive, SaveRequest
<1>23. ASSUME NEW u \in User, NEW s \in Stream, StopRequest(u, s) PROVE TypeOK'
  <2>1. OpsTyped'
    BY <1>23 DEF TypeOK, OpsTyped, OpRecord, OpPhase, CancelActive, StopRequest
  <2>2. UsersTyped'
    BY <1>23 DEF TypeOK, UsersTyped, UserRecord, UserPhase, OpsTyped, CancelActive, StopRequest
  <2>3. RestTyped'
    BY <1>23 DEF TypeOK, RestTyped, CleanPhase, CancelActive, StopRequest
  <2> QED
    BY <1>23, <2>1, <2>2, <2>3 DEF TypeOK, RowsTyped, ResumesTyped, CancelActive, StopRequest
<1>24. ASSUME NEW s \in Stream, Register(s) PROVE TypeOK'
  <2>1. RowsTyped'
    BY <1>24 DEF TypeOK, RowsTyped, FileRecord, Status, processes, Register
  <2> QED
    BY <1>24, <2>1 DEF TypeOK, OpsTyped, UsersTyped, ResumesTyped, RestTyped, processes, Register
<1>25. ASSUME NEW s \in Stream, MarkActive(s) PROVE TypeOK'
  <2>1. RowsTyped'
    BY <1>25 DEF TypeOK, RowsTyped, FileRecord, Status, ChangeStatus, UpdateRowStatus, processes,
       MarkActive
  <2> QED
    BY <1>25, <2>1 DEF TypeOK, OpsTyped, UsersTyped, ResumesTyped, RestTyped, processes, MarkActive
<1>26. ASSUME NEW s \in Stream, StopIfIdle(s) PROVE TypeOK'
  <2>1. RowsTyped'
    BY <1>26 DEF TypeOK, RowsTyped, FileRecord, Status, ChangeStatus, UpdateRowStatus, processes,
       StopIfIdle
  <2> QED
    BY <1>26, <2>1 DEF TypeOK, OpsTyped, UsersTyped, ResumesTyped, RestTyped, processes, StopIfIdle
<1>27. ASSUME NEW c \in Cleaner, CleanBegin(c) PROVE TypeOK'
  <2>1. RestTyped'
    BY <1>27 DEF TypeOK, RestTyped, CleanPhase, CleanBegin
  <2> QED
    BY <1>27, <2>1 DEF TypeOK, OpsTyped, RowsTyped, UsersTyped, ResumesTyped, CleanBegin
<1>28. ASSUME NEW c \in Cleaner, CleanPause(c) PROVE TypeOK'
  <2>1. OpsTyped'
    BY <1>28, PauseEffect DEF TypeOK, OpsTyped, Pause, CleanPause
  <2>2. RestTyped'
    BY <1>28 DEF TypeOK, RestTyped, CleanPhase, Pause, CleanPause
  <2> QED
    BY <1>28, <2>1, <2>2 DEF TypeOK, RowsTyped, UsersTyped, ResumesTyped, Pause, CleanPause
<1>29. ASSUME NEW c \in Cleaner, CleanDrained(c) PROVE TypeOK'
  <2>1. RestTyped'
    BY <1>29 DEF TypeOK, RestTyped, CleanPhase, CleanDrained
  <2> QED
    BY <1>29, <2>1 DEF TypeOK, OpsTyped, RowsTyped, UsersTyped, ResumesTyped, CleanDrained
<1>30. ASSUME NEW c \in Cleaner, CleanDelete(c) PROVE TypeOK'
  <2>1. RowsTyped'
    BY <1>30 DEF TypeOK, RowsTyped, FileRecord, Status, CleanDelete
  <2>2. ResumesTyped'
    BY <1>30 DEF TypeOK, ResumesTyped, ResumeRecord, ResumePhase, Resumer, CleanDelete
  <2>3. RestTyped'
    BY <1>30 DEF TypeOK, RestTyped, CleanPhase, CleanDelete
  <2> QED
    BY <1>30, <2>1, <2>2, <2>3 DEF TypeOK, OpsTyped, UsersTyped, CleanDelete
<1>31. ASSUME NEW c \in Cleaner, NEW l \in Late, PauseTimeout(c, l) PROVE TypeOK'
  <2>1. ResumesTyped'
    BY <1>31 DEF TypeOK, ResumesTyped, ResumeRecord, ResumePhase, Resumer, Resumer, PauseTimeout
  <2>2. RestTyped'
    BY <1>31 DEF TypeOK, RestTyped, CleanPhase, Resumer, PauseTimeout
  <2> QED
    BY <1>31, <2>1, <2>2 DEF TypeOK, OpsTyped, RowsTyped, UsersTyped, PauseTimeout
<1>32. ASSUME NEW r \in Resumer, ResumeLift(r) PROVE TypeOK'
  <2>1. ResumesTyped'
    BY <1>32 DEF TypeOK, ResumesTyped, ResumeRecord, ResumePhase, Resumed, IdleResumer, ResumeLift
  <2>2. RestTyped'
    BY <1>32 DEF TypeOK, RestTyped, CleanPhase, Resumed, IdleResumer, ResumeLift
  <2> QED
    BY <1>32, <2>1, <2>2 DEF TypeOK, OpsTyped, RowsTyped, UsersTyped, ResumeLift
<1>33. ASSUME NEW r \in Resumer, ResumeList(r) PROVE TypeOK'
  <2>1. ResumesTyped'
    BY <1>33 DEF TypeOK, ResumesTyped, ResumeRecord, ResumePhase, Resumable, ResumeList
  <2> QED
    BY <1>33, <2>1 DEF TypeOK, OpsTyped, RowsTyped, UsersTyped, RestTyped, ResumeList
<1>34. ASSUME NEW r \in Resumer, ResumeBegin(r) PROVE TypeOK'
  <2>1. resume[r].stream \in Stream
    BY <1>34 DEF TypeOK, ResumesTyped, ResumeBegin
  <2>2. OpsTyped'
    <3>1. CASE BeginSave(resume[r].stream)
      BY <2>1, <3>1, BeginEffect DEF TypeOK, OpsTyped
    <3>2. CASE RefuseSave(resume[r].stream)
      BY <3>2 DEF TypeOK, OpsTyped, RefuseSave
    <3> QED
      BY <1>34, <3>1, <3>2 DEF ResumeBegin
  <2>3. ResumesTyped'
    BY <1>34 DEF TypeOK, ResumesTyped, ResumeRecord, ResumePhase, ResumeBegin
  <2> QED
    BY <1>34, <2>2, <2>3 DEF TypeOK, RowsTyped, UsersTyped, RestTyped, ResumeBegin
<1>35. ASSUME NEW r \in Resumer, ResumeEnd(r) PROVE TypeOK'
  <2>1. ResumesTyped'
    BY <1>35 DEF TypeOK, ResumesTyped, ResumeRecord, ResumePhase, Resumed, IdleResumer, ResumeEnd
  <2>2. RestTyped'
    BY <1>35 DEF TypeOK, RestTyped, CleanPhase, Resumed, IdleResumer, ResumeEnd
  <2> QED
    BY <1>35, <2>1, <2>2 DEF TypeOK, OpsTyped, RowsTyped, UsersTyped, ResumeEnd
<1>36. ASSUME NEW r \in Resumer, NEW s \in Stream, ResumePrepare(r, s) PROVE TypeOK'
  <2>1. RowsTyped'
    <3>1. CASE PrepareSave(s)
      BY <3>1 DEF TypeOK, RowsTyped, FileRecord, Status, PrepareSave
    <3>2. CASE UNCHANGED <<db, rows>>
      BY <3>2 DEF TypeOK, RowsTyped
    <3> QED
      BY <1>36, <3>1, <3>2 DEF ResumePrepare
  <2>2. ResumesTyped'
    BY <1>36 DEF TypeOK, ResumesTyped, ResumeRecord, ResumePhase, PrepareSave, ResumePrepare
  <2>3. RestTyped'
    BY <1>36 DEF TypeOK, RestTyped, CleanPhase, PrepareSave, ResumePrepare
  <2> QED
    BY <1>36, <2>1, <2>2, <2>3 DEF TypeOK, OpsTyped, UsersTyped, ResumePrepare
<1>37. CASE UNCHANGED vars
  BY <1>37 DEF TypeOK, OpsTyped, RowsTyped, UsersTyped, ResumesTyped, RestTyped, vars
<1> QED
  BY <1>1, <1>2, <1>3, <1>4, <1>5, <1>6, <1>7, <1>8, <1>9, <1>10, <1>11, <1>12, <1>13, <1>14,
     <1>15, <1>16, <1>17, <1>18, <1>19, <1>20, <1>21, <1>22, <1>23, <1>24, <1>25, <1>26, <1>27,
     <1>28, <1>29, <1>30, <1>31, <1>32, <1>33, <1>34, <1>35, <1>36, <1>37 DEF Next, StopStep,
     SaveStep, UserStep, CleanStep, ResumeStep

\* Every step keeps TrackInv: a save leaves active in the step that ends it.
LEMMA TrackStep ==
  ASSUME TypeOK, TrackInv, [Next]_vars PROVE TrackInv'
<1>1. CASE Start
  BY <1>1 DEF TypeOK, OpsTyped, TrackInv, Unfinished, Start
<1>2. CASE StopBegin
  <2>1. \A o \in Op : op'[o].phase = op[o].phase /\ op'[o].stream = op[o].stream
    BY <1>2 DEF TypeOK, OpsTyped, OpRecord, StopBegin
  <2>2. active' = active
    BY <1>2 DEF StopBegin
  <2> QED
    BY <2>1, <2>2, IdentityAssumption DEF TypeOK, OpsTyped, TrackInv, Unfinished
<1>3. CASE StopPause
  BY <1>3, PauseEffect, IdentityAssumption DEF TypeOK, OpsTyped, TrackInv, Unfinished, StopPause, Pause
<1>4. CASE StopFinish
  BY <1>4 DEF TypeOK, OpsTyped, TrackInv, Unfinished, StopFinish
<1>5. ASSUME NEW o \in Op, SaveWrite(o) PROVE TrackInv'
  BY <1>5, IdentityAssumption DEF TypeOK, OpsTyped, TrackInv, Unfinished, processes, SaveWrite
<1>6. ASSUME NEW o \in Op, SaveComplete(o) PROVE TrackInv'
  BY <1>6, IdentityAssumption DEF TypeOK, OpsTyped, TrackInv, Unfinished, processes, SaveComplete
<1>7. ASSUME NEW o \in Op, SaveFail(o) PROVE TrackInv'
  BY <1>7, IdentityAssumption DEF TypeOK, OpsTyped, TrackInv, Unfinished, ChangeStatus, processes,
     SaveFail
<1>8. ASSUME NEW o \in Op, SaveCancelled(o) PROVE TrackInv'
  BY <1>8, IdentityAssumption DEF TypeOK, OpsTyped, TrackInv, Unfinished, processes, SaveCancelled
<1>9. ASSUME NEW o \in Op, SavePublish(o) PROVE TrackInv'
  BY <1>9, IdentityAssumption DEF TypeOK, OpsTyped, TrackInv, Unfinished, UpdateRowStatus,
     processes, SavePublish
<1>10. ASSUME NEW o \in Op, FinishSave(o) PROVE TrackInv'
  BY <1>10, IdentityAssumption DEF TypeOK, OpsTyped, TrackInv, Unfinished, Waiting, processes,
     FinishSave
<1>11. ASSUME NEW u \in User, ActiveDone(u) PROVE TrackInv'
  BY <1>11 DEF TypeOK, OpsTyped, TrackInv, Unfinished, IdleUser, ActiveDone
<1>12. ASSUME NEW u \in User, SaveGiveUp(u) PROVE TrackInv'
  BY <1>12 DEF TypeOK, OpsTyped, TrackInv, Unfinished, IdleUser, SaveGiveUp
<1>13. ASSUME NEW u \in User, SavePrepare(u) PROVE TrackInv'
  BY <1>13 DEF TypeOK, OpsTyped, TrackInv, Unfinished, PrepareSave, IdleUser, SavePrepare
<1>14. ASSUME NEW u \in User, SaveLaunch(u) PROVE TrackInv'
  <2>1. user[u].stream \in Stream
    BY <1>14 DEF TypeOK, UsersTyped, SaveLaunch
  <2>2. CASE BeginSave(user[u].stream)
    <3>1. PICK n \in Op :
            /\ ~Unfinished(n) /\ active[user[u].stream] = None
            /\ active' = [active EXCEPT ![user[u].stream] = n]
            /\ \A o \in Op \ {n} : op'[o] = op[o]
            /\ op'[n].phase = "run" /\ op'[n].stream = user[u].stream
      BY <2>1, <2>2, BeginEffect
    <3>2. \A s \in Stream : active[s] # n
      BY <3>1, IdentityAssumption DEF TrackInv
    <3> QED
      BY <2>1, <3>1, <3>2, IdentityAssumption DEF TypeOK, OpsTyped, TrackInv, Unfinished
  <2>3. CASE ~BeginSave(user[u].stream)
    BY <1>14, <2>3 DEF TypeOK, OpsTyped, TrackInv, Unfinished, SaveLaunch, RefuseSave
  <2> QED
    BY <2>2, <2>3
<1>15. ASSUME NEW u \in User, SaveReturn(u) PROVE TrackInv'
  BY <1>15 DEF TypeOK, OpsTyped, TrackInv, Unfinished, CurrentRow, IdleUser, SaveReturn
<1>16. ASSUME NEW u \in User, SaveDetach(u) PROVE TrackInv'
  BY <1>16 DEF TypeOK, OpsTyped, TrackInv, Unfinished, IdleUser, SaveDetach
<1>17. ASSUME NEW u \in User, SaveExpire(u) PROVE TrackInv'
  BY <1>17, IdentityAssumption DEF TypeOK, OpsTyped, TrackInv, Unfinished, IdleUser, SaveExpire
<1>18. ASSUME NEW u \in User, SaveSettle(u) PROVE TrackInv'
  BY <1>18 DEF TypeOK, OpsTyped, TrackInv, Unfinished, CurrentRow, IdleUser, SaveSettle
<1>19. ASSUME NEW u \in User, SaveTimedOut(u) PROVE TrackInv'
  BY <1>19 DEF TypeOK, OpsTyped, TrackInv, Unfinished, ChangeStatus, UpdateRowStatus, IdleUser,
     SaveTimedOut
<1>20. ASSUME NEW u \in User, StopGiveUp(u) PROVE TrackInv'
  BY <1>20 DEF TypeOK, OpsTyped, TrackInv, Unfinished, ChangeStatus, UpdateRowStatus, IdleUser,
     StopGiveUp
<1>21. ASSUME NEW u \in User, StopWrite(u) PROVE TrackInv'
  BY <1>21 DEF TypeOK, OpsTyped, TrackInv, Unfinished, ChangeStatus, IdleUser, StopWrite
<1>22. ASSUME NEW u \in User, NEW s \in Stream, SaveRequest(u, s) PROVE TrackInv'
  BY <1>22, IdentityAssumption DEF TypeOK, OpsTyped, TrackInv, Unfinished, CancelActive,
     SaveRequest
<1>23. ASSUME NEW u \in User, NEW s \in Stream, StopRequest(u, s) PROVE TrackInv'
  BY <1>23, IdentityAssumption DEF TypeOK, OpsTyped, TrackInv, Unfinished, CancelActive,
     StopRequest
<1>24. ASSUME NEW s \in Stream, Register(s) PROVE TrackInv'
  BY <1>24 DEF TypeOK, OpsTyped, TrackInv, Unfinished, processes, Register
<1>25. ASSUME NEW s \in Stream, MarkActive(s) PROVE TrackInv'
  BY <1>25 DEF TypeOK, OpsTyped, TrackInv, Unfinished, ChangeStatus, UpdateRowStatus, processes,
     MarkActive
<1>26. ASSUME NEW s \in Stream, StopIfIdle(s) PROVE TrackInv'
  BY <1>26 DEF TypeOK, OpsTyped, TrackInv, Unfinished, ChangeStatus, UpdateRowStatus, processes,
     StopIfIdle
<1>27. ASSUME NEW c \in Cleaner, CleanBegin(c) PROVE TrackInv'
  BY <1>27 DEF TypeOK, OpsTyped, TrackInv, Unfinished, CleanBegin
<1>28. ASSUME NEW c \in Cleaner, CleanPause(c) PROVE TrackInv'
  BY <1>28, PauseEffect, IdentityAssumption DEF TypeOK, OpsTyped, TrackInv, Unfinished, CleanPause, Pause
<1>29. ASSUME NEW c \in Cleaner, CleanDrained(c) PROVE TrackInv'
  BY <1>29 DEF TypeOK, OpsTyped, TrackInv, Unfinished, CleanDrained
<1>30. ASSUME NEW c \in Cleaner, CleanDelete(c) PROVE TrackInv'
  BY <1>30 DEF TypeOK, OpsTyped, TrackInv, Unfinished, CleanDelete
<1>31. ASSUME NEW c \in Cleaner, NEW l \in Late, PauseTimeout(c, l) PROVE TrackInv'
  BY <1>31 DEF TypeOK, OpsTyped, TrackInv, Unfinished, Resumer, PauseTimeout
<1>32. ASSUME NEW r \in Resumer, ResumeLift(r) PROVE TrackInv'
  BY <1>32 DEF TypeOK, OpsTyped, TrackInv, Unfinished, Resumed, IdleResumer, ResumeLift
<1>33. ASSUME NEW r \in Resumer, ResumeList(r) PROVE TrackInv'
  BY <1>33 DEF TypeOK, OpsTyped, TrackInv, Unfinished, ResumeList
<1>34. ASSUME NEW r \in Resumer, ResumeBegin(r) PROVE TrackInv'
  <2>1. resume[r].stream \in Stream
    BY <1>34 DEF TypeOK, ResumesTyped, ResumeBegin
  <2>2. CASE BeginSave(resume[r].stream)
    <3>1. PICK n \in Op :
            /\ ~Unfinished(n) /\ active[resume[r].stream] = None
            /\ active' = [active EXCEPT ![resume[r].stream] = n]
            /\ \A o \in Op \ {n} : op'[o] = op[o]
            /\ op'[n].phase = "run" /\ op'[n].stream = resume[r].stream
      BY <2>1, <2>2, BeginEffect
    <3>2. \A s \in Stream : active[s] # n
      BY <3>1, IdentityAssumption DEF TrackInv
    <3> QED
      BY <2>1, <3>1, <3>2, IdentityAssumption DEF TypeOK, OpsTyped, TrackInv, Unfinished
  <2>3. CASE ~BeginSave(resume[r].stream)
    BY <1>34, <2>3 DEF TypeOK, OpsTyped, TrackInv, Unfinished, ResumeBegin, RefuseSave
  <2> QED
    BY <2>2, <2>3
<1>35. ASSUME NEW r \in Resumer, ResumeEnd(r) PROVE TrackInv'
  BY <1>35 DEF TypeOK, OpsTyped, TrackInv, Unfinished, Resumed, IdleResumer, ResumeEnd
<1>36. ASSUME NEW r \in Resumer, NEW s \in Stream, ResumePrepare(r, s) PROVE TrackInv'
  BY <1>36 DEF TypeOK, OpsTyped, TrackInv, Unfinished, PrepareSave, ResumePrepare
<1>37. CASE UNCHANGED vars
  BY <1>37 DEF TypeOK, OpsTyped, TrackInv, Unfinished, vars
<1> QED
  BY <1>1, <1>2, <1>3, <1>4, <1>5, <1>6, <1>7, <1>8, <1>9, <1>10, <1>11, <1>12, <1>13, <1>14,
     <1>15, <1>16, <1>17, <1>18, <1>19, <1>20, <1>21, <1>22, <1>23, <1>24, <1>25, <1>26, <1>27,
     <1>28, <1>29, <1>30, <1>31, <1>32, <1>33, <1>34, <1>35, <1>36, <1>37 DEF Next, StopStep,
     SaveStep, UserStep, CleanStep, ResumeStep

\* Every step keeps LifeInv: only Start makes the manager run, and only once.
LEMMA LifeStep ==
  ASSUME TypeOK, LifeInv, [Next]_vars PROVE LifeInv'
<1>1. CASE Start
  BY <1>1 DEF TypeOK, OpsTyped, RestTyped, LifeInv, Quiet, Unfinished, Start
<1>2. CASE StopBegin
  BY <1>2 DEF TypeOK, OpsTyped, RestTyped, LifeInv, Quiet, Unfinished, StopBegin
<1>3. CASE StopPause
  BY <1>3, PauseEffect DEF TypeOK, RestTyped, LifeInv, Quiet, Unfinished, StopPause
<1>4. CASE StopFinish
  BY <1>4 DEF TypeOK, OpsTyped, RestTyped, LifeInv, Quiet, Unfinished, StopFinish
<1>5. ASSUME NEW o \in Op, SaveWrite(o) PROVE LifeInv'
  BY <1>5 DEF TypeOK, OpsTyped, RestTyped, LifeInv, Quiet, Unfinished, processes, SaveWrite
<1>6. ASSUME NEW o \in Op, SaveComplete(o) PROVE LifeInv'
  BY <1>6 DEF TypeOK, OpsTyped, RestTyped, LifeInv, Quiet, Unfinished, processes, SaveComplete
<1>7. ASSUME NEW o \in Op, SaveFail(o) PROVE LifeInv'
  BY <1>7 DEF TypeOK, OpsTyped, RestTyped, LifeInv, Quiet, Unfinished, ChangeStatus, processes,
     SaveFail
<1>8. ASSUME NEW o \in Op, SaveCancelled(o) PROVE LifeInv'
  BY <1>8 DEF TypeOK, OpsTyped, RestTyped, LifeInv, Quiet, Unfinished, processes, SaveCancelled
<1>9. ASSUME NEW o \in Op, SavePublish(o) PROVE LifeInv'
  BY <1>9 DEF TypeOK, OpsTyped, RestTyped, LifeInv, Quiet, Unfinished, UpdateRowStatus, processes,
     SavePublish
<1>10. ASSUME NEW o \in Op, FinishSave(o) PROVE LifeInv'
  BY <1>10 DEF TypeOK, OpsTyped, RestTyped, LifeInv, Quiet, Unfinished, Waiting, processes,
     FinishSave
<1>11. ASSUME NEW u \in User, ActiveDone(u) PROVE LifeInv'
  BY <1>11 DEF TypeOK, OpsTyped, RestTyped, LifeInv, Quiet, Unfinished, IdleUser, ActiveDone
<1>12. ASSUME NEW u \in User, SaveGiveUp(u) PROVE LifeInv'
  BY <1>12 DEF TypeOK, OpsTyped, RestTyped, LifeInv, Quiet, Unfinished, IdleUser, SaveGiveUp
<1>13. ASSUME NEW u \in User, SavePrepare(u) PROVE LifeInv'
  BY <1>13 DEF TypeOK, OpsTyped, RestTyped, LifeInv, Quiet, Unfinished, PrepareSave, IdleUser,
     SavePrepare
<1>14. ASSUME NEW u \in User, SaveLaunch(u) PROVE LifeInv'
  <2>1. user[u].stream \in Stream
    BY <1>14 DEF TypeOK, UsersTyped, SaveLaunch
  <2>2. CASE BeginSave(user[u].stream)
    BY <1>14, <2>1, <2>2, BeginEffect DEF LifeInv, Accepting, SaveLaunch
  <2>3. CASE ~BeginSave(user[u].stream)
    BY <1>14, <2>3 DEF LifeInv, Quiet, Unfinished, SaveLaunch, RefuseSave
  <2> QED
    BY <2>2, <2>3
<1>15. ASSUME NEW u \in User, SaveReturn(u) PROVE LifeInv'
  BY <1>15 DEF TypeOK, OpsTyped, RestTyped, LifeInv, Quiet, Unfinished, CurrentRow, IdleUser,
     SaveReturn
<1>16. ASSUME NEW u \in User, SaveDetach(u) PROVE LifeInv'
  BY <1>16 DEF TypeOK, OpsTyped, RestTyped, LifeInv, Quiet, Unfinished, IdleUser, SaveDetach
<1>17. ASSUME NEW u \in User, SaveExpire(u) PROVE LifeInv'
  BY <1>17 DEF TypeOK, OpsTyped, RestTyped, LifeInv, Quiet, Unfinished, IdleUser, SaveExpire
<1>18. ASSUME NEW u \in User, SaveSettle(u) PROVE LifeInv'
  BY <1>18 DEF TypeOK, OpsTyped, RestTyped, LifeInv, Quiet, Unfinished, CurrentRow, IdleUser,
     SaveSettle
<1>19. ASSUME NEW u \in User, SaveTimedOut(u) PROVE LifeInv'
  BY <1>19 DEF TypeOK, OpsTyped, RestTyped, LifeInv, Quiet, Unfinished, ChangeStatus,
     UpdateRowStatus, IdleUser, SaveTimedOut
<1>20. ASSUME NEW u \in User, StopGiveUp(u) PROVE LifeInv'
  BY <1>20 DEF TypeOK, OpsTyped, RestTyped, LifeInv, Quiet, Unfinished, ChangeStatus,
     UpdateRowStatus, IdleUser, StopGiveUp
<1>21. ASSUME NEW u \in User, StopWrite(u) PROVE LifeInv'
  BY <1>21 DEF TypeOK, OpsTyped, RestTyped, LifeInv, Quiet, Unfinished, ChangeStatus, IdleUser,
     StopWrite
<1>22. ASSUME NEW u \in User, NEW s \in Stream, SaveRequest(u, s) PROVE LifeInv'
  BY <1>22 DEF TypeOK, OpsTyped, RestTyped, LifeInv, Quiet, Unfinished, CancelActive, SaveRequest
<1>23. ASSUME NEW u \in User, NEW s \in Stream, StopRequest(u, s) PROVE LifeInv'
  BY <1>23 DEF TypeOK, OpsTyped, RestTyped, LifeInv, Quiet, Unfinished, CancelActive, StopRequest
<1>24. ASSUME NEW s \in Stream, Register(s) PROVE LifeInv'
  BY <1>24 DEF TypeOK, OpsTyped, RestTyped, LifeInv, Quiet, Unfinished, processes, Register
<1>25. ASSUME NEW s \in Stream, MarkActive(s) PROVE LifeInv'
  BY <1>25 DEF TypeOK, OpsTyped, RestTyped, LifeInv, Quiet, Unfinished, ChangeStatus,
     UpdateRowStatus, processes, MarkActive
<1>26. ASSUME NEW s \in Stream, StopIfIdle(s) PROVE LifeInv'
  BY <1>26 DEF TypeOK, OpsTyped, RestTyped, LifeInv, Quiet, Unfinished, ChangeStatus,
     UpdateRowStatus, processes, StopIfIdle
<1>27. ASSUME NEW c \in Cleaner, CleanBegin(c) PROVE LifeInv'
  BY <1>27 DEF TypeOK, OpsTyped, RestTyped, LifeInv, Quiet, Unfinished, CleanBegin
<1>28. ASSUME NEW c \in Cleaner, CleanPause(c) PROVE LifeInv'
  <2>1. stopper # "new"
    BY <1>28 DEF LifeInv, CleanPause
  <2> QED
    BY <1>28, <2>1, PauseEffect DEF TypeOK, RestTyped, LifeInv, CleanPause
<1>29. ASSUME NEW c \in Cleaner, CleanDrained(c) PROVE LifeInv'
  BY <1>29 DEF TypeOK, OpsTyped, RestTyped, LifeInv, Quiet, Unfinished, CleanDrained
<1>30. ASSUME NEW c \in Cleaner, CleanDelete(c) PROVE LifeInv'
  BY <1>30 DEF TypeOK, OpsTyped, RestTyped, LifeInv, Quiet, Unfinished, CleanDelete
<1>31. ASSUME NEW c \in Cleaner, NEW l \in Late, PauseTimeout(c, l) PROVE LifeInv'
  BY <1>31 DEF TypeOK, OpsTyped, RestTyped, LifeInv, Quiet, Unfinished, Resumer, PauseTimeout
<1>32. ASSUME NEW r \in Resumer, ResumeLift(r) PROVE LifeInv'
  BY <1>32 DEF TypeOK, OpsTyped, RestTyped, LifeInv, Quiet, Unfinished, Resumed, IdleResumer,
     ResumeLift
<1>33. ASSUME NEW r \in Resumer, ResumeList(r) PROVE LifeInv'
  BY <1>33 DEF TypeOK, OpsTyped, RestTyped, LifeInv, Quiet, Unfinished, ResumeList
<1>34. ASSUME NEW r \in Resumer, ResumeBegin(r) PROVE LifeInv'
  <2>1. resume[r].stream \in Stream
    BY <1>34 DEF TypeOK, ResumesTyped, ResumeBegin
  <2>2. CASE BeginSave(resume[r].stream)
    BY <1>34, <2>1, <2>2, BeginEffect DEF LifeInv, Accepting, ResumeBegin
  <2>3. CASE ~BeginSave(resume[r].stream)
    BY <1>34, <2>3 DEF LifeInv, Quiet, Unfinished, ResumeBegin, RefuseSave
  <2> QED
    BY <2>2, <2>3
<1>35. ASSUME NEW r \in Resumer, ResumeEnd(r) PROVE LifeInv'
  BY <1>35 DEF TypeOK, OpsTyped, RestTyped, LifeInv, Quiet, Unfinished, Resumed, IdleResumer,
     ResumeEnd
<1>36. ASSUME NEW r \in Resumer, NEW s \in Stream, ResumePrepare(r, s) PROVE LifeInv'
  BY <1>36 DEF TypeOK, OpsTyped, RestTyped, LifeInv, Quiet, Unfinished, PrepareSave, ResumePrepare
<1>37. CASE UNCHANGED vars
  BY <1>37 DEF TypeOK, OpsTyped, RestTyped, LifeInv, Quiet, Unfinished, vars
<1> QED
  BY <1>1, <1>2, <1>3, <1>4, <1>5, <1>6, <1>7, <1>8, <1>9, <1>10, <1>11, <1>12, <1>13, <1>14,
     <1>15, <1>16, <1>17, <1>18, <1>19, <1>20, <1>21, <1>22, <1>23, <1>24, <1>25, <1>26, <1>27,
     <1>28, <1>29, <1>30, <1>31, <1>32, <1>33, <1>34, <1>35, <1>36, <1>37 DEF Next, StopStep,
     SaveStep, UserStep, CleanStep, ResumeStep

\* Every step keeps DrainInv: whoever begins a save finds no pause and no Stop.
LEMMA DrainStep ==
  ASSUME TypeOK, LifeInv, DrainInv, [Next]_vars PROVE DrainInv'
<1>1. CASE Start
  BY <1>1 DEF TypeOK, OpsTyped, RestTyped, DrainInv, LifeInv, Quiet, Unfinished, Start
<1>2. CASE StopBegin
  BY <1>2 DEF TypeOK, OpsTyped, RestTyped, DrainInv, LifeInv, Quiet, Unfinished, StopBegin
<1>3. CASE StopPause
  <2>1. ~manager.running /\ ~manager'.running
    BY <1>3, PauseEffect DEF TypeOK, RestTyped, LifeInv, StopPause
  <2> QED
    BY <1>3, <2>1, PauseEffect DEF TypeOK, RestTyped, DrainInv, Quiet, Unfinished, StopPause
<1>4. CASE StopFinish
  BY <1>4 DEF TypeOK, OpsTyped, RestTyped, DrainInv, LifeInv, Quiet, Unfinished, StopFinish
<1>5. ASSUME NEW o \in Op, SaveWrite(o) PROVE DrainInv'
  BY <1>5 DEF TypeOK, OpsTyped, RestTyped, DrainInv, LifeInv, Quiet, Unfinished, processes,
     SaveWrite
<1>6. ASSUME NEW o \in Op, SaveComplete(o) PROVE DrainInv'
  BY <1>6 DEF TypeOK, OpsTyped, RestTyped, DrainInv, LifeInv, Quiet, Unfinished, processes,
     SaveComplete
<1>7. ASSUME NEW o \in Op, SaveFail(o) PROVE DrainInv'
  BY <1>7 DEF TypeOK, OpsTyped, RestTyped, DrainInv, LifeInv, Quiet, Unfinished, ChangeStatus,
     processes, SaveFail
<1>8. ASSUME NEW o \in Op, SaveCancelled(o) PROVE DrainInv'
  BY <1>8 DEF TypeOK, OpsTyped, RestTyped, DrainInv, LifeInv, Quiet, Unfinished, processes,
     SaveCancelled
<1>9. ASSUME NEW o \in Op, SavePublish(o) PROVE DrainInv'
  BY <1>9 DEF TypeOK, OpsTyped, RestTyped, DrainInv, LifeInv, Quiet, Unfinished, UpdateRowStatus,
     processes, SavePublish
<1>10. ASSUME NEW o \in Op, FinishSave(o) PROVE DrainInv'
  BY <1>10, IdentityAssumption DEF TypeOK, OpsTyped, RestTyped, DrainInv, LifeInv, Quiet,
     Unfinished, Waiting, processes, FinishSave
<1>11. ASSUME NEW u \in User, ActiveDone(u) PROVE DrainInv'
  BY <1>11 DEF TypeOK, OpsTyped, RestTyped, DrainInv, LifeInv, Quiet, Unfinished, IdleUser,
     ActiveDone
<1>12. ASSUME NEW u \in User, SaveGiveUp(u) PROVE DrainInv'
  BY <1>12 DEF TypeOK, OpsTyped, RestTyped, DrainInv, LifeInv, Quiet, Unfinished, IdleUser,
     SaveGiveUp
<1>13. ASSUME NEW u \in User, SavePrepare(u) PROVE DrainInv'
  BY <1>13 DEF TypeOK, OpsTyped, RestTyped, DrainInv, LifeInv, Quiet, Unfinished, PrepareSave,
     IdleUser, SavePrepare
<1>14. ASSUME NEW u \in User, SaveLaunch(u) PROVE DrainInv'
  <2>1. user[u].stream \in Stream
    BY <1>14 DEF TypeOK, UsersTyped, SaveLaunch
  <2>2. CASE BeginSave(user[u].stream)
    BY <1>14, <2>1, <2>2, BeginEffect DEF LifeInv, DrainInv, Accepting, SaveLaunch
  <2>3. CASE ~BeginSave(user[u].stream)
    BY <1>14, <2>3 DEF DrainInv, Quiet, Unfinished, SaveLaunch, RefuseSave
  <2> QED
    BY <2>2, <2>3
<1>15. ASSUME NEW u \in User, SaveReturn(u) PROVE DrainInv'
  BY <1>15 DEF TypeOK, OpsTyped, RestTyped, DrainInv, LifeInv, Quiet, Unfinished, CurrentRow,
     IdleUser, SaveReturn
<1>16. ASSUME NEW u \in User, SaveDetach(u) PROVE DrainInv'
  BY <1>16 DEF TypeOK, OpsTyped, RestTyped, DrainInv, LifeInv, Quiet, Unfinished, IdleUser,
     SaveDetach
<1>17. ASSUME NEW u \in User, SaveExpire(u) PROVE DrainInv'
  BY <1>17 DEF TypeOK, OpsTyped, RestTyped, DrainInv, LifeInv, Quiet, Unfinished, IdleUser,
     SaveExpire
<1>18. ASSUME NEW u \in User, SaveSettle(u) PROVE DrainInv'
  BY <1>18 DEF TypeOK, OpsTyped, RestTyped, DrainInv, LifeInv, Quiet, Unfinished, CurrentRow,
     IdleUser, SaveSettle
<1>19. ASSUME NEW u \in User, SaveTimedOut(u) PROVE DrainInv'
  BY <1>19 DEF TypeOK, OpsTyped, RestTyped, DrainInv, LifeInv, Quiet, Unfinished, ChangeStatus,
     UpdateRowStatus, IdleUser, SaveTimedOut
<1>20. ASSUME NEW u \in User, StopGiveUp(u) PROVE DrainInv'
  BY <1>20 DEF TypeOK, OpsTyped, RestTyped, DrainInv, LifeInv, Quiet, Unfinished, ChangeStatus,
     UpdateRowStatus, IdleUser, StopGiveUp
<1>21. ASSUME NEW u \in User, StopWrite(u) PROVE DrainInv'
  BY <1>21 DEF TypeOK, OpsTyped, RestTyped, DrainInv, LifeInv, Quiet, Unfinished, ChangeStatus,
     IdleUser, StopWrite
<1>22. ASSUME NEW u \in User, NEW s \in Stream, SaveRequest(u, s) PROVE DrainInv'
  BY <1>22 DEF TypeOK, OpsTyped, RestTyped, DrainInv, LifeInv, Quiet, Unfinished, CancelActive,
     SaveRequest
<1>23. ASSUME NEW u \in User, NEW s \in Stream, StopRequest(u, s) PROVE DrainInv'
  BY <1>23 DEF TypeOK, OpsTyped, RestTyped, DrainInv, LifeInv, Quiet, Unfinished, CancelActive,
     StopRequest
<1>24. ASSUME NEW s \in Stream, Register(s) PROVE DrainInv'
  BY <1>24 DEF TypeOK, OpsTyped, RestTyped, DrainInv, LifeInv, Quiet, Unfinished, processes,
     Register
<1>25. ASSUME NEW s \in Stream, MarkActive(s) PROVE DrainInv'
  BY <1>25 DEF TypeOK, OpsTyped, RestTyped, DrainInv, LifeInv, Quiet, Unfinished, ChangeStatus,
     UpdateRowStatus, processes, MarkActive
<1>26. ASSUME NEW s \in Stream, StopIfIdle(s) PROVE DrainInv'
  BY <1>26 DEF TypeOK, OpsTyped, RestTyped, DrainInv, LifeInv, Quiet, Unfinished, ChangeStatus,
     UpdateRowStatus, processes, StopIfIdle
<1>27. ASSUME NEW c \in Cleaner, CleanBegin(c) PROVE DrainInv'
  BY <1>27 DEF TypeOK, OpsTyped, RestTyped, DrainInv, LifeInv, Quiet, Unfinished, CleanBegin
<1>28. ASSUME NEW c \in Cleaner, CleanPause(c) PROVE DrainInv'
  <2>1. \A d \in Cleaner \ {c} : clean'[d] = "idle"
    BY <1>28 DEF TypeOK, RestTyped, LifeInv, CleanPause
  <2>2. clean'[c] = "draining"
    BY <1>28 DEF TypeOK, RestTyped, CleanPause
  <2>3. Quiet' <=> Quiet
    BY <1>28, PauseEffect DEF CleanPause, Quiet, Unfinished
  <2>4. c \in drained' => Quiet
    BY <1>28, PauseEffect DEF CleanPause, Quiet
  <2>5. "stop" \in drained' => "stop" \in drained
    BY <1>28, PauseEffect, IdentityAssumption DEF CleanPause
  <2> QED
    BY <1>28, <2>1, <2>2, <2>3, <2>4, <2>5 DEF DrainInv, CleanPause
<1>29. ASSUME NEW c \in Cleaner, CleanDrained(c) PROVE DrainInv'
  BY <1>29, IdentityAssumption DEF TypeOK, OpsTyped, RestTyped, DrainInv, LifeInv, Quiet,
     Unfinished, CleanDrained
<1>30. ASSUME NEW c \in Cleaner, CleanDelete(c) PROVE DrainInv'
  BY <1>30 DEF TypeOK, OpsTyped, RestTyped, DrainInv, LifeInv, Quiet, Unfinished, CleanDelete
<1>31. ASSUME NEW c \in Cleaner, NEW l \in Late, PauseTimeout(c, l) PROVE DrainInv'
  BY <1>31, IdentityAssumption DEF TypeOK, OpsTyped, RestTyped, DrainInv, LifeInv, Quiet,
     Unfinished, Resumer, PauseTimeout
<1>32. ASSUME NEW r \in Resumer, ResumeLift(r) PROVE DrainInv'
  BY <1>32, IdentityAssumption DEF TypeOK, OpsTyped, RestTyped, DrainInv, LifeInv, Quiet,
     Unfinished, Resumed, IdleResumer, ResumeLift
<1>33. ASSUME NEW r \in Resumer, ResumeList(r) PROVE DrainInv'
  BY <1>33 DEF TypeOK, OpsTyped, RestTyped, DrainInv, LifeInv, Quiet, Unfinished, ResumeList
<1>34. ASSUME NEW r \in Resumer, ResumeBegin(r) PROVE DrainInv'
  <2>1. resume[r].stream \in Stream
    BY <1>34 DEF TypeOK, ResumesTyped, ResumeBegin
  <2>2. CASE BeginSave(resume[r].stream)
    BY <1>34, <2>1, <2>2, BeginEffect DEF LifeInv, DrainInv, Accepting, ResumeBegin
  <2>3. CASE ~BeginSave(resume[r].stream)
    BY <1>34, <2>3 DEF DrainInv, Quiet, Unfinished, ResumeBegin, RefuseSave
  <2> QED
    BY <2>2, <2>3
<1>35. ASSUME NEW r \in Resumer, ResumeEnd(r) PROVE DrainInv'
  BY <1>35 DEF TypeOK, OpsTyped, RestTyped, DrainInv, LifeInv, Quiet, Unfinished, Resumed,
     IdleResumer, ResumeEnd
<1>36. ASSUME NEW r \in Resumer, NEW s \in Stream, ResumePrepare(r, s) PROVE DrainInv'
  BY <1>36 DEF TypeOK, OpsTyped, RestTyped, DrainInv, LifeInv, Quiet, Unfinished, PrepareSave,
     ResumePrepare
<1>37. CASE UNCHANGED vars
  BY <1>37 DEF TypeOK, OpsTyped, RestTyped, DrainInv, LifeInv, Quiet, Unfinished, vars
<1> QED
  BY <1>1, <1>2, <1>3, <1>4, <1>5, <1>6, <1>7, <1>8, <1>9, <1>10, <1>11, <1>12, <1>13, <1>14,
     <1>15, <1>16, <1>17, <1>18, <1>19, <1>20, <1>21, <1>22, <1>23, <1>24, <1>25, <1>26, <1>27,
     <1>28, <1>29, <1>30, <1>31, <1>32, <1>33, <1>34, <1>35, <1>36, <1>37 DEF Next, StopStep,
     SaveStep, UserStep, CleanStep, ResumeStep

\* A manager that has not started satisfies the invariant.
LEMMA InitInv == Init => IndInv
<1> SUFFICES ASSUME Init PROVE IndInv
  OBVIOUS
<1>1. TypeOK
  BY DEF Init, TypeOK, OpsTyped, RowsTyped, UsersTyped, ResumesTyped, RestTyped, OpRecord, OpPhase,
         FreeOp, FileRecord, UserRecord, UserPhase, IdleUser, ResumeRecord, ResumePhase,
         IdleResumer, CleanPhase
<1>2. Quiet
  BY DEF Init, Quiet, Unfinished, FreeOp
<1>3. TrackInv /\ LifeInv /\ DrainInv
  BY <1>2 DEF Init, TrackInv, LifeInv, DrainInv, Quiet
<1> QED
  BY <1>1, <1>3 DEF IndInv

\* The inductive invariant holds in every state of every behaviour.
THEOREM Invariance == Spec => []IndInv
<1>1. IndInv /\ [Next]_vars => IndInv'
  BY TypeStep, TrackStep, LifeStep, DrainStep DEF IndInv
<1> QED
  BY InitInv, <1>1, PTL DEF Spec

\* The manager's state keeps its types.
THEOREM TypeCorrect == Spec => []TypeOK
<1>1. IndInv => TypeOK
  BY DEF IndInv
<1> QED
  BY <1>1, Invariance, PTL

\* Every save is the active one of its stream, none runs while a cleanup that still
\* holds its pause deletes, and none after Stop: whatever the users, cleanups, timed-out
\* pauses and the start-up do, and however many there are.
THEOREM SavesAccountedHolds == Spec => []SavesAccounted
<1>1. IndInv => SavesAccounted
  BY DEF IndInv, TrackInv, DrainInv, Quiet, SavesAccounted, SaveTracked, CleanBarrier, StopQuiet
<1> QED
  BY <1>1, Invariance, PTL

=============================================================================
