-------------------------- MODULE BlobManagerProofs --------------------------
(***************************************************************************)
(* Proofs about BlobManager for any sets of blobs, callers, flights and    *)
(* handlers: type correctness, SingleFlight, NoInheritedCancellation and   *)
(* CacheAgrees.  The inductive invariant adds to them what the code keeps  *)
(* implicit: what inFlight points at, that waiters counts the callers in   *)
(* waitForFlight, who is where while diskMu is held, and who still owes a  *)
(* cached blob its row.                                                    *)
(***************************************************************************)
EXTENDS BlobManager, FiniteSetTheorems, TLAPS

\* The callers inside waitForFlight(f), of the Ensure calls cs.
Waiters(cs, f) == {c \in Caller : cs[c].phase = "waiting" /\ cs[c].flight = f}

\* f is the flight inFlight holds for its blob.
Registered(f) == flight[f].blob \in Blob /\ inFlight[flight[f].blob] = f

\* A process that is not up has nothing under way.
DownInv ==
    life = "down" =>
        /\ \A f \in Flight : flight[f] = FreshFlight
        /\ \A c \in Caller : caller[c].phase # "waiting"
        /\ \A d \in Handler : handler[d] = IdleHandler
        /\ \A b \in Blob : blobs[b] = "absent"
        /\ diskMu = None

\* inFlight holds running flights of the right blob; a running flight has a blob,
\* and is registered with a waiter unless it was cancelled.
RegisterInv ==
    /\ \A b \in Blob : inFlight[b] # None => Running(inFlight[b]) /\ flight[inFlight[b]].blob = b
    /\ \A f \in Flight :
        /\ Running(f) => flight[f].blob \in Blob
        /\ Running(f) /\ ~flight[f].cancelled => Registered(f) /\ flight[f].waiters > 0

\* A waiting caller waits for a flight that was launched, and a registered flight
\* counts its waiting callers.
WaiterInv ==
    /\ \A c \in Caller : caller[c].phase = "waiting" =>
            /\ caller[c].flight \in Flight
            /\ flight[caller[c].flight].phase # "unused"
            /\ flight[caller[c].flight].blob \in Blob
    /\ \A f \in Flight : Registered(f) => flight[f].waiters = Cardinality(Waiters(caller, f))

\* While the daemon is up, a flight somebody waits for is registered and not cancelled.
AwaitedInv ==
    life = "up" => \A c \in Caller :
        caller[c].phase = "waiting" /\ Running(caller[c].flight)
            => Registered(caller[c].flight) /\ ~flight[caller[c].flight].cancelled

\* diskMu is held exactly from the file operation to the change of the entry.
MutexInv ==
    /\ \A f \in Flight : flight[f].phase \in {"publishing", "unlinking"} <=> diskMu = f
    /\ \A d \in Handler : handler[d].phase \in {"publish", "unlink"} <=> diskMu = d
    /\ \A d \in Handler : handler[d].phase # "idle" => handler[d].blob \in Blob
    /\ \A f \in Flight : flight[f].phase = "publishing" => persist
    /\ \A d \in Handler : handler[d].phase = "publish" => persist

\* The holder of diskMu is between the file operation and the entry of b.
Holding(b) ==
    \/ diskMu \in Flight /\ flight[diskMu].blob = b
    \/ diskMu \in Handler /\ handler[diskMu].blob = b

\* The entry agrees with the directory except for the blob the holder of diskMu is
\* changing, whose file already is as that operation leaves it.  A process that
\* does not save blobs never fetches or receives one that has a file.
DiskInv ==
    /\ \A b \in Blob : ~Holding(b) =>
          /\ blobs[b] = "disk" => b \in disk
          /\ life = "up" /\ b \in disk => blobs[b] = "disk"
    /\ \A f \in Flight : /\ flight[f].phase = "publishing" => flight[f].blob \in disk
                         /\ flight[f].phase = "unlinking" => flight[f].blob \notin disk
    /\ \A d \in Handler : /\ handler[d].phase = "publish" => handler[d].blob \in disk
                          /\ handler[d].phase = "unlink" => handler[d].blob \notin disk
    /\ life = "up" /\ ~persist =>
          /\ \A f \in Flight : Running(f) => flight[f].blob \notin disk
          /\ \A d \in Handler : handler[d].phase = "set" => handler[d].blob \notin disk

\* Somebody is about to record b, or to delete it.
Pending(b) ==
    \/ \E f \in Flight : flight[f].blob = b /\ flight[f].phase \in {"recording", "rollback", "unlinking"}
    \/ \E d \in Handler : handler[d].blob = b /\ handler[d].phase \in {"remove", "unlink"}

\* A cached blob without a row, or whose row a cleanup is about to delete, is pending,
\* unless it is excused: what the reflector server stores always is.
RecordInv ==
    /\ \A d \in Handler : /\ handler[d].phase \in {"set", "publish"} => handler[d].blob \in excused
                          /\ handler[d].phase = "row" => handler[d].kind = "clean"
    /\ life = "up" => \A b \in Blob :
          /\ blobs[b] # "absent" /\ b \notin excused
          /\ b \notin finished \/ \E d \in Handler : handler[d].phase = "row" /\ handler[d].blob = b
          => Pending(b)

\* A registered flight somebody waits for counts at least one waiter.
LEMMA WaitersOfWaiting ==
  ASSUME WaiterInv, NEW c \in Caller, caller[c].phase = "waiting",
         Registered(caller[c].flight)
  PROVE  flight[caller[c].flight].waiters \in Nat \ {0}
<1> DEFINE f == caller[c].flight
<1>1. c \in Waiters(caller, f) /\ Waiters(caller, f) \subseteq Caller
  BY DEF Waiters
<1>2. IsFiniteSet(Waiters(caller, f)) /\ Cardinality(Waiters(caller, f)) \in Nat \ {0}
  BY <1>1, FS_Subset, FS_CardinalityType, FS_EmptySet, IdentityAssumption
<1>3. flight[f].waiters = Cardinality(Waiters(caller, f))
  BY DEF WaiterInv
<1> QED
  BY <1>2, <1>3

\* One waiter fewer, and cancelled if it was the last.
LEMMA LeaveRecord ==
  ASSUME NEW r \in FlightRecord, r.waiters # 0
  PROVE  /\ Leave(r) \in FlightRecord
         /\ Leave(r).phase = r.phase /\ Leave(r).blob = r.blob
         /\ Leave(r).waiters = r.waiters - 1
         /\ r.waiters = 1 => Leave(r).cancelled
         /\ r.waiters # 1 => Leave(r).cancelled = r.cancelled
<1>1. CASE r.waiters = 1
  <2>1. Leave(r) = [r EXCEPT !.waiters = 0, !.cancelled = TRUE]
    BY <1>1 DEF Leave
  <2>2. \A w \in Nat, q \in BOOLEAN :
          LET t == [r EXCEPT !.waiters = w, !.cancelled = q] IN
          /\ t \in FlightRecord
          /\ t.phase = r.phase /\ t.blob = r.blob /\ t.waiters = w /\ t.cancelled = q
    BY DEF FlightRecord
  <2>3. /\ Leave(r) \in FlightRecord
        /\ Leave(r).phase = r.phase /\ Leave(r).blob = r.blob /\ Leave(r).waiters = 0
        /\ Leave(r).cancelled = TRUE
    BY <2>1, <2>2, Zenon
  <2> QED
    BY <1>1, <2>3
<1>2. CASE r.waiters # 1
  <2>1. Leave(r) = [r EXCEPT !.waiters = r.waiters - 1]
    BY <1>2 DEF Leave
  <2>2. r.waiters - 1 \in Nat
    BY DEF FlightRecord
  <2> QED
    BY <1>2, <2>1, <2>2 DEF FlightRecord
<1> QED
  BY <1>1, <1>2

\* What waitForFlight's cancellation branch does to the flight.
LEMMA LeaveEffect ==
  ASSUME TypeOK, WaiterInv, NEW c \in Caller, WaitCancelled(c)
  PROVE  LET f == caller[c].flight IN
         /\ f \in Flight /\ flight[f].blob \in Blob
         /\ \A h \in Flight \ {f} : flight'[h] = flight[h]
         /\ flight' \in [Flight -> FlightRecord]
         /\ flight'[f].phase = flight[f].phase /\ flight'[f].blob = flight[f].blob
         /\ Registered(f) => /\ flight[f].waiters \in Nat \ {0}
                             /\ flight'[f].waiters = flight[f].waiters - 1
                             /\ flight[f].waiters = 1 => flight'[f].cancelled
                             /\ flight[f].waiters # 1 => flight'[f].cancelled = flight[f].cancelled
         /\ ~Registered(f) => flight' = flight
<1> DEFINE f == caller[c].flight
<1>1. f \in Flight /\ flight[f].blob \in Blob
  BY DEF WaiterInv, WaitCancelled
<1>2. CASE inFlight[flight[f].blob] = f
  <2>1. flight[f].waiters \in Nat \ {0}
    BY <1>1, <1>2, WaitersOfWaiting DEF Registered, WaitCancelled
  <2>2. flight' = [flight EXCEPT ![f] = Leave(flight[f])]
    BY <1>2 DEF WaitCancelled
  <2> QED
    BY <1>1, <1>2, <2>1, <2>2, LeaveRecord DEF Registered, TypeOK
<1>3. CASE inFlight[flight[f].blob] # f
  <2>1. flight' = flight
    BY <1>3 DEF WaitCancelled
  <2> QED
    BY <1>1, <1>3, <2>1 DEF Registered, TypeOK
<1> QED
  BY <1>2, <1>3

\* Two callers waiting for one registered flight make it count at least two.
LEMMA TwoWaiters ==
  ASSUME TypeOK, WaiterInv, NEW f \in Flight, Registered(f),
         NEW c \in Waiters(caller, f), NEW e \in Waiters(caller, f), c # e
  PROVE  flight[f].waiters # 1
<1>1. IsFiniteSet(Waiters(caller, f))
  BY FS_Subset, IdentityAssumption DEF Waiters
<1>2. Cardinality(Waiters(caller, f) \ {c}) = Cardinality(Waiters(caller, f)) - 1 /\ IsFiniteSet(Waiters(caller, f) \ {c})
  BY <1>1, FS_RemoveElement
<1>3. Cardinality(Waiters(caller, f) \ {c}) \in Nat \ {0}
  BY <1>2, FS_EmptySet, FS_CardinalityType
<1> QED
  BY <1>1, <1>2, <1>3, FS_CardinalityType DEF WaiterInv

\* A step that leaves the callers, the counts and the blobs of flights alone, and
\* registers no flight, keeps WaiterInv.
LEMMA WaiterFrame ==
  ASSUME TypeOK, WaiterInv, caller' = caller,
         \A f \in Flight :
            /\ flight'[f].blob = flight[f].blob
            /\ flight'[f].waiters = flight[f].waiters
            /\ flight[f].phase # "unused" => flight'[f].phase # "unused"
            /\ Registered(f)' => Registered(f)
  PROVE  WaiterInv'
<1>1. \A f \in Flight : Waiters(caller', f) = Waiters(caller, f)
  BY DEF Waiters
<1> QED
  BY <1>1 DEF WaiterInv

\* Every step keeps the types; waiters stays a natural number because it counts callers.
LEMMA TypeStep ==
  ASSUME TypeOK, RegisterInv, WaiterInv, MutexInv, [Next]_vars PROVE TypeOK'
<1>1. CASE Start
  BY <1>1 DEF TypeOK, Start, SyncStoredBlobs
<1>2. CASE Stop
  BY <1>2 DEF TypeOK, Stop, FlightRecord
<1>3. CASE Crash
  BY <1>3 DEF TypeOK, Crash, FlightRecord, FlightPhase, FreshFlight, CallerRecord, IdleCaller,
         Returned, HandlerRecord, IdleHandler
<1>4. ASSUME NEW c \in Caller, NEW b \in Blob, EnsureHit(c, b) PROVE TypeOK'
  BY <1>4 DEF TypeOK, EnsureHit, CallerRecord, Returned
<1>5. ASSUME NEW c \in Caller, NEW b \in Blob, EnsureJoin(c, b) PROVE TypeOK'
  <2>1. inFlight[b] \in Flight
    BY <1>5 DEF TypeOK, EnsureJoin
  <2>2. flight' \in [Flight -> FlightRecord]
    BY <1>5, <2>1 DEF TypeOK, EnsureJoin, FlightRecord
  <2> QED
    BY <1>5, <2>1, <2>2 DEF TypeOK, EnsureJoin, CallerRecord
<1>6. ASSUME NEW c \in Caller, NEW b \in Blob, NEW f \in Flight, EnsureLaunch(c, b, f) PROVE TypeOK'
  BY <1>6 DEF TypeOK, EnsureLaunch, FlightRecord, FlightPhase, CallerRecord
<1>7. ASSUME NEW c \in Caller, ContextDone(c) PROVE TypeOK'
  BY <1>7 DEF TypeOK, ContextDone, CallerRecord
<1>8. ASSUME NEW c \in Caller, WaitDone(c) PROVE TypeOK'
  BY <1>8 DEF TypeOK, WaitDone, CallerRecord, Returned
<1>9. ASSUME NEW c \in Caller, WaitCancelled(c) PROVE TypeOK'
  <2>1. flight' \in [Flight -> FlightRecord]
    BY <1>9, LeaveEffect
  <2> QED
    BY <1>9, <2>1 DEF TypeOK, WaitCancelled, CallerRecord, Returned
<1>10. ASSUME NEW f \in Flight, FetchOk(f) PROVE TypeOK'
  BY <1>10 DEF TypeOK, FetchOk, FlightRecord, FlightPhase
<1>11. ASSUME NEW f \in Flight, FetchFail(f) PROVE TypeOK'
  BY <1>11 DEF TypeOK, FetchFail, FlightRecord, FlightPhase
<1>12. ASSUME NEW f \in Flight, SetDisk(f) PROVE TypeOK'
  BY <1>12 DEF TypeOK, RegisterInv, Running, SetDisk, FlightRecord, FlightPhase
<1>13. ASSUME NEW f \in Flight, SetFail(f) PROVE TypeOK'
  BY <1>13 DEF TypeOK, SetFail, FlightRecord, FlightPhase
<1>14. ASSUME NEW f \in Flight, Publish(f) PROVE TypeOK'
  BY <1>14 DEF TypeOK, Publish, FlightRecord, FlightPhase
<1>15. ASSUME NEW f \in Flight, Record(f) PROVE TypeOK'
  <2>1. flight' \in [Flight -> FlightRecord]
    BY <1>15 DEF TypeOK, Record, FlightRecord, FlightPhase
  <2> QED
    BY <1>15, <2>1 DEF TypeOK, RegisterInv, Running, Record
<1>16. ASSUME NEW f \in Flight, RecordFail(f) PROVE TypeOK'
  BY <1>16 DEF TypeOK, RegisterInv, Running, RecordFail, FlightRecord, FlightPhase
<1>17. ASSUME NEW f \in Flight, RollbackRemove(f) PROVE TypeOK'
  BY <1>17 DEF TypeOK, RollbackRemove, FlightRecord, FlightPhase
<1>18. ASSUME NEW f \in Flight, RollbackFail(f) PROVE TypeOK'
  BY <1>18 DEF TypeOK, RegisterInv, Running, RollbackFail, FlightRecord, FlightPhase
<1>19. ASSUME NEW f \in Flight, RollbackUnlink(f) PROVE TypeOK'
  BY <1>19 DEF TypeOK, RollbackUnlink, FlightRecord, FlightPhase
<1>20. ASSUME NEW f \in Flight, Finish(f) PROVE TypeOK'
  <2>1. flight' \in [Flight -> FlightRecord]
    BY <1>20 DEF TypeOK, Finish, FlightRecord, FlightPhase
  <2> QED
    BY <1>20, <2>1 DEF TypeOK, Finish
<1>21. ASSUME NEW d \in Handler, NEW b \in Blob, DeleteLoose(d, b) PROVE TypeOK'
  BY <1>21 DEF TypeOK, DeleteLoose, HandlerRecord
<1>22. ASSUME NEW d \in Handler, NEW b \in Blob, DeleteStream(d, b) PROVE TypeOK'
  BY <1>22 DEF TypeOK, DeleteStream, HandlerRecord
<1>23. ASSUME NEW d \in Handler, NEW b \in Blob, DeleteClean(d, b) PROVE TypeOK'
  BY <1>23 DEF TypeOK, DeleteClean, HandlerRecord
<1>24. ASSUME NEW d \in Handler, NEW b \in Blob, ReflectBegin(d, b) PROVE TypeOK'
  BY <1>24 DEF TypeOK, ReflectBegin, HandlerRecord
<1>25. ASSUME NEW d \in Handler, DeleteRemove(d) PROVE TypeOK'
  BY <1>25 DEF TypeOK, DeleteRemove, HandlerRecord
<1>26. ASSUME NEW d \in Handler, DeleteFail(d) PROVE TypeOK'
  BY <1>26 DEF TypeOK, MutexInv, DeleteFail, HandlerRecord, IdleHandler
<1>27. ASSUME NEW d \in Handler, DeleteUnlink(d) PROVE TypeOK'
  BY <1>27 DEF TypeOK, DeleteUnlink, HandlerRecord, IdleHandler
<1>28. ASSUME NEW d \in Handler, DeleteRow(d) PROVE TypeOK'
  BY <1>28 DEF TypeOK, DeleteRow, HandlerRecord, IdleHandler
<1>29. ASSUME NEW d \in Handler, ReflectDisk(d) PROVE TypeOK'
  BY <1>29 DEF TypeOK, MutexInv, ReflectDisk, HandlerRecord
<1>30. ASSUME NEW d \in Handler, ReflectFail(d) PROVE TypeOK'
  BY <1>30 DEF TypeOK, ReflectFail, HandlerRecord, IdleHandler
<1>31. ASSUME NEW d \in Handler, ReflectPublish(d) PROVE TypeOK'
  BY <1>31 DEF TypeOK, ReflectPublish, HandlerRecord, IdleHandler
<1>32. CASE UNCHANGED vars
  BY <1>32 DEF TypeOK, vars
<1> QED
  BY <1>1, <1>2, <1>3, <1>4, <1>5, <1>6, <1>7, <1>8, <1>9, <1>10, <1>11, <1>12, <1>13,
     <1>14, <1>15, <1>16, <1>17, <1>18, <1>19, <1>20, <1>21, <1>22, <1>23, <1>24, <1>25,
     <1>26, <1>27, <1>28, <1>29, <1>30, <1>31, <1>32 DEF Next, CallerStep, FlightStep,
     HandlerBegin, HandlerStep

\* Every step keeps DownInv: the process comes up with nothing under way.
LEMMA DownStep ==
  ASSUME TypeOK, DownInv, [Next]_vars PROVE DownInv'
<1>1. CASE Start
  BY <1>1 DEF DownInv, IdleCaller, Start, SyncStoredBlobs
<1>2. CASE Stop
  BY <1>2 DEF DownInv, IdleCaller, Stop
<1>3. CASE Crash
  BY <1>3 DEF DownInv, IdleCaller, Returned, Crash
<1>4. ASSUME NEW c \in Caller, NEW b \in Blob, EnsureHit(c, b) PROVE DownInv'
  BY <1>4 DEF DownInv, IdleCaller, EnsureHit
<1>5. ASSUME NEW c \in Caller, NEW b \in Blob, EnsureJoin(c, b) PROVE DownInv'
  BY <1>5 DEF DownInv, IdleCaller, EnsureJoin
<1>6. ASSUME NEW c \in Caller, NEW b \in Blob, NEW f \in Flight, EnsureLaunch(c, b, f) PROVE DownInv'
  BY <1>6 DEF DownInv, IdleCaller, EnsureLaunch
<1>7. ASSUME NEW c \in Caller, ContextDone(c) PROVE DownInv'
  BY <1>7 DEF DownInv, IdleCaller, ContextDone
<1>8. ASSUME NEW c \in Caller, WaitDone(c) PROVE DownInv'
  BY <1>8 DEF DownInv, IdleCaller, WaitDone
<1>9. ASSUME NEW c \in Caller, WaitCancelled(c) PROVE DownInv'
  BY <1>9 DEF DownInv, IdleCaller, WaitCancelled
<1>10. ASSUME NEW f \in Flight, FetchOk(f) PROVE DownInv'
  BY <1>10 DEF DownInv, FreshFlight, IdleCaller, FetchOk
<1>11. ASSUME NEW f \in Flight, FetchFail(f) PROVE DownInv'
  BY <1>11 DEF DownInv, FreshFlight, IdleCaller, FetchFail
<1>12. ASSUME NEW f \in Flight, SetDisk(f) PROVE DownInv'
  BY <1>12 DEF DownInv, FreshFlight, IdleCaller, SetDisk
<1>13. ASSUME NEW f \in Flight, SetFail(f) PROVE DownInv'
  BY <1>13 DEF DownInv, FreshFlight, IdleCaller, SetFail
<1>14. ASSUME NEW f \in Flight, Publish(f) PROVE DownInv'
  BY <1>14 DEF DownInv, FreshFlight, IdleCaller, Publish
<1>15. ASSUME NEW f \in Flight, Record(f) PROVE DownInv'
  BY <1>15 DEF DownInv, FreshFlight, IdleCaller, Record
<1>16. ASSUME NEW f \in Flight, RecordFail(f) PROVE DownInv'
  BY <1>16 DEF DownInv, FreshFlight, IdleCaller, RecordFail
<1>17. ASSUME NEW f \in Flight, RollbackRemove(f) PROVE DownInv'
  BY <1>17 DEF DownInv, FreshFlight, IdleCaller, RollbackRemove
<1>18. ASSUME NEW f \in Flight, RollbackFail(f) PROVE DownInv'
  BY <1>18 DEF DownInv, FreshFlight, IdleCaller, RollbackFail
<1>19. ASSUME NEW f \in Flight, RollbackUnlink(f) PROVE DownInv'
  BY <1>19 DEF DownInv, FreshFlight, IdleCaller, RollbackUnlink
<1>20. ASSUME NEW f \in Flight, Finish(f) PROVE DownInv'
  BY <1>20 DEF DownInv, FreshFlight, IdleCaller, Finish
<1>21. ASSUME NEW d \in Handler, NEW b \in Blob, DeleteLoose(d, b) PROVE DownInv'
  BY <1>21 DEF DownInv, IdleCaller, DeleteLoose
<1>22. ASSUME NEW d \in Handler, NEW b \in Blob, DeleteStream(d, b) PROVE DownInv'
  BY <1>22 DEF DownInv, IdleCaller, DeleteStream
<1>23. ASSUME NEW d \in Handler, NEW b \in Blob, DeleteClean(d, b) PROVE DownInv'
  BY <1>23 DEF DownInv, IdleCaller, DeleteClean
<1>24. ASSUME NEW d \in Handler, NEW b \in Blob, ReflectBegin(d, b) PROVE DownInv'
  BY <1>24 DEF DownInv, IdleCaller, ReflectBegin
<1>25. ASSUME NEW d \in Handler, DeleteRemove(d) PROVE DownInv'
  BY <1>25 DEF DownInv, IdleCaller, IdleHandler, DeleteRemove
<1>26. ASSUME NEW d \in Handler, DeleteFail(d) PROVE DownInv'
  BY <1>26 DEF DownInv, IdleCaller, DeleteFail
<1>27. ASSUME NEW d \in Handler, DeleteUnlink(d) PROVE DownInv'
  BY <1>27 DEF DownInv, IdleCaller, IdleHandler, DeleteUnlink
<1>28. ASSUME NEW d \in Handler, DeleteRow(d) PROVE DownInv'
  BY <1>28 DEF DownInv, IdleCaller, DeleteRow
<1>29. ASSUME NEW d \in Handler, ReflectDisk(d) PROVE DownInv'
  BY <1>29 DEF DownInv, IdleCaller, IdleHandler, ReflectDisk
<1>30. ASSUME NEW d \in Handler, ReflectFail(d) PROVE DownInv'
  BY <1>30 DEF DownInv, IdleCaller, ReflectFail
<1>31. ASSUME NEW d \in Handler, ReflectPublish(d) PROVE DownInv'
  BY <1>31 DEF DownInv, IdleCaller, IdleHandler, ReflectPublish
<1>32. CASE UNCHANGED vars
  BY <1>32 DEF DownInv, IdleCaller, vars
<1> QED
  BY <1>1, <1>2, <1>3, <1>4, <1>5, <1>6, <1>7, <1>8, <1>9, <1>10, <1>11, <1>12, <1>13,
     <1>14, <1>15, <1>16, <1>17, <1>18, <1>19, <1>20, <1>21, <1>22, <1>23, <1>24, <1>25,
     <1>26, <1>27, <1>28, <1>29, <1>30, <1>31, <1>32 DEF Next, CallerStep, FlightStep,
     HandlerBegin, HandlerStep

\* Every step keeps RegisterInv; the last waiter to leave also cancels.
LEMMA RegisterStep ==
  ASSUME TypeOK, RegisterInv, WaiterInv, DownInv, [Next]_vars PROVE RegisterInv'
<1>1. CASE Start
  BY <1>1 DEF RegisterInv, Running, Registered, Start, SyncStoredBlobs
<1>2. CASE Stop
  BY <1>2 DEF RegisterInv, Running, Registered, Stop
<1>3. CASE Crash
  BY <1>3 DEF RegisterInv, Running, FreshFlight, Crash
<1>4. ASSUME NEW c \in Caller, NEW b \in Blob, EnsureHit(c, b) PROVE RegisterInv'
  BY <1>4 DEF RegisterInv, Running, Registered, EnsureHit
<1>5. ASSUME NEW c \in Caller, NEW b \in Blob, EnsureJoin(c, b) PROVE RegisterInv'
  BY <1>5 DEF RegisterInv, Running, Registered, TypeOK, EnsureJoin, FlightRecord
<1>6. ASSUME NEW c \in Caller, NEW b \in Blob, NEW f \in Flight, EnsureLaunch(c, b, f) PROVE RegisterInv'
  BY <1>6, IdentityAssumption DEF RegisterInv, Running, Registered, TypeOK, EnsureLaunch
<1>7. ASSUME NEW c \in Caller, ContextDone(c) PROVE RegisterInv'
  BY <1>7 DEF RegisterInv, Running, Registered, ContextDone
<1>8. ASSUME NEW c \in Caller, WaitDone(c) PROVE RegisterInv'
  BY <1>8 DEF RegisterInv, Running, Registered, WaitDone
<1>9. ASSUME NEW c \in Caller, WaitCancelled(c) PROVE RegisterInv'
  <2> DEFINE f == caller[c].flight
  <2>1. /\ f \in Flight /\ \A h \in Flight \ {f} : flight'[h] = flight[h]
        /\ flight'[f].phase = flight[f].phase /\ flight'[f].blob = flight[f].blob
    BY <1>9, LeaveEffect
  <2>2. Registered(f) /\ ~flight'[f].cancelled => flight'[f].waiters > 0 /\ ~flight[f].cancelled
    BY <1>9, LeaveEffect
  <2>3. ~Registered(f) => flight' = flight
    BY <1>9, LeaveEffect
  <2>4. inFlight' = inFlight
    BY <1>9 DEF WaitCancelled
  <2> QED
    BY <2>1, <2>2, <2>3, <2>4 DEF RegisterInv, Running, Registered, TypeOK
<1>10. ASSUME NEW f \in Flight, FetchOk(f) PROVE RegisterInv'
  BY <1>10 DEF RegisterInv, Running, Registered, FetchOk
<1>11. ASSUME NEW f \in Flight, FetchFail(f) PROVE RegisterInv'
  BY <1>11 DEF RegisterInv, Running, Registered, FetchFail
<1>12. ASSUME NEW f \in Flight, SetDisk(f) PROVE RegisterInv'
  BY <1>12 DEF RegisterInv, Running, Registered, SetDisk
<1>13. ASSUME NEW f \in Flight, SetFail(f) PROVE RegisterInv'
  BY <1>13 DEF RegisterInv, Running, Registered, SetFail
<1>14. ASSUME NEW f \in Flight, Publish(f) PROVE RegisterInv'
  BY <1>14 DEF RegisterInv, Running, Registered, Publish
<1>15. ASSUME NEW f \in Flight, Record(f) PROVE RegisterInv'
  BY <1>15 DEF RegisterInv, Running, Registered, Record
<1>16. ASSUME NEW f \in Flight, RecordFail(f) PROVE RegisterInv'
  BY <1>16 DEF RegisterInv, Running, Registered, RecordFail
<1>17. ASSUME NEW f \in Flight, RollbackRemove(f) PROVE RegisterInv'
  BY <1>17 DEF RegisterInv, Running, Registered, RollbackRemove
<1>18. ASSUME NEW f \in Flight, RollbackFail(f) PROVE RegisterInv'
  BY <1>18 DEF RegisterInv, Running, Registered, RollbackFail
<1>19. ASSUME NEW f \in Flight, RollbackUnlink(f) PROVE RegisterInv'
  BY <1>19 DEF RegisterInv, Running, Registered, RollbackUnlink
<1>20. ASSUME NEW f \in Flight, Finish(f) PROVE RegisterInv'
  <2>1. \A g \in Flight \ {f} : flight'[g] = flight[g]
    BY <1>20 DEF Finish
  <2>2. /\ flight'[f].phase = "done" /\ flight'[f].blob = flight[f].blob
        /\ flight[f].blob \in Blob
    BY <1>20 DEF Finish, TypeOK, RegisterInv, Running
  <2>3. \A b \in Blob : inFlight'[b] # None => inFlight'[b] # f /\ inFlight'[b] = inFlight[b]
    BY <1>20, <2>2 DEF Finish, TypeOK, RegisterInv
  <2>4. \A g \in Flight \ {f} : Registered(g) => Registered(g)'
    BY <1>20, <2>1 DEF Finish, Registered
  <2> QED
    BY <1>20, <2>1, <2>2, <2>3, <2>4 DEF RegisterInv, Running, TypeOK
<1>21. ASSUME NEW d \in Handler, NEW b \in Blob, DeleteLoose(d, b) PROVE RegisterInv'
  BY <1>21 DEF RegisterInv, Running, Registered, DeleteLoose
<1>22. ASSUME NEW d \in Handler, NEW b \in Blob, DeleteStream(d, b) PROVE RegisterInv'
  BY <1>22 DEF RegisterInv, Running, Registered, DeleteStream
<1>23. ASSUME NEW d \in Handler, NEW b \in Blob, DeleteClean(d, b) PROVE RegisterInv'
  BY <1>23 DEF RegisterInv, Running, Registered, DeleteClean
<1>24. ASSUME NEW d \in Handler, NEW b \in Blob, ReflectBegin(d, b) PROVE RegisterInv'
  BY <1>24 DEF RegisterInv, Running, Registered, ReflectBegin
<1>25. ASSUME NEW d \in Handler, DeleteRemove(d) PROVE RegisterInv'
  BY <1>25 DEF RegisterInv, Running, Registered, DeleteRemove
<1>26. ASSUME NEW d \in Handler, DeleteFail(d) PROVE RegisterInv'
  BY <1>26 DEF RegisterInv, Running, Registered, DeleteFail
<1>27. ASSUME NEW d \in Handler, DeleteUnlink(d) PROVE RegisterInv'
  BY <1>27 DEF RegisterInv, Running, Registered, DeleteUnlink
<1>28. ASSUME NEW d \in Handler, DeleteRow(d) PROVE RegisterInv'
  BY <1>28 DEF RegisterInv, Running, Registered, DeleteRow
<1>29. ASSUME NEW d \in Handler, ReflectDisk(d) PROVE RegisterInv'
  BY <1>29 DEF RegisterInv, Running, Registered, ReflectDisk
<1>30. ASSUME NEW d \in Handler, ReflectFail(d) PROVE RegisterInv'
  BY <1>30 DEF RegisterInv, Running, Registered, ReflectFail
<1>31. ASSUME NEW d \in Handler, ReflectPublish(d) PROVE RegisterInv'
  BY <1>31 DEF RegisterInv, Running, Registered, ReflectPublish
<1>32. CASE UNCHANGED vars
  BY <1>32 DEF RegisterInv, Running, Registered, vars
<1> QED
  BY <1>1, <1>2, <1>3, <1>4, <1>5, <1>6, <1>7, <1>8, <1>9, <1>10, <1>11, <1>12, <1>13,
     <1>14, <1>15, <1>16, <1>17, <1>18, <1>19, <1>20, <1>21, <1>22, <1>23, <1>24, <1>25,
     <1>26, <1>27, <1>28, <1>29, <1>30, <1>31, <1>32 DEF Next, CallerStep, FlightStep,
     HandlerBegin, HandlerStep

\* Every step keeps MutexInv.
LEMMA MutexStep ==
  ASSUME TypeOK, MutexInv, RegisterInv, WaiterInv, DownInv, [Next]_vars PROVE MutexInv'
<1>1. CASE Start
  BY <1>1 DEF MutexInv, Start, SyncStoredBlobs
<1>2. CASE Stop
  BY <1>2 DEF MutexInv, Stop
<1>3. CASE Crash
  BY <1>3, IdentityAssumption DEF MutexInv, FreshFlight, IdleHandler, Crash
<1>4. ASSUME NEW c \in Caller, NEW b \in Blob, EnsureHit(c, b) PROVE MutexInv'
  BY <1>4 DEF MutexInv, EnsureHit
<1>5. ASSUME NEW c \in Caller, NEW b \in Blob, EnsureJoin(c, b) PROVE MutexInv'
  BY <1>5 DEF MutexInv, EnsureJoin
<1>6. ASSUME NEW c \in Caller, NEW b \in Blob, NEW f \in Flight, EnsureLaunch(c, b, f) PROVE MutexInv'
  BY <1>6 DEF MutexInv, EnsureLaunch
<1>7. ASSUME NEW c \in Caller, ContextDone(c) PROVE MutexInv'
  BY <1>7 DEF MutexInv, ContextDone
<1>8. ASSUME NEW c \in Caller, WaitDone(c) PROVE MutexInv'
  BY <1>8 DEF MutexInv, WaitDone
<1>9. ASSUME NEW c \in Caller, WaitCancelled(c) PROVE MutexInv'
  <2>1. \A f \in Flight : flight'[f].phase = flight[f].phase
    BY <1>9, LeaveEffect
  <2> QED
    BY <1>9, <2>1 DEF MutexInv, WaitCancelled
<1>10. ASSUME NEW f \in Flight, FetchOk(f) PROVE MutexInv'
  BY <1>10 DEF MutexInv, FetchOk
<1>11. ASSUME NEW f \in Flight, FetchFail(f) PROVE MutexInv'
  BY <1>11 DEF MutexInv, FetchFail
<1>12. ASSUME NEW f \in Flight, SetDisk(f) PROVE MutexInv'
  BY <1>12, IdentityAssumption DEF MutexInv, TypeOK, SetDisk
<1>13. ASSUME NEW f \in Flight, SetFail(f) PROVE MutexInv'
  BY <1>13 DEF MutexInv, SetFail
<1>14. ASSUME NEW f \in Flight, Publish(f) PROVE MutexInv'
  BY <1>14, IdentityAssumption DEF MutexInv, TypeOK, Publish
<1>15. ASSUME NEW f \in Flight, Record(f) PROVE MutexInv'
  BY <1>15 DEF MutexInv, Record
<1>16. ASSUME NEW f \in Flight, RecordFail(f) PROVE MutexInv'
  BY <1>16 DEF MutexInv, RecordFail
<1>17. ASSUME NEW f \in Flight, RollbackRemove(f) PROVE MutexInv'
  BY <1>17, IdentityAssumption DEF MutexInv, TypeOK, RollbackRemove
<1>18. ASSUME NEW f \in Flight, RollbackFail(f) PROVE MutexInv'
  BY <1>18 DEF MutexInv, RollbackFail
<1>19. ASSUME NEW f \in Flight, RollbackUnlink(f) PROVE MutexInv'
  BY <1>19, IdentityAssumption DEF MutexInv, TypeOK, RollbackUnlink
<1>20. ASSUME NEW f \in Flight, Finish(f) PROVE MutexInv'
  BY <1>20 DEF MutexInv, Finish
<1>21. ASSUME NEW d \in Handler, NEW b \in Blob, DeleteLoose(d, b) PROVE MutexInv'
  BY <1>21 DEF MutexInv, DeleteLoose
<1>22. ASSUME NEW d \in Handler, NEW b \in Blob, DeleteStream(d, b) PROVE MutexInv'
  BY <1>22 DEF MutexInv, DeleteStream
<1>23. ASSUME NEW d \in Handler, NEW b \in Blob, DeleteClean(d, b) PROVE MutexInv'
  BY <1>23 DEF MutexInv, DeleteClean
<1>24. ASSUME NEW d \in Handler, NEW b \in Blob, ReflectBegin(d, b) PROVE MutexInv'
  BY <1>24 DEF MutexInv, ReflectBegin
<1>25. ASSUME NEW d \in Handler, DeleteRemove(d) PROVE MutexInv'
  BY <1>25, IdentityAssumption DEF MutexInv, TypeOK, DeleteRemove
<1>26. ASSUME NEW d \in Handler, DeleteFail(d) PROVE MutexInv'
  BY <1>26 DEF MutexInv, IdleHandler, DeleteFail
<1>27. ASSUME NEW d \in Handler, DeleteUnlink(d) PROVE MutexInv'
  BY <1>27, IdentityAssumption DEF MutexInv, IdleHandler, TypeOK, DeleteUnlink
<1>28. ASSUME NEW d \in Handler, DeleteRow(d) PROVE MutexInv'
  BY <1>28 DEF MutexInv, IdleHandler, DeleteRow
<1>29. ASSUME NEW d \in Handler, ReflectDisk(d) PROVE MutexInv'
  BY <1>29, IdentityAssumption DEF MutexInv, TypeOK, ReflectDisk
<1>30. ASSUME NEW d \in Handler, ReflectFail(d) PROVE MutexInv'
  BY <1>30 DEF MutexInv, IdleHandler, ReflectFail
<1>31. ASSUME NEW d \in Handler, ReflectPublish(d) PROVE MutexInv'
  BY <1>31, IdentityAssumption DEF MutexInv, IdleHandler, TypeOK, ReflectPublish
<1>32. CASE UNCHANGED vars
  BY <1>32 DEF MutexInv, vars
<1> QED
  BY <1>1, <1>2, <1>3, <1>4, <1>5, <1>6, <1>7, <1>8, <1>9, <1>10, <1>11, <1>12, <1>13,
     <1>14, <1>15, <1>16, <1>17, <1>18, <1>19, <1>20, <1>21, <1>22, <1>23, <1>24, <1>25,
     <1>26, <1>27, <1>28, <1>29, <1>30, <1>31, <1>32 DEF Next, CallerStep, FlightStep,
     HandlerBegin, HandlerStep

\* Every step keeps DiskInv.
LEMMA DiskStep ==
  ASSUME TypeOK, DiskInv, MutexInv, RegisterInv, WaiterInv, DownInv, [Next]_vars PROVE DiskInv'
<1>1. CASE Start
  BY <1>1, IdentityAssumption DEF DiskInv, DownInv, FreshFlight, IdleHandler, TypeOK, Start, SyncStoredBlobs
<1>2. CASE Stop
  BY <1>2 DEF DiskInv, Stop
<1>3. CASE Crash
  BY <1>3 DEF DiskInv, FreshFlight, IdleHandler, Crash
<1>4. ASSUME NEW c \in Caller, NEW b \in Blob, EnsureHit(c, b) PROVE DiskInv'
  BY <1>4 DEF DiskInv, Holding, Running, EnsureHit
<1>5. ASSUME NEW c \in Caller, NEW b \in Blob, EnsureJoin(c, b) PROVE DiskInv'
  BY <1>5 DEF DiskInv, Holding, Running, EnsureJoin
<1>6. ASSUME NEW c \in Caller, NEW b \in Blob, NEW f \in Flight, EnsureLaunch(c, b, f) PROVE DiskInv'
  BY <1>6 DEF DiskInv, MutexInv, Holding, Running, EnsureLaunch
<1>7. ASSUME NEW c \in Caller, ContextDone(c) PROVE DiskInv'
  BY <1>7 DEF DiskInv, Holding, Running, ContextDone
<1>8. ASSUME NEW c \in Caller, WaitDone(c) PROVE DiskInv'
  BY <1>8 DEF DiskInv, Holding, Running, WaitDone
<1>9. ASSUME NEW c \in Caller, WaitCancelled(c) PROVE DiskInv'
  <2>1. \A f \in Flight : flight'[f].phase = flight[f].phase /\ flight'[f].blob = flight[f].blob
    BY <1>9, LeaveEffect
  <2> QED
    BY <1>9, <2>1 DEF DiskInv, Holding, Running, WaitCancelled
<1>10. ASSUME NEW f \in Flight, FetchOk(f) PROVE DiskInv'
  BY <1>10 DEF DiskInv, Holding, Running, FetchOk
<1>11. ASSUME NEW f \in Flight, FetchFail(f) PROVE DiskInv'
  BY <1>11 DEF DiskInv, Holding, Running, FetchFail
<1>12. ASSUME NEW f \in Flight, SetDisk(f) PROVE DiskInv'
  BY <1>12, IdentityAssumption DEF DiskInv, MutexInv, Holding, SetDisk
<1>13. ASSUME NEW f \in Flight, SetFail(f) PROVE DiskInv'
  BY <1>13 DEF DiskInv, Holding, SetFail
<1>14. ASSUME NEW f \in Flight, Publish(f) PROVE DiskInv'
  BY <1>14, IdentityAssumption DEF DiskInv, MutexInv, Holding, Running, TypeOK, Publish
<1>15. ASSUME NEW f \in Flight, Record(f) PROVE DiskInv'
  BY <1>15 DEF DiskInv, Holding, Running, Record
<1>16. ASSUME NEW f \in Flight, RecordFail(f) PROVE DiskInv'
  BY <1>16 DEF DiskInv, Holding, Running, RecordFail
<1>17. ASSUME NEW f \in Flight, RollbackRemove(f) PROVE DiskInv'
  BY <1>17, IdentityAssumption DEF DiskInv, MutexInv, Holding, Running, RollbackRemove
<1>18. ASSUME NEW f \in Flight, RollbackFail(f) PROVE DiskInv'
  BY <1>18 DEF DiskInv, Holding, Running, RollbackFail
<1>19. ASSUME NEW f \in Flight, RollbackUnlink(f) PROVE DiskInv'
  BY <1>19, IdentityAssumption DEF DiskInv, MutexInv, Holding, Running, TypeOK, RollbackUnlink
<1>20. ASSUME NEW f \in Flight, Finish(f) PROVE DiskInv'
  BY <1>20 DEF DiskInv, Holding, Running, Finish
<1>21. ASSUME NEW d \in Handler, NEW b \in Blob, DeleteLoose(d, b) PROVE DiskInv'
  BY <1>21 DEF DiskInv, MutexInv, Holding, Running, DeleteLoose
<1>22. ASSUME NEW d \in Handler, NEW b \in Blob, DeleteStream(d, b) PROVE DiskInv'
  BY <1>22 DEF DiskInv, MutexInv, Holding, Running, DeleteStream
<1>23. ASSUME NEW d \in Handler, NEW b \in Blob, DeleteClean(d, b) PROVE DiskInv'
  BY <1>23 DEF DiskInv, MutexInv, Holding, Running, DeleteClean
<1>24. ASSUME NEW d \in Handler, NEW b \in Blob, ReflectBegin(d, b) PROVE DiskInv'
  BY <1>24 DEF DiskInv, MutexInv, Holding, Running, GetLocal, ReflectBegin
<1>25. ASSUME NEW d \in Handler, DeleteRemove(d) PROVE DiskInv'
  BY <1>25, IdentityAssumption DEF DiskInv, MutexInv, Holding, Running, DeleteRemove
<1>26. ASSUME NEW d \in Handler, DeleteFail(d) PROVE DiskInv'
  BY <1>26, IdentityAssumption DEF DiskInv, Holding, Running, IdleHandler, DeleteFail
<1>27. ASSUME NEW d \in Handler, DeleteUnlink(d) PROVE DiskInv'
  BY <1>27, IdentityAssumption DEF DiskInv, MutexInv, Holding, Running, IdleHandler, TypeOK,
         DeleteUnlink
<1>28. ASSUME NEW d \in Handler, DeleteRow(d) PROVE DiskInv'
  BY <1>28 DEF DiskInv, MutexInv, Holding, Running, IdleHandler, DeleteRow
<1>29. ASSUME NEW d \in Handler, ReflectDisk(d) PROVE DiskInv'
  BY <1>29, IdentityAssumption DEF DiskInv, MutexInv, Holding, ReflectDisk
<1>30. ASSUME NEW d \in Handler, ReflectFail(d) PROVE DiskInv'
  BY <1>30, IdentityAssumption DEF DiskInv, Holding, Running, IdleHandler, ReflectFail
<1>31. ASSUME NEW d \in Handler, ReflectPublish(d) PROVE DiskInv'
  BY <1>31, IdentityAssumption DEF DiskInv, MutexInv, Holding, Running, IdleHandler, TypeOK,
         ReflectPublish
<1>32. CASE UNCHANGED vars
  BY <1>32 DEF DiskInv, Holding, Running, vars
<1> QED
  BY <1>1, <1>2, <1>3, <1>4, <1>5, <1>6, <1>7, <1>8, <1>9, <1>10, <1>11, <1>12, <1>13,
     <1>14, <1>15, <1>16, <1>17, <1>18, <1>19, <1>20, <1>21, <1>22, <1>23, <1>24, <1>25,
     <1>26, <1>27, <1>28, <1>29, <1>30, <1>31, <1>32 DEF Next, CallerStep, FlightStep,
     HandlerBegin, HandlerStep

\* Every step keeps WaiterInv: Ensure adds one waiter, waitForFlight removes one.
LEMMA WaiterStep ==
  ASSUME TypeOK, WaiterInv, RegisterInv, DownInv, [Next]_vars PROVE WaiterInv'
<1>1. CASE Start
  BY <1>1 DEF WaiterInv, Registered, Start, SyncStoredBlobs
<1>2. CASE Stop
  <2>1. \A g \in Flight : /\ flight'[g].blob = flight[g].blob
                          /\ flight'[g].waiters = flight[g].waiters
                          /\ flight[g].phase # "unused" => flight'[g].phase # "unused"
    BY <1>2 DEF Stop
  <2> QED
    BY <1>2, <2>1, WaiterFrame, IdentityAssumption DEF Registered, Stop
<1>3. CASE Crash
  <2>1. \A f \in Flight : ~Registered(f)'
    BY <1>3, IdentityAssumption DEF Crash, Registered
  <2>2. \A c \in Caller : caller'[c].phase # "waiting"
    BY <1>3 DEF Crash, IdleCaller, Returned
  <2> QED
    BY <2>1, <2>2 DEF WaiterInv
<1>4. ASSUME NEW c \in Caller, NEW b \in Blob, EnsureHit(c, b) PROVE WaiterInv'
  BY <1>4 DEF WaiterInv, Registered, Waiters, Returned, EnsureHit
<1>5. ASSUME NEW c \in Caller, NEW b \in Blob, EnsureJoin(c, b) PROVE WaiterInv'
  <2> DEFINE g == inFlight[b]
  <2>1. g \in Flight /\ Registered(g) /\ flight[g].blob = b /\ c \notin Waiters(caller, g)
    BY <1>5 DEF EnsureJoin, TypeOK, RegisterInv, Registered, Waiters
  <2>2. /\ caller'[c].phase = "waiting" /\ caller'[c].flight = g
        /\ \A e \in Caller \ {c} : caller'[e] = caller[e]
    BY <1>5 DEF EnsureJoin, TypeOK
  <2>3. /\ \A h \in Flight : flight'[h].blob = flight[h].blob /\ flight'[h].phase = flight[h].phase
        /\ flight'[g].waiters = flight[g].waiters + 1
        /\ \A h \in Flight \ {g} : flight'[h].waiters = flight[h].waiters
    BY <1>5, <2>1 DEF EnsureJoin, TypeOK
  <2>4. Waiters(caller', g) = Waiters(caller, g) \cup {c} /\ \A h \in Flight \ {g} : Waiters(caller', h) = Waiters(caller, h)
    BY <1>5, <2>2 DEF Waiters, EnsureJoin
  <2>5. Cardinality(Waiters(caller, g) \cup {c}) = Cardinality(Waiters(caller, g)) + 1
    BY <2>1, FS_AddElement, FS_Subset, IdentityAssumption DEF Waiters
  <2>6. \A h \in Flight : Registered(h)' => Registered(h)
    BY <1>5, <2>3 DEF Registered, EnsureJoin
  <2>7. flight[g].phase # "unused"
    BY <1>5, <2>1 DEF RegisterInv, Running, EnsureJoin
  <2>8. \A h \in Flight : Registered(h)' => flight'[h].waiters = Cardinality(Waiters(caller', h))
    BY <2>1, <2>3, <2>4, <2>5, <2>6 DEF WaiterInv
  <2>9. \A e \in Caller : caller'[e].phase = "waiting" =>
            /\ caller'[e].flight \in Flight
            /\ flight'[caller'[e].flight].phase # "unused"
            /\ flight'[caller'[e].flight].blob \in Blob
    BY <2>1, <2>2, <2>3, <2>7 DEF WaiterInv
  <2> QED
    BY <2>8, <2>9 DEF WaiterInv
<1>6. ASSUME NEW c \in Caller, NEW b \in Blob, NEW f \in Flight, EnsureLaunch(c, b, f) PROVE WaiterInv'
  <2>1. /\ caller'[c].phase = "waiting" /\ caller'[c].flight = f
        /\ \A e \in Caller \ {c} : caller'[e] = caller[e]
    BY <1>6 DEF EnsureLaunch, TypeOK
  <2>2. /\ flight'[f].phase = "fetching" /\ flight'[f].blob = b /\ flight'[f].waiters = 1
        /\ \A h \in Flight \ {f} : flight'[h] = flight[h]
    BY <1>6 DEF EnsureLaunch, TypeOK
  <2>3. Waiters(caller', f) = {c}
    BY <1>6, <2>1 DEF Waiters, WaiterInv, EnsureLaunch
  <2>4. \A h \in Flight \ {f} : Waiters(caller', h) = Waiters(caller, h)
    BY <1>6, <2>1 DEF Waiters, EnsureLaunch
  <2>5. \A h \in Flight \ {f} : Registered(h)' => Registered(h)
    BY <1>6, <2>2 DEF Registered, EnsureLaunch
  <2>6. \A h \in Flight : Registered(h)' => flight'[h].waiters = Cardinality(Waiters(caller', h))
    BY <2>2, <2>3, <2>4, <2>5, FS_Singleton DEF WaiterInv
  <2>7. \A e \in Caller : caller'[e].phase = "waiting" =>
            /\ caller'[e].flight \in Flight
            /\ flight'[caller'[e].flight].phase # "unused"
            /\ flight'[caller'[e].flight].blob \in Blob
    BY <2>1, <2>2 DEF WaiterInv
  <2> QED
    BY <2>6, <2>7 DEF WaiterInv
<1>7. ASSUME NEW c \in Caller, ContextDone(c) PROVE WaiterInv'
  BY <1>7 DEF WaiterInv, DownInv, Registered, Waiters, ContextDone
<1>8. ASSUME NEW c \in Caller, WaitDone(c) PROVE WaiterInv'
  BY <1>8, IdentityAssumption DEF WaiterInv, RegisterInv, Running, Registered, Waiters,
         Returned, WaitDone
<1>9. ASSUME NEW c \in Caller, WaitCancelled(c) PROVE WaiterInv'
  <2> DEFINE f == caller[c].flight
  <2>1. f \in Flight /\ flight[f].blob \in Blob /\ c \in Waiters(caller, f)
    BY <1>9 DEF WaitCancelled, WaiterInv, Waiters
  <2>2. /\ caller'[c].phase # "waiting"
        /\ \A e \in Caller \ {c} : caller'[e] = caller[e]
    BY <1>9 DEF WaitCancelled, TypeOK, Returned
  <2>3. /\ \A h \in Flight : flight'[h].blob = flight[h].blob /\ flight'[h].phase = flight[h].phase
        /\ Registered(f) => flight'[f].waiters = flight[f].waiters - 1
        /\ \A h \in Flight \ {f} : flight'[h].waiters = flight[h].waiters
    BY <1>9, LeaveEffect
  <2>4. Waiters(caller', f) = Waiters(caller, f) \ {c} /\ \A h \in Flight \ {f} : Waiters(caller', h) = Waiters(caller, h)
    BY <1>9, <2>2 DEF Waiters, WaitCancelled
  <2>5. Cardinality(Waiters(caller, f) \ {c}) = Cardinality(Waiters(caller, f)) - 1
    BY <2>1, FS_RemoveElement, FS_Subset, IdentityAssumption DEF Waiters
  <2>6. \A h \in Flight : Registered(h)' => Registered(h)
    BY <1>9, <2>3 DEF Registered, WaitCancelled
  <2>7. \A h \in Flight : Registered(h)' => flight'[h].waiters = Cardinality(Waiters(caller', h))
    BY <2>1, <2>3, <2>4, <2>5, <2>6 DEF WaiterInv
  <2>8. \A e \in Caller : caller'[e].phase = "waiting" =>
            /\ caller'[e].flight \in Flight
            /\ flight'[caller'[e].flight].phase # "unused"
            /\ flight'[caller'[e].flight].blob \in Blob
    BY <2>2, <2>3 DEF WaiterInv
  <2> QED
    BY <2>7, <2>8 DEF WaiterInv
<1>10. ASSUME NEW f \in Flight, FetchOk(f) PROVE WaiterInv'
  <2>1. \A g \in Flight : /\ flight'[g].blob = flight[g].blob
                          /\ flight'[g].waiters = flight[g].waiters
                          /\ flight[g].phase # "unused" => flight'[g].phase # "unused"
    BY <1>10 DEF FetchOk
  <2> QED
    BY <1>10, <2>1, WaiterFrame DEF Registered, FetchOk
<1>11. ASSUME NEW f \in Flight, FetchFail(f) PROVE WaiterInv'
  <2>1. \A g \in Flight : /\ flight'[g].blob = flight[g].blob
                          /\ flight'[g].waiters = flight[g].waiters
                          /\ flight[g].phase # "unused" => flight'[g].phase # "unused"
    BY <1>11 DEF FetchFail
  <2> QED
    BY <1>11, <2>1, WaiterFrame DEF Registered, FetchFail
<1>12. ASSUME NEW f \in Flight, SetDisk(f) PROVE WaiterInv'
  <2>1. \A g \in Flight : /\ flight'[g].blob = flight[g].blob
                          /\ flight'[g].waiters = flight[g].waiters
                          /\ flight[g].phase # "unused" => flight'[g].phase # "unused"
    BY <1>12 DEF SetDisk
  <2> QED
    BY <1>12, <2>1, WaiterFrame DEF Registered, SetDisk
<1>13. ASSUME NEW f \in Flight, SetFail(f) PROVE WaiterInv'
  <2>1. \A g \in Flight : /\ flight'[g].blob = flight[g].blob
                          /\ flight'[g].waiters = flight[g].waiters
                          /\ flight[g].phase # "unused" => flight'[g].phase # "unused"
    BY <1>13 DEF SetFail
  <2> QED
    BY <1>13, <2>1, WaiterFrame DEF Registered, SetFail
<1>14. ASSUME NEW f \in Flight, Publish(f) PROVE WaiterInv'
  <2>1. \A g \in Flight : /\ flight'[g].blob = flight[g].blob
                          /\ flight'[g].waiters = flight[g].waiters
                          /\ flight[g].phase # "unused" => flight'[g].phase # "unused"
    BY <1>14 DEF Publish
  <2> QED
    BY <1>14, <2>1, WaiterFrame DEF Registered, Publish
<1>15. ASSUME NEW f \in Flight, Record(f) PROVE WaiterInv'
  <2>1. \A g \in Flight : /\ flight'[g].blob = flight[g].blob
                          /\ flight'[g].waiters = flight[g].waiters
                          /\ flight[g].phase # "unused" => flight'[g].phase # "unused"
    BY <1>15 DEF Record
  <2> QED
    BY <1>15, <2>1, WaiterFrame DEF Registered, Record
<1>16. ASSUME NEW f \in Flight, RecordFail(f) PROVE WaiterInv'
  <2>1. \A g \in Flight : /\ flight'[g].blob = flight[g].blob
                          /\ flight'[g].waiters = flight[g].waiters
                          /\ flight[g].phase # "unused" => flight'[g].phase # "unused"
    BY <1>16 DEF RecordFail
  <2> QED
    BY <1>16, <2>1, WaiterFrame DEF Registered, RecordFail
<1>17. ASSUME NEW f \in Flight, RollbackRemove(f) PROVE WaiterInv'
  <2>1. \A g \in Flight : /\ flight'[g].blob = flight[g].blob
                          /\ flight'[g].waiters = flight[g].waiters
                          /\ flight[g].phase # "unused" => flight'[g].phase # "unused"
    BY <1>17 DEF RollbackRemove
  <2> QED
    BY <1>17, <2>1, WaiterFrame DEF Registered, RollbackRemove
<1>18. ASSUME NEW f \in Flight, RollbackFail(f) PROVE WaiterInv'
  <2>1. \A g \in Flight : /\ flight'[g].blob = flight[g].blob
                          /\ flight'[g].waiters = flight[g].waiters
                          /\ flight[g].phase # "unused" => flight'[g].phase # "unused"
    BY <1>18 DEF RollbackFail
  <2> QED
    BY <1>18, <2>1, WaiterFrame DEF Registered, RollbackFail
<1>19. ASSUME NEW f \in Flight, RollbackUnlink(f) PROVE WaiterInv'
  <2>1. \A g \in Flight : /\ flight'[g].blob = flight[g].blob
                          /\ flight'[g].waiters = flight[g].waiters
                          /\ flight[g].phase # "unused" => flight'[g].phase # "unused"
    BY <1>19 DEF RollbackUnlink
  <2> QED
    BY <1>19, <2>1, WaiterFrame DEF Registered, RollbackUnlink
<1>20. ASSUME NEW f \in Flight, Finish(f) PROVE WaiterInv'
  <2>1. \A g \in Flight : /\ flight'[g].blob = flight[g].blob
                          /\ flight'[g].waiters = flight[g].waiters
                          /\ flight[g].phase # "unused" => flight'[g].phase # "unused"
    BY <1>20 DEF Finish
  <2> QED
    BY <1>20, <2>1, WaiterFrame, IdentityAssumption DEF Registered, Finish
<1>21. ASSUME NEW d \in Handler, NEW b \in Blob, DeleteLoose(d, b) PROVE WaiterInv'
  <2>1. caller' = caller /\ flight' = flight /\ inFlight' = inFlight
    BY <1>21 DEF DeleteLoose
  <2> QED
    BY <2>1, WaiterFrame DEF Registered
<1>22. ASSUME NEW d \in Handler, NEW b \in Blob, DeleteStream(d, b) PROVE WaiterInv'
  <2>1. caller' = caller /\ flight' = flight /\ inFlight' = inFlight
    BY <1>22 DEF DeleteStream
  <2> QED
    BY <2>1, WaiterFrame DEF Registered
<1>23. ASSUME NEW d \in Handler, NEW b \in Blob, DeleteClean(d, b) PROVE WaiterInv'
  <2>1. caller' = caller /\ flight' = flight /\ inFlight' = inFlight
    BY <1>23 DEF DeleteClean
  <2> QED
    BY <2>1, WaiterFrame DEF Registered
<1>24. ASSUME NEW d \in Handler, NEW b \in Blob, ReflectBegin(d, b) PROVE WaiterInv'
  <2>1. caller' = caller /\ flight' = flight /\ inFlight' = inFlight
    BY <1>24 DEF ReflectBegin
  <2> QED
    BY <2>1, WaiterFrame DEF Registered
<1>25. ASSUME NEW d \in Handler, DeleteRemove(d) PROVE WaiterInv'
  <2>1. caller' = caller /\ flight' = flight /\ inFlight' = inFlight
    BY <1>25 DEF DeleteRemove
  <2> QED
    BY <2>1, WaiterFrame DEF Registered
<1>26. ASSUME NEW d \in Handler, DeleteFail(d) PROVE WaiterInv'
  <2>1. caller' = caller /\ flight' = flight /\ inFlight' = inFlight
    BY <1>26 DEF DeleteFail
  <2> QED
    BY <2>1, WaiterFrame DEF Registered
<1>27. ASSUME NEW d \in Handler, DeleteUnlink(d) PROVE WaiterInv'
  <2>1. caller' = caller /\ flight' = flight /\ inFlight' = inFlight
    BY <1>27 DEF DeleteUnlink
  <2> QED
    BY <2>1, WaiterFrame DEF Registered
<1>28. ASSUME NEW d \in Handler, DeleteRow(d) PROVE WaiterInv'
  <2>1. caller' = caller /\ flight' = flight /\ inFlight' = inFlight
    BY <1>28 DEF DeleteRow
  <2> QED
    BY <2>1, WaiterFrame DEF Registered
<1>29. ASSUME NEW d \in Handler, ReflectDisk(d) PROVE WaiterInv'
  <2>1. caller' = caller /\ flight' = flight /\ inFlight' = inFlight
    BY <1>29 DEF ReflectDisk
  <2> QED
    BY <2>1, WaiterFrame DEF Registered
<1>30. ASSUME NEW d \in Handler, ReflectFail(d) PROVE WaiterInv'
  <2>1. caller' = caller /\ flight' = flight /\ inFlight' = inFlight
    BY <1>30 DEF ReflectFail
  <2> QED
    BY <2>1, WaiterFrame DEF Registered
<1>31. ASSUME NEW d \in Handler, ReflectPublish(d) PROVE WaiterInv'
  <2>1. caller' = caller /\ flight' = flight /\ inFlight' = inFlight
    BY <1>31 DEF ReflectPublish
  <2> QED
    BY <2>1, WaiterFrame DEF Registered
<1>32. CASE UNCHANGED vars
  BY <1>32 DEF WaiterInv, Registered, vars
<1> QED
  BY <1>1, <1>2, <1>3, <1>4, <1>5, <1>6, <1>7, <1>8, <1>9, <1>10, <1>11, <1>12, <1>13,
     <1>14, <1>15, <1>16, <1>17, <1>18, <1>19, <1>20, <1>21, <1>22, <1>23, <1>24, <1>25,
     <1>26, <1>27, <1>28, <1>29, <1>30, <1>31, <1>32 DEF Next, CallerStep, FlightStep,
     HandlerBegin, HandlerStep

\* While the daemon is up, the flight a caller may join has not been cancelled.
LEMMA JoinedIsLive ==
  ASSUME TypeOK, WaiterInv, AwaitedInv, life = "up",
         NEW g \in Flight, Registered(g), Running(g), flight[g].waiters > 0
  PROVE  ~flight[g].cancelled
<1>1. Waiters(caller, g) # {}
  BY FS_EmptySet DEF WaiterInv
<1> QED
  BY <1>1 DEF Waiters, AwaitedInv

\* Every step keeps AwaitedInv: a caller that leaves cancels only a flight it alone waits for.
LEMMA AwaitedStep ==
  ASSUME TypeOK, AwaitedInv, WaiterInv, RegisterInv, DownInv, [Next]_vars PROVE AwaitedInv'
<1>1. CASE Start
  BY <1>1 DEF AwaitedInv, DownInv, Start, SyncStoredBlobs
<1>2. CASE Stop
  BY <1>2 DEF AwaitedInv, Stop
<1>3. CASE Crash
  BY <1>3 DEF AwaitedInv, Crash
<1>4. ASSUME NEW c \in Caller, NEW b \in Blob, EnsureHit(c, b) PROVE AwaitedInv'
  BY <1>4 DEF AwaitedInv, Running, Registered, Returned, EnsureHit
<1>5. ASSUME NEW c \in Caller, NEW b \in Blob, EnsureJoin(c, b) PROVE AwaitedInv'
  <2> DEFINE g == inFlight[b]
  <2>1. g \in Flight /\ Registered(g) /\ flight[g].blob = b
    BY <1>5 DEF EnsureJoin, TypeOK, RegisterInv, Registered
  <2>2. /\ caller'[c].flight = g
        /\ \A e \in Caller \ {c} : caller'[e] = caller[e]
    BY <1>5 DEF EnsureJoin, TypeOK
  <2>3. \A h \in Flight : /\ flight'[h].blob = flight[h].blob /\ flight'[h].phase = flight[h].phase
                          /\ flight'[h].cancelled = flight[h].cancelled
    BY <1>5, <2>1 DEF EnsureJoin
  <2>4. Registered(g)' /\ \A h \in Flight : Registered(h)' <=> Registered(h)
    BY <1>5, <2>1, <2>3 DEF Registered, EnsureJoin
  <2>5. life' = "up" => ~flight[g].cancelled
    BY <1>5, <2>1, JoinedIsLive DEF EnsureJoin, RegisterInv
  <2> QED
    BY <1>5, <2>1, <2>2, <2>3, <2>4, <2>5 DEF AwaitedInv, WaiterInv, Running, EnsureJoin
<1>6. ASSUME NEW c \in Caller, NEW b \in Blob, NEW f \in Flight, EnsureLaunch(c, b, f) PROVE AwaitedInv'
  BY <1>6, IdentityAssumption DEF AwaitedInv, RegisterInv, WaiterInv, Running, Registered,
         TypeOK, EnsureLaunch
<1>7. ASSUME NEW c \in Caller, ContextDone(c) PROVE AwaitedInv'
  BY <1>7 DEF AwaitedInv, Running, Registered, ContextDone
<1>8. ASSUME NEW c \in Caller, WaitDone(c) PROVE AwaitedInv'
  BY <1>8 DEF AwaitedInv, Running, Registered, Returned, WaitDone
<1>9. ASSUME NEW c \in Caller, WaitCancelled(c) PROVE AwaitedInv'
  <2> DEFINE f == caller[c].flight
  <2>1. f \in Flight /\ c \in Waiters(caller, f)
    BY <1>9 DEF WaitCancelled, WaiterInv, Waiters
  <2>2. SUFFICES ASSUME life = "up", NEW e \in Caller, caller'[e].phase = "waiting",
                        Running(caller[e].flight)'
                 PROVE  Registered(caller[e].flight)' /\ ~flight'[caller'[e].flight].cancelled
    BY <1>9 DEF AwaitedInv, WaitCancelled
  <2>3. e # c /\ caller'[e] = caller[e] /\ caller[e].flight \in Flight
    BY <1>9, <2>2 DEF WaitCancelled, TypeOK, Returned, WaiterInv
  <2>4. /\ \A h \in Flight : flight'[h].blob = flight[h].blob /\ flight'[h].phase = flight[h].phase
        /\ \A h \in Flight \ {f} : flight'[h] = flight[h]
    BY <1>9, LeaveEffect
  <2>5. Registered(caller[e].flight) /\ ~flight[caller[e].flight].cancelled
    BY <2>2, <2>3, <2>4 DEF AwaitedInv, Running
  <2>6. Registered(caller[e].flight)'
    BY <1>9, <2>3, <2>4, <2>5 DEF Registered, WaitCancelled
  <2>7. CASE caller[e].flight # f
    BY <2>3, <2>4, <2>5, <2>6, <2>7
  <2>8. CASE caller[e].flight = f
    <3>1. flight[f].waiters # 1
      BY <2>1, <2>2, <2>3, <2>5, <2>8, TwoWaiters DEF Waiters
    <3>2. ~flight'[f].cancelled
      BY <1>9, <2>5, <2>8, <3>1, LeaveEffect
    <3> QED
      BY <2>3, <2>6, <2>8, <3>2
  <2> QED
    BY <2>7, <2>8
<1>10. ASSUME NEW f \in Flight, FetchOk(f) PROVE AwaitedInv'
  BY <1>10 DEF AwaitedInv, Running, Registered, FetchOk
<1>11. ASSUME NEW f \in Flight, FetchFail(f) PROVE AwaitedInv'
  BY <1>11 DEF AwaitedInv, Running, Registered, FetchFail
<1>12. ASSUME NEW f \in Flight, SetDisk(f) PROVE AwaitedInv'
  BY <1>12 DEF AwaitedInv, Running, Registered, SetDisk
<1>13. ASSUME NEW f \in Flight, SetFail(f) PROVE AwaitedInv'
  BY <1>13 DEF AwaitedInv, Running, Registered, SetFail
<1>14. ASSUME NEW f \in Flight, Publish(f) PROVE AwaitedInv'
  BY <1>14 DEF AwaitedInv, Running, Registered, Publish
<1>15. ASSUME NEW f \in Flight, Record(f) PROVE AwaitedInv'
  BY <1>15 DEF AwaitedInv, Running, Registered, Record
<1>16. ASSUME NEW f \in Flight, RecordFail(f) PROVE AwaitedInv'
  BY <1>16 DEF AwaitedInv, Running, Registered, RecordFail
<1>17. ASSUME NEW f \in Flight, RollbackRemove(f) PROVE AwaitedInv'
  BY <1>17 DEF AwaitedInv, Running, Registered, RollbackRemove
<1>18. ASSUME NEW f \in Flight, RollbackFail(f) PROVE AwaitedInv'
  BY <1>18 DEF AwaitedInv, Running, Registered, RollbackFail
<1>19. ASSUME NEW f \in Flight, RollbackUnlink(f) PROVE AwaitedInv'
  BY <1>19 DEF AwaitedInv, Running, Registered, RollbackUnlink
<1>20. ASSUME NEW f \in Flight, Finish(f) PROVE AwaitedInv'
  BY <1>20 DEF AwaitedInv, Running, Registered, TypeOK, Finish
<1>21. ASSUME NEW d \in Handler, NEW b \in Blob, DeleteLoose(d, b) PROVE AwaitedInv'
  BY <1>21 DEF AwaitedInv, Running, Registered, DeleteLoose
<1>22. ASSUME NEW d \in Handler, NEW b \in Blob, DeleteStream(d, b) PROVE AwaitedInv'
  BY <1>22 DEF AwaitedInv, Running, Registered, DeleteStream
<1>23. ASSUME NEW d \in Handler, NEW b \in Blob, DeleteClean(d, b) PROVE AwaitedInv'
  BY <1>23 DEF AwaitedInv, Running, Registered, DeleteClean
<1>24. ASSUME NEW d \in Handler, NEW b \in Blob, ReflectBegin(d, b) PROVE AwaitedInv'
  BY <1>24 DEF AwaitedInv, Running, Registered, ReflectBegin
<1>25. ASSUME NEW d \in Handler, DeleteRemove(d) PROVE AwaitedInv'
  BY <1>25 DEF AwaitedInv, Running, Registered, DeleteRemove
<1>26. ASSUME NEW d \in Handler, DeleteFail(d) PROVE AwaitedInv'
  BY <1>26 DEF AwaitedInv, Running, Registered, DeleteFail
<1>27. ASSUME NEW d \in Handler, DeleteUnlink(d) PROVE AwaitedInv'
  BY <1>27 DEF AwaitedInv, Running, Registered, DeleteUnlink
<1>28. ASSUME NEW d \in Handler, DeleteRow(d) PROVE AwaitedInv'
  BY <1>28 DEF AwaitedInv, Running, Registered, DeleteRow
<1>29. ASSUME NEW d \in Handler, ReflectDisk(d) PROVE AwaitedInv'
  BY <1>29 DEF AwaitedInv, Running, Registered, ReflectDisk
<1>30. ASSUME NEW d \in Handler, ReflectFail(d) PROVE AwaitedInv'
  BY <1>30 DEF AwaitedInv, Running, Registered, ReflectFail
<1>31. ASSUME NEW d \in Handler, ReflectPublish(d) PROVE AwaitedInv'
  BY <1>31 DEF AwaitedInv, Running, Registered, ReflectPublish
<1>32. CASE UNCHANGED vars
  BY <1>32 DEF AwaitedInv, Running, Registered, vars
<1> QED
  BY <1>1, <1>2, <1>3, <1>4, <1>5, <1>6, <1>7, <1>8, <1>9, <1>10, <1>11, <1>12, <1>13,
     <1>14, <1>15, <1>16, <1>17, <1>18, <1>19, <1>20, <1>21, <1>22, <1>23, <1>24, <1>25,
     <1>26, <1>27, <1>28, <1>29, <1>30, <1>31, <1>32 DEF Next, CallerStep, FlightStep,
     HandlerBegin, HandlerStep

\* Every step keeps RecordInv.
LEMMA RecordStep ==
  ASSUME TypeOK, RecordInv, WaiterInv, DownInv, [Next]_vars PROVE RecordInv'
<1>1. CASE Start
  BY <1>1, IdentityAssumption DEF RecordInv, Pending, DownInv, IdleHandler, TypeOK, Start,
     SyncStoredBlobs
<1>2. CASE Stop
  BY <1>2 DEF RecordInv, Pending, Stop
<1>3. CASE Crash
  BY <1>3 DEF RecordInv, Pending, IdleHandler, Crash
<1>4. ASSUME NEW c \in Caller, NEW b \in Blob, EnsureHit(c, b) PROVE RecordInv'
  BY <1>4 DEF RecordInv, Pending, EnsureHit
<1>5. ASSUME NEW c \in Caller, NEW b \in Blob, EnsureJoin(c, b) PROVE RecordInv'
  BY <1>5 DEF RecordInv, Pending, TypeOK, EnsureJoin
<1>6. ASSUME NEW c \in Caller, NEW b \in Blob, NEW f \in Flight, EnsureLaunch(c, b, f) PROVE RecordInv'
  BY <1>6 DEF RecordInv, Pending, TypeOK, EnsureLaunch, Running
<1>7. ASSUME NEW c \in Caller, ContextDone(c) PROVE RecordInv'
  BY <1>7 DEF RecordInv, Pending, ContextDone
<1>8. ASSUME NEW c \in Caller, WaitDone(c) PROVE RecordInv'
  BY <1>8 DEF RecordInv, Pending, WaitDone
<1>9. ASSUME NEW c \in Caller, WaitCancelled(c) PROVE RecordInv'
  <2>1. \A f \in Flight : flight'[f].phase = flight[f].phase /\ flight'[f].blob = flight[f].blob
    BY <1>9, LeaveEffect
  <2> QED
    BY <1>9, <2>1 DEF RecordInv, Pending, WaitCancelled
<1>10. ASSUME NEW f \in Flight, FetchOk(f) PROVE RecordInv'
  BY <1>10 DEF RecordInv, Pending, TypeOK, FetchOk
<1>11. ASSUME NEW f \in Flight, FetchFail(f) PROVE RecordInv'
  BY <1>11 DEF RecordInv, Pending, TypeOK, FetchFail
<1>12. ASSUME NEW f \in Flight, SetDisk(f) PROVE RecordInv'
  BY <1>12 DEF RecordInv, Pending, TypeOK, SetDisk
<1>13. ASSUME NEW f \in Flight, SetFail(f) PROVE RecordInv'
  BY <1>13 DEF RecordInv, Pending, TypeOK, SetFail
<1>14. ASSUME NEW f \in Flight, Publish(f) PROVE RecordInv'
  BY <1>14 DEF RecordInv, Pending, TypeOK, Publish
<1>15. ASSUME NEW f \in Flight, Record(f) PROVE RecordInv'
  BY <1>15 DEF RecordInv, Pending, TypeOK, Record, StoreFree
<1>16. ASSUME NEW f \in Flight, RecordFail(f) PROVE RecordInv'
  BY <1>16 DEF RecordInv, Pending, TypeOK, RecordFail, StoreFree
<1>17. ASSUME NEW f \in Flight, RollbackRemove(f) PROVE RecordInv'
  BY <1>17 DEF RecordInv, Pending, TypeOK, RollbackRemove
<1>18. ASSUME NEW f \in Flight, RollbackFail(f) PROVE RecordInv'
  BY <1>18 DEF RecordInv, Pending, TypeOK, RollbackFail
<1>19. ASSUME NEW f \in Flight, RollbackUnlink(f) PROVE RecordInv'
  BY <1>19 DEF RecordInv, Pending, TypeOK, RollbackUnlink
<1>20. ASSUME NEW f \in Flight, Finish(f) PROVE RecordInv'
  BY <1>20 DEF RecordInv, Pending, TypeOK, Finish
<1>21. ASSUME NEW d \in Handler, NEW b \in Blob, DeleteLoose(d, b) PROVE RecordInv'
  BY <1>21 DEF RecordInv, Pending, TypeOK, DeleteLoose
<1>22. ASSUME NEW d \in Handler, NEW b \in Blob, DeleteStream(d, b) PROVE RecordInv'
  BY <1>22 DEF RecordInv, Pending, TypeOK, DeleteStream
<1>23. ASSUME NEW d \in Handler, NEW b \in Blob, DeleteClean(d, b) PROVE RecordInv'
  BY <1>23 DEF RecordInv, Pending, TypeOK, DeleteClean
<1>24. ASSUME NEW d \in Handler, NEW b \in Blob, ReflectBegin(d, b) PROVE RecordInv'
  BY <1>24 DEF RecordInv, Pending, TypeOK, ReflectBegin
<1>25. ASSUME NEW d \in Handler, DeleteRemove(d) PROVE RecordInv'
  BY <1>25 DEF RecordInv, Pending, TypeOK, IdleHandler, DeleteRemove
<1>26. ASSUME NEW d \in Handler, DeleteFail(d) PROVE RecordInv'
  BY <1>26 DEF RecordInv, Pending, TypeOK, IdleHandler, DeleteFail
<1>27. ASSUME NEW d \in Handler, DeleteUnlink(d) PROVE RecordInv'
  BY <1>27 DEF RecordInv, Pending, TypeOK, IdleHandler, DeleteUnlink
<1>28. ASSUME NEW d \in Handler, DeleteRow(d) PROVE RecordInv'
  BY <1>28 DEF RecordInv, Pending, TypeOK, IdleHandler, DeleteRow
<1>29. ASSUME NEW d \in Handler, ReflectDisk(d) PROVE RecordInv'
  BY <1>29 DEF RecordInv, Pending, TypeOK, IdleHandler, ReflectDisk
<1>30. ASSUME NEW d \in Handler, ReflectFail(d) PROVE RecordInv'
  BY <1>30 DEF RecordInv, Pending, TypeOK, IdleHandler, ReflectFail
<1>31. ASSUME NEW d \in Handler, ReflectPublish(d) PROVE RecordInv'
  BY <1>31 DEF RecordInv, Pending, TypeOK, IdleHandler, ReflectPublish
<1>32. CASE UNCHANGED vars
  BY <1>32 DEF RecordInv, Pending, vars
<1> QED
  BY <1>1, <1>2, <1>3, <1>4, <1>5, <1>6, <1>7, <1>8, <1>9, <1>10, <1>11, <1>12, <1>13, <1>14,
     <1>15, <1>16, <1>17, <1>18, <1>19, <1>20, <1>21, <1>22, <1>23, <1>24, <1>25, <1>26, <1>27,
     <1>28, <1>29, <1>30, <1>31, <1>32 DEF Next, CallerStep, FlightStep, HandlerBegin, HandlerStep

\* The inductive invariant.
IndInv ==
    /\ TypeOK /\ DownInv /\ RegisterInv /\ WaiterInv /\ AwaitedInv /\ MutexInv /\ DiskInv
    /\ RecordInv

\* The initial state of a process satisfies the invariant.
LEMMA InitInv == Init => IndInv
<1> SUFFICES ASSUME Init PROVE IndInv
  OBVIOUS
<1>1. TypeOK
  BY DEF Init, TypeOK, FlightRecord, FlightPhase, FreshFlight, CallerRecord, IdleCaller,
         Returned, HandlerRecord, IdleHandler
<1>2. DownInv /\ AwaitedInv
  BY DEF Init, DownInv, AwaitedInv, IdleCaller, Returned
<1>3. RegisterInv /\ WaiterInv
  BY IdentityAssumption DEF Init, RegisterInv, WaiterInv, Registered, Running, FreshFlight,
         IdleCaller, Returned
<1>4. MutexInv /\ DiskInv
  BY IdentityAssumption DEF Init, MutexInv, DiskInv, FreshFlight, IdleHandler
<1>5. RecordInv
  BY DEF Init, RecordInv, IdleHandler
<1> QED
  BY <1>1, <1>2, <1>3, <1>4, <1>5 DEF IndInv

\* The inductive invariant holds in every state of every behaviour.
THEOREM Invariance == Spec => []IndInv
<1>1. IndInv /\ [Next]_vars => IndInv'
  BY TypeStep, DownStep, RegisterStep, WaiterStep, AwaitedStep, MutexStep, DiskStep, RecordStep
  DEF IndInv
<1> QED
  BY InitInv, <1>1, PTL DEF Spec

\* BlobManager's state keeps its types; in particular waiters never drops below zero.
THEOREM TypeCorrect == Spec => []TypeOK
<1>1. IndInv => TypeOK
  BY DEF IndInv
<1> QED
  BY <1>1, Invariance, PTL

\* Ensure never runs two live fetches of one blob, for any number of callers.
THEOREM SingleFlightHolds == Spec => []SingleFlight
<1>1. IndInv => SingleFlight
  BY DEF IndInv, RegisterInv, Registered, SingleFlight
<1> QED
  BY <1>1, Invariance, PTL

\* No caller is made to fail by another caller's cancellation, for any number of callers.
THEOREM NoInheritedCancellationHolds == Spec => []NoInheritedCancellation
<1>1. IndInv => NoInheritedCancellation
  BY DEF IndInv, AwaitedInv, NoInheritedCancellation
<1> QED
  BY <1>1, Invariance, PTL

\* Entries and files agree whenever diskMu is free, for any set of blobs.
THEOREM DiskBackedHolds == Spec => []DiskBacked
<1>1. IndInv => DiskBacked
  BY IdentityAssumption DEF IndInv, DiskInv, Holding, DiskBacked
<1> QED
  BY <1>1, Invariance, PTL

\* A blob that came through Ensure and is cached has its row once nobody works on it, for
\* any interleaving of fetches, failed records, roll backs and deletions.
THEOREM CompletedIsRecordedHolds == Spec => []CompletedIsRecorded
<1>1. IndInv => CompletedIsRecorded
  BY DEF IndInv, RecordInv, Pending, CompletedIsRecorded, Quiet, Running
<1> QED
  BY <1>1, Invariance, PTL

\* Cache, directory and database agree at the moments the code promises it.
THEOREM CacheAgreesHolds == Spec => []CacheAgrees
<1>1. DiskBacked /\ CompletedIsRecorded => CacheAgrees
  BY DEF CacheAgrees
<1> QED
  BY <1>1, DiskBackedHolds, CompletedIsRecordedHolds, PTL

=============================================================================
