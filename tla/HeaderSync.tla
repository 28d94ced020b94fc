----------------------------- MODULE HeaderSync -----------------------------
(***************************************************************************)
(* The block headers of a ledger: the store and its file                   *)
(* (src/wallet/headers.go, header_storage.go, header_fetch.go) and the     *)
(* workers that keep it in step with the SPV server                        *)
(* (src/wallet/spv_tip.go, spv_sync.go).                                   *)
(*                                                                         *)
(* The working copy is separate from the file, which Close overwrites from *)
(* its start without truncating it; the process may die before or during   *)
(* that.  The lowest Checkpoints chunks are known by their hash: a chunk   *)
(* that does not match is missing and is fetched as a whole, by the        *)
(* background fill, by a reader or by the tip worker that needs it as the  *)
(* predecessor of what it connects.  The tip worker pulls from its own     *)
(* length, or connects a notified header, and goes back one header each    *)
(* time the server's answer does not link.                                 *)
(*                                                                         *)
(* A header at height h is the chain it belongs to (b) and the chain its   *)
(* previous hash points to (p); all chains of the server share the headers *)
(* below Fork, which is above the checkpoints.                             *)
(***************************************************************************)
EXTENDS Integers, Sequences

CONSTANTS
    Interval,       \* checkpointInterval
    Checkpoints,    \* checkpointTable.len()
    BatchSize,      \* SPVLiveHeaderBatchSize
    MaxRewind,      \* SPVLiveHeaderMaxRewind
    Branch,         \* chains the server may follow
    Fork,           \* height at which they part
    MaxHeight,      \* bound on the height of the server
    MaxChanges,     \* bound on the changes of the server's tip
    MaxCrashes      \* bound on the crashes of the process

LastHeight == IF Checkpoints = 0 THEN -1 ELSE (Checkpoints - 1) * Interval
RepairStart == LastHeight + Interval

\* No checkpoint covers a header that can be reorganised.
ASSUME BoundsAssumption ==
    /\ Interval \in Nat \ {0} /\ Checkpoints \in Nat
    /\ BatchSize \in Nat \ {0} /\ MaxRewind \in Nat \ {0}
    /\ Fork \in Nat /\ Fork > Checkpoints * Interval /\ Fork > 0
    /\ MaxHeight \in Nat /\ MaxHeight >= Fork
    /\ MaxChanges \in Nat /\ MaxCrashes \in Nat
    /\ Branch \cap {"trunk", "zero", "torn", "none"} = {}

VARIABLES
    server,     \* chain and height of the server's tip
    changes,    \* changes of the server's tip, at most MaxChanges
    connected,  \* the network has a published client
    notified,   \* Network.lastHeaderNotification
    file,       \* the headers file; not present is [exists |-> FALSE]
    crashes,    \* crashes of the process, at most MaxCrashes
    opened,     \* Headers.opened
    store,      \* Headers.storage: whole headers and a ragged rest
    missing,    \* Headers.missingCheckpoints, by chunk
    running,    \* spvSync.running; "stopping" is inside StopSPVCheckpointSync
    wire,       \* header notifications sent on this connection and not yet handled
    updates,    \* spvSync.tipUpdates
    tip,        \* runSPVTipWorker with the locals of updateSPVLiveHeaders
    initialTipDone, \* spvSync.initialTipDone
    tipErr,     \* spvSync.tipErr
    fill,       \* runSPVCheckpointFill and the chunks it has left
    fillErr,    \* spvSync.fillErr
    fresh       \* history: the server's present tip was handed to the tip worker

serverVars == <<server, changes, connected, notified, wire, updates, fresh>>
diskVars == <<file, crashes>>
storeVars == <<opened, store, missing>>
syncVars == <<running, tip, initialTipDone, tipErr, fill, fillErr>>
vars == <<serverVars, diskVars, storeVars, syncVars>>

-----------------------------------------------------------------------------
(* Headers *)

Tag(b, h) == IF h < Fork THEN "trunk" ELSE b
Header(b, h) == [b |-> Tag(b, h), p |-> IF h = 0 THEN "none" ELSE Tag(b, h - 1)]
Zero == [b |-> "zero", p |-> "none"]

\* The bytes of two headers up to and from the place where a copy stopped:
\* the previous hash comes from one or the other, the hash from neither.
Mixed(new, old) == {new, old} \cup
    IF new = old THEN {} ELSE {[b |-> "torn", p |-> new.p], [b |-> "torn", p |-> old.p]}

\* The header at a height; the length of the store is Headers.size.
At(s, h) == s[h + 1]
LinkedAt(s, h) == At(s, h).p = At(s, h - 1).b

Chunk(c) == (c * Interval) .. (c * Interval + Interval - 1)
ChunkOf(h) == h \div Interval
Checkpointed(h) == ChunkOf(h) < Checkpoints

\* chunkHashLocked of the chunk is the checkpoint's hash.
Exact(s, c) == \A h \in Chunk(c) : h < Len(s) /\ At(s, h) = Header("trunk", h)

Resize(s, n) == [i \in 1 .. n |-> IF i <= Len(s) THEN s[i] ELSE Zero]

\* writeLocked: inside or at the end of the store, growing it as needed.
Write(s, start, headers) ==
    [i \in 1 .. (IF Len(s) >= start + Len(headers) THEN Len(s) ELSE start + Len(headers)) |->
        IF i > start /\ i <= start + Len(headers) THEN headers[i - start] ELSE s[i]]
Written(start, headers) ==
    [data |-> Write(store.data, start, headers),
     ragged |-> store.ragged /\ start + Len(headers) <= Len(store.data)]

\* Mutant: the scan ends one header early.
RepairSkipsLast(s, start) ==
    LET bad == {h \in start .. (Len(s) - 2) :
                  IF h = start THEN h = 0 /\ At(s, h) # Header("trunk", 0) ELSE ~LinkedAt(s, h)}
    IN  IF start >= Len(s) - 1 \/ bad = {} THEN s
        ELSE LET failed == CHOOSE h \in bad : \A g \in bad : h <= g
             IN  Resize(s, IF failed = 0 THEN 0 ELSE failed - 1)

\* repairLocked: the first header that does not link, and the one before it,
\* end the chain; the first header looked at is trusted unless it is the genesis.
Repair(s, start) ==
    LET bad == {h \in start .. (Len(s) - 1) :
                  IF h = start THEN h = 0 /\ At(s, h) # Header("trunk", 0) ELSE ~LinkedAt(s, h)}
    IN  IF start >= Len(s) - 1 \/ bad = {} THEN s
        ELSE LET failed == CHOOSE h \in bad : \A g \in bad : h <= g
             IN  Resize(s, IF failed = 0 THEN 0 ELSE failed - 1)

Repaired(f) ==
    LET s == Repair(f.data, IF f.ragged THEN 0 ELSE RepairStart)
    IN  [data |-> s, ragged |-> f.ragged /\ s = f.data]

\* ensureCheckpointedSizeLocked: a ragged rest becomes part of the zeros.
Sized(f) ==
    LET padded == Resize(f.data, LastHeight + Interval)
    IN  IF Len(f.data) - 1 >= LastHeight THEN f
        ELSE [data |-> IF f.ragged /\ Len(f.data) < LastHeight
                       THEN [padded EXCEPT ![Len(f.data) + 1] = [b |-> "torn", p |-> "none"]]
                       ELSE padded,
              ragged |-> FALSE]

NoFile == [exists |-> FALSE, data |-> <<>>, ragged |-> FALSE]
NoStore == [data |-> <<>>, ragged |-> FALSE]

-----------------------------------------------------------------------------
(* Workers *)

TipOff == [pc |-> "off", height |-> 0, batch |-> <<>>, sub |-> FALSE, rewound |-> 0]
FillOff == [pc |-> "off", todo |-> {}]

Init ==
    /\ server \in [b : Branch, h : {Fork}]
    /\ changes = 0 /\ connected = FALSE /\ notified = [b |-> "none", h |-> 0]
    /\ wire = <<>> /\ updates = <<>> /\ fresh = FALSE
    /\ file = NoFile /\ crashes = 0
    /\ opened = FALSE /\ store = NoStore /\ missing = {}
    /\ running = "off" /\ tip = TipOff /\ initialTipDone = FALSE /\ tipErr = FALSE
    /\ fill = FillOff /\ fillErr = FALSE

\* Mutant: chunks are looked for only when the file was too short.
OpenTrustsSize ==
    /\ ~opened
    /\ store' = Sized(Repaired(file))
    /\ missing' = missing \cup {c \in 0 .. (Checkpoints - 1) :
                                 Len(file.data) <= LastHeight /\ ~Exact(store'.data, c)}
    /\ opened' = TRUE
    /\ UNCHANGED <<serverVars, diskVars, syncVars>>

\* findMissingCheckpointsLocked: the chunks found wrong join the ones known missing.
FindMissingCheckpoints(data) ==
    missing' = missing \cup {c \in (0 .. (Checkpoints - 1)) \ missing : ~Exact(data, c)}

\* Headers.Open.  In a process that had it open before, missing chunks stay so.
Open ==
    /\ ~opened
    /\ store' = Sized(Repaired(file))
    /\ FindMissingCheckpoints(store'.data)
    /\ opened' = TRUE
    /\ UNCHANGED <<serverVars, diskVars, syncVars>>

\* Commit over an existing file leaves what the working copy does not cover.
Committed ==
    [exists |-> TRUE,
     data |-> Write(file.data, 0, store.data),
     ragged |-> file.ragged /\ Len(store.data) <= Len(file.data)]

\* Headers.Close, after StopSPVCheckpointSync.
Close ==
    /\ opened /\ running = "off"
    /\ file' = Committed
    /\ opened' = FALSE /\ store' = NoStore
    /\ UNCHANGED <<serverVars, crashes, missing, syncVars>>

NewProcess ==
    /\ crashes < MaxCrashes /\ crashes' = crashes + 1
    /\ opened' = FALSE /\ store' = NoStore /\ missing' = {}
    /\ connected' = FALSE /\ notified' = [b |-> "none", h |-> 0]
    /\ wire' = <<>> /\ updates' = <<>> /\ fresh' = FALSE
    /\ running' = "off" /\ tip' = TipOff /\ initialTipDone' = FALSE /\ tipErr' = FALSE
    /\ fill' = FillOff /\ fillErr' = FALSE
    /\ UNCHANGED <<server, changes>>

\* The process ends before it commits.
Crash == NewProcess /\ UNCHANGED file

\* The process ends while copyHeaderStorage copies header n: a new file has
\* its final size already, an old one grows as it is written.
CloseCrash ==
    /\ opened /\ running = "off"
    /\ \E n \in 0 .. (Len(store.data) - 1) :
         LET old == IF file.exists THEN file.data ELSE Resize(<<>>, Len(store.data))
             done == Write(old, 0, SubSeq(store.data, 1, n))
         IN  IF n < Len(old)
             THEN \E x \in Mixed(store.data[n + 1], old[n + 1]) :
                    file' = [exists |-> TRUE, data |-> Write(done, n, <<x>>), ragged |-> file.ragged]
             ELSE \E r \in BOOLEAN : file' = [exists |-> TRUE, data |-> done, ragged |-> r]
    /\ NewProcess

-----------------------------------------------------------------------------
(* The network and its server *)

NetConnect ==
    /\ running = "on" /\ ~connected /\ connected' = TRUE
    /\ UNCHANGED <<server, changes, notified, wire, updates, fresh, diskVars, storeVars, syncVars>>

\* What is still on the wire is lost; the next connection's subscription
\* answers with the tip, which is not passed on.
NetDisconnect ==
    /\ connected /\ connected' = FALSE /\ wire' = <<>>
    /\ UNCHANGED <<server, changes, notified, updates, fresh, diskVars, storeVars, syncVars>>

ServerTip(s) ==
    /\ changes < MaxChanges /\ changes' = changes + 1
    /\ server' = s /\ fresh' = FALSE
    /\ wire' = IF connected THEN Append(wire, s) ELSE wire
    /\ UNCHANGED <<connected, notified, updates, diskVars, storeVars, syncVars>>

\* handleNotification and enqueueSPVHeader: a header is passed on unless it is
\* the one passed on last, whatever connection that was.
Notify ==
    /\ wire # <<>> /\ wire' = Tail(wire)
    /\ notified' = Head(wire)
    /\ IF Head(wire) = notified
       THEN UNCHANGED <<updates, fresh>>
       ELSE updates' = Append(updates, Head(wire)) /\ fresh' = (Len(wire) = 1 /\ Head(wire) = server)
    /\ UNCHANGED <<server, changes, connected, diskVars, storeVars, syncVars>>

ServerExtend == server.h < MaxHeight /\ ServerTip([server EXCEPT !.h = @ + 1])

ServerReorg == \E b \in Branch \ {server.b}, h \in Fork .. MaxHeight : ServerTip([b |-> b, h |-> h])

-----------------------------------------------------------------------------
(* Checkpoint chunks *)

\* FetchChunk of a checkpointed chunk, whose bytes have the checkpoint's hash.
Fetched(c) ==
    /\ store' = Written(c * Interval, [i \in 1 .. Interval |-> Header("trunk", c * Interval + i - 1)])
    /\ missing' = missing \ {c}

\* GetRawContext of a reader: EnsureChunkAt fetches the chunk it reads from.
ReadFetch(c) ==
    /\ opened /\ connected /\ c \in missing /\ Fetched(c)
    /\ UNCHANGED <<serverVars, diskVars, opened, syncVars>>

\* MissingCheckpointedChunks lists the newest first.
Newest(chunks) == CHOOSE c \in chunks : \A d \in chunks : d <= c

\* runSPVCheckpointFill: the chunks missing once the initial tip is known,
\* newest first, each under headerMu.
FillBegin ==
    /\ fill.pc = "wait" /\ initialTipDone
    /\ fill' = [pc |-> "run", todo |-> missing]
    /\ UNCHANGED <<serverVars, diskVars, storeVars, running, tip, initialTipDone, tipErr, fillErr>>

FillStep ==
    /\ fill.pc = "run" /\ fill.todo # {}
    /\ tip.pc \in {"idle", "off"}
    /\ fill' = [fill EXCEPT !.todo = @ \ {Newest(@)}]
    /\ IF Newest(fill.todo) \in missing
       THEN connected /\ Fetched(Newest(fill.todo))
       ELSE UNCHANGED <<store, missing>>
    /\ UNCHANGED <<serverVars, diskVars, opened, running, tip, initialTipDone, tipErr, fillErr>>

FillDone ==
    /\ fill.pc = "run" /\ fill.todo = {}
    /\ fill' = [FillOff EXCEPT !.pc = "done"] /\ fillErr' = FALSE
    /\ UNCHANGED <<serverVars, diskVars, storeVars, running, tip, initialTipDone, tipErr>>

FillEnd ==
    /\ fill' = [FillOff EXCEPT !.pc = "done"] /\ fillErr' = TRUE
    /\ UNCHANGED <<serverVars, diskVars, storeVars, running, tip, initialTipDone, tipErr>>

\* The request fails.
FillError ==
    /\ fill.pc = "run" /\ fill.todo # {} /\ Newest(fill.todo) \in missing
    /\ tip.pc \in {"idle", "off"} /\ FillEnd

\* The context ends: while it waits for the tip, or for a chunk.
FillCancelled ==
    /\ running = "stopping" /\ FillEnd
    /\ \/ fill.pc = "wait"
       \/ fill.pc = "run" /\ fill.todo # {} /\ tip.pc \in {"idle", "off"}

-----------------------------------------------------------------------------
(* The tip worker *)

StartSync ==
    /\ opened /\ running = "off"
    /\ running' = "on" /\ initialTipDone' = FALSE /\ tipErr' = FALSE /\ fillErr' = FALSE
    /\ tip' = [TipOff EXCEPT !.pc = "pull", !.height = MaxHeight + 2]
    /\ fill' = [FillOff EXCEPT !.pc = "wait"]
    /\ UNCHANGED <<serverVars, diskVars, storeVars>>

\* updateSPVTip returns; the first time opens the way for the other workers.
TipReturns(failed) ==
    /\ tip' = [TipOff EXCEPT !.pc = "idle"]
    /\ tipErr' = failed /\ initialTipDone' = TRUE

\* The head of the loop of updateSPVLiveHeaders and the request it makes: the
\* server answers with its present chain.
TipPull ==
    /\ tip.pc = "pull" /\ connected
    /\ LET height == IF tip.height > Len(store.data) THEN Len(store.data) ELSE tip.height
           last == IF height + BatchSize - 1 <= server.h THEN height + BatchSize - 1 ELSE server.h
       IN  IF last < height
           THEN TipReturns(FALSE)
           ELSE /\ tip' = [tip EXCEPT !.pc = "ensure", !.height = height,
                             !.batch = [i \in 1 .. (last - height + 1) |-> Header(server.b, height + i - 1)]]
                /\ UNCHANGED <<tipErr, initialTipDone>>
    /\ UNCHANGED <<serverVars, diskVars, storeVars, running, fill, fillErr>>

\* The worker takes the next notification; one above the store makes it pull.
TipNext ==
    /\ tip.pc = "idle" /\ updates # <<>>
    /\ updates' = Tail(updates)
    /\ LET n == Head(updates)
       IN  tip' = IF n.h > Len(store.data)
                  THEN [TipOff EXCEPT !.pc = "pull", !.height = n.h]
                  ELSE [TipOff EXCEPT !.pc = "ensure", !.height = n.h, !.sub = TRUE,
                                      !.batch = <<Header(n.b, n.h)>>]
    /\ UNCHANGED <<server, changes, connected, notified, wire, fresh, diskVars, storeVars,
                   running, initialTipDone, tipErr, fill, fillErr>>

\* HasHeader: a checkpointed header by its chunk, another one unless it is all zero.
HasHeader(h) ==
    IF Checkpointed(h) THEN ChunkOf(h) \notin missing ELSE At(store.data, h) # Zero

\* ensureValidationPredecessors: EnsureChunkAt of the header before the batch
\* ("ensure") and of the one before that ("ensure2").  A chunk without
\* checkpoint is fetched and discarded, and must be complete.
Wanted == IF tip.pc = "ensure" THEN tip.height - 1 ELSE tip.height - 2
TipEnsure ==
    /\ tip.pc \in {"ensure", "ensure2"}
    /\ LET found == Wanted < 0 \/ HasHeader(Wanted)
           complete == ChunkOf(Wanted) * Interval + Interval - 1 <= server.h
       IN  /\ found \/ connected
           /\ IF ~found /\ Checkpointed(Wanted)
              THEN Fetched(ChunkOf(Wanted))
              ELSE UNCHANGED <<store, missing>>
           /\ IF found \/ Checkpointed(Wanted) \/ complete
              THEN /\ tip' = [tip EXCEPT !.pc = IF @ = "ensure" THEN "ensure2" ELSE "connect"]
                   /\ UNCHANGED <<initialTipDone, tipErr>>
              ELSE TipReturns(TRUE)
    /\ UNCHANGED <<serverVars, diskVars, opened, running, fill, fillErr>>

\* validateChunkLocked: the link is checked; the difficulty of the first header
\* depends on the header two below as well, and need not fit when that one is
\* of another chain.
Links == IF tip.height = 0 THEN tip.batch[1] = Header("trunk", 0)
         ELSE tip.batch[1].p = At(store.data, tip.height - 1).b
FirmlyLinks == Links /\ (tip.height > 1 => LinkedAt(store.data, tip.height - 1))

\* Mutant: the next pull starts where this one did.
TipConnectStays ==
    /\ tip.pc = "connect" /\ Links
    /\ store' = Written(tip.height, tip.batch)
    /\ IF tip.sub
       THEN TipReturns(FALSE)
       ELSE /\ tip' = [TipOff EXCEPT !.pc = "pull", !.height = tip.height]
            /\ UNCHANGED <<tipErr, initialTipDone>>
    /\ UNCHANGED <<serverVars, diskVars, opened, missing, running, fill, fillErr>>

\* added > 0: the batch is written; a notified header is the end of it.
TipConnect ==
    /\ tip.pc = "connect" /\ Links
    /\ store' = Written(tip.height, tip.batch)
    /\ IF tip.sub
       THEN TipReturns(FALSE)
       ELSE /\ tip' = [TipOff EXCEPT !.pc = "pull", !.height = tip.height + Len(tip.batch)]
            /\ UNCHANGED <<tipErr, initialTipDone>>
    /\ UNCHANGED <<serverVars, diskVars, opened, missing, running, fill, fillErr>>

\* Mutant: a notified header that does not link is dropped.
TipRejectDrops ==
    /\ tip.pc = "connect" /\ ~FirmlyLinks
    /\ IF tip.sub THEN TipReturns(FALSE)
       ELSE IF tip.height = 0 \/ tip.rewound + 1 >= MaxRewind
       THEN TipReturns(TRUE)
       ELSE /\ tip' = [TipOff EXCEPT !.pc = "pull", !.height = tip.height - 1,
                                     !.rewound = tip.rewound + 1]
            /\ UNCHANGED <<tipErr, initialTipDone>>
    /\ UNCHANGED <<serverVars, diskVars, storeVars, running, fill, fillErr>>

\* added = 0: one header back, at most MaxRewind times in a row.
TipReject ==
    /\ tip.pc = "connect" /\ ~FirmlyLinks
    /\ IF tip.height = 0 \/ tip.rewound + 1 >= MaxRewind
       THEN TipReturns(TRUE)
       ELSE /\ tip' = [TipOff EXCEPT !.pc = "pull", !.height = tip.height - 1,
                                     !.rewound = tip.rewound + 1]
            /\ UNCHANGED <<tipErr, initialTipDone>>
    /\ UNCHANGED <<serverVars, diskVars, storeVars, running, fill, fillErr>>

\* A request fails.
TipError ==
    /\ \/ tip.pc = "pull"
       \/ tip.pc \in {"ensure", "ensure2"} /\ Wanted >= 0 /\ ~HasHeader(Wanted)
    /\ TipReturns(TRUE)
    /\ UNCHANGED <<serverVars, diskVars, storeVars, running, fill, fillErr>>

\* The context ends: the update fails, and then the worker returns.
TipCancelled ==
    /\ running = "stopping" /\ tip.pc \in {"pull", "ensure", "ensure2"} /\ TipReturns(TRUE)
    /\ UNCHANGED <<serverVars, diskVars, storeVars, running, fill, fillErr>>

TipExit ==
    /\ tip.pc = "idle" /\ running = "stopping" /\ tip' = TipOff
    /\ UNCHANGED <<serverVars, diskVars, storeVars, running, initialTipDone, tipErr, fill, fillErr>>

\* StopSPVCheckpointSync cancels, stops the network and waits for the workers.
StopSync ==
    /\ running = "on" /\ running' = "stopping"
    /\ connected' = FALSE /\ wire' = <<>>
    /\ UNCHANGED <<server, changes, notified, updates, fresh, diskVars, storeVars,
                   tip, initialTipDone, tipErr, fill, fillErr>>

StopDone ==
    /\ running = "stopping" /\ tip.pc = "off" /\ fill.pc = "done"
    /\ running' = "off" /\ fill' = FillOff
    /\ updates' = <<>> /\ fresh' = FALSE
    /\ UNCHANGED <<server, changes, connected, notified, wire, diskVars, storeVars,
                   tip, initialTipDone, tipErr, fillErr>>

-----------------------------------------------------------------------------
Next ==
    \/ Open \/ Close \/ Crash \/ CloseCrash
    \/ NetConnect \/ NetDisconnect \/ ServerExtend \/ ServerReorg \/ Notify
    \/ \E c \in 0 .. (Checkpoints - 1) : ReadFetch(c)
    \/ FillBegin \/ FillStep \/ FillDone \/ FillError \/ FillCancelled
    \/ StartSync \/ TipPull \/ TipNext \/ TipEnsure \/ TipConnect \/ TipReject
    \/ TipError \/ TipCancelled \/ TipExit \/ StopSync \/ StopDone

Spec == Init /\ [][Next]_vars

\* The goroutines run; the network's loop connects again whenever it lost its
\* server, and of ever new connections some last for an answer.
LiveSpec ==
    /\ Spec
    /\ WF_vars(NetConnect) /\ WF_vars(Notify)
    /\ SF_vars(TipPull) /\ SF_vars(TipEnsure) /\ WF_vars(TipNext)
    /\ WF_vars(TipConnect \/ TipReject) /\ WF_vars(TipCancelled) /\ WF_vars(TipExit)
    /\ WF_vars(FillBegin) /\ SF_vars(FillStep) /\ WF_vars(FillDone) /\ WF_vars(FillCancelled)
    /\ WF_vars(StopDone)

-----------------------------------------------------------------------------
(* Properties *)

\* A checkpointed chunk that is not listed as missing holds the checkpoint's
\* headers, whatever crashes, rewinds, partial files and concurrent fetches
\* came before: HasHeader answers for such a chunk without looking at it.
CheckpointsExact ==
    opened => \A c \in 0 .. (Checkpoints - 1) : c \notin missing => Exact(store.data, c)

\* When the tip worker has dealt with every notification without error, and
\* the server's tip was among them, the header at the server's height is the
\* server's, whatever reorganisations happened while it was pulling.
TipFollows ==
    (tip.pc = "idle" /\ updates = <<>> /\ ~tipErr /\ fresh)
        => /\ Len(store.data) > server.h
           /\ At(store.data, server.h) = Header(server.b, server.h)

\* Opening leaves no broken link above the checkpoints, however the last
\* commit ended, except at the very first header there.
OpenLinked ==
    [][~opened /\ opened' => \A h \in (RepairStart + 1) .. (Len(store'.data) - 1) : LinkedAt(store'.data, h)]_vars

\* A fill that reports no error leaves no checkpointed chunk missing.
FillComplete == (fill.pc = "done" /\ ~fillErr /\ running = "on") => missing = {}

\* The tip worker never rewinds and pulls for ever, over reorganisations that
\* race its requests: each update ends; and a stop ends both workers.
UpdateEnds ==
    /\ (tip.pc \in {"pull", "ensure", "ensure2", "connect"}) ~> (tip.pc \in {"idle", "off"})
    /\ (running = "stopping") ~> (running = "off")

\* A sync that is left running ends with every missing checkpoint fetched,
\* unless a request failed.
FillEnds == (running = "on") ~> (running # "on" \/ fillErr \/ missing = {})

\* Checkpointed headers are never taken for present when they are not: neither by
\* HasHeader nor by a fill that reported success.
HeadersComplete == CheckpointsExact /\ FillComplete

\* Both workers get to their end.
WorkersEnd == UpdateEnds /\ FillEnds
=============================================================================
