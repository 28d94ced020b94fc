-------------------------------- MODULE Daemon --------------------------------
(***************************************************************************)
(* The life of the daemon: the start of the components in Run, its         *)
(* services, the wallet's readiness monitor, the background downloader and *)
(* the disk space worker, and Shutdown (src/app.go, src/componentgraph,    *)
(* src/backgrounddownloader, src/diskspace, src/trackerannouncer,          *)
(* src/torrent, src/peer).                                                 *)
(*                                                                         *)
(* A component is up while its goroutines may use what it depends on.      *)
(* What they do is left out: the modules of the components have it.        *)
(***************************************************************************)
EXTENDS Naturals, Sequences, FiniteSets

CONSTANTS
    Configs,    \* sets of enabled components: what components_to_skip leaves
    MaxFaults   \* bound on the failures and timeouts of a behaviour

ASSUME FaultsAssumption == MaxFaults \in Nat

VARIABLES
    enabled,    \* components that are not skipped, and the rpc service
    run,        \* where Run stands: [pc, at: its place in the order it goes through, failed]
    up,         \* components that run
    cancelled,  \* components and services whose context has ended, and "monitor"
    reported,   \* componentStatus: components reported as running
    svc,        \* per service, where its serve function stands
    shut,       \* per service, where its shutdown function stands
    halted,     \* servers whose Shutdown has begun
    listening,  \* servers with an open listener
    stopping,   \* managers whose Stop is under way
    ready,      \* filemanager.Manager.ready is closed
    monitor,    \* the readiness monitor: off, run, mark or done
    startup,    \* the result of CompleteStartup: pending, ok or err
    started,    \* walletStarted and walletStartErr: none, open, ok or err
    cleaning,   \* the disk space worker is in Clean
    bg,         \* the background downloader's run, its ongoing flag and its worker
    signalled,  \* a signal or RequestStop
    faults      \* what is left of MaxFaults

runVars == <<enabled, run>>
stateVars == <<up, cancelled, reported>>
serviceVars == <<svc, shut, halted, listening, stopping, ready>>
walletVars == <<monitor, startup, started>>
vars == <<runVars, stateVars, serviceVars, walletVars, cleaning, bg, signalled, faults>>

(***************************************************************************)
(* The component graph                                                     *)
(***************************************************************************)

\* legacyDefinitions
DependsOn ==
    [database |-> {}, wallet |-> {"database"}, blobs |-> {"database"}, dht |-> {"upnp", "database"},
     announcer |-> {"dht", "database"}, files |-> {"blobs", "database", "wallet"},
     background |-> {"database", "blobs", "disk"}, disk |-> {"database", "blobs"}, torrent |-> {},
     peer |-> {"upnp", "blobs", "wallet"}, upnp |-> {}, exchange |-> {}, tracker |-> {"files"}]
Component == DOMAIN DependsOn

\* StartStages: after n stages, the components of active that are staged.
Staged(active) ==
    LET stage[n \in 0 .. Cardinality(active)] ==
            IF n = 0 THEN {}
            ELSE stage[n - 1] \cup {c \in active : DependsOn[c] \subseteq stage[n - 1]}
    IN stage[Cardinality(active)]

\* StartStages finds no missing dependency and no cycle.
Startable(active) ==
    /\ \A c \in active : DependsOn[c] \subseteq active
    /\ Staged(active) = active

(***************************************************************************)
(* Services                                                                *)
(***************************************************************************)

\* Servers accept connections; managers run until their context ends.
Server == {"rpc", "peer"}
Manager == {"files", "tracker", "torrent"}
Service == Server \cup Manager

Enabled == enabled \cap Service

Init ==
    /\ enabled \in {active \cup {"rpc"} : active \in {c \in Configs : Startable(c)}}
    /\ run = [pc |-> "start", at |-> 0, failed |-> FALSE]
    /\ up = {} /\ cancelled = {} /\ reported = {}
    /\ svc = [s \in Service |-> "off"] /\ shut = [s \in Service |-> "off"]
    /\ halted = {} /\ listening = {"rpc"} /\ stopping = {} /\ ready = FALSE
    /\ monitor = "off" /\ startup = "pending" /\ started = "none"
    /\ cleaning = FALSE
    /\ bg = [pc |-> "off", ongoing |-> FALSE, worker |-> "none"]
    /\ signalled = FALSE /\ faults = MaxFaults

\* Something fails or is late.
Fault == faults > 0 /\ faults' = faults - 1

(***************************************************************************)
(* The orders of Run                                                       *)
(***************************************************************************)

StartOrder == <<"upnp", "database", "blobs", "disk", "wallet", "exchange", "dht", "announcer", "background">>

\* What Run closes when a start fails, as far as it was started.
Cleanup == <<"wallet", "disk", "blobs", "database">>

\* Mutant: the blob manager is stopped before those that use it.
BlobsFirst == <<"blobs", "background", "announcer", "dht", "exchange", "disk", "wallet", "database">>

\* The order of the rest of Shutdown.
ShutdownOrder == <<"background", "announcer", "dht", "exchange", "disk", "wallet", "blobs", "database">>

Order == IF run.pc = "start" THEN StartOrder ELSE IF run.failed THEN Cleanup ELSE ShutdownOrder

\* The component at place k of the order is there, so that it is started or stopped.
Due(k) == Order[k] \in IF run.failed THEN up ELSE enabled

\* Run comes to the component at k next.
NextDue(k) == k > run.at /\ Due(k) /\ \A j \in DOMAIN Order : run.at < j /\ j < k => ~Due(j)

NoneDue == \A k \in DOMAIN Order : k > run.at => ~Due(k)

(***************************************************************************)
(* Run: the start                                                          *)
(***************************************************************************)

\* The next component starts.  The wallet's status is left to the monitor; a background
\* downloader without a DHT node has nothing to run.
StartNext ==
    /\ run.pc = "start"
    /\ \E k \in DOMAIN StartOrder :
       LET c == StartOrder[k]
           idle == c = "background" /\ "dht" \notin enabled IN
        /\ NextDue(k) /\ run' = [run EXCEPT !.at = k]
        /\ up' = IF idle THEN up ELSE up \cup {c}
        /\ reported' = IF c = "wallet" THEN reported ELSE reported \cup {c}
        /\ monitor' = IF c = "wallet" THEN "run" ELSE monitor
        /\ started' = IF c = "wallet" THEN "open" ELSE started
        /\ bg' = IF c = "background" /\ ~idle THEN [bg EXCEPT !.pc = "poll"] ELSE bg
    /\ UNCHANGED <<enabled, cancelled, serviceVars, startup, cleaning, signalled, faults>>

\* The start of a component fails: the listeners are closed, and what was started before.
StartFails ==
    /\ run.pc = "start" /\ Fault
    /\ \E k \in DOMAIN StartOrder : NextDue(k) /\ StartOrder[k] \in {"database", "blobs", "wallet", "dht"}
    /\ listening' = {}
    /\ run' = [pc |-> "stop", at |-> 0, failed |-> TRUE]
    /\ UNCHANGED <<enabled, stateVars, svc, shut, halted, stopping, ready, walletVars, cleaning, bg, signalled>>

\* All are started: Run starts the services.
ServeAll ==
    /\ run.pc = "start" /\ NoneDue
    /\ run' = [run EXCEPT !.pc = "select"]
    /\ svc' = [s \in Service |-> IF s \notin enabled THEN "off"
                                 ELSE IF s \in {"rpc", "torrent"} THEN "start" ELSE "wait"]
    /\ UNCHANGED <<enabled, stateVars, shut, halted, listening, stopping, ready, walletVars, cleaning, bg,
                   signalled, faults>>

\* A signal, or RequestStop by the stop method.
Signal ==
    /\ ~signalled /\ signalled' = TRUE
    /\ UNCHANGED <<runVars, stateVars, serviceVars, walletVars, cleaning, bg, faults>>

(***************************************************************************)
(* Run: Shutdown                                                           *)
(***************************************************************************)

ShuttingDown == run.pc \notin {"start", "select"} /\ ~run.failed

\* Shutdown begins: no more wallet for requests, and the monitor's context ends.
ShutdownBegin ==
    /\ run.pc = "select" /\ (signalled \/ \E s \in Enabled : svc[s] = "done")
    /\ run' = [run EXCEPT !.pc = "monitor"]
    /\ cancelled' = cancelled \cup {"monitor"}
    /\ UNCHANGED <<enabled, up, reported, serviceVars, walletVars, cleaning, bg, signalled, faults>>

\* The monitor has ended: the services are shut down, all at once.
ShutdownServices ==
    /\ run.pc = "monitor" /\ monitor \in {"off", "done"}
    /\ run' = [run EXCEPT !.pc = "collect"]
    /\ shut' = [s \in Service |-> IF s \in enabled THEN "cancel" ELSE "off"]
    /\ UNCHANGED <<enabled, stateVars, svc, halted, listening, stopping, ready, walletVars, cleaning, bg,
                   signalled, faults>>

\* All shutdown functions have returned.
ShutdownCollected ==
    /\ run.pc = "collect" /\ \A s \in Enabled : shut[s] = "done"
    /\ listening' = listening \ {"rpc"}
    /\ run' = [run EXCEPT !.pc = "stop", !.at = 0]
    /\ UNCHANGED <<enabled, stateVars, svc, shut, halted, stopping, ready, walletVars, cleaning, bg,
                   signalled, faults>>

\* The workers whose Stop cancels them and waits for them.
Worker == {"background", "disk"}
\* The components whose closing is reported at once, not by stopAll.
Unreported == {"background", "disk", "blobs", "database"}

\* The next component is closed; a worker is only told to end.
StopNext ==
    /\ run.pc = "stop"
    /\ \E k \in DOMAIN Order :
       LET c == Order[k] IN
        /\ NextDue(k)
        /\ IF c \in Worker
           THEN /\ cancelled' = cancelled \cup {c}
                /\ run' = [run EXCEPT !.pc = "join", !.at = k]
                /\ UNCHANGED <<up, reported>>
           ELSE /\ up' = up \ {c} /\ reported' = reported \ ({c} \cap Unreported)
                /\ run' = [run EXCEPT !.at = k]
                /\ UNCHANGED cancelled
    /\ UNCHANGED <<enabled, serviceVars, walletVars, cleaning, bg, signalled, faults>>

\* The worker has ended, or Stop's context has.
StopJoin ==
    /\ run.pc = "join"
    /\ LET c == Order[run.at] IN
       \/ c \notin up /\ reported' = reported \ {c} /\ UNCHANGED faults
       \/ c \in up /\ Fault /\ UNCHANGED reported
    /\ run' = [run EXCEPT !.pc = "stop"]
    /\ UNCHANGED <<enabled, up, cancelled, serviceVars, walletVars, cleaning, bg, signalled>>

\* stopAll; or Run returns the error of a start.
StopAll ==
    /\ run.pc = "stop" /\ NoneDue
    /\ run' = [run EXCEPT !.pc = IF run.failed THEN "returned" ELSE "drain"]
    /\ reported' = IF run.failed THEN reported ELSE {}
    /\ UNCHANGED <<enabled, up, cancelled, serviceVars, walletVars, cleaning, bg, signalled, faults>>

\* Run has the result of every service.
RunReturn ==
    /\ run.pc = "drain" /\ \A s \in Enabled : svc[s] = "done"
    /\ run' = [run EXCEPT !.pc = "returned"]
    /\ UNCHANGED <<enabled, stateVars, serviceVars, walletVars, cleaning, bg, signalled, faults>>

(***************************************************************************)
(* The readiness monitor                                                   *)
(***************************************************************************)

\* CompleteStartup returns; an error has a cause or the monitor's context has ended.
StartupCompletes ==
    /\ monitor # "off" /\ startup = "pending"
    /\ \/ startup' = "ok" /\ "monitor" \notin cancelled /\ UNCHANGED faults
       \/ startup' = "err" /\ "monitor" \in cancelled /\ UNCHANGED faults
       \/ startup' = "err" /\ Fault
    /\ UNCHANGED <<runVars, stateVars, serviceVars, monitor, started, cleaning, bg, signalled>>

\* The monitor hands the result on.
MonitorReceives ==
    /\ monitor = "run" /\ started = "open" /\ startup # "pending"
    /\ started' = startup
    /\ monitor' = IF startup = "ok" THEN "mark" ELSE "run"
    /\ UNCHANGED <<runVars, stateVars, serviceVars, startup, cleaning, bg, signalled, faults>>

\* markWalletReady
MonitorMarks ==
    /\ monitor = "mark"
    /\ reported' = reported \cup {"wallet"}
    /\ monitor' = "run"
    /\ UNCHANGED <<runVars, up, cancelled, serviceVars, startup, started, cleaning, bg, signalled, faults>>

MonitorEnds ==
    /\ monitor = "run" /\ "monitor" \in cancelled
    /\ monitor' = "done"
    /\ UNCHANGED <<runVars, stateVars, serviceVars, startup, started, cleaning, bg, signalled, faults>>

(***************************************************************************)
(* The serve functions                                                     *)
(***************************************************************************)

Goto(s, pc) == svc' = [svc EXCEPT ![s] = pc]

\* waitForWalletReady, or the file manager's WaitReady for the tracker announcer.
SvcGate(s) ==
    /\ svc[s] = "wait"
    /\ \/ s \in cancelled /\ Goto(s, "done")
       \/ s # "tracker" /\ started = "err" /\ Goto(s, "done")
       \/ (IF s = "tracker" THEN ready ELSE started = "ok") /\ Goto(s, "start")
    /\ UNCHANGED <<runVars, stateVars, shut, halted, listening, stopping, ready, walletVars, cleaning, bg,
                   signalled, faults>>

\* The peer server finds the wallet before Shutdown hides it.
SvcFindsWallet(s) ==
    /\ s = "peer" /\ svc[s] = "start" /\ ~ShuttingDown
    /\ Goto(s, "listen")
    /\ UNCHANGED <<runVars, stateVars, shut, halted, listening, stopping, ready, walletVars, cleaning, bg,
                   signalled, faults>>

\* The manager starts or the server has its listener.  The file manager may have done its
\* last query when its context ends, and starts.
SvcStart(s) ==
    /\ svc[s] = IF s = "peer" THEN "listen" ELSE "start"
    /\ up' = up \cup {s}
    /\ ready' = (ready \/ s = "files")
    /\ listening' = IF s = "peer" THEN listening \cup {s} ELSE listening
    /\ Goto(s, "report")
    /\ UNCHANGED <<runVars, cancelled, reported, shut, halted, stopping, walletVars, cleaning, bg, signalled,
                   faults>>

\* The start fails; the peer server finds no wallet once Shutdown has begun.
SvcStartFails(s) ==
    /\ svc[s] \in {"start", "listen"} /\ s # "rpc"
    /\ \/ s = "peer" /\ svc[s] = "start" /\ ShuttingDown /\ UNCHANGED faults
       \/ s \in cancelled /\ (s = "files" \/ svc[s] = "listen") /\ UNCHANGED faults
       \/ s # "tracker" /\ Fault
    /\ Goto(s, "done")
    /\ UNCHANGED <<runVars, stateVars, shut, halted, listening, stopping, ready, walletVars, cleaning, bg, signalled>>

SvcReport(s) ==
    /\ svc[s] = "report"
    /\ reported' = IF s = "rpc" THEN reported ELSE reported \cup {s}
    /\ Goto(s, IF s \in Server THEN "accept" ELSE "serve")
    /\ UNCHANGED <<runVars, up, cancelled, shut, halted, listening, stopping, ready, walletVars, cleaning, bg,
                   signalled, faults>>

\* Mutant: Serve does not look at stopping.
AcceptAnyway(s) ==
    /\ svc[s] = "accept"
    /\ Goto(s, "serve")
    /\ UNCHANGED <<runVars, stateVars, shut, halted, listening, stopping, ready, walletVars, cleaning, bg, signalled, faults>>

\* Serve registers the listener, or closes it when Shutdown came first.
SvcAccept(s) ==
    /\ svc[s] = "accept"
    /\ Goto(s, "serve")
    /\ listening' = IF s \in halted THEN listening \ {s} ELSE listening
    /\ UNCHANGED <<runVars, stateVars, shut, halted, stopping, ready, walletVars, cleaning, bg, signalled, faults>>

\* Serve returns once its listener is closed, or with an error of Accept.
SvcReturns(s) ==
    /\ s \in Server /\ svc[s] = "serve"
    /\ \/ s \notin listening /\ UNCHANGED <<faults, listening>>
       \/ s \in listening /\ Fault /\ listening' = listening \ {s}
    /\ up' = up \ {s}
    /\ Goto(s, "end")
    /\ UNCHANGED <<runVars, cancelled, reported, shut, halted, stopping, ready, walletVars, cleaning, bg, signalled>>

\* A manager's context has ended: its serve function stops it,
SvcStop(s) ==
    /\ s \in Manager /\ svc[s] = "serve" /\ s \in cancelled
    /\ stopping' = stopping \cup ({s} \cap up)
    /\ Goto(s, "join")
    /\ UNCHANGED <<runVars, stateVars, shut, halted, listening, ready, walletVars, cleaning, bg, signalled,
                   faults>>

\* and waits; only the torrent session's Stop has no context.
SvcJoin(s) ==
    /\ svc[s] = "join"
    /\ \/ s \notin up /\ UNCHANGED faults
       \/ s \in up \ {"torrent"} /\ Fault
    /\ Goto(s, "end")
    /\ UNCHANGED <<runVars, stateVars, shut, halted, listening, stopping, ready, walletVars, cleaning, bg, signalled>>

SvcEnd(s) ==
    /\ svc[s] = "end"
    /\ reported' = reported \ {s}
    /\ Goto(s, "done")
    /\ UNCHANGED <<runVars, up, cancelled, shut, halted, listening, stopping, ready, walletVars, cleaning, bg,
                   signalled, faults>>

\* A manager that was stopped ends; the tracker announcer does so when its context ends.
ManagerEnds(s) ==
    /\ s \in up /\ (s \in stopping \/ (s = "tracker" /\ s \in cancelled))
    /\ up' = up \ {s} /\ stopping' = stopping \ {s}
    /\ UNCHANGED <<runVars, cancelled, reported, svc, shut, halted, listening, ready, walletVars, cleaning, bg,
                   signalled, faults>>

(***************************************************************************)
(* The shutdown functions                                                  *)
(***************************************************************************)

\* The context is cancelled; the peer server's listener, if it has one, is closed.
ShutCancel(s) ==
    /\ shut[s] = "cancel"
    /\ cancelled' = cancelled \cup {s}
    /\ listening' = IF s = "peer" THEN listening \ {s} ELSE listening
    /\ shut' = [shut EXCEPT ![s] = "stop"]
    /\ UNCHANGED <<runVars, up, reported, svc, halted, stopping, ready, walletVars, cleaning, bg, signalled, faults>>

\* Shutdown of a server, Stop of a manager.
ShutStop(s) ==
    /\ shut[s] = "stop"
    /\ halted' = IF s \in Server THEN halted \cup {s} ELSE halted
    /\ listening' = IF s \in Server /\ svc[s] = "serve" THEN listening \ {s} ELSE listening
    /\ stopping' = stopping \cup ({s} \cap up \cap Manager)
    /\ shut' = [shut EXCEPT ![s] = IF s \in Server \/ s \in up THEN "wait" ELSE "done"]
    /\ UNCHANGED <<runVars, stateVars, svc, ready, walletVars, cleaning, bg, signalled, faults>>

\* It returns; the connections of a server end or are given up.
ShutReturns(s) ==
    /\ shut[s] = "wait"
    /\ \/ (s \in Server \/ s \notin stopping) /\ UNCHANGED faults
       \/ s \in stopping \ {"torrent"} /\ Fault
    /\ shut' = [shut EXCEPT ![s] = "done"]
    /\ UNCHANGED <<runVars, stateVars, svc, halted, listening, stopping, ready, walletVars, cleaning, bg, signalled>>

(***************************************************************************)
(* The disk space worker and the background downloader                     *)
(***************************************************************************)

\* A tick of the disk space worker, and the end of Clean.
DiskClean ==
    /\ "disk" \in up /\ (cleaning \/ "disk" \notin cancelled)
    /\ cleaning' = ~cleaning
    /\ UNCHANGED <<runVars, stateVars, serviceVars, walletVars, bg, signalled, faults>>

DiskEnds ==
    /\ "disk" \in up \cap cancelled /\ ~cleaning
    /\ up' = up \ {"disk"}
    /\ UNCHANGED <<runVars, cancelled, reported, serviceVars, walletVars, cleaning, bg, signalled, faults>>

\* run ends at once, or waits for the worker it has told to end.
BgLeave ==
    IF bg.ongoing
    THEN bg' = [bg EXCEPT !.pc = "join"] /\ UNCHANGED up
    ELSE bg' = [bg EXCEPT !.pc = "done"] /\ up' = up \ {"background"}

\* poll: nothing to do, a worker is started, or the free space cannot be read.
BgPoll ==
    /\ bg.pc = "poll"
    /\ \/ bg' = [bg EXCEPT !.pc = "select"] /\ UNCHANGED <<up, faults>>
       \/ ~bg.ongoing /\ bg' = [pc |-> "select", ongoing |-> TRUE, worker |-> "run"] /\ UNCHANGED <<up, faults>>
       \/ BgLeave /\ (IF "background" \in cancelled THEN UNCHANGED faults ELSE Fault)
    /\ UNCHANGED <<runVars, cancelled, reported, serviceVars, walletVars, cleaning, signalled>>

BgTick ==
    /\ bg.pc = "select"
    /\ bg' = [bg EXCEPT !.pc = "poll"]
    /\ UNCHANGED <<runVars, stateVars, serviceVars, walletVars, cleaning, signalled, faults>>

\* downloadStream ends: done, failed, late or cancelled.
BgDownloaded ==
    /\ bg.worker = "run"
    /\ bg' = [bg EXCEPT !.worker = "result"]
    /\ UNCHANGED <<runVars, stateVars, serviceVars, walletVars, cleaning, signalled, faults>>

\* Mutant: the flag stays set.
BgFinishForgets ==
    /\ bg.pc = "select" /\ bg.worker = "result"
    /\ bg' = [bg EXCEPT !.worker = "none"]
    /\ UNCHANGED <<runVars, stateVars, serviceVars, walletVars, cleaning, signalled, faults>>

\* finishDownload
BgFinish ==
    /\ bg.pc = "select" /\ bg.worker = "result"
    /\ bg' = [bg EXCEPT !.ongoing = FALSE, !.worker = "none"]
    /\ UNCHANGED <<runVars, stateVars, serviceVars, walletVars, cleaning, signalled, faults>>

BgCancelled ==
    /\ bg.pc = "select" /\ "background" \in cancelled
    /\ BgLeave
    /\ UNCHANGED <<runVars, cancelled, reported, serviceVars, walletVars, cleaning, signalled, faults>>

\* run has the result of its last worker and returns.
BgJoin ==
    /\ bg.pc = "join" /\ bg.worker = "result"
    /\ bg' = [pc |-> "done", ongoing |-> FALSE, worker |-> "none"]
    /\ up' = up \ {"background"}
    /\ UNCHANGED <<runVars, cancelled, reported, serviceVars, walletVars, cleaning, signalled, faults>>

(***************************************************************************)
(* Specification                                                           *)
(***************************************************************************)

RunStep ==
    \/ StartNext \/ ServeAll \/ ShutdownBegin \/ ShutdownServices \/ ShutdownCollected
    \/ StopNext \/ StopJoin \/ StopAll \/ RunReturn

MonitorStep == MonitorReceives \/ MonitorMarks \/ MonitorEnds

ServiceStep(s) ==
    \/ SvcGate(s) \/ SvcFindsWallet(s) \/ SvcStart(s) \/ SvcReport(s) \/ SvcAccept(s) \/ SvcReturns(s) \/ SvcStop(s)
    \/ SvcJoin(s) \/ SvcEnd(s) \/ SvcStartFails(s)

ShutStep(s) == ShutCancel(s) \/ ShutStop(s) \/ ShutReturns(s)

BgStep == BgPoll \/ BgFinish \/ BgCancelled \/ BgJoin

Next ==
    \/ RunStep \/ StartFails \/ Signal \/ StartupCompletes \/ MonitorStep
    \/ \E s \in Service : ServiceStep(s) \/ ManagerEnds(s) \/ ShutStep(s)
    \/ DiskClean \/ DiskEnds \/ BgStep \/ BgTick \/ BgDownloaded

Spec == Init /\ [][Next]_vars

\* Goroutines run, and what waits on a context that has ended returns.  Nothing is assumed
\* of signals, of the wallet's synchronisation or of ticks.
Fairness ==
    /\ WF_vars(RunStep) /\ WF_vars(MonitorStep) /\ WF_vars(StartupCompletes /\ "monitor" \in cancelled)
    /\ \A s \in Service : WF_vars(ServiceStep(s)) /\ WF_vars(ManagerEnds(s)) /\ WF_vars(ShutStep(s))
    /\ WF_vars(DiskClean /\ cleaning) /\ WF_vars(DiskEnds)
    /\ WF_vars(BgPoll) /\ SF_vars(BgCancelled) /\ SF_vars(BgJoin) /\ WF_vars(BgDownloaded)

LiveSpec == Spec /\ Fairness

(***************************************************************************)
(* Properties                                                              *)
(***************************************************************************)

\* What a component depends on is up as long as the component works with a live context: Run
\* and Shutdown, written out by hand, keep the order of the component graph, also when a
\* start fails, a stop is late, or a service starts while it is being stopped.  The services
\* are shut down together: among them, the tracker may outlive the file manager.
DependenciesUp == \A c \in (up \cap Component) \ cancelled : DependsOn[c] \ Service \subseteq up

\* When Run returns, after a failed start as well, the stores are closed, and after a
\* shutdown nothing is reported as running any more, whoever reported last.
ReturnsClean ==
    run.pc = "returned" =>
        /\ up \cap {"database", "blobs", "wallet"} = {}
        /\ ~run.failed => reported = {}

\* The downloader's ongoing flag says whether a worker will send a result, which is what run
\* waits for; no worker is left when run has ended.
OngoingExact == bg.pc # "off" => (bg.ongoing <=> bg.worker # "none") /\ (bg.pc = "done" => ~bg.ongoing)

\* A daemon that is told to stop returns from Run, however far its start has come.
RunReturns == signalled ~> run.pc = "returned"

\* The stores outlive who uses them, and do not outlive Run.
OrderlyShutdown == DependenciesUp /\ ReturnsClean
===============================================================================
