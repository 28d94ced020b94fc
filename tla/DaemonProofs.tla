---------------------------- MODULE DaemonProofs ----------------------------
(***************************************************************************)
(* Proofs about the daemon: its components (Daemon), for any set of        *)
(* configurations and any number of faults, and its starts (Startup), for  *)
(* any hubs, streams and data directories, any number of starts, calls and *)
(* faults.                                                                 *)
(*                                                                         *)
(* Components: OngoingExact and OrderlyShutdown hold in every state.  The  *)
(* inductive invariant says, for every part of Run, which components are   *)
(* up: those before its place in the start order, all that are enabled     *)
(* while it serves, those behind its place in the shutdown order, and what *)
(* a failed start leaves to close.                                         *)
(*                                                                         *)
(* Starts: HubsSound, MigrationSafe and SettingsSafe hold in every state;  *)
(* their invariants are described where they begin.                        *)
(***************************************************************************)
EXTENDS Daemon, Startup, WellFoundedInduction, TLAPS

RunPhase == {"start", "select", "monitor", "collect", "stop", "join", "drain", "returned"}
SvcPhase == {"off", "wait", "start", "listen", "report", "accept", "serve", "join", "end", "done"}
ShutPhase == {"off", "cancel", "stop", "wait", "done"}
BgRecord == [pc : {"off", "poll", "select", "join", "done"}, ongoing : BOOLEAN,
             worker : {"none", "run", "result"}]

RunTyped == run \in [pc : RunPhase, at : Nat, failed : BOOLEAN]

ServicesTyped == svc \in [Service -> SvcPhase] /\ shut \in [Service -> ShutPhase]

TypeOK ==
    /\ RunTyped /\ ServicesTyped /\ bg \in BgRecord
    /\ monitor \in {"off", "run", "mark", "done"}

\* The components that Run starts and stops itself.
Core == {"upnp", "database", "blobs", "disk", "wallet", "exchange", "dht", "announcer", "background"}

\* The background downloader: its flag, and no worker before it starts.
BgInv ==
    /\ bg.ongoing <=> bg.worker # "none"
    /\ bg.pc \in {"off", "done"} => ~bg.ongoing

\* What is enabled has its dependencies; only what is enabled is served or up.
EnabledInv ==
    /\ \A c \in enabled \cap Component : DependsOn[c] \subseteq enabled
    /\ up \subseteq enabled
    /\ up \subseteq Core \cup Service
    /\ \A s \in Service : svc[s] # "off" \/ shut[s] # "off" => s \in enabled

\* The whole core is up, as far as it is enabled.  The background downloader may be idle
\* or have given up.
CoreUp == \A c \in Core \cap enabled : c # "background" => c \in up

\* The start: what lies before run.at is up, what lies behind is not.
StartInv ==
    run.pc = "start" =>
        /\ ~run.failed /\ run.at \in 0 .. 9 /\ cancelled = {} /\ up \subseteq Core
        /\ \A k \in 1 .. 9 : LET c == StartOrder[k] IN
              /\ k <= run.at /\ c \in enabled /\ c # "background" => c \in up
              /\ k > run.at => c \notin up
        /\ \A s \in Service : svc[s] = "off" /\ shut[s] = "off"

\* The services run: nothing of the core has been told to end.
ServeInv ==
    run.pc \in {"select", "monitor", "collect"} =>
        ~run.failed /\ CoreUp /\ cancelled \cap Core = {}

\* A shutdown function that has begun has ended its service's context.
ShutInv ==
    /\ \A s \in Service : shut[s] \in {"stop", "wait", "done"} => s \in cancelled
    /\ run.pc \notin {"start", "select", "monitor", "collect"} /\ ~run.failed =>
          /\ \A s \in Enabled : s \in cancelled
          /\ \A s \in Service : shut[s] \in {"off", "done"}

\* Shutdown: what lies behind run.at is up, what lies before has been stopped or, of a
\* worker whose stop was late, told to end.
StopInv ==
    run.pc \in {"stop", "join"} /\ ~run.failed =>
        /\ run.at \in 0 .. 8
        /\ \A k \in 1 .. 8 : LET c == ShutdownOrder[k] IN
              /\ k > run.at /\ c \in enabled /\ c # "background" => c \in up
              /\ k > run.at => c \notin cancelled
              /\ k <= run.at => c \notin up \/ (c \in Worker /\ c \in cancelled)
        /\ "upnp" \in enabled => "upnp" \in up
        /\ "upnp" \notin cancelled

\* A failed start: no service has run, and what was started is closed in its order.
FailInv ==
    run.failed =>
        /\ run.pc \in {"stop", "join", "returned"} /\ run.at \in 0 .. 4
        /\ up \subseteq {"upnp", "database", "blobs", "disk", "wallet", "exchange"}
        /\ \A k \in 1 .. 4 : LET c == Cleanup[k] IN
              k <= run.at => c \notin up \/ (c \in Worker /\ c \in cancelled)
        /\ DependenciesUp
        /\ \A s \in Service : svc[s] = "off" /\ shut[s] = "off"

\* Run waits for a worker that it has told to end.
JoinInv == run.pc = "join" => run.at \in DOMAIN Order /\ Order[run.at] \in Worker \cap cancelled

\* After the shutdown: the stores are closed, and who is still up has been told to end.
EndInv ==
    run.pc \in {"drain", "returned"} =>
        /\ up \cap {"database", "blobs", "wallet"} = {}
        /\ up \cap Core \subseteq cancelled \cup {"upnp", "exchange"}

\* The monitor has ended before the services are shut down.
MonitorInv == run.pc \notin {"start", "select", "monitor"} /\ ~run.failed => monitor \in {"off", "done"}

\* The services that will take their report back.
Reporting == {s \in Service : svc[s] \in {"accept", "serve", "join", "end"}}

\* After stopAll, only a service that will take it back is reported.
ReportInv ==
    /\ run.pc \in {"drain", "returned"} /\ ~run.failed =>
          reported \subseteq Reporting
    /\ run.pc = "returned" /\ ~run.failed => \A s \in Enabled : svc[s] = "done"

Places == StartInv /\ ServeInv /\ StopInv /\ FailInv /\ JoinInv /\ EndInv
IndInv == TypeOK /\ BgInv /\ EnabledInv /\ ShutInv /\ Places /\ MonitorInv /\ ReportInv

(***************************************************************************)
(* The component graph and the orders of Run                               *)
(***************************************************************************)

\* The graph is over the components.
LEMMA GraphFacts ==
  /\ Core \subseteq Component /\ Component \subseteq Core \cup Service /\ Core \cap Service = {}
  /\ \A c \in Component : DependsOn[c] \ Service \subseteq Core \ {"background"}
  /\ \A c \in Component : "disk" \in DependsOn[c] => c = "background"
  /\ DependsOn["upnp"] = {} /\ DependsOn["exchange"] = {}
  BY DEF DependsOn, Component, Core, Service, Server, Manager

\* The start order lists the core, and everything after what it depends on.
LEMMA StartFacts ==
  /\ DOMAIN StartOrder = 1 .. 9
  /\ \A k \in 1 .. 9 : StartOrder[k] \in Core
  /\ \A c \in Core : \E k \in 1 .. 9 : StartOrder[k] = c
  /\ \A j, k \in 1 .. 9 : StartOrder[j] = StartOrder[k] => j = k
  /\ \A k \in 1 .. 9 : StartOrder[k] \in {"database", "blobs", "wallet", "dht"} => k <= 7
  /\ \A k \in 1 .. 6 : StartOrder[k] \in {"upnp", "database", "blobs", "disk", "wallet", "exchange"}
  /\ \A k \in 1 .. 9 : \A d \in DependsOn[StartOrder[k]] : \E j \in 1 .. 9 : j < k /\ StartOrder[j] = d
<1>1. DOMAIN StartOrder = 1 .. 9 /\ \A k \in 1 .. 9 : StartOrder[k] \in Core
  BY DEF StartOrder, Core
<1>2. \A c \in Core : \E k \in 1 .. 9 : StartOrder[k] = c
  BY DEF StartOrder, Core
<1>3. \A j, k \in 1 .. 9 : StartOrder[j] = StartOrder[k] => j = k
  BY DEF StartOrder
<1>4. \A k \in 1 .. 9 : StartOrder[k] \in {"database", "blobs", "wallet", "dht"} => k <= 7
  BY DEF StartOrder
<1>5. \A k \in 1 .. 6 : StartOrder[k] \in {"upnp", "database", "blobs", "disk", "wallet", "exchange"}
  BY DEF StartOrder
<1>6. \A k \in 1 .. 9 : \A d \in DependsOn[StartOrder[k]] : \E j \in 1 .. 9 : j < k /\ StartOrder[j] = d
  BY DEF StartOrder, DependsOn
<1> QED
  BY <1>1, <1>2, <1>3, <1>4, <1>5, <1>6

\* The shutdown order lists the core but for upnp, and everything before what it depends on.
LEMMA ShutdownFacts ==
  /\ DOMAIN ShutdownOrder = 1 .. 8
  /\ \A k \in 1 .. 8 : ShutdownOrder[k] \in Core \ {"upnp"}
  /\ \A c \in Core \ {"upnp"} : \E k \in 1 .. 8 : ShutdownOrder[k] = c
  /\ \A j, k \in 1 .. 8 : ShutdownOrder[j] = ShutdownOrder[k] => j = k
  /\ \A k \in 1 .. 8 : \A d \in DependsOn[ShutdownOrder[k]] :
        d = "upnp" \/ \E j \in 1 .. 8 : j > k /\ ShutdownOrder[j] = d
<1>1. DOMAIN ShutdownOrder = 1 .. 8 /\ \A k \in 1 .. 8 : ShutdownOrder[k] \in Core \ {"upnp"}
  BY DEF ShutdownOrder, Core
<1>2. \A c \in Core \ {"upnp"} : \E k \in 1 .. 8 : ShutdownOrder[k] = c
  BY DEF ShutdownOrder, Core
<1>3. \A j, k \in 1 .. 8 : ShutdownOrder[j] = ShutdownOrder[k] => j = k
  BY DEF ShutdownOrder
<1>4. \A k \in 1 .. 8 : \A d \in DependsOn[ShutdownOrder[k]] :
        d = "upnp" \/ \E j \in 1 .. 8 : j > k /\ ShutdownOrder[j] = d
  BY DEF ShutdownOrder, DependsOn
<1> QED
  BY <1>1, <1>2, <1>3, <1>4

\* What a failed start has to close, again before what it depends on.
LEMMA CleanupFacts ==
  /\ DOMAIN Cleanup = 1 .. 4
  /\ \A c \in {"database", "blobs", "disk", "wallet"} : \E k \in 1 .. 4 : Cleanup[k] = c
  /\ \A k \in 1 .. 4 : Cleanup[k] \in {"database", "blobs", "disk", "wallet"}
  /\ \A j, k \in 1 .. 4 : Cleanup[j] = Cleanup[k] => j = k
  /\ \A k \in 1 .. 4 : \A d \in DependsOn[Cleanup[k]] : \E j \in 1 .. 4 : j > k /\ Cleanup[j] = d
<1>1. DOMAIN Cleanup = 1 .. 4 /\ \A j, k \in 1 .. 4 : Cleanup[j] = Cleanup[k] => j = k
  BY DEF Cleanup
<1>2. /\ \A c \in {"database", "blobs", "disk", "wallet"} : \E k \in 1 .. 4 : Cleanup[k] = c
      /\ \A k \in 1 .. 4 : Cleanup[k] \in {"database", "blobs", "disk", "wallet"}
  BY DEF Cleanup
<1>3. \A k \in 1 .. 4 : \A d \in DependsOn[Cleanup[k]] : \E j \in 1 .. 4 : j > k /\ Cleanup[j] = d
  BY DEF Cleanup, DependsOn
<1> QED
  BY <1>1, <1>2, <1>3

(***************************************************************************)
(* Steps of anybody but Run                                                *)
(***************************************************************************)

\* What such a step may do: services come up and go down, the workers end, and a shutdown
\* function goes on, ending its service's context first.
Local ==
    /\ UNCHANGED <<enabled, run>>
    /\ \A c \in Core : c \in up' => c \in up
    /\ \A c \in Core : c \in up /\ c \notin up' => c = "background" \/ (c = "disk" /\ c \in cancelled)
    /\ up' \subseteq up \cup {s \in Service : svc[s] # "off"}
    /\ cancelled \subseteq cancelled'
    /\ cancelled' \subseteq cancelled \cup {s \in Service : shut[s] = "cancel"}
    /\ \A s \in Service : svc[s] = "off" => svc'[s] = "off"
    /\ \A s \in Service : \/ shut'[s] = shut[s]
                          \/ /\ shut[s] \in {"cancel", "stop", "wait"} /\ s \in cancelled'
                             /\ shut'[s] \in {"stop", "wait", "done"}

\* The steps of Run.
RunAction == RunStep \/ StartFails

\* Every step is one of Run's or is local to a service, a shutdown or a monitor.
LEMMA StepKinds ==
  ASSUME TypeOK, ShutInv, [Next]_vars PROVE Local \/ RunAction
<1> USE GraphFacts DEF TypeOK, ServicesTyped
<1>1. ASSUME Signal PROVE Local
  BY <1>1 DEF Local, runVars, stateVars, serviceVars, walletVars, Signal
<1>2. ASSUME StartupCompletes PROVE Local
  BY <1>2 DEF Local, runVars, stateVars, serviceVars, walletVars, StartupCompletes
<1>3. ASSUME MonitorReceives PROVE Local
  BY <1>3 DEF Local, runVars, stateVars, serviceVars, walletVars, MonitorReceives
<1>4. ASSUME MonitorMarks PROVE Local
  BY <1>4 DEF Local, runVars, stateVars, serviceVars, walletVars, MonitorMarks
<1>5. ASSUME MonitorEnds PROVE Local
  BY <1>5 DEF Local, runVars, stateVars, serviceVars, walletVars, MonitorEnds
<1>6. ASSUME DiskClean PROVE Local
  BY <1>6 DEF Local, runVars, stateVars, serviceVars, walletVars, DiskClean
<1>7. ASSUME DiskEnds PROVE Local
  BY <1>7 DEF Local, runVars, stateVars, serviceVars, walletVars, DiskEnds
<1>8. ASSUME BgPoll PROVE Local
  BY <1>8 DEF Local, runVars, stateVars, serviceVars, walletVars, Core, BgLeave, BgPoll
<1>9. ASSUME BgTick PROVE Local
  BY <1>9 DEF Local, runVars, stateVars, serviceVars, walletVars, Core, BgTick
<1>10. ASSUME BgDownloaded PROVE Local
  BY <1>10 DEF Local, runVars, stateVars, serviceVars, walletVars, Core, BgDownloaded
<1>11. ASSUME BgFinish PROVE Local
  BY <1>11 DEF Local, runVars, stateVars, serviceVars, walletVars, Core, BgFinish
<1>12. ASSUME BgCancelled PROVE Local
  BY <1>12 DEF Local, runVars, stateVars, serviceVars, walletVars, Core, BgLeave, BgCancelled
<1>13. ASSUME BgJoin PROVE Local
  BY <1>13 DEF Local, runVars, stateVars, serviceVars, walletVars, Core, BgJoin
<1>14. ASSUME NEW s \in Service, SvcGate(s) PROVE Local
  BY <1>14 DEF Local, runVars, stateVars, serviceVars, walletVars, Goto, SvcGate
<1>15. ASSUME NEW s \in Service, SvcFindsWallet(s) PROVE Local
  BY <1>15 DEF Local, runVars, stateVars, serviceVars, walletVars, Goto, SvcFindsWallet
<1>16. ASSUME NEW s \in Service, SvcStart(s) PROVE Local
  BY <1>16 DEF Local, runVars, stateVars, serviceVars, walletVars, Goto, SvcStart
<1>17. ASSUME NEW s \in Service, SvcReport(s) PROVE Local
  BY <1>17 DEF Local, runVars, stateVars, serviceVars, walletVars, Goto, SvcReport
<1>18. ASSUME NEW s \in Service, SvcAccept(s) PROVE Local
  BY <1>18 DEF Local, runVars, stateVars, serviceVars, walletVars, Goto, SvcAccept
<1>19. ASSUME NEW s \in Service, SvcReturns(s) PROVE Local
  BY <1>19 DEF Local, runVars, stateVars, serviceVars, walletVars, Goto, SvcReturns
<1>20. ASSUME NEW s \in Service, SvcStop(s) PROVE Local
  BY <1>20 DEF Local, runVars, stateVars, serviceVars, walletVars, Goto, SvcStop
<1>21. ASSUME NEW s \in Service, SvcJoin(s) PROVE Local
  BY <1>21 DEF Local, runVars, stateVars, serviceVars, walletVars, Goto, SvcJoin
<1>22. ASSUME NEW s \in Service, SvcEnd(s) PROVE Local
  BY <1>22 DEF Local, runVars, stateVars, serviceVars, walletVars, Goto, SvcEnd
<1>23. ASSUME NEW s \in Service, SvcStartFails(s) PROVE Local
  BY <1>23 DEF Local, runVars, stateVars, serviceVars, walletVars, Goto, SvcStartFails
<1>24. ASSUME NEW s \in Service, ManagerEnds(s) PROVE Local
  BY <1>24 DEF Local, runVars, stateVars, serviceVars, walletVars, ManagerEnds
<1>25. ASSUME NEW s \in Service, ShutCancel(s) PROVE Local
  BY <1>25 DEF Local, runVars, stateVars, serviceVars, walletVars, ShutInv, ShutCancel
<1>26. ASSUME NEW s \in Service, ShutStop(s) PROVE Local
  BY <1>26 DEF Local, runVars, stateVars, serviceVars, walletVars, ShutInv, ShutStop
<1>27. ASSUME NEW s \in Service, ShutReturns(s) PROVE Local
  BY <1>27 DEF Local, runVars, stateVars, serviceVars, walletVars, ShutInv, ShutReturns
<1>28. ASSUME UNCHANGED vars PROVE Local
  BY <1>28 DEF Local, runVars, stateVars, serviceVars, walletVars, vars
<1> QED
  BY <1>1, <1>2, <1>3, <1>4, <1>5, <1>6, <1>7, <1>8, <1>9, <1>10, <1>11, <1>12, <1>13, <1>14,
     <1>15, <1>16, <1>17, <1>18, <1>19, <1>20, <1>21, <1>22, <1>23, <1>24, <1>25, <1>26, <1>27,
     <1>28 DEF Next, RunAction, MonitorStep, ServiceStep, ShutStep, BgStep

\* Such steps keep what is enabled, and the shutdown functions behind their contexts.
LEMMA LocalRest ==
  ASSUME TypeOK, EnabledInv, ShutInv, Local PROVE EnabledInv' /\ ShutInv'
<1>1. EnabledInv'
  BY GraphFacts DEF EnabledInv, Local
<1>2. ShutInv'
  BY DEF ShutInv, Local, Enabled
<1> QED
  BY <1>1, <1>2

\* Such steps do not disturb what Run relies on.
LEMMA LocalPlaces ==
  ASSUME TypeOK, EnabledInv, ShutInv, Places, Local PROVE Places'
<1> USE GraphFacts DEF Places
<1>1. UNCHANGED run /\ run' = run
  BY DEF Local
<1>2. StartInv'
  <2> SUFFICES ASSUME run.pc = "start" PROVE StartInv'
    BY <1>1 DEF StartInv
  <2>1. \A s \in Service : svc'[s] = "off" /\ shut'[s] = "off"
    BY DEF StartInv, Local
  <2>2. cancelled' = {} /\ up' \subseteq Core /\ up' \subseteq up
    BY DEF StartInv, Local
  <2>3. \A k \in 1 .. 9 : StartOrder[k] \in up /\ StartOrder[k] # "background" => StartOrder[k] \in up'
    BY StartFacts DEF StartInv, Local
  <2> QED
    BY <1>1, <2>1, <2>2, <2>3 DEF StartInv, Local
<1>3. ServeInv'
  <2> SUFFICES ASSUME run.pc \in {"select", "monitor", "collect"} PROVE ServeInv'
    BY <1>1 DEF ServeInv
  <2> QED
    BY <1>1 DEF ServeInv, CoreUp, Local
<1>4. StopInv'
  <2> SUFFICES ASSUME run.pc \in {"stop", "join"}, ~run.failed PROVE StopInv'
    BY <1>1 DEF StopInv
  <2>1. cancelled' = cancelled
    BY DEF ShutInv, Local
  <2>2. ASSUME NEW k \in 1 .. 8 PROVE /\ ShutdownOrder[k] \in up' => ShutdownOrder[k] \in up
                                      /\ ShutdownOrder[k] \in up /\ ShutdownOrder[k] # "background"
                                         /\ ShutdownOrder[k] \notin cancelled => ShutdownOrder[k] \in up'
    BY ShutdownFacts DEF Local
  <2>3. "upnp" \in enabled => "upnp" \in up'
    BY DEF StopInv, Local, Core
  <2> QED
    BY <1>1, <2>1, <2>2, <2>3 DEF StopInv, Local
<1>5. FailInv'
  <2> SUFFICES ASSUME run.failed PROVE FailInv'
    BY <1>1 DEF FailInv
  <2>1. \A s \in Service : svc'[s] = "off" /\ shut'[s] = "off"
    BY DEF FailInv, Local
  <2>2. cancelled' = cancelled /\ up' \subseteq up
    <3>1. \A s \in Service : svc[s] = "off" /\ shut[s] = "off"
      BY DEF FailInv
    <3> QED
      BY <3>1 DEF Local
  <2>3. \A c \in Core : c \in up \ up' => c = "disk" /\ c \in cancelled
    BY DEF FailInv, Local
  <2>4. DependenciesUp'
    <3>1. ASSUME NEW c \in (up' \cap Component) \ cancelled', NEW d \in DependsOn[c] \ Service
          PROVE  d \in up'
      <4>1. d \in up /\ d \in Core
        BY <3>1, <2>2 DEF FailInv, DependenciesUp
      <4>2. c # "background"
        BY <3>1, <2>2 DEF FailInv
      <4> QED
        BY <4>1, <4>2, <2>3
    <3> QED
      BY <3>1 DEF DependenciesUp
  <2> QED
    BY <1>1, <2>1, <2>2, <2>4 DEF FailInv
<1>6. JoinInv'
  BY <1>1 DEF JoinInv, Local, Order
<1>7. EndInv'
  BY <1>1 DEF EndInv, Local, Core
<1> QED
  BY <1>2, <1>3, <1>4, <1>5, <1>6, <1>7

(***************************************************************************)
(* The steps of Run                                                        *)
(***************************************************************************)

\* What Run comes to next while it starts.
LEMMA StartPlace ==
  ASSUME StartInv, EnabledInv, run.pc = "start", NEW k \in 1 .. 9, NextDue(k)
  PROVE  /\ StartOrder[k] \in enabled /\ StartOrder[k] \notin up /\ k > run.at
         /\ \A j \in 1 .. 9 : j < k /\ StartOrder[j] \in enabled /\ StartOrder[j] # "background"
               => StartOrder[j] \in up
<1>1. Order = StartOrder /\ ~run.failed
  BY DEF Order, StartInv
<1>2. /\ StartOrder[k] \in enabled /\ k > run.at
      /\ \A j \in 1 .. 9 : run.at < j /\ j < k => StartOrder[j] \notin enabled
  BY <1>1, StartFacts DEF NextDue, Due
<1> QED
  BY <1>2 DEF StartInv

\* A component that starts finds up what it depends on.
LEMMA StartNextPlaces ==
  ASSUME TypeOK, EnabledInv, ShutInv, Places, StartNext PROVE Places' /\ EnabledInv' /\ ShutInv'
<1> USE GraphFacts, StartFacts
<1>1. PICK k \in 1 .. 9 :
        /\ NextDue(k) /\ run' = [run EXCEPT !.at = k]
        /\ up' = (IF StartOrder[k] = "background" /\ "dht" \notin enabled THEN up ELSE up \cup {StartOrder[k]})
  BY DEF StartNext
<1>2. run.pc = "start" /\ UNCHANGED <<enabled, cancelled, svc, shut>>
  BY DEF StartNext, serviceVars
<1>3. /\ StartOrder[k] \in enabled /\ StartOrder[k] \notin up /\ k > run.at
      /\ \A j \in 1 .. 9 : j < k /\ StartOrder[j] \in enabled /\ StartOrder[j] # "background"
            => StartOrder[j] \in up
  BY <1>1, <1>2, StartPlace DEF Places
<1>4. run'.pc = "start" /\ run'.at = k /\ run'.failed = run.failed
  BY <1>1, <1>2 DEF TypeOK, RunTyped
<1>5. StartInv'
  <2>1. ASSUME NEW j \in 1 .. 9
        PROVE  /\ j <= k /\ StartOrder[j] \in enabled /\ StartOrder[j] # "background" => StartOrder[j] \in up'
               /\ j > k => StartOrder[j] \notin up'
    <3>1. j > k => StartOrder[j] \notin up /\ StartOrder[j] # StartOrder[k]
      BY <1>2, <1>3 DEF Places, StartInv, TypeOK, RunTyped
    <3>2. j = k /\ StartOrder[j] # "background" => StartOrder[j] \in up'
      BY <1>1
    <3>3. j < k /\ StartOrder[j] \in enabled /\ StartOrder[j] # "background" => StartOrder[j] \in up'
      BY <1>1, <1>3
    <3> QED
      BY <1>1, <3>1, <3>2, <3>3
  <2>2. up' \subseteq Core
    BY <1>1, <1>2 DEF Places, StartInv
  <2> QED
    BY <1>2, <1>4, <2>1, <2>2 DEF Places, StartInv
<1>6. EnabledInv' /\ ShutInv'
  <2>1. up' \subseteq enabled /\ up' \subseteq Core \cup Service
    BY <1>1, <1>3 DEF EnabledInv
  <2>2. EnabledInv'
    BY <1>2, <2>1 DEF EnabledInv
  <2>3. ShutInv'
    BY <1>2, <1>4 DEF ShutInv, Enabled
  <2> QED
    BY <2>2, <2>3
<1>7. ServeInv' /\ StopInv' /\ EndInv' /\ FailInv' /\ JoinInv'
  BY <1>2, <1>4 DEF Places, StartInv, ServeInv, StopInv, EndInv, FailInv, JoinInv
<1> QED
  BY <1>5, <1>6, <1>7 DEF Places

\* While Run starts, what is up has its dependencies.
LEMMA StartDependencies ==
  ASSUME EnabledInv, StartInv, run.pc = "start" PROVE DependenciesUp
<1> SUFFICES ASSUME NEW c \in up \cap Component, NEW d \in DependsOn[c] \ Service PROVE d \in up
  BY DEF DependenciesUp
<1>1. PICK i \in 1 .. 9 : StartOrder[i] = c
  BY StartFacts DEF StartInv
<1>2. i <= run.at
  BY <1>1 DEF StartInv
<1>3. PICK j \in 1 .. 9 : j < i /\ StartOrder[j] = d
  BY <1>1, StartFacts
<1>4. d \in enabled /\ d # "background"
  BY GraphFacts DEF EnabledInv
<1>5. j <= run.at
  BY <1>2, <1>3 DEF StartInv
<1> QED
  BY <1>3, <1>4, <1>5 DEF StartInv

\* A start that fails leaves what was started before to be closed.
LEMMA StartFailsPlaces ==
  ASSUME TypeOK, EnabledInv, ShutInv, Places, StartFails PROVE Places' /\ EnabledInv' /\ ShutInv'
<1> USE StartFacts
<1>1. PICK k \in 1 .. 9 : NextDue(k) /\ StartOrder[k] \in {"database", "blobs", "wallet", "dht"}
  BY DEF StartFails
<1>2. /\ run.pc = "start" /\ UNCHANGED <<enabled, up, cancelled, svc, shut>>
      /\ run' = [pc |-> "stop", at |-> 0, failed |-> TRUE]
  BY DEF StartFails, stateVars
<1>3. k <= 7 /\ k > run.at
  BY <1>1, <1>2, StartPlace DEF Places
<1>4. up \subseteq {"upnp", "database", "blobs", "disk", "wallet", "exchange"}
  <2> SUFFICES ASSUME NEW c \in up PROVE c \in {"upnp", "database", "blobs", "disk", "wallet", "exchange"}
    OBVIOUS
  <2>1. PICK i \in 1 .. 9 : StartOrder[i] = c
    BY <1>2 DEF Places, StartInv
  <2>2. i <= run.at /\ run.at \in 0 .. 9
    BY <1>2, <2>1 DEF Places, StartInv
  <2>3. i \in 1 .. 6
    BY <1>3, <2>2
  <2> QED
    BY <2>1, <2>3
<1>5. DependenciesUp'
  BY <1>2, StartDependencies DEF Places, DependenciesUp
<1>6. FailInv'
  BY <1>2, <1>4, <1>5 DEF Places, StartInv, FailInv
<1>7. EnabledInv' /\ ShutInv'
  BY <1>2 DEF EnabledInv, ShutInv, Enabled
<1>8. StartInv' /\ ServeInv' /\ StopInv' /\ EndInv' /\ JoinInv'
  BY <1>2 DEF StartInv, ServeInv, StopInv, EndInv, JoinInv
<1> QED
  BY <1>6, <1>7, <1>8 DEF Places

\* Everything that is enabled has been started when the services begin.
LEMMA ServeAllPlaces ==
  ASSUME TypeOK, EnabledInv, ShutInv, Places, ServeAll PROVE Places' /\ EnabledInv' /\ ShutInv'
<1> USE StartFacts, GraphFacts
<1>1. /\ run.pc = "start" /\ NoneDue /\ ~run.failed /\ UNCHANGED <<enabled, up, cancelled, shut>>
      /\ run' = [run EXCEPT !.pc = "select"]
  BY DEF ServeAll, stateVars, Places, StartInv
<1>2. run'.pc = "select" /\ run'.failed = run.failed
  BY <1>1 DEF TypeOK, RunTyped
<1>3. CoreUp
  <2>1. \A k \in 1 .. 9 : k > run.at => StartOrder[k] \notin enabled
    BY <1>1 DEF NoneDue, Due, Order
  <2> QED
    BY <1>1, <2>1 DEF CoreUp, Places, StartInv
<1>4. ServeInv'
  BY <1>1, <1>2, <1>3 DEF ServeInv, CoreUp, Places, StartInv
<1>5. \A s \in Service : svc'[s] # "off" => s \in enabled
  BY DEF ServeAll
<1>6. EnabledInv'
  BY <1>1, <1>5 DEF EnabledInv
<1>7. ShutInv'
  BY <1>1, <1>2 DEF ShutInv
<1>8. StartInv' /\ StopInv' /\ EndInv' /\ JoinInv' /\ FailInv'
  BY <1>1, <1>2 DEF StartInv, StopInv, EndInv, JoinInv, FailInv
<1> QED
  BY <1>4, <1>6, <1>7, <1>8 DEF Places

\* The first steps of Shutdown leave the core alone.
LEMMA ShutdownPlaces ==
  ASSUME TypeOK, EnabledInv, ShutInv, Places, ShutdownBegin \/ ShutdownServices
  PROVE  Places' /\ EnabledInv' /\ ShutInv'
<1>1. /\ run.pc \in {"select", "monitor"} /\ UNCHANGED <<enabled, up, svc>>
      /\ cancelled' \in {cancelled, cancelled \cup {"monitor"}}
      /\ \E pc \in {"monitor", "collect"} : run' = [run EXCEPT !.pc = pc]
      /\ \A s \in Service : \/ shut'[s] = shut[s]
                            \/ shut'[s] = "off" \/ (shut'[s] = "cancel" /\ s \in enabled)
  BY DEF ShutdownBegin, ShutdownServices, stateVars, serviceVars
<1>2. run'.pc \in {"monitor", "collect"} /\ run'.failed = run.failed /\ ~run.failed
  BY <1>1 DEF TypeOK, RunTyped, Places, ServeInv
<1>3. "monitor" \notin Core
  BY DEF Core
<1>4. ServeInv'
  BY <1>1, <1>2, <1>3 DEF ServeInv, CoreUp, Places
<1>5. EnabledInv' /\ ShutInv'
  BY <1>1, <1>2 DEF EnabledInv, ShutInv
<1>6. StartInv' /\ StopInv' /\ EndInv' /\ JoinInv' /\ FailInv'
  BY <1>1, <1>2 DEF StartInv, StopInv, EndInv, JoinInv, FailInv
<1> QED
  BY <1>4, <1>5, <1>6 DEF Places

\* Run stops the core once every service's context has ended.
LEMMA CollectedPlaces ==
  ASSUME TypeOK, EnabledInv, ShutInv, Places, ShutdownCollected
  PROVE  Places' /\ EnabledInv' /\ ShutInv'
<1>1. /\ run.pc = "collect" /\ UNCHANGED <<enabled, up, cancelled, svc, shut>>
      /\ run' = [run EXCEPT !.pc = "stop", !.at = 0]
      /\ \A s \in Enabled : shut[s] = "done"
  BY DEF ShutdownCollected, stateVars
<1>2. run'.pc = "stop" /\ run'.at = 0 /\ run'.failed = run.failed /\ ~run.failed
  BY <1>1 DEF TypeOK, RunTyped, Places, ServeInv
<1>3. EnabledInv'
  BY <1>1 DEF EnabledInv
<1>4. ShutInv'
  <2>1. \A s \in Enabled : s \in cancelled
    BY <1>1 DEF ShutInv, Enabled
  <2>2. \A s \in Service : shut[s] \in {"off", "done"}
    BY <1>1 DEF EnabledInv, Enabled
  <2> QED
    BY <1>1, <2>1, <2>2 DEF ShutInv, Enabled
<1>5. StopInv'
  <2>1. CoreUp /\ cancelled \cap Core = {}
    BY <1>1 DEF Places, ServeInv
  <2>2. "upnp" \in Core /\ "upnp" # "background"
    BY DEF Core
  <2>3. \A k \in 1 .. 8 : ShutdownOrder[k] \in Core
    BY ShutdownFacts
  <2> QED
    BY <1>1, <1>2, <2>1, <2>2, <2>3 DEF StopInv, CoreUp
<1>6. StartInv' /\ ServeInv' /\ EndInv' /\ JoinInv' /\ FailInv'
  BY <1>1, <1>2 DEF StartInv, ServeInv, EndInv, JoinInv, FailInv
<1> QED
  BY <1>3, <1>4, <1>5, <1>6 DEF Places

\* The next component of a shutdown has what it depends on behind it.
LEMMA StopNextPlaces ==
  ASSUME TypeOK, EnabledInv, ShutInv, Places, StopNext, ~run.failed
  PROVE  Places' /\ EnabledInv' /\ ShutInv'
<1> USE ShutdownFacts
<1>1. run.pc = "stop" /\ Order = ShutdownOrder /\ UNCHANGED <<enabled, svc, shut>>
  BY DEF StopNext, Order, serviceVars
<1>2. PICK k \in 1 .. 8 :
        /\ NextDue(k)
        /\ \/ /\ ShutdownOrder[k] \in Worker
              /\ cancelled' = cancelled \cup {ShutdownOrder[k]} /\ up' = up
              /\ run' = [run EXCEPT !.pc = "join", !.at = k]
           \/ /\ ShutdownOrder[k] \notin Worker
              /\ cancelled' = cancelled /\ up' = up \ {ShutdownOrder[k]}
              /\ run' = [run EXCEPT !.at = k]
  BY <1>1 DEF StopNext
<1>3. /\ run'.at = k /\ run'.failed = run.failed
      /\ run'.pc = IF ShutdownOrder[k] \in Worker THEN "join" ELSE "stop"
  BY <1>1, <1>2 DEF TypeOK, RunTyped
<1>4. k > run.at /\ \A j \in 1 .. 8 : run.at < j /\ j < k => ShutdownOrder[j] \notin enabled
  BY <1>1, <1>2 DEF NextDue, Due
<1>5. StopInv'
  <2>1. run.at \in 0 .. 8 /\ run.at < k
    BY <1>1, <1>4 DEF Places, StopInv
  <2>2. ASSUME NEW j \in 1 .. 8, j > k
        PROVE  /\ ShutdownOrder[j] \in enabled /\ ShutdownOrder[j] # "background" => ShutdownOrder[j] \in up'
               /\ ShutdownOrder[j] \notin cancelled'
    <3>1. ShutdownOrder[j] # ShutdownOrder[k] /\ j > run.at
      BY <2>1, <2>2
    <3> QED
      BY <1>1, <1>2, <3>1 DEF Places, StopInv
  <2>3. ASSUME NEW j \in 1 .. 8, j <= k
        PROVE  ShutdownOrder[j] \notin up' \/ (ShutdownOrder[j] \in Worker /\ ShutdownOrder[j] \in cancelled')
    <3>1. CASE j <= run.at
      BY <1>1, <1>2, <3>1 DEF Places, StopInv
    <3>2. CASE run.at < j /\ j < k
      <4>1. ShutdownOrder[j] \notin up
        BY <1>4, <3>2 DEF EnabledInv
      <4> QED
        BY <1>2, <4>1
    <3>3. CASE j = k
      BY <1>2, <3>3
    <3> QED
      BY <2>1, <2>3, <3>1, <3>2, <3>3
  <2>4. "upnp" # ShutdownOrder[k]
    OBVIOUS
  <2>5. ("upnp" \in enabled => "upnp" \in up') /\ "upnp" \notin cancelled'
    BY <1>1, <1>2, <2>4 DEF Places, StopInv
  <2> QED
    BY <1>1, <1>3, <2>2, <2>3, <2>5 DEF StopInv
<1>6. EnabledInv' /\ ShutInv'
  <2>1. up' \subseteq up /\ cancelled \subseteq cancelled'
    BY <1>2
  <2>2. EnabledInv'
    BY <1>1, <2>1 DEF EnabledInv
  <2>3. ShutInv'
    BY <1>1, <1>3, <2>1 DEF ShutInv, Enabled
  <2> QED
    BY <2>2, <2>3
<1>7. JoinInv'
  BY <1>2, <1>3 DEF JoinInv, Order
<1>8. StartInv' /\ ServeInv' /\ EndInv' /\ FailInv'
  BY <1>3 DEF StartInv, ServeInv, EndInv, FailInv
<1> QED
  BY <1>5, <1>6, <1>7, <1>8 DEF Places

\* So has the next one that a failed start closes.
LEMMA CleanupPlaces ==
  ASSUME TypeOK, EnabledInv, ShutInv, Places, StopNext, run.failed
  PROVE  Places' /\ EnabledInv' /\ ShutInv'
<1> USE CleanupFacts
<1>1. run.pc = "stop" /\ Order = Cleanup /\ UNCHANGED <<enabled, svc, shut>>
  BY DEF StopNext, Order, serviceVars
<1>2. PICK k \in 1 .. 4 :
        /\ NextDue(k)
        /\ \/ /\ Cleanup[k] \in Worker
              /\ cancelled' = cancelled \cup {Cleanup[k]} /\ up' = up
              /\ run' = [run EXCEPT !.pc = "join", !.at = k]
           \/ /\ Cleanup[k] \notin Worker
              /\ cancelled' = cancelled /\ up' = up \ {Cleanup[k]}
              /\ run' = [run EXCEPT !.at = k]
  BY <1>1 DEF StopNext
<1>3. /\ run'.at = k /\ run'.failed = run.failed
      /\ run'.pc = IF Cleanup[k] \in Worker THEN "join" ELSE "stop"
  BY <1>1, <1>2 DEF TypeOK, RunTyped
<1>4. k > run.at /\ \A j \in 1 .. 4 : run.at < j /\ j < k => Cleanup[j] \notin up
  BY <1>1, <1>2 DEF NextDue, Due
<1>5. run.at \in 0 .. 4 /\ run.at < k
  BY <1>4 DEF Places, FailInv
<1>6. up' \subseteq up /\ cancelled \subseteq cancelled'
  BY <1>2
<1>7. \A j \in 1 .. 4 : j < k => Cleanup[j] \notin up \/ (Cleanup[j] \in Worker /\ Cleanup[j] \in cancelled)
  <2> SUFFICES ASSUME NEW j \in 1 .. 4, j < k
               PROVE  Cleanup[j] \notin up \/ (Cleanup[j] \in Worker /\ Cleanup[j] \in cancelled)
    OBVIOUS
  <2>1. CASE j <= run.at
    BY <2>1 DEF Places, FailInv
  <2>2. CASE run.at < j
    BY <1>4, <2>2
  <2> QED
    BY <1>5, <2>1, <2>2
<1>8. DependenciesUp'
  <2> SUFFICES ASSUME NEW c \in (up' \cap Component) \ cancelled', NEW d \in DependsOn[c] \ Service
               PROVE  d \in up'
    BY DEF DependenciesUp
  <2>1. c \in up \ cancelled /\ d \in up
    BY <1>6 DEF Places, FailInv, DependenciesUp
  <2>2. c \in {"upnp", "database", "blobs", "disk", "wallet", "exchange"}
    BY <2>1 DEF Places, FailInv
  <2>3. c \in {"database", "blobs", "disk", "wallet"}
    BY <2>2, GraphFacts
  <2>4. PICK j \in 1 .. 4 : Cleanup[j] = c
    BY <2>3
  <2>5. PICK i \in 1 .. 4 : i > j /\ Cleanup[i] = d
    BY <2>4
  <2>6. ~(j < k)
    BY <1>7, <2>1, <2>4
  <2>7. i # k
    BY <2>5, <2>6
  <2> QED
    BY <1>2, <2>1, <2>5, <2>7
<1>9. FailInv'
  <2>1. \A j \in 1 .. 4 : j <= k => Cleanup[j] \notin up' \/ (Cleanup[j] \in Worker /\ Cleanup[j] \in cancelled')
    <3> SUFFICES ASSUME NEW j \in 1 .. 4, j <= k
                 PROVE  Cleanup[j] \notin up' \/ (Cleanup[j] \in Worker /\ Cleanup[j] \in cancelled')
      OBVIOUS
    <3>1. CASE j = k
      BY <1>2, <3>1
    <3>2. CASE j < k
      BY <1>6, <1>7, <3>2
    <3> QED
      BY <3>1, <3>2
  <2>2. up' \subseteq {"upnp", "database", "blobs", "disk", "wallet", "exchange"}
    BY <1>6 DEF Places, FailInv
  <2>3. \A s \in Service : svc'[s] = "off" /\ shut'[s] = "off"
    BY <1>1 DEF Places, FailInv
  <2> QED
    BY <1>3, <1>8, <2>1, <2>2, <2>3 DEF FailInv
<1>10. EnabledInv' /\ ShutInv'
  <2>1. EnabledInv'
    BY <1>1, <1>6 DEF EnabledInv
  <2>2. ShutInv'
    BY <1>1, <1>3, <1>6 DEF ShutInv
  <2> QED
    BY <2>1, <2>2
<1>11. JoinInv'
  BY <1>2, <1>3 DEF JoinInv, Order
<1>12. StartInv' /\ ServeInv' /\ StopInv' /\ EndInv'
  BY <1>3 DEF StartInv, ServeInv, StopInv, EndInv
<1> QED
  BY <1>9, <1>10, <1>11, <1>12 DEF Places

\* A worker has ended or is given up: either way it has been told to end.
LEMMA StopJoinPlaces ==
  ASSUME TypeOK, EnabledInv, ShutInv, Places, StopJoin PROVE Places' /\ EnabledInv' /\ ShutInv'
<1>1. run.pc = "join" /\ run' = [run EXCEPT !.pc = "stop"] /\ UNCHANGED <<enabled, up, cancelled, svc, shut>>
  BY DEF StopJoin, serviceVars
<1>2. run'.pc = "stop" /\ run'.at = run.at /\ run'.failed = run.failed
  BY <1>1 DEF TypeOK, RunTyped
<1>3. EnabledInv' /\ ShutInv'
  BY <1>1, <1>2 DEF EnabledInv, ShutInv, Enabled
<1>4. StopInv'
  BY <1>1, <1>2 DEF Places, StopInv
<1>5. FailInv'
  BY <1>1, <1>2 DEF Places, FailInv, DependenciesUp
<1>6. StartInv' /\ ServeInv' /\ JoinInv' /\ EndInv'
  BY <1>2 DEF StartInv, ServeInv, JoinInv, EndInv
<1> QED
  BY <1>3, <1>4, <1>5, <1>6 DEF Places

\* Nothing is left to stop: the stores are closed.
LEMMA StopAllPlaces ==
  ASSUME TypeOK, EnabledInv, ShutInv, Places, StopAll PROVE Places' /\ EnabledInv' /\ ShutInv'
<1>1. /\ run.pc = "stop" /\ NoneDue /\ UNCHANGED <<enabled, up, cancelled, svc, shut>>
      /\ run' = [run EXCEPT !.pc = IF run.failed THEN "returned" ELSE "drain"]
  BY DEF StopAll, serviceVars
<1>2. /\ run'.pc \in {"drain", "returned"} /\ run'.at = run.at /\ run'.failed = run.failed
      /\ run.failed => run'.pc = "returned"
  BY <1>1 DEF TypeOK, RunTyped
<1>3. \A c \in {"database", "blobs", "wallet", "disk"} :
        c \notin up \/ (c \in Worker /\ c \in cancelled)
  <2> SUFFICES ASSUME NEW c \in {"database", "blobs", "wallet", "disk"}
               PROVE  c \notin up \/ (c \in Worker /\ c \in cancelled)
    OBVIOUS
  <2>1. CASE run.failed
    <3>1. PICK k \in 1 .. 4 : Cleanup[k] = c
      BY CleanupFacts
    <3>2. k > run.at => c \notin up
      BY <1>1, <2>1, <3>1, CleanupFacts DEF NoneDue, Due, Order
    <3>3. k <= run.at => c \notin up \/ (c \in Worker /\ c \in cancelled)
      BY <2>1, <3>1 DEF Places, FailInv
    <3> QED
      BY <2>1, <3>2, <3>3 DEF Places, FailInv
  <2>2. CASE ~run.failed
    <3>1. PICK k \in 1 .. 8 : ShutdownOrder[k] = c
      BY ShutdownFacts DEF Core
    <3>2. k > run.at => c \notin up
      BY <1>1, <2>2, <3>1, ShutdownFacts DEF NoneDue, Due, Order, EnabledInv
    <3>3. k <= run.at => c \notin up \/ (c \in Worker /\ c \in cancelled)
      BY <1>1, <2>2, <3>1 DEF Places, StopInv
    <3> QED
      BY <1>1, <2>2, <3>2, <3>3 DEF Places, StopInv
  <2> QED
    BY <2>1, <2>2
<1>4. ASSUME NEW c \in up \cap Core PROVE c \in cancelled \cup {"upnp", "exchange"}
  <2>1. CASE run.failed
    BY <1>3, <2>1 DEF Places, FailInv
  <2>2. CASE ~run.failed
    <3> SUFFICES ASSUME c # "upnp" PROVE c \in cancelled
      OBVIOUS
    <3>1. PICK k \in 1 .. 8 : ShutdownOrder[k] = c
      BY ShutdownFacts
    <3>2. ~(k > run.at)
      BY <1>1, <2>2, <3>1, ShutdownFacts DEF NoneDue, Due, Order, EnabledInv
    <3> QED
      BY <1>1, <2>2, <3>1, <3>2 DEF Places, StopInv
  <2> QED
    BY <2>1, <2>2
<1>5. EndInv'
  <2>1. up \cap {"database", "blobs", "wallet"} = {}
    BY <1>3 DEF Worker
  <2> QED
    BY <1>1, <1>4, <2>1 DEF EndInv
<1>6. EnabledInv' /\ ShutInv'
  BY <1>1, <1>2 DEF EnabledInv, ShutInv, Enabled
<1>7. FailInv'
  BY <1>1, <1>2 DEF Places, FailInv, DependenciesUp
<1>8. StartInv' /\ ServeInv' /\ StopInv' /\ JoinInv'
  BY <1>2 DEF StartInv, ServeInv, StopInv, JoinInv
<1> QED
  BY <1>5, <1>6, <1>7, <1>8 DEF Places

\* Run returns with everything down.
LEMMA ReturnPlaces ==
  ASSUME TypeOK, EnabledInv, ShutInv, Places, RunReturn PROVE Places' /\ EnabledInv' /\ ShutInv'
<1>1. run.pc = "drain" /\ run' = [run EXCEPT !.pc = "returned"] /\ UNCHANGED <<enabled, up, cancelled, svc, shut>>
  BY DEF RunReturn, serviceVars, stateVars
<1>2. run'.pc = "returned" /\ run'.failed = run.failed /\ ~run.failed
  BY <1>1 DEF TypeOK, RunTyped, Places, FailInv
<1>3. EnabledInv' /\ ShutInv'
  BY <1>1, <1>2 DEF EnabledInv, ShutInv, Enabled
<1>4. EndInv'
  BY <1>1 DEF Places, EndInv
<1>5. StartInv' /\ ServeInv' /\ StopInv' /\ JoinInv' /\ FailInv'
  BY <1>2 DEF StartInv, ServeInv, StopInv, JoinInv, FailInv
<1> QED
  BY <1>3, <1>4, <1>5 DEF Places

\* Every step keeps the places.
LEMMA PlacesStep ==
  ASSUME TypeOK, EnabledInv, ShutInv, Places, [Next]_vars PROVE Places' /\ EnabledInv' /\ ShutInv'
<1>1. CASE Local
  BY <1>1, LocalRest, LocalPlaces
<1>2. CASE RunAction
  <2>1. CASE StopNext
    BY <2>1, StopNextPlaces, CleanupPlaces
  <2> QED
    BY <1>2, <2>1, StartNextPlaces, StartFailsPlaces, ServeAllPlaces, ShutdownPlaces, CollectedPlaces,
       StopJoinPlaces, StopAllPlaces, ReturnPlaces DEF RunAction, RunStep
<1> QED
  BY <1>1, <1>2, StepKinds

(***************************************************************************)
(* What the invariant says of the shutdown                                 *)
(***************************************************************************)

\* In every part of Run, what works has what it depends on.
LEMMA PlacesDependencies ==
  ASSUME TypeOK, EnabledInv, ShutInv, Places PROVE DependenciesUp
<1>1. CASE run.pc = "start"
  BY <1>1, StartDependencies DEF Places
<1>2. CASE run.failed
  BY <1>2 DEF Places, FailInv
<1>3. CASE run.pc # "start" /\ ~run.failed
  <2> SUFFICES ASSUME NEW c \in (up \cap Component) \ cancelled, NEW d \in DependsOn[c] \ Service
               PROVE  d \in up
    BY DEF DependenciesUp
  <2>1. d \in enabled /\ d \in Core /\ d # "background" /\ c \in enabled
    BY GraphFacts DEF EnabledInv
  <2>2. CASE run.pc \in {"select", "monitor", "collect"}
    BY <2>1, <2>2 DEF Places, ServeInv, CoreUp
  <2>3. CASE run.pc \notin {"start", "select", "monitor", "collect"}
    <3>1. c \in Core \ {"upnp", "exchange"}
      <4>1. c \notin Service
        BY <1>3, <2>1, <2>3 DEF ShutInv, Enabled
      <4> QED
        BY <4>1, GraphFacts
    <3>2. run.pc \in {"stop", "join"}
      <4>1. run.pc \notin {"drain", "returned"}
        BY <3>1 DEF Places, EndInv
      <4> QED
        BY <2>3, <4>1 DEF TypeOK, RunTyped, RunPhase
    <3>3. PICK k \in 1 .. 8 : ShutdownOrder[k] = c
      BY <3>1, ShutdownFacts
    <3>4. k > run.at /\ run.at \in 0 .. 8
      BY <1>3, <3>2, <3>3 DEF Places, StopInv
    <3>5. CASE d = "upnp"
      BY <1>3, <2>1, <3>2, <3>5 DEF Places, StopInv
    <3>6. CASE d # "upnp"
      <4>1. PICK j \in 1 .. 8 : j > k /\ ShutdownOrder[j] = d
        BY <3>3, <3>6, ShutdownFacts
      <4>2. j > run.at
        BY <3>4, <4>1
      <4> QED
        BY <1>3, <2>1, <3>2, <4>1, <4>2 DEF Places, StopInv
    <3> QED
      BY <3>5, <3>6
  <2> QED
    BY <1>3, <2>2, <2>3
<1> QED
  BY <1>1, <1>2, <1>3

\* When Run returns, the stores are closed and every report is taken back.
LEMMA CleanReturn ==
  ASSUME TypeOK, EnabledInv, Places, ReportInv PROVE ReturnsClean
<1> SUFFICES ASSUME run.pc = "returned"
             PROVE  up \cap {"database", "blobs", "wallet"} = {} /\ (~run.failed => reported = {})
  BY DEF ReturnsClean
<1>1. up \cap {"database", "blobs", "wallet"} = {}
  BY DEF Places, EndInv
<1>2. ASSUME ~run.failed PROVE reported = {}
  <2>1. \A s \in Service : svc[s] \notin {"accept", "serve", "join", "end"}
    BY <1>2 DEF ReportInv, EnabledInv, Enabled
  <2> QED
    BY <1>2, <2>1 DEF ReportInv, Reporting
<1> QED
  BY <1>1, <1>2

\* Types.
LEMMA TypeStep ==
  ASSUME TypeOK, [Next]_vars PROVE TypeOK'
<1> USE DEF TypeOK, RunTyped, ServicesTyped, RunPhase, SvcPhase, ShutPhase, BgRecord
<1>1. ASSUME StartNext PROVE TypeOK'
  BY <1>1, StartFacts DEF runVars, stateVars, serviceVars, walletVars, StartNext
<1>2. ASSUME StartFails PROVE TypeOK'
  BY <1>2 DEF runVars, stateVars, serviceVars, walletVars, StartFails
<1>3. ASSUME ServeAll PROVE TypeOK'
  BY <1>3 DEF runVars, stateVars, serviceVars, walletVars, ServeAll
<1>4. ASSUME ShutdownBegin PROVE TypeOK'
  BY <1>4 DEF runVars, stateVars, serviceVars, walletVars, ShutdownBegin
<1>5. ASSUME ShutdownServices PROVE TypeOK'
  BY <1>5 DEF runVars, stateVars, serviceVars, walletVars, ShutdownServices
<1>6. ASSUME ShutdownCollected PROVE TypeOK'
  BY <1>6 DEF runVars, stateVars, serviceVars, walletVars, ShutdownCollected
<1>7. ASSUME StopNext PROVE TypeOK'
  <2>1. PICK k \in DOMAIN Order : run' \in {[run EXCEPT !.at = k], [run EXCEPT !.pc = "join", !.at = k]}
    BY <1>7 DEF StopNext
  <2>2. k \in Nat
    <3>1. k \in 1 .. 9 \/ k \in 1 .. 8 \/ k \in 1 .. 4
      BY <2>1, StartFacts, ShutdownFacts, CleanupFacts DEF Order
    <3> QED
      BY <3>1
  <2>3. RunTyped'
    <3>1. ASSUME run' = [run EXCEPT !.at = k] PROVE RunTyped'
      BY <2>2, <3>1
    <3>2. ASSUME run' = [run EXCEPT !.pc = "join", !.at = k] PROVE RunTyped'
      BY <2>2, <3>2
    <3> QED
      BY <2>1, <3>1, <3>2
  <2>4. UNCHANGED <<svc, shut, bg, monitor>>
    BY <1>7 DEF StopNext, serviceVars, walletVars
  <2> QED
    BY <2>3, <2>4
<1>8. ASSUME StopJoin PROVE TypeOK'
  BY <1>8 DEF runVars, stateVars, serviceVars, walletVars, StopJoin
<1>9. ASSUME StopAll PROVE TypeOK'
  BY <1>9 DEF runVars, stateVars, serviceVars, walletVars, StopAll
<1>10. ASSUME RunReturn PROVE TypeOK'
  BY <1>10 DEF runVars, stateVars, serviceVars, walletVars, RunReturn
<1>11. ASSUME Signal PROVE TypeOK'
  BY <1>11 DEF runVars, stateVars, serviceVars, walletVars, Signal
<1>12. ASSUME StartupCompletes PROVE TypeOK'
  BY <1>12 DEF runVars, stateVars, serviceVars, walletVars, StartupCompletes
<1>13. ASSUME MonitorReceives PROVE TypeOK'
  BY <1>13 DEF runVars, stateVars, serviceVars, walletVars, MonitorReceives
<1>14. ASSUME MonitorMarks PROVE TypeOK'
  BY <1>14 DEF runVars, stateVars, serviceVars, walletVars, MonitorMarks
<1>15. ASSUME MonitorEnds PROVE TypeOK'
  BY <1>15 DEF runVars, stateVars, serviceVars, walletVars, MonitorEnds
<1>16. ASSUME DiskClean PROVE TypeOK'
  BY <1>16 DEF runVars, stateVars, serviceVars, walletVars, DiskClean
<1>17. ASSUME DiskEnds PROVE TypeOK'
  BY <1>17 DEF runVars, stateVars, serviceVars, walletVars, DiskEnds
<1>18. ASSUME BgPoll PROVE TypeOK'
  <2>1. UNCHANGED <<run, svc, shut, monitor>>
    BY <1>18 DEF BgPoll, runVars, serviceVars, walletVars
  <2>2. bg' \in BgRecord
    <3>1. ASSUME BgLeave PROVE bg' \in BgRecord
      BY <3>1 DEF BgLeave
    <3>2. ASSUME bg' = [bg EXCEPT !.pc = "select"] PROVE bg' \in BgRecord
      BY <3>2
    <3>3. ASSUME bg' = [pc |-> "select", ongoing |-> TRUE, worker |-> "run"] PROVE bg' \in BgRecord
      BY <3>3
    <3> QED
      BY <1>18, <3>1, <3>2, <3>3 DEF BgPoll
  <2> QED
    BY <2>1, <2>2
<1>19. ASSUME BgTick PROVE TypeOK'
  BY <1>19 DEF runVars, stateVars, serviceVars, walletVars, BgTick
<1>20. ASSUME BgDownloaded PROVE TypeOK'
  BY <1>20 DEF runVars, stateVars, serviceVars, walletVars, BgDownloaded
<1>21. ASSUME BgFinish PROVE TypeOK'
  BY <1>21 DEF runVars, stateVars, serviceVars, walletVars, BgFinish
<1>22. ASSUME BgCancelled PROVE TypeOK'
  BY <1>22 DEF runVars, stateVars, serviceVars, walletVars, BgLeave, BgCancelled
<1>23. ASSUME BgJoin PROVE TypeOK'
  BY <1>23 DEF runVars, stateVars, serviceVars, walletVars, BgJoin
<1>24. ASSUME NEW s \in Service, SvcGate(s) PROVE TypeOK'
  BY <1>24 DEF runVars, stateVars, serviceVars, walletVars, Goto, SvcGate
<1>25. ASSUME NEW s \in Service, SvcFindsWallet(s) PROVE TypeOK'
  BY <1>25 DEF runVars, stateVars, serviceVars, walletVars, Goto, SvcFindsWallet
<1>26. ASSUME NEW s \in Service, SvcStart(s) PROVE TypeOK'
  BY <1>26 DEF runVars, stateVars, serviceVars, walletVars, Goto, SvcStart
<1>27. ASSUME NEW s \in Service, SvcReport(s) PROVE TypeOK'
  BY <1>27 DEF runVars, stateVars, serviceVars, walletVars, Goto, SvcReport
<1>28. ASSUME NEW s \in Service, SvcAccept(s) PROVE TypeOK'
  BY <1>28 DEF runVars, stateVars, serviceVars, walletVars, Goto, SvcAccept
<1>29. ASSUME NEW s \in Service, SvcReturns(s) PROVE TypeOK'
  BY <1>29 DEF runVars, stateVars, serviceVars, walletVars, Goto, SvcReturns
<1>30. ASSUME NEW s \in Service, SvcStop(s) PROVE TypeOK'
  BY <1>30 DEF runVars, stateVars, serviceVars, walletVars, Goto, SvcStop
<1>31. ASSUME NEW s \in Service, SvcJoin(s) PROVE TypeOK'
  BY <1>31 DEF runVars, stateVars, serviceVars, walletVars, Goto, SvcJoin
<1>32. ASSUME NEW s \in Service, SvcEnd(s) PROVE TypeOK'
  BY <1>32 DEF runVars, stateVars, serviceVars, walletVars, Goto, SvcEnd
<1>33. ASSUME NEW s \in Service, SvcStartFails(s) PROVE TypeOK'
  BY <1>33 DEF runVars, stateVars, serviceVars, walletVars, Goto, SvcStartFails
<1>34. ASSUME NEW s \in Service, ManagerEnds(s) PROVE TypeOK'
  BY <1>34 DEF runVars, stateVars, serviceVars, walletVars, ManagerEnds
<1>35. ASSUME NEW s \in Service, ShutCancel(s) PROVE TypeOK'
  BY <1>35 DEF runVars, stateVars, serviceVars, walletVars, ShutCancel
<1>36. ASSUME NEW s \in Service, ShutStop(s) PROVE TypeOK'
  BY <1>36 DEF runVars, stateVars, serviceVars, walletVars, ShutStop
<1>37. ASSUME NEW s \in Service, ShutReturns(s) PROVE TypeOK'
  BY <1>37 DEF runVars, stateVars, serviceVars, walletVars, ShutReturns
<1>38. ASSUME UNCHANGED vars PROVE TypeOK'
  BY <1>38 DEF runVars, stateVars, serviceVars, walletVars, vars
<1> QED
  BY <1>1, <1>2, <1>3, <1>4, <1>5, <1>6, <1>7, <1>8, <1>9, <1>10, <1>11, <1>12, <1>13, <1>14,
     <1>15, <1>16, <1>17, <1>18, <1>19, <1>20, <1>21, <1>22, <1>23, <1>24, <1>25, <1>26, <1>27,
     <1>28, <1>29, <1>30, <1>31, <1>32, <1>33, <1>34, <1>35, <1>36, <1>37, <1>38 DEF Next,
     RunStep, MonitorStep, ServiceStep, ShutStep, BgStep

\* The flag and the worker of the background downloader change together.
LEMMA BgInvStep ==
  ASSUME TypeOK, BgInv, Places, [Next]_vars PROVE BgInv'
<1> USE DEF TypeOK, BgInv, BgRecord
<1>1. ASSUME StartNext PROVE BgInv'
  BY <1>1 DEF runVars, stateVars, serviceVars, walletVars, StartNext
<1>2. ASSUME BgPoll PROVE BgInv'
  BY <1>2 DEF runVars, stateVars, serviceVars, walletVars, BgLeave, BgPoll
<1>3. ASSUME BgTick PROVE BgInv'
  BY <1>3 DEF runVars, stateVars, serviceVars, walletVars, BgTick
<1>4. ASSUME BgDownloaded PROVE BgInv'
  BY <1>4 DEF runVars, stateVars, serviceVars, walletVars, BgDownloaded
<1>5. ASSUME BgFinish PROVE BgInv'
  BY <1>5 DEF runVars, stateVars, serviceVars, walletVars, BgFinish
<1>6. ASSUME BgCancelled PROVE BgInv'
  BY <1>6 DEF runVars, stateVars, serviceVars, walletVars, BgLeave, BgCancelled
<1>7. ASSUME BgJoin PROVE BgInv'
  BY <1>7 DEF runVars, stateVars, serviceVars, walletVars, BgJoin
<1>8. ASSUME StartFails \/ ServeAll \/ ShutdownBegin \/ ShutdownServices \/ ShutdownCollected \/ StopNext \/
            StopJoin \/ StopAll \/ RunReturn \/ Signal \/ StartupCompletes \/ MonitorReceives \/ MonitorMarks
            \/ MonitorEnds \/ DiskClean \/ DiskEnds
       PROVE BgInv'
  BY <1>8 DEF runVars, stateVars, serviceVars, walletVars, StartFails, ServeAll, ShutdownBegin,
     ShutdownServices, ShutdownCollected, StopNext, StopJoin, StopAll, RunReturn, Signal,
     StartupCompletes, MonitorReceives, MonitorMarks, MonitorEnds, DiskClean, DiskEnds
<1>9. ASSUME NEW s \in Service, SvcGate(s) \/ SvcFindsWallet(s) \/ SvcStart(s) \/ SvcReport(s) \/ SvcAccept(s)
            \/ SvcReturns(s) \/ SvcStop(s) \/ SvcJoin(s) \/ SvcEnd(s) \/ SvcStartFails(s) \/ ManagerEnds(s) \/
            ShutCancel(s) \/ ShutStop(s) \/ ShutReturns(s)
       PROVE BgInv'
  BY <1>9 DEF runVars, stateVars, serviceVars, walletVars, SvcGate, SvcFindsWallet, SvcStart,
     SvcReport, SvcAccept, SvcReturns, SvcStop, SvcJoin, SvcEnd, SvcStartFails, ManagerEnds,
     ShutCancel, ShutStop, ShutReturns
<1>10. ASSUME UNCHANGED vars PROVE BgInv'
  BY <1>10 DEF runVars, stateVars, serviceVars, walletVars, vars
<1> QED
  BY <1>1, <1>2, <1>3, <1>4, <1>5, <1>6, <1>7, <1>8, <1>9, <1>10 DEF Next, RunStep, MonitorStep,
     ServiceStep, ShutStep, BgStep

\* The monitor does not come back.
LEMMA MonitorStepInv ==
  ASSUME TypeOK, MonitorInv, Places, [Next]_vars PROVE MonitorInv'
<1> USE DEF TypeOK, RunTyped, MonitorInv, Places, StartInv
<1>1. ASSUME StartNext PROVE MonitorInv'
  BY <1>1 DEF runVars, stateVars, serviceVars, walletVars, StartNext
<1>2. ASSUME StartFails PROVE MonitorInv'
  BY <1>2 DEF runVars, stateVars, serviceVars, walletVars, StartFails
<1>3. ASSUME ServeAll PROVE MonitorInv'
  BY <1>3 DEF runVars, stateVars, serviceVars, walletVars, ServeAll
<1>4. ASSUME ShutdownBegin PROVE MonitorInv'
  BY <1>4 DEF runVars, stateVars, serviceVars, walletVars, ShutdownBegin
<1>5. ASSUME ShutdownServices PROVE MonitorInv'
  BY <1>5 DEF runVars, stateVars, serviceVars, walletVars, ShutdownServices
<1>6. ASSUME ShutdownCollected PROVE MonitorInv'
  BY <1>6 DEF runVars, stateVars, serviceVars, walletVars, ShutdownCollected
<1>7. ASSUME StopNext PROVE MonitorInv'
  BY <1>7 DEF runVars, stateVars, serviceVars, walletVars, StopNext
<1>8. ASSUME StopJoin PROVE MonitorInv'
  BY <1>8 DEF runVars, stateVars, serviceVars, walletVars, StopJoin
<1>9. ASSUME StopAll PROVE MonitorInv'
  BY <1>9 DEF runVars, stateVars, serviceVars, walletVars, StopAll
<1>10. ASSUME RunReturn PROVE MonitorInv'
  BY <1>10 DEF runVars, stateVars, serviceVars, walletVars, RunReturn
<1>11. ASSUME Signal PROVE MonitorInv'
  BY <1>11 DEF runVars, stateVars, serviceVars, walletVars, Signal
<1>12. ASSUME StartupCompletes PROVE MonitorInv'
  BY <1>12 DEF runVars, stateVars, serviceVars, walletVars, StartupCompletes
<1>13. ASSUME MonitorReceives PROVE MonitorInv'
  BY <1>13 DEF runVars, stateVars, serviceVars, walletVars, MonitorReceives
<1>14. ASSUME MonitorMarks PROVE MonitorInv'
  BY <1>14 DEF runVars, stateVars, serviceVars, walletVars, MonitorMarks
<1>15. ASSUME MonitorEnds PROVE MonitorInv'
  BY <1>15 DEF runVars, stateVars, serviceVars, walletVars, MonitorEnds
<1>16. ASSUME DiskClean PROVE MonitorInv'
  BY <1>16 DEF runVars, stateVars, serviceVars, walletVars, DiskClean
<1>17. ASSUME DiskEnds PROVE MonitorInv'
  BY <1>17 DEF runVars, stateVars, serviceVars, walletVars, DiskEnds
<1>18. ASSUME BgPoll \/ BgTick \/ BgDownloaded \/ BgFinish \/ BgCancelled \/ BgJoin PROVE MonitorInv'
  BY <1>18 DEF runVars, stateVars, serviceVars, walletVars, BgPoll, BgTick, BgDownloaded,
     BgFinish, BgCancelled, BgJoin
<1>19. ASSUME NEW s \in Service, SvcGate(s) \/ SvcFindsWallet(s) \/ SvcStart(s) \/ SvcReport(s) \/
            SvcAccept(s) \/ SvcReturns(s) \/ SvcStop(s) \/ SvcJoin(s) \/ SvcEnd(s) \/ SvcStartFails(s) \/
            ManagerEnds(s) \/ ShutCancel(s) \/ ShutStop(s) \/ ShutReturns(s)
       PROVE MonitorInv'
  BY <1>19 DEF runVars, stateVars, serviceVars, walletVars, SvcGate, SvcFindsWallet, SvcStart,
     SvcReport, SvcAccept, SvcReturns, SvcStop, SvcJoin, SvcEnd, SvcStartFails, ManagerEnds,
     ShutCancel, ShutStop, ShutReturns
<1>20. ASSUME UNCHANGED vars PROVE MonitorInv'
  BY <1>20 DEF runVars, stateVars, serviceVars, walletVars, vars
<1> QED
  BY <1>1, <1>2, <1>3, <1>4, <1>5, <1>6, <1>7, <1>8, <1>9, <1>10, <1>11, <1>12, <1>13, <1>14,
     <1>15, <1>16, <1>17, <1>18, <1>19, <1>20 DEF Next, RunStep, MonitorStep, ServiceStep,
     ShutStep, BgStep

\* A report after stopAll is taken back by its service.
LEMMA ReportStep ==
  ASSUME TypeOK, MonitorInv, EnabledInv, ReportInv, Places, [Next]_vars PROVE ReportInv'
<1> USE DEF TypeOK, RunTyped, ServicesTyped, ReportInv, Reporting, Enabled
<1>1. ASSUME StartNext PROVE ReportInv'
  BY <1>1 DEF runVars, stateVars, serviceVars, walletVars, StartNext
<1>2. ASSUME StartFails PROVE ReportInv'
  BY <1>2 DEF runVars, stateVars, serviceVars, walletVars, StartFails
<1>3. ASSUME ServeAll PROVE ReportInv'
  BY <1>3 DEF runVars, stateVars, serviceVars, walletVars, ServeAll
<1>4. ASSUME ShutdownBegin PROVE ReportInv'
  BY <1>4 DEF runVars, stateVars, serviceVars, walletVars, ShutdownBegin
<1>5. ASSUME ShutdownServices PROVE ReportInv'
  BY <1>5 DEF runVars, stateVars, serviceVars, walletVars, ShutdownServices
<1>6. ASSUME ShutdownCollected PROVE ReportInv'
  BY <1>6 DEF runVars, stateVars, serviceVars, walletVars, ShutdownCollected
<1>7. ASSUME StopNext PROVE ReportInv'
  BY <1>7 DEF runVars, stateVars, serviceVars, walletVars, StopNext
<1>8. ASSUME StopJoin PROVE ReportInv'
  BY <1>8 DEF runVars, stateVars, serviceVars, walletVars, StopJoin
<1>9. ASSUME StopAll PROVE ReportInv'
  BY <1>9 DEF runVars, stateVars, serviceVars, walletVars, StopAll
<1>10. ASSUME RunReturn PROVE ReportInv'
  BY <1>10 DEF runVars, stateVars, serviceVars, walletVars, RunReturn
<1>11. ASSUME MonitorReceives PROVE ReportInv'
  BY <1>11 DEF runVars, stateVars, serviceVars, walletVars, MonitorReceives
<1>12. ASSUME MonitorMarks PROVE ReportInv'
  BY <1>12 DEF runVars, stateVars, serviceVars, walletVars, MonitorInv, MonitorMarks
<1>13. ASSUME MonitorEnds PROVE ReportInv'
  BY <1>13 DEF runVars, stateVars, serviceVars, walletVars, MonitorEnds
<1>14. ASSUME Signal \/ StartupCompletes \/ DiskClean \/ DiskEnds \/ BgPoll \/ BgTick \/ BgDownloaded \/
            BgFinish \/ BgCancelled \/ BgJoin
       PROVE ReportInv'
  BY <1>14 DEF runVars, stateVars, serviceVars, walletVars, Signal, StartupCompletes, DiskClean,
     DiskEnds, BgPoll, BgTick, BgDownloaded, BgFinish, BgCancelled, BgJoin
<1>15. ASSUME NEW s \in Service, SvcGate(s) PROVE ReportInv'
  BY <1>15 DEF runVars, stateVars, serviceVars, walletVars, Goto, SvcGate
<1>16. ASSUME NEW s \in Service, SvcFindsWallet(s) PROVE ReportInv'
  BY <1>16 DEF runVars, stateVars, serviceVars, walletVars, Goto, SvcFindsWallet
<1>17. ASSUME NEW s \in Service, SvcStart(s) PROVE ReportInv'
  BY <1>17 DEF runVars, stateVars, serviceVars, walletVars, Goto, SvcStart
<1>18. ASSUME NEW s \in Service, SvcReport(s) PROVE ReportInv'
  BY <1>18 DEF runVars, stateVars, serviceVars, walletVars, Goto, SvcReport
<1>19. ASSUME NEW s \in Service, SvcAccept(s) PROVE ReportInv'
  BY <1>19 DEF runVars, stateVars, serviceVars, walletVars, Goto, SvcAccept
<1>20. ASSUME NEW s \in Service, SvcReturns(s) PROVE ReportInv'
  BY <1>20 DEF runVars, stateVars, serviceVars, walletVars, Goto, SvcReturns
<1>21. ASSUME NEW s \in Service, SvcStop(s) PROVE ReportInv'
  BY <1>21 DEF runVars, stateVars, serviceVars, walletVars, Goto, SvcStop
<1>22. ASSUME NEW s \in Service, SvcJoin(s) PROVE ReportInv'
  BY <1>22 DEF runVars, stateVars, serviceVars, walletVars, Goto, SvcJoin
<1>23. ASSUME NEW s \in Service, SvcEnd(s) PROVE ReportInv'
  BY <1>23 DEF runVars, stateVars, serviceVars, walletVars, Goto, SvcEnd
<1>24. ASSUME NEW s \in Service, SvcStartFails(s) PROVE ReportInv'
  BY <1>24 DEF runVars, stateVars, serviceVars, walletVars, Goto, SvcStartFails
<1>25. ASSUME NEW s \in Service, ManagerEnds(s) \/ ShutCancel(s) \/ ShutStop(s) \/ ShutReturns(s) PROVE ReportInv'
  BY <1>25 DEF runVars, stateVars, serviceVars, walletVars, ManagerEnds, ShutCancel, ShutStop,
     ShutReturns
<1>26. ASSUME UNCHANGED vars PROVE ReportInv'
  BY <1>26 DEF runVars, stateVars, serviceVars, walletVars, vars
<1> QED
  BY <1>1, <1>2, <1>3, <1>4, <1>5, <1>6, <1>7, <1>8, <1>9, <1>10, <1>11, <1>12, <1>13, <1>14,
     <1>15, <1>16, <1>17, <1>18, <1>19, <1>20, <1>21, <1>22, <1>23, <1>24, <1>25, <1>26 DEF Next,
     RunStep, MonitorStep, ServiceStep, ShutStep, BgStep

(***************************************************************************)
(* The theorems                                                            *)
(***************************************************************************)

\* The invariant holds before Run is called.
LEMMA InitInv == ASSUME Init PROVE IndInv
<1> USE DEF Init
<1>1. TypeOK /\ BgInv
  BY DEF TypeOK, RunTyped, ServicesTyped, RunPhase, SvcPhase, ShutPhase, BgRecord, BgInv
<1>2. EnabledInv
  <2>1. PICK active : enabled = active \cup {"rpc"} /\ \A c \in active : DependsOn[c] \subseteq active
    BY DEF Startable
  <2>2. "rpc" \notin Component
    BY DEF Component, DependsOn
  <2> QED
    BY <2>1, <2>2 DEF EnabledInv
<1>3. ShutInv /\ MonitorInv /\ ReportInv
  BY DEF ShutInv, MonitorInv, ReportInv
<1>4. Places
  BY DEF Places, StartInv, ServeInv, StopInv, FailInv, JoinInv, EndInv
<1> QED
  BY <1>1, <1>2, <1>3, <1>4 DEF IndInv

\* The inductive invariant holds in every state of Daemon.
THEOREM Invariance == Spec => []IndInv
<1>1. Init => IndInv
  BY InitInv
<1>2. IndInv /\ [Next]_vars => IndInv'
  BY TypeStep, BgInvStep, PlacesStep, MonitorStepInv, ReportStep DEF IndInv
<1> QED
  BY <1>1, <1>2, PTL DEF Spec

\* The background downloader waits for a worker exactly when there is one (run and
\* finishDownload of src/backgrounddownloader).
THEOREM OngoingExactHolds == Spec => []OngoingExact
<1>1. IndInv => OngoingExact
  BY DEF IndInv, BgInv, OngoingExact
<1> QED
  BY <1>1, Invariance, PTL

\* Run and Shutdown keep the order of the component graph for every set of enabled
\* components, whatever fails, and leave nothing behind (src/app.go).
THEOREM OrderlyShutdownHolds == Spec => []OrderlyShutdown
<1>1. IndInv => OrderlyShutdown
  BY PlacesDependencies, CleanReturn DEF IndInv, OrderlyShutdown
<1> QED
  BY <1>1, Invariance, PTL

(***************************************************************************)
(* Starts: known hubs                                                      *)
(*                                                                         *)
(* HubsInv says where every known hub is: in the file of known hubs, in    *)
(* the hands of a goroutine that will save it, or among the ones whose     *)
(* save failed; and that the snapshot of whoever holds saveMu has          *)
(* everything the file had, so that no save loses what another one wrote.  *)
(***************************************************************************)

HubTables == UNION {[S -> Countries] : S \in SUBSET Hub}
NameTables == UNION {[S -> Hub] : S \in SUBSET Hub}
ListEntries == Hub \cup {Faulty, Skipped}

\* The hubs in a file of known hubs.
InFile(f) == IF f \in {NoHubFile, BadHubFile} THEN {} ELSE DOMAIN f

Writing(w) == lister[w].pc \in {"truncate", "write"}

HubTypes ==
    /\ net \in Network
    /\ hubs \in HubTables
    /\ hubFile \in HubTables \cup {NoHubFile, BadHubFile}
    /\ search \in [pc : {"off", "idle", "probe", "dial", "handshake", "peers", "up"},
                   names : NameTables, candidates : Seq(Hub), guess : BOOLEAN]
    /\ lister \in [Lister -> [pc : {"idle", "add", "save", "truncate", "write"},
                              list : Seq(ListEntries), added : SUBSET Hub, doc : HubTables]]
    /\ saveMu \in Lister \cup {"nobody"}

\* Without a network there are no hubs in memory; with one, memory has what the file has.
LoadedInv ==
    /\ search.pc = "off" => Known = {} /\ \A w \in Lister : lister[w].pc = "idle"
    /\ search.pc # "off" => InFile(hubFile) \subseteq Known

\* What is being saved: the snapshot of whoever holds saveMu has everything the file had
\* and everything its list added.
SnapshotInv ==
    \A w \in Lister :
        /\ lister[w].added \subseteq Known
        /\ lister[w].pc = "idle" => lister[w].added = {}
        /\ Writing(w) =>
            /\ saveMu = w
            /\ lister[w].added \subseteq DOMAIN lister[w].doc
            /\ InFile(hubFile) \subseteq DOMAIN lister[w].doc
            /\ DOMAIN lister[w].doc \subseteq Known

\* Every known hub is excused, in the file, or in the hands of a goroutine that will save it.
CoveredInv ==
    \A s \in Known :
        \/ s \in unsaved
        \/ s \in InFile(hubFile)
        \/ \E w \in Lister : s \in lister[w].added \/ (Writing(w) /\ s \in DOMAIN lister[w].doc)

SearchInv ==
    /\ \A a \in DOMAIN search.names : search.names[a] \in Hub /\ Address[search.names[a]] = a
    /\ ~net.explicit /\ ~search.guess =>
        \A i \in DOMAIN search.candidates : Available(Address[search.candidates[i]])
    /\ search.pc \in {"handshake", "peers", "up"} =>
        search.candidates # <<>> /\ InJurisdiction(Head(search.candidates))

\* The handshake waits for its list.
HandshakeInv == search.pc # "peers" => lister["handshake"].pc = "idle"

HubsInv == HubTypes /\ LoadedInv /\ SnapshotInv /\ CoveredInv /\ SearchInv /\ HandshakeInv

HubsFirst == phase # "running" => search.pc = "off"

LEMMA EmptyTable == <<>> \in HubTables /\ <<>> \in NameTables /\ DOMAIN <<>> = {}
<1>1. DOMAIN <<>> = {}
  OBVIOUS
<1>2. <<>> \in [{} -> Countries] /\ <<>> \in [{} -> Hub]
  OBVIOUS
<1>q. QED
  BY <1>1, <1>2 DEF HubTables, NameTables

LEMMA TableFacts ==
    ASSUME NEW h \in HubTables
    PROVE  /\ h \notin {NoHubFile, BadHubFile}
           /\ DOMAIN h \subseteq Hub
           /\ InFile(h) = DOMAIN h
<1>1. PICK S \in SUBSET Hub : h \in [S -> Countries]
  BY DEF HubTables
<1>2. h \notin {NoHubFile, BadHubFile}
  BY <1>1, HubsAssumption
<1>3. DOMAIN h = S
  BY <1>1
<1>q. QED
  BY <1>2, <1>3 DEF InFile

LEMMA FileFacts ==
    /\ InFile(NoHubFile) = {} /\ InFile(BadHubFile) = {}
BY DEF InFile

LEMMA Restricted ==
    ASSUME NEW h \in HubTables, NEW kept \in SUBSET DOMAIN h
    PROVE  [s \in kept |-> h[s]] \in HubTables
<1>1. PICK S \in SUBSET Hub : h \in [S -> Countries]
  BY DEF HubTables
<1>2. [s \in kept |-> h[s]] \in [kept -> Countries] /\ kept \in SUBSET Hub
  BY <1>1
<1>q. QED
  BY <1>2 DEF HubTables

LEMMA SetHubFacts ==
    ASSUME NEW h \in HubTables, NEW s \in Hub
    PROVE  SetHub(h, s) \in HubTables /\ DOMAIN SetHub(h, s) = DOMAIN h \cup {s}
<1>1. PICK S \in SUBSET Hub : h \in [S -> Countries]
  BY DEF HubTables
<1>2. CASE s \in DOMAIN h
  BY <1>2 DEF SetHub
<1>3. CASE s \notin DOMAIN h
  <2>1. SetHub(h, s) \in [S \cup {s} -> Countries] /\ S \cup {s} \in SUBSET Hub
    BY <1>1, <1>3, HubsAssumption DEF SetHub
  <2>2. DOMAIN SetHub(h, s) = DOMAIN h \cup {s}
    BY <1>1, <2>1
  <2>q. QED
    BY <2>1, <2>2 DEF HubTables
<1>q. QED
  BY <1>2, <1>3

LEMMA UpdateCountryFacts ==
    ASSUME NEW h \in HubTables, NEW s \in Hub, NEW c \in Countries
    PROVE  UpdateCountry(h, s, c) \in HubTables /\ DOMAIN UpdateCountry(h, s, c) = DOMAIN h \cup {s}
<1> DEFINE g == SetHub(h, s)
<1>1. g \in HubTables /\ DOMAIN g = DOMAIN h \cup {s}
  BY SetHubFacts
<1>2. PICK S \in SUBSET Hub : g \in [S -> Countries]
  BY <1>1 DEF HubTables
<1>3. [g EXCEPT ![s] = c] \in [S -> Countries] /\ DOMAIN [g EXCEPT ![s] = c] = DOMAIN g
  BY <1>2
<1>q. QED
  BY <1>1, <1>2, <1>3 DEF UpdateCountry, HubTables

SearchTypes == [pc : {"off", "idle", "probe", "dial", "handshake", "peers", "up"},
                names : NameTables, candidates : Seq(Hub), guess : BOOLEAN]
OthersStay == UNCHANGED <<net, hubs, hubFile, lister, saveMu, unsaved>>

\* A step of the search that learns of no hub.
LEMMA SearchOnly ==
    ASSUME HubsInv, OthersStay, search' \in SearchTypes,
           search.pc # "off", search'.pc # "off", SearchInv',
           search.pc = "peers" => lister["handshake"].pc = "idle"
    PROVE  HubsInv'
<1>1. HubTypes' /\ HandshakeInv'
  BY DEF HubsInv, HubTypes, OthersStay, SearchTypes, HandshakeInv
<1>2. LoadedInv'
  BY DEF HubsInv, LoadedInv, OthersStay, InFile, Known
<1>3. SnapshotInv'
  BY DEF HubsInv, SnapshotInv, OthersStay, InFile, Known, Writing
<1>4. CoveredInv'
  BY DEF HubsInv, CoveredInv, OthersStay, InFile, Known, Writing
<1>q. QED
  BY <1>1, <1>2, <1>3, <1>4 DEF HubsInv

LEMMA IdleFacts ==
    /\ Idle.pc = "idle" /\ Idle.names = <<>> /\ Idle.candidates = <<>>
    /\ Idle \in SearchTypes
<1>1. <<>> \in Seq(Hub)
  OBVIOUS
<1>2. NoSearch \in SearchTypes
  BY <1>1, EmptyTable DEF SearchTypes, NoSearch
<1>3. Idle.pc = "idle" /\ Idle.names = <<>> /\ Idle.candidates = <<>>
  BY <1>2 DEF Idle, NoSearch, SearchTypes
<1>q. QED
  BY <1>2, <1>3 DEF SearchTypes, Idle

LEMMA BackToIdle ==
    ASSUME HubsInv, OthersStay, search.pc \notin {"off", "peers"}, search' = Idle
    PROVE  HubsInv'
<1>1. SearchInv'
  BY IdleFacts, EmptyTable DEF SearchInv
<1>q. QED
  BY <1>1, IdleFacts, SearchOnly

LEMMA SelectInOrderKeeps == ASSUME HubsInv, SelectInOrder PROVE HubsInv'
<1>1. search' = [Idle EXCEPT !.pc = "dial", !.candidates = net.servers]
  BY Zenon DEF SelectInOrder
<1>2. search' \in SearchTypes /\ search'.names = <<>> /\ search'.pc = "dial"
  <2>1. net.servers \in Seq(Hub)
    BY NetworkAssumption DEF HubsInv, HubTypes
  <2>q. QED
    BY <1>1, <2>1, IdleFacts DEF SearchTypes
<1>3. SearchInv'
  <2>1. \A a \in DOMAIN search'.names : FALSE
    BY <1>2, EmptyTable
  <2>2. net' = net /\ net.explicit
    BY Zenon DEF SelectInOrder
  <2>3. search'.pc \notin {"handshake", "peers", "up"}
    BY <1>2
  <2>q. QED
    BY <2>1, <2>2, <2>3, Zenon DEF SearchInv
<1>q. QED
  BY <1>2, <1>3, SearchOnly DEF SelectInOrder, OthersStay

LEMMA ServersAreHubs == ASSUME HubsInv PROVE SelectionServers \subseteq Hub
<1>1. ToSet(net.servers) \subseteq Hub
  BY NetworkAssumption DEF HubsInv, HubTypes, ToSet
<1>2. Known \subseteq Hub
  BY TableFacts DEF HubsInv, HubTypes, Known
<1>q. QED
  BY <1>1, <1>2 DEF SelectionServers

LEMMA ResolveKeeps ==
    ASSUME HubsInv, NEW resolved \in SUBSET SelectionServers, Resolve(resolved)
    PROVE  HubsInv'
<1>1. resolved \subseteq Hub
  BY ServersAreHubs
<1>2. PICK found \in [{Address[s] : s \in resolved} -> resolved] :
        /\ \A a \in DOMAIN found : Address[found[a]] = a
        /\ search' = [Idle EXCEPT !.pc = "probe", !.names = found]
  BY Zenon DEF Resolve
<1>3. search'.pc = "probe" /\ search'.names = found /\ search'.candidates = <<>>
  BY <1>2, IdleFacts DEF SearchTypes
<1>4. found \in NameTables
  <2>1. {Address[s] : s \in resolved} \in SUBSET Hub
    BY <1>1, HubsAssumption
  <2>2. found \in [{Address[s] : s \in resolved} -> Hub]
    BY <1>1, <1>2
  <2>q. QED
    BY <2>1, <2>2 DEF NameTables
<1>5. search' \in SearchTypes
  BY <1>2, <1>4, IdleFacts DEF SearchTypes
<1>6. SearchInv'
  <2>1. \A a \in DOMAIN search'.names : search'.names[a] \in Hub /\ Address[search'.names[a]] = a
    BY <1>1, <1>2, <1>3
  <2>2. \A i \in DOMAIN search'.candidates : FALSE
    BY <1>3, EmptyTable
  <2>q. QED
    BY <1>3, <2>1, <2>2 DEF SearchInv
<1>q. QED
  BY <1>3, <1>5, <1>6, SearchOnly DEF Resolve, OthersStay

LEMMA ProbeEndsKeeps == ASSUME HubsInv, ProbeEnds PROVE HubsInv'
<1>1. search' = [search EXCEPT !.pc = "dial"] /\ search.pc = "probe" /\ OthersStay
  BY DEF ProbeEnds, OthersStay
<1>2. search' \in SearchTypes
  BY <1>1 DEF HubsInv, HubTypes, SearchTypes
<1>3. SearchInv'
  BY <1>1 DEF HubsInv, HubTypes, SearchInv, Available, OthersStay
<1>q. QED
  BY <1>1, <1>2, <1>3, SearchOnly DEF HubsInv, HubTypes

\* The next candidate is dialled.
LEMMA NextCandidateKeeps ==
    ASSUME HubsInv, OthersStay, search.pc # "off", search.candidates # <<>>,
           search.pc = "peers" => lister["handshake"].pc = "idle",
           search' = NextCandidate
    PROVE  HubsInv'
<1>1. search' = [search EXCEPT !.pc = "dial", !.candidates = Tail(search.candidates)]
  BY DEF NextCandidate
<1>2. search' \in SearchTypes
  <2>1. search.candidates \in Seq(Hub)
    BY DEF HubsInv, HubTypes
  <2>2. Tail(search.candidates) \in Seq(Hub)
    BY <2>1
  <2>q. QED
    BY <1>1, <2>2 DEF HubsInv, HubTypes, SearchTypes
<1>3. SearchInv'
  <2>1. \A i \in DOMAIN search'.candidates :
            i + 1 \in DOMAIN search.candidates /\ search'.candidates[i] = search.candidates[i + 1]
    BY <1>1 DEF HubsInv, HubTypes
  <2>q. QED
    BY <1>1, <2>1 DEF HubsInv, HubTypes, SearchInv, Available, OthersStay
<1>q. QED
  BY <1>1, <1>2, <1>3, SearchOnly DEF HubsInv, HubTypes

LEMMA DialKeeps == ASSUME HubsInv, Dial PROVE HubsInv'
<1> DEFINE s == Head(search.candidates)
<1>1. search.pc = "dial" /\ search.candidates # <<>> /\ OthersStay
  BY DEF Dial, OthersStay
<1>2. CASE InJurisdiction(s) /\ net.answers[Address[s]].accepts
  <2>1. search' = [search EXCEPT !.pc = "handshake"]
    BY <1>2 DEF Dial
  <2>2. search' \in SearchTypes
    BY <2>1 DEF HubsInv, HubTypes, SearchTypes
  <2>3. SearchInv'
    BY <1>1, <1>2, <2>1 DEF HubsInv, HubTypes, SearchInv, Available, OthersStay, InJurisdiction, Country
  <2>q. QED
    BY <1>1, <2>1, <2>2, <2>3, SearchOnly DEF HubsInv, HubTypes
<1>3. CASE ~(InJurisdiction(s) /\ net.answers[Address[s]].accepts)
  BY <1>1, <1>3, NextCandidateKeeps DEF Dial
<1>q. QED
  BY <1>2, <1>3

LEMMA HandshakeOkKeeps == ASSUME HubsInv, HandshakeOk PROVE HubsInv'
<1>1. search' = [search EXCEPT !.pc = "up"] /\ search.pc = "peers" /\ OthersStay
  BY DEF HandshakeOk, OthersStay
<1>2. search' \in SearchTypes
  BY <1>1 DEF HubsInv, HubTypes, SearchTypes
<1>3. SearchInv'
  BY <1>1 DEF HubsInv, HubTypes, SearchInv, Available, OthersStay, InJurisdiction, Country
<1>q. QED
  BY <1>1, <1>2, <1>3, SearchOnly DEF HubsInv, HubTypes, HandshakeOk

LEMMA SearchOnlyKeeps ==
    ASSUME HubsInv, ProbeFails \/ ConnectFails \/ SessionLost \/ HandshakeFails
    PROVE  HubsInv'
<1>1. CASE ProbeFails \/ ConnectFails \/ SessionLost
  BY <1>1, BackToIdle DEF ProbeFails, ConnectFails, SessionLost, OthersStay
<1>2. CASE HandshakeFails
  BY <1>2, NextCandidateKeeps DEF HandshakeFails, OthersStay, HubsInv, SearchInv
<1>q. QED
  BY <1>1, <1>2

LEMMA KeepInMemoryKeeps ==
    ASSUME HubsInv, NEW h \in HubTables, Known \subseteq DOMAIN h, KeepInMemory(h),
           UNCHANGED <<net, hubFile, lister, saveMu>>,
           search' \in SearchTypes, search.pc \notin {"off", "peers"}, search'.pc # "off", SearchInv'
    PROVE  HubsInv'
<1>0. hubs' = h /\ Known' = DOMAIN h /\ unsaved' = unsaved \cup (DOMAIN h \ Known)
  BY DEF KeepInMemory, Known
<1>1. HubTypes' /\ HandshakeInv'
  BY <1>0 DEF HubsInv, HubTypes, SearchTypes, HandshakeInv
<1>2. LoadedInv'
  BY <1>0 DEF HubsInv, LoadedInv, InFile
<1>3. SnapshotInv'
  BY <1>0 DEF HubsInv, SnapshotInv, InFile, Writing
<1>4. CoveredInv'
  BY <1>0 DEF HubsInv, CoveredInv, InFile, Writing
<1>q. QED
  BY <1>1, <1>2, <1>3, <1>4 DEF HubsInv

LEMMA PongKeeps ==
    ASSUME HubsInv, NEW a \in DOMAIN search.names, Pong(a)
    PROVE  HubsInv'
<1> DEFINE s == search.names[a]
           h == UpdateCountry(hubs, s, Country(s))
<1>1. s \in Hub /\ Address[s] = a /\ hubs \in HubTables /\ search.candidates \in Seq(Hub)
  BY DEF HubsInv, HubTypes, SearchInv
<1>2. Country(s) \in Countries
  BY <1>1, HubsAssumption, NetworkAssumption DEF Country, HubsInv, HubTypes
<1>3. h \in HubTables /\ Known \subseteq DOMAIN h
  <2> DEFINE c == Country(s)
  <2>1. c \in Countries
    BY <1>2
  <2> HIDE DEF c
  <2>2. UpdateCountry(hubs, s, c) \in HubTables /\ DOMAIN UpdateCountry(hubs, s, c) = DOMAIN hubs \cup {s}
    BY <1>1, <2>1, UpdateCountryFacts
  <2>q. QED
    BY <2>2 DEF Known, c
<1>4. KeepInMemory(h) /\ UNCHANGED <<net, hubFile, lister, saveMu>> /\ search.pc = "probe"
  BY DEF Pong
<1>5. \/ search' = search
      \/ Available(a) /\ search' = [search EXCEPT !.candidates = Append(search.candidates, s)]
  BY Zenon DEF Pong
<1>6. search' \in SearchTypes /\ search'.pc = "probe"
  <2>1. Append(search.candidates, s) \in Seq(Hub)
    BY <1>1
  <2>2. search \in SearchTypes
    BY DEF HubsInv, HubTypes, SearchTypes
  <2> HIDE DEF s
  <2>3. CASE search' = search
    BY <1>4, <2>2, <2>3
  <2>4. CASE search' = [search EXCEPT !.candidates = Append(search.candidates, s)]
    BY <1>4, <2>1, <2>2, <2>4 DEF SearchTypes
  <2>q. QED
    BY <1>5, <2>3, <2>4
<1>7. SearchInv'
  <2>1. CASE search' = search
    BY <1>4, <2>1 DEF HubsInv, SearchInv, Available, InJurisdiction, Country
  <2>2. CASE Available(a) /\ search' = [search EXCEPT !.candidates = Append(search.candidates, s)]
    <3>1. search'.names = search.names /\ search'.guess = search.guess
          /\ search'.candidates = Append(search.candidates, s)
      BY <2>2 DEF HubsInv, HubTypes
    <3>2. \A i \in DOMAIN search'.candidates :
            \/ i \in DOMAIN search.candidates /\ search'.candidates[i] = search.candidates[i]
            \/ search'.candidates[i] = s
      BY <1>1, <3>1
    <3>q. QED
      BY <1>1, <1>4, <1>6, <2>2, <3>1, <3>2 DEF HubsInv, SearchInv, Available
  <2>q. QED
    BY <1>5, <2>1, <2>2
<1>q. QED
  BY <1>3, <1>4, <1>6, <1>7, KeepInMemoryKeeps

LEMMA FallbackKeeps == ASSUME HubsInv, Fallback PROVE HubsInv'
<1>1. PICK a \in DOMAIN search.names :
        /\ KeepInMemory(SetHub(hubs, a))
        /\ search' = [search EXCEPT !.pc = "dial", !.candidates = <<a>>, !.guess = TRUE]
  BY Zenon DEF Fallback
<1>2. search.pc = "probe" /\ UNCHANGED <<net, hubFile, lister, saveMu>>
  BY DEF Fallback
<1>3. a \in Hub /\ hubs \in HubTables
  BY HubsAssumption DEF HubsInv, HubTypes, SearchInv
<1>4. SetHub(hubs, a) \in HubTables /\ Known \subseteq DOMAIN SetHub(hubs, a)
  BY <1>3, SetHubFacts DEF Known
<1>5. search' \in SearchTypes /\ search'.pc = "dial" /\ search'.guess /\ search'.names = search.names
  <2>1. <<a>> \in Seq(Hub)
    BY <1>3
  <2>q. QED
    BY <1>1, <2>1 DEF HubsInv, HubTypes, SearchTypes
<1>6. SearchInv'
  BY <1>2, <1>5 DEF HubsInv, SearchInv
<1>q. QED
  BY <1>1, <1>2, <1>4, <1>5, <1>6, KeepInMemoryKeeps

ListerTypes == [pc : {"idle", "add", "save", "truncate", "write"},
                list : Seq(ListEntries), added : SUBSET Hub, doc : HubTables]

LEMMA NoListFacts ==
    NoList \in ListerTypes /\ NoList.pc = "idle" /\ NoList.added = {}
<1>1. <<>> \in Seq(ListEntries)
  OBVIOUS
<1>q. QED
  BY <1>1, EmptyTable DEF NoList, ListerTypes

\* A goroutine is told of hubs.
LEMMA ListKeeps ==
    ASSUME HubsInv, NEW w \in Lister, lister[w].pc = "idle",
           NEW list \in Seq(ListEntries),
           lister' = [lister EXCEPT ![w] = [NoList EXCEPT !.pc = "add", !.list = list]],
           UNCHANGED <<net, hubs, hubFile, saveMu, unsaved>>,
           search' \in SearchTypes, search.pc # "off", search'.pc # "off", SearchInv',
           w = "handshake" => search'.pc = "peers", w # "handshake" => search' = search
    PROVE  HubsInv'
<1> DEFINE new == [NoList EXCEPT !.pc = "add", !.list = list]
<1>0. new \in ListerTypes /\ new.pc = "add" /\ new.added = {}
  BY NoListFacts DEF ListerTypes
<1>1. lister'[w] = new /\ \A v \in Lister \ {w} : lister'[v] = lister[v]
  BY DEF HubsInv, HubTypes
<1> HIDE DEF new
<1>2. HubTypes' /\ HandshakeInv'
  BY <1>0, <1>1 DEF HubsInv, HubTypes, SearchTypes, ListerTypes, HandshakeInv, Lister
<1>3. LoadedInv'
  BY DEF HubsInv, LoadedInv, InFile, Known
<1>4. SnapshotInv'
  BY <1>0, <1>1 DEF HubsInv, SnapshotInv, InFile, Known, Writing
<1>5. CoveredInv'
  BY <1>0, <1>1 DEF HubsInv, CoveredInv, SnapshotInv, InFile, Known, Writing
<1>q. QED
  BY <1>2, <1>3, <1>4, <1>5 DEF HubsInv

LEMMA PeersAreEntries ==
    ASSUME HubsInv, search.candidates # <<>>
    PROVE  LET a == Address[Head(search.candidates)] IN
           net.answers[a].peers \in Seq(ListEntries) /\ net.answers[a].news \in Seq(ListEntries)
<1>1. Head(search.candidates) \in Hub
  BY DEF HubsInv, HubTypes
<1>2. Address[Head(search.candidates)] \in Hub
  BY <1>1, HubsAssumption
<1>q. QED
  BY <1>2, NetworkAssumption DEF HubsInv, HubTypes, ListEntries

LEMMA HandshakePeersKeeps ==
    ASSUME HubsInv, HandshakePeers PROVE HubsInv'
<1> DEFINE list == net.answers[Address[Head(search.candidates)]].peers
<1>1. search' = [search EXCEPT !.pc = "peers"] /\ search.pc = "handshake"
      /\ UNCHANGED <<net, hubs, hubFile, saveMu, unsaved>>
  BY DEF HandshakePeers
<1>2. list \in Seq(ListEntries)
  BY <1>1, PeersAreEntries DEF HubsInv, SearchInv
<1>3. lister' = [lister EXCEPT !["handshake"] = [NoList EXCEPT !.pc = "add", !.list = list]]
  BY DEF HandshakePeers
<1>4. search' \in SearchTypes /\ search'.pc = "peers" /\ lister["handshake"].pc = "idle"
  BY <1>1 DEF HubsInv, HubTypes, SearchTypes, HandshakeInv
<1>5. SearchInv'
  BY <1>1 DEF HubsInv, HubTypes, SearchInv, Available, InJurisdiction, Country
<1> HIDE DEF list
<1>q. QED
  BY <1>1, <1>2, <1>3, <1>4, <1>5, ListKeeps DEF Lister

LEMMA PeersNotificationKeeps == ASSUME HubsInv, PeersNotification PROVE HubsInv'
<1> DEFINE list == net.answers[Address[Head(search.candidates)]].news
<1>1. search' = search /\ search.pc = "up" /\ lister["notification"].pc = "idle"
      /\ UNCHANGED <<net, hubs, hubFile, saveMu, unsaved>>
  BY DEF PeersNotification
<1>2. list \in Seq(ListEntries)
  BY <1>1, PeersAreEntries DEF HubsInv, SearchInv
<1>3. lister' = [lister EXCEPT !["notification"] = [NoList EXCEPT !.pc = "add", !.list = list]]
  BY DEF PeersNotification
<1>4. search' \in SearchTypes /\ search'.pc # "off"
  BY <1>1 DEF HubsInv, HubTypes, SearchTypes
<1>5. SearchInv'
  BY <1>1 DEF HubsInv, SearchInv, Available, InJurisdiction, Country
<1> HIDE DEF list
<1>q. QED
  BY <1>1, <1>2, <1>3, <1>4, <1>5, ListKeeps DEF Lister

\* A step of the goroutine w, which is not idle, that leaves its lock as it was.
LEMMA AddHubKeeps ==
    ASSUME HubsInv, NEW w \in Lister, AddHub(w)
    PROVE  HubsInv'
<1> DEFINE s == Head(lister[w].list)
           isNew == s # Skipped /\ s \notin Known
           new == [lister[w] EXCEPT !.list = Tail(@), !.added = IF isNew THEN @ \cup {s} ELSE @]
<1>0. lister[w] \in ListerTypes /\ hubs \in HubTables
  BY DEF HubsInv, HubTypes, ListerTypes
<1>1. lister[w].pc = "add" /\ lister[w].list # <<>> /\ s # Faulty
      /\ UNCHANGED <<net, hubFile, search, saveMu, unsaved>>
  BY DEF AddHub
<1>2. s \in Hub \cup {Skipped} /\ Tail(lister[w].list) \in Seq(ListEntries)
  BY <1>0, <1>1 DEF ListerTypes, ListEntries
<1>3. /\ hubs' \in HubTables
      /\ Known' = IF s = Skipped THEN Known ELSE Known \cup {s}
  <2>1. hubs' = IF s = Skipped THEN hubs ELSE SetHub(hubs, s)
    BY DEF AddHub
  <2>q. QED
    BY <1>0, <1>2, <2>1, SetHubFacts DEF Known
<1>4. lister' = [lister EXCEPT ![w] = new]
  BY DEF AddHub, HubsInv, HubTypes
<1>5. /\ new.pc = "add" /\ new.added = (IF isNew THEN lister[w].added \cup {s} ELSE lister[w].added)
      /\ new \in ListerTypes
  BY <1>0, <1>1, <1>2 DEF ListerTypes
<1>6. lister'[w] = new /\ \A v \in Lister \ {w} : lister'[v] = lister[v]
  BY <1>4 DEF HubsInv, HubTypes
<1> HIDE DEF new
<1>7. HubTypes'
  BY <1>1, <1>3, <1>4, <1>5 DEF HubsInv, HubTypes, ListerTypes
<1>8. LoadedInv' /\ HandshakeInv'
  BY <1>1, <1>3, <1>5, <1>6 DEF HubsInv, LoadedInv, HandshakeInv, InFile, Lister
<1>9. SnapshotInv'
  BY <1>1, <1>3, <1>5, <1>6 DEF HubsInv, SnapshotInv, InFile, Writing
<1>10. CoveredInv'
  BY <1>1, <1>3, <1>5, <1>6 DEF HubsInv, CoveredInv, InFile, Writing
<1>11. SearchInv'
  BY <1>1 DEF HubsInv, SearchInv, Available, InJurisdiction, Country
<1>q. QED
  BY <1>7, <1>8, <1>9, <1>10, <1>11 DEF HubsInv

LEMMA AddFailsKeeps ==
    ASSUME HubsInv, NEW w \in Lister, AddFails(w)
    PROVE  HubsInv'
<1>1. lister[w].pc = "add" /\ UNCHANGED <<net, hubs, hubFile, search, saveMu>>
      /\ unsaved' = unsaved \cup lister[w].added /\ lister' = [lister EXCEPT ![w] = NoList]
  BY DEF AddFails
<1>6. lister'[w] = NoList /\ \A v \in Lister \ {w} : lister'[v] = lister[v]
  BY <1>1 DEF HubsInv, HubTypes
<1>7. HubTypes'
  BY <1>1, NoListFacts DEF HubsInv, HubTypes, ListerTypes
<1>8. LoadedInv' /\ HandshakeInv'
  BY <1>1, <1>6, NoListFacts DEF HubsInv, LoadedInv, HandshakeInv, InFile, Lister, Known
<1>9. SnapshotInv'
  BY <1>1, <1>6, NoListFacts DEF HubsInv, SnapshotInv, InFile, Writing, Known
<1>10. CoveredInv'
  BY <1>1, <1>6, NoListFacts DEF HubsInv, CoveredInv, InFile, Writing, Known
<1>11. SearchInv'
  BY <1>1 DEF HubsInv, SearchInv, Available, InJurisdiction, Country
<1>q. QED
  BY <1>7, <1>8, <1>9, <1>10, <1>11 DEF HubsInv

LEMMA AddEndsKeeps ==
    ASSUME HubsInv, NEW w \in Lister, AddEnds(w)
    PROVE  HubsInv'
<1> DEFINE new == IF lister[w].added = {} THEN NoList ELSE [lister[w] EXCEPT !.pc = "save"]
<1>1. lister[w].pc = "add" /\ UNCHANGED <<net, hubs, hubFile, search, saveMu, unsaved>>
      /\ lister' = [lister EXCEPT ![w] = new]
  BY DEF AddEnds
<1>5. new \in ListerTypes /\ new.pc \in {"idle", "save"} /\ new.added = lister[w].added
      /\ (new.pc = "idle" => new.added = {})
  BY NoListFacts DEF HubsInv, HubTypes, ListerTypes
<1>6. lister'[w] = new /\ \A v \in Lister \ {w} : lister'[v] = lister[v]
  BY <1>1 DEF HubsInv, HubTypes
<1> HIDE DEF new
<1>7. HubTypes'
  BY <1>1, <1>5 DEF HubsInv, HubTypes, ListerTypes
<1>8. LoadedInv' /\ HandshakeInv'
  BY <1>1, <1>5, <1>6 DEF HubsInv, LoadedInv, HandshakeInv, InFile, Lister, Known
<1>9. SnapshotInv'
  BY <1>1, <1>5, <1>6 DEF HubsInv, SnapshotInv, InFile, Writing, Known
<1>10. CoveredInv'
  BY <1>1, <1>5, <1>6 DEF HubsInv, CoveredInv, InFile, Writing, Known
<1>11. SearchInv'
  BY <1>1 DEF HubsInv, SearchInv, Available, InJurisdiction, Country
<1>q. QED
  BY <1>7, <1>8, <1>9, <1>10, <1>11 DEF HubsInv

LEMMA SnapshotHubsKeeps ==
    ASSUME HubsInv, NEW w \in Lister, SnapshotHubs(w)
    PROVE  HubsInv'
<1> DEFINE new == [lister[w] EXCEPT !.pc = "truncate", !.doc = hubs]
<1>1. lister[w].pc = "save" /\ UNCHANGED <<net, hubs, hubFile, search, unsaved>>
      /\ saveMu = "nobody" /\ saveMu' = w
  BY DEF SnapshotHubs
<1>4. lister' = [lister EXCEPT ![w] = new]
  BY DEF SnapshotHubs, HubsInv, HubTypes
<1>5. new \in ListerTypes /\ new.pc = "truncate" /\ new.added = lister[w].added /\ new.doc = hubs
  BY DEF HubsInv, HubTypes, ListerTypes
<1>6. lister'[w] = new /\ \A v \in Lister \ {w} : lister'[v] = lister[v] /\ ~Writing(v)
  BY <1>1, <1>4 DEF HubsInv, HubTypes, SnapshotInv, Lister
<1>7. HubTypes'
  BY <1>1, <1>4, <1>5 DEF HubsInv, HubTypes, ListerTypes
<1> HIDE DEF new
<1>8. LoadedInv' /\ HandshakeInv'
  BY <1>1, <1>5, <1>6 DEF HubsInv, LoadedInv, HandshakeInv, InFile, Lister, Known
<1>9. SnapshotInv'
  BY <1>1, <1>5, <1>6 DEF HubsInv, SnapshotInv, LoadedInv, InFile, Writing, Known
<1>10. CoveredInv'
  BY <1>1, <1>5, <1>6 DEF HubsInv, CoveredInv, InFile, Writing, Known
<1>11. SearchInv'
  BY <1>1 DEF HubsInv, SearchInv, Available, InJurisdiction, Country
<1>q. QED
  BY <1>7, <1>8, <1>9, <1>10, <1>11 DEF HubsInv

LEMMA TruncateHubFileKeeps ==
    ASSUME HubsInv, NEW w \in Lister, TruncateHubFile(w)
    PROVE  HubsInv'
<1> DEFINE new == [lister[w] EXCEPT !.pc = "write"]
<1>1. lister[w].pc = "truncate" /\ UNCHANGED <<net, hubs, search, unsaved, saveMu>>
      /\ hubFile' = BadHubFile /\ InFile(hubFile') = {}
  BY FileFacts DEF TruncateHubFile
<1>4. lister' = [lister EXCEPT ![w] = new]
  BY DEF TruncateHubFile, HubsInv, HubTypes
<1>5. new \in ListerTypes /\ new.pc = "write" /\ new.added = lister[w].added /\ new.doc = lister[w].doc
  BY DEF HubsInv, HubTypes, ListerTypes
<1>6. lister'[w] = new /\ \A v \in Lister \ {w} : lister'[v] = lister[v]
  BY <1>1, <1>4 DEF HubsInv, HubTypes
<1>7. HubTypes'
  BY <1>1, <1>4, <1>5 DEF HubsInv, HubTypes, ListerTypes
<1> HIDE DEF new
<1>8. LoadedInv' /\ HandshakeInv'
  BY <1>1, <1>5, <1>6 DEF HubsInv, LoadedInv, HandshakeInv, Lister, Known
<1>9. SnapshotInv'
  BY <1>1, <1>5, <1>6 DEF HubsInv, SnapshotInv, Writing, Known
<1>10. CoveredInv'
  BY <1>1, <1>5, <1>6 DEF HubsInv, CoveredInv, SnapshotInv, Writing, Known
<1>11. SearchInv'
  BY <1>1 DEF HubsInv, SearchInv, Available, InJurisdiction, Country
<1>q. QED
  BY <1>7, <1>8, <1>9, <1>10, <1>11 DEF HubsInv

\* A save ends, with a file that has no hub that is not known.
LEMMA SaveEnds ==
    ASSUME HubsInv, NEW w \in Lister, Writing(w),
           hubFile' \in HubTables \cup {NoHubFile, BadHubFile}, InFile(hubFile') \subseteq Known,
           lister' = [lister EXCEPT ![w] = NoList], saveMu' = "nobody",
           UNCHANGED <<net, hubs, search>>,
           \A s \in Known : \/ s \in unsaved' \/ s \in InFile(hubFile')
                            \/ \E v \in Lister \ {w} : s \in lister[v].added
    PROVE  HubsInv'
<1>6. lister'[w] = NoList /\ \A v \in Lister \ {w} : lister'[v] = lister[v] /\ ~Writing(v)
  BY DEF HubsInv, HubTypes, SnapshotInv
<1>7. HubTypes'
  BY NoListFacts DEF HubsInv, HubTypes, ListerTypes
<1>8. LoadedInv' /\ HandshakeInv'
  BY <1>6, NoListFacts DEF HubsInv, LoadedInv, HandshakeInv, Lister, Known, Writing
<1>9. SnapshotInv'
  BY <1>6, NoListFacts DEF HubsInv, SnapshotInv, Writing, Known
<1>10. CoveredInv'
  BY <1>6 DEF CoveredInv, Known
<1>11. SearchInv'
  BY DEF HubsInv, SearchInv, Available, InJurisdiction, Country
<1>q. QED
  BY <1>7, <1>8, <1>9, <1>10, <1>11 DEF HubsInv

LEMMA WriteHubFileKeeps ==
    ASSUME HubsInv, NEW w \in Lister, WriteHubFile(w)
    PROVE  HubsInv'
<1>1. Writing(w) /\ hubFile' = lister[w].doc /\ unsaved' = unsaved \ DOMAIN lister[w].doc
      /\ lister' = [lister EXCEPT ![w] = NoList] /\ saveMu' = "nobody"
      /\ UNCHANGED <<net, hubs, search>>
  BY DEF WriteHubFile, Writing
<1>2. lister[w].doc \in HubTables
  BY DEF HubsInv, HubTypes
<1>3. hubFile' \in HubTables /\ InFile(hubFile') = DOMAIN lister[w].doc
  BY <1>1, <1>2, TableFacts
<1>4. \A v \in Lister \ {w} : ~Writing(v)
  BY <1>1 DEF HubsInv, SnapshotInv
<1>5. InFile(hubFile') \subseteq Known
  BY <1>1, <1>3 DEF HubsInv, SnapshotInv
<1>6. \A s \in Known : \/ s \in unsaved' \/ s \in InFile(hubFile')
                            \/ \E v \in Lister \ {w} : s \in lister[v].added
  BY <1>1, <1>3, <1>4 DEF HubsInv, SnapshotInv, CoveredInv
<1>q. QED
  BY <1>1, <1>3, <1>5, <1>6, SaveEnds

LEMMA SaveHubsFailsKeeps ==
    ASSUME HubsInv, NEW w \in Lister, SaveHubsFails(w)
    PROVE  HubsInv'
<1>1. Writing(w) /\ unsaved' = Known
      /\ lister' = [lister EXCEPT ![w] = NoList] /\ saveMu' = "nobody"
      /\ UNCHANGED <<net, hubs, search>>
  BY DEF SaveHubsFails, Writing
<1>2. hubFile' \in HubTables \cup {NoHubFile, BadHubFile} /\ InFile(hubFile') \subseteq Known
  <2>1. CASE hubFile' = hubFile
    BY <1>1, <2>1 DEF HubsInv, HubTypes, SnapshotInv
  <2>2. CASE hubFile' = BadHubFile
    BY <2>2, FileFacts
  <2>3. ASSUME NEW kept \in SUBSET DOMAIN lister[w].doc, hubFile' = [s \in kept |-> lister[w].doc[s]]
        PROVE  hubFile' \in HubTables /\ InFile(hubFile') \subseteq Known
    <3>1. lister[w].doc \in HubTables /\ DOMAIN lister[w].doc \subseteq Known
      BY <1>1 DEF HubsInv, HubTypes, SnapshotInv
    <3>2. hubFile' \in HubTables
      BY <2>3, <3>1, Restricted
    <3>3. InFile(hubFile') = DOMAIN hubFile' /\ DOMAIN hubFile' = kept
      BY <2>3, <3>2, TableFacts
    <3>q. QED
      BY <3>1, <3>2, <3>3
  <2>q. QED
    BY <2>1, <2>2, <2>3 DEF SaveHubsFails
<1>q. QED
  BY <1>1, <1>2, SaveEnds

LEMMA HubStepKeeps == ASSUME HubsInv, HubStep PROVE HubsInv'
<1>1. CASE ResolveAll
  BY <1>1, ResolveKeeps DEF ResolveAll
<1>2. CASE \E a \in DOMAIN search.names : Pong(a)
  BY <1>2, PongKeeps
<1>3. ASSUME NEW w \in Lister,
             AddHub(w) \/ AddFails(w) \/ AddEnds(w) \/ SnapshotHubs(w)
             \/ TruncateHubFile(w) \/ WriteHubFile(w)
      PROVE  HubsInv'
  BY <1>3, AddHubKeeps, AddFailsKeeps, AddEndsKeeps, SnapshotHubsKeeps, TruncateHubFileKeeps,
     WriteHubFileKeeps
<1>q. QED
  BY <1>1, <1>2, <1>3, SelectInOrderKeeps, ProbeEndsKeeps, FallbackKeeps, SearchOnlyKeeps,
     DialKeeps, HandshakePeersKeeps, HandshakeOkKeeps, PeersNotificationKeeps DEF HubStep

LEMMA HubFaultKeeps == ASSUME HubsInv, HubFault PROVE HubsInv'
<1>1. CASE ResolveSome
  BY <1>1, ResolveKeeps DEF ResolveSome
<1>2. CASE \E w \in Lister : SaveHubsFails(w)
  BY <1>2, SaveHubsFailsKeeps
<1>q. QED
  BY <1>1, <1>2, SearchOnlyKeeps DEF HubFault

\* A process without a network: nothing is in memory.
NoHubs ==
    /\ hubs = <<>> /\ search = NoSearch /\ lister = [w \in Lister |-> NoList]
    /\ saveMu = "nobody"

LEMMA NoHubsFacts ==
    NoHubs /\ net \in Network /\ hubFile \in HubTables \cup {NoHubFile, BadHubFile}
        => HubsInv /\ search.pc = "off"
<1> SUFFICES ASSUME NoHubs, net \in Network, hubFile \in HubTables \cup {NoHubFile, BadHubFile}
             PROVE  HubsInv /\ search.pc = "off"
  OBVIOUS
<1>1. <<>> \in Seq(Hub)
  OBVIOUS
<1>2. NoSearch \in SearchTypes
  BY <1>1, EmptyTable DEF SearchTypes, NoSearch
<1>3. NoSearch.pc = "off" /\ NoSearch.names = <<>> /\ NoSearch.candidates = <<>>
  BY DEF NoSearch
<1>4. HubTypes
  BY <1>2, EmptyTable, NoListFacts DEF NoHubs, HubTypes, SearchTypes, ListerTypes
<1>5. Known = {}
  BY EmptyTable DEF NoHubs, Known
<1>6. \A w \in Lister : lister[w] = NoList
  BY DEF NoHubs
<1>7. LoadedInv /\ SnapshotInv /\ CoveredInv /\ HandshakeInv
  BY <1>3, <1>5, <1>6, NoListFacts DEF NoHubs, LoadedInv, SnapshotInv, CoveredInv, HandshakeInv,
     Writing, Lister
<1>8. SearchInv
  <2>1. \A a \in DOMAIN search.names : FALSE
    BY <1>3, EmptyTable DEF NoHubs
  <2>2. \A i \in DOMAIN search.candidates : FALSE
    BY <1>3, EmptyTable DEF NoHubs
  <2>q. QED
    BY <1>3, <2>1, <2>2 DEF SearchInv, NoHubs
<1>q. QED
  BY <1>3, <1>4, <1>7, <1>8 DEF HubsInv, NoHubs

LEMMA HubsCrashKeeps == ASSUME HubsInv, HubsCrash PROVE HubsInv' /\ search'.pc = "off"
<1>1. NoHubs' /\ net' \in Network /\ hubFile' \in HubTables \cup {NoHubFile, BadHubFile}
  BY DEF HubsCrash, NoHubs, HubsInv, HubTypes
<1>2. (NoHubs /\ net \in Network /\ hubFile \in HubTables \cup {NoHubFile, BadHubFile})'
        => (HubsInv /\ search.pc = "off")'
  BY NoHubsFacts, PTL
<1>q. QED
  BY <1>1, <1>2

LEMMA OpenKnownHubsKeeps ==
    ASSUME HubsInv, OpenKnownHubs, search.pc = "off"
    PROVE  HubsInv'
<1>1. search' = Idle /\ UNCHANGED <<net, hubFile, lister, saveMu, unsaved>>
      /\ hubFile # BadHubFile /\ hubs' = IF hubFile = NoHubFile THEN <<>> ELSE hubFile
  BY DEF OpenKnownHubs, LoadHubs
<1>2. hubs' \in HubTables /\ Known' = InFile(hubFile)
  BY <1>1, EmptyTable, TableFacts, FileFacts DEF HubsInv, HubTypes, Known
<1>3. \A w \in Lister : lister[w].pc = "idle" /\ lister[w].added = {}
  BY DEF HubsInv, LoadedInv, SnapshotInv
<1>4. HubTypes'
  BY <1>1, <1>2, IdleFacts DEF HubsInv, HubTypes, SearchTypes
<1>5. LoadedInv' /\ SnapshotInv' /\ CoveredInv' /\ HandshakeInv'
  BY <1>1, <1>2, <1>3, IdleFacts DEF LoadedInv, SnapshotInv, CoveredInv, HandshakeInv, Writing, Lister
<1>6. SearchInv'
  BY <1>1, IdleFacts, EmptyTable DEF SearchInv
<1>q. QED
  BY <1>4, <1>5, <1>6 DEF HubsInv

LEMMA HubsFirstState == StartupInit => HubsInv /\ HubsFirst
<1> SUFFICES ASSUME StartupInit PROVE HubsInv /\ HubsFirst
  OBVIOUS
<1>1. NoHubs /\ net \in Network /\ hubFile \in HubFile
  BY DEF StartupInit, HubsInit, NoHubs
<1>2. hubFile \in HubTables \cup {NoHubFile, BadHubFile}
  BY <1>1, NetworkAssumption DEF IsHubTable, HubTables
<1>q. QED
  BY <1>1, <1>2, NoHubsFacts DEF HubsFirst

\* A step of the rest of the daemon.
LEMMA HubsUntouched == ASSUME HubsInv, UNCHANGED hubVars PROVE HubsInv'
BY DEF hubVars, HubsInv, HubTypes, LoadedInv, SnapshotInv, CoveredInv, SearchInv, HandshakeInv, InFile,
       Known, Writing, Available, InJurisdiction, Country

LEMMA HubsNextState ==
    HubsInv /\ HubsFirst /\ [StartupNext]_startupVars => HubsInv' /\ HubsFirst'
<1> SUFFICES ASSUME HubsInv, HubsFirst, [StartupNext]_startupVars PROVE HubsInv' /\ HubsFirst'
  OBVIOUS
<1>1. CASE UNCHANGED startupVars
  BY <1>1, HubsUntouched DEF startupVars, hubVars, HubsFirst
<1>2. CASE Launch \/ Parse \/ Open \/ ReadSettings \/ Migrate \/ SettingsSet \/ SettingsClear
           \/ Save \/ SaveError
  <2>1. UNCHANGED hubVars
    BY <1>2 DEF Launch, Parse, Open, ReadSettings, Migrate, SettingsSet, SettingsClear, Save, SaveError
  <2>2. phase' = "running" => phase = "running"
    <3>1. CASE Launch \/ Parse \/ Open \/ ReadSettings
      BY <3>1 DEF Launch, Parse, Open, ReadSettings
    <3>2. CASE Migrate \/ SettingsSet \/ SettingsClear \/ Save
      BY <3>2 DEF Migrate, SettingsSet, SettingsClear, Save
    <3>3. CASE SaveError
      BY <3>3 DEF SaveError
    <3>q. QED
      BY <1>2, <3>1, <3>2, <3>3
  <2>3. phase = "running" => phase' = "running"
    <3>1. CASE Launch \/ Parse \/ Open \/ ReadSettings
      BY <3>1 DEF Launch, Parse, Open, ReadSettings
    <3>2. CASE Migrate \/ SettingsSet \/ SettingsClear \/ Save
      BY <3>2 DEF Migrate, SettingsSet, SettingsClear, Save
    <3>3. CASE SaveError
      BY <3>3 DEF SaveError
    <3>q. QED
      BY <1>2, <3>1, <3>2, <3>3
  <2>q. QED
    BY <2>1, <2>2, <2>3, HubsUntouched DEF HubsFirst, hubVars
<1>3. CASE DatabaseStarted
  <2>1. UNCHANGED hubVars /\ phase = "database"
    BY <1>3 DEF DatabaseStarted
  <2>q. QED
    BY <2>1, HubsUntouched DEF HubsFirst, hubVars
<1>4. CASE WalletStarted
  <2>1. phase = "wallet" /\ search.pc = "off"
    BY <1>4 DEF WalletStarted, HubsFirst
  <2>2. CASE OpenKnownHubs /\ phase' = "running"
    BY <2>1, <2>2, OpenKnownHubsKeeps DEF HubsFirst
  <2>3. CASE UNCHANGED hubVars
    BY <2>1, <2>3, HubsUntouched DEF HubsFirst, hubVars
  <2>q. QED
    BY <1>4, <2>2, <2>3 DEF WalletStarted
<1>5. CASE FindHubs \/ FindHubsFails
  <2>1. phase' = "running" /\ (HubStep \/ HubFault)
    BY <1>5 DEF FindHubs, FindHubsFails
  <2>q. QED
    BY <2>1, HubStepKeeps, HubFaultKeeps DEF HubsFirst
<1>6. CASE Crash \/ Exit
  <2>1. HubsCrash
    BY <1>6 DEF Crash, Exit
  <2>q. QED
    BY <2>1, HubsCrashKeeps DEF HubsFirst
<1>q. QED
  BY <1>1, <1>2, <1>3, <1>4, <1>5, <1>6 DEF StartupNext

LEMMA HubsSoundFollows == HubsInv => HubsSound
<1> SUFFICES ASSUME HubsInv PROVE KnownHubsSaved /\ DialledFits
  BY DEF HubsSound
<1>1. KnownHubsSaved
  BY DEF HubsInv, SnapshotInv, CoveredInv, KnownHubsSaved, InFile, Writing
<1>2. DialledFits
  <2> SUFFICES ASSUME search.pc \in {"handshake", "peers", "up"}, ~net.explicit, ~search.guess
               PROVE  LET answer == net.answers[Address[Head(search.candidates)]] IN
                      answer.pong = "available" /\ net.jurisdiction \in {NoCountry, answer.country}
    BY DEF DialledFits
  <2>1. search.candidates # <<>> /\ InJurisdiction(Head(search.candidates))
    BY DEF HubsInv, SearchInv
  <2>2. Head(search.candidates) = search.candidates[1] /\ 1 \in DOMAIN search.candidates
    BY <2>1 DEF HubsInv, HubTypes
  <2>3. Available(Address[Head(search.candidates)])
    BY <2>2 DEF HubsInv, SearchInv
  <2>q. QED
    BY <2>1, <2>3 DEF Available, InJurisdiction, Country
<1>q. QED
  BY <1>1, <1>2

\* Every known hub is in the file, about to be saved or excused, in every state.
THEOREM HubsInvariance == StartupSpec => [](HubsInv /\ HubsFirst)
BY HubsFirstState, HubsNextState, PTL DEF StartupSpec

\* For any hubs, answers, lists and files of known hubs and any number of starts and faults:
\* what a peer list added is in the file once nobody saves, and the session is with a hub
\* that said it is available, in the jurisdiction asked for (network.go, known_hubs.go).
THEOREM HubsSoundHolds == StartupSpec => []HubsSound
BY HubsInvariance, HubsSoundFollows, PTL

(***************************************************************************)
(* Starts: the migration chain                                             *)
(*                                                                         *)
(* Every attempt runs the whole chain again over what earlier ones left.   *)
(* Reached(r) is what the steps below r have done, and no later step or    *)
(* repeated one undoes it (Grown); hence at revision 15 the database is    *)
(* migrated, whatever attempts and faults came before.                     *)
(***************************************************************************)

FullTables == {"blob", "reflected_stream", "torrent", "peer", "torrent_extras", "blob_data"}
Columns == {"single_announce", "is_mine"}

Databases ==
    [tables : SUBSET FullTables, blob : SUBSET Columns, fileTable : {0, 6, 11, 12, 13},
     streams : SUBSET Stream, log : SUBSET Stream, announced : SUBSET Stream, saved : SUBSET Stream]

Chains ==
    [phase : {"idle", "read", "backup", "copy", "step", "stamp", "write", "open", "done", "failed"},
     from : 0 .. 15, at : 0 .. 15, sub : 0 .. 3, todo : SUBSET Stream]

BackupRecords ==
    [complete : BOOLEAN, streams : SUBSET Stream, blob : SUBSET Columns, fileTable : {0, 6, 11, 12, 13}]

MigrationTypes ==
    /\ revision \in 0 .. 17
    /\ names \in [rows : {Entry, Gone, {}}, copy : {Entry, Gone, {}}, level : 0 .. 3]
    /\ legacy \in [column : BOOLEAN, metadata : BOOLEAN]
    /\ main \in Databases
    /\ backups \in Seq(BackupRecords)
    /\ chain \in Chains

\* The data directory before the first start.
OriginInv ==
    /\ origin.revision \in 1 .. 17
    /\ origin.names = [rows |-> Entry, copy |-> Gone,
                       level |-> IF origin.revision < 3 THEN origin.revision ELSE 3]
    /\ IF origin.revision \in 6 .. 16
       THEN \E log \in SUBSET Stream :
                origin.main = DatabaseAt(origin.revision,
                                         IF origin.revision < 9 THEN Stream ELSE Sound, log)
       ELSE origin.main = NoDatabase

\* What every database is like, however often the chain was begun.
SchemaInv ==
    /\ Exists => "blob" \in main.tables /\ main.fileTable >= 6
    /\ Exists /\ main.fileTable >= 11 =>
        main.streams = ExpectedStreams /\ main.saved = ExpectedStreams \cap Saved
    /\ main.fileTable = 13 => "torrent" \in main.tables
    /\ origin.revision < 6 => main.streams \subseteq Recoverable
    /\ main.log \subseteq origin.main.log

\* What the steps below the revision r have done.
Reached(r) ==
    /\ r >= 6 => "blob" \in main.tables /\ ExpectedStreams \subseteq main.streams
    /\ r >= 7 => "single_announce" \in main.blob
    /\ r >= 8 => "reflected_stream" \in main.tables
    /\ r >= 9 => main.streams = ExpectedStreams
    /\ r >= 10 => main.announced = ExpectedStreams
    /\ r >= 11 => main.fileTable >= 11
    /\ r >= 12 => main.fileTable >= 12
    /\ r >= 13 => main.fileTable = 13
    /\ r >= 14 => "peer" \in main.tables
    /\ r >= 15 => "is_mine" \in main.blob /\ Extras \subseteq main.tables

\* Either nothing was there and nothing is migrated, or all the steps have taken effect.
Whole == IF origin.revision = Missing THEN main = NoDatabase \/ Migrated ELSE Migrated

\* Where the chain is, and what it has found and left in the revision file.
PlaceInv ==
    /\ chain.phase # "idle" => phase = "database"
    /\ revision \in {origin.revision, Truncated, CurrentRevision}
    /\ chain.phase \in {"backup", "copy", "step"} =>
        /\ revision = origin.revision /\ revision \in 1 .. 14
        /\ chain.from = revision /\ chain.at >= revision
    /\ chain.phase = "read" => chain.sub = 0
    /\ chain.phase \in {"backup", "copy"} => chain.at = revision /\ chain.sub = 0
    /\ chain.phase \in {"open", "done"} => revision = CurrentRevision
    /\ phase \in {"wallet", "running"} => revision = CurrentRevision
    /\ chain.phase = "done" \/ phase \in {"wallet", "running"} => Exists

\* Steps of several transactions.
StepMarks ==
    /\ chain.at = 5 /\ chain.sub = 1 => Exists
    /\ chain.at = 8 /\ chain.sub = 1 => main.streams \ Sound \subseteq chain.todo
    /\ chain.at = 14 /\ chain.sub = 1 => "is_mine" \in main.blob

\* The steps below the revision the chain is at have taken effect.
StepInv ==
    /\ origin.revision \in 1 .. 15 => Reached(origin.revision)
    /\ chain.phase = "step" => Reached(chain.at) /\ StepMarks

\* The revision is not touched before the database is whole.
WholeInv ==
    /\ origin.revision = Missing /\ revision = Missing => main = NoDatabase
    /\ chain.phase \in {"stamp", "write"} \/ revision \in {Truncated, CurrentRevision} => Whole

\* A backup that holds the original.
Holds(b) ==
    /\ b.complete
    /\ b.blob = origin.main.blob /\ b.fileTable = origin.main.fileTable
    /\ origin.main.streams \ origin.main.log \subseteq b.streams

Held == \E i \in DOMAIN backups : Holds(backups[i])

BackupInv ==
    /\ chain.phase = "copy" => backups # <<>> /\ ~backups[Len(backups)].complete
    /\ origin.main # NoDatabase /\ ~Migrated =>
        (Content(main) # Content(origin.main) \/ chain.phase = "step" => Held)

\* Where the rows of name_metadata are.
NamesInv ==
    ~excuse.names =>
        /\ names.rows = Entry \/ (chain.phase = "step" /\ chain.at = 2 /\ chain.sub = 3)
        /\ chain.phase = "step" /\ chain.at = 2 /\ chain.sub \in {2, 3} => names.copy = Entry

MigrationInv ==
    MigrationTypes /\ OriginInv /\ SchemaInv /\ PlaceInv /\ StepInv /\ WholeInv /\ BackupInv /\ NamesInv

LEMMA RevisionFacts == CurrentRevision = 15 /\ Missing = 17 /\ Truncated = 0
BY RevisionAssumption DEF Missing, Truncated

LEMMA ExpectedFacts ==
    ASSUME OriginInv
    PROVE  /\ ExpectedStreams \subseteq Sound
           /\ origin.revision < 6 => ExpectedStreams = Recoverable \cap Sound
           /\ origin.revision \in 6 .. 16 => ExpectedStreams = Sound
<1>0. origin.revision \in 1 .. 17
  BY DEF OriginInv
<1>1. CASE origin.revision < 6
  <2>1. ExpectedStreams = Recoverable \cap Sound
    BY <1>0, <1>1, RevisionFacts DEF ExpectedStreams
  <2>q. QED
    BY <1>0, <1>1, <2>1
<1>2. CASE origin.revision = 17
  BY <1>0, <1>2, RevisionFacts DEF ExpectedStreams
<1>3. CASE origin.revision \in 6 .. 16
  <2>1. origin.main.streams \cap Sound = Sound
    <3>1. PICK log \in SUBSET Stream :
            origin.main = DatabaseAt(origin.revision, IF origin.revision < 9 THEN Stream ELSE Sound, log)
      BY <1>3 DEF OriginInv
    <3>2. origin.main.streams = IF origin.revision < 9 THEN Stream ELSE Sound
      BY <3>1 DEF DatabaseAt
    <3>q. QED
      BY <3>2, StreamAssumption
  <2>2. ExpectedStreams = origin.main.streams \cap Sound
    BY <1>3, RevisionFacts DEF ExpectedStreams
  <2>q. QED
    BY <1>3, <2>1, <2>2
<1>q. QED
  BY <1>0, <1>1, <1>2, <1>3

\* The fields of a migrated database.
MigratedFields ==
    /\ main.tables = FullTables /\ main.blob = Columns /\ main.fileTable = 13
    /\ main.streams = ExpectedStreams /\ main.announced = ExpectedStreams
    /\ main.saved = ExpectedStreams \cap Saved

LEMMA MigratedFacts ==
    main \in Databases => (Migrated <=> MigratedFields)
<1> SUFFICES ASSUME main \in Databases PROVE Migrated <=> MigratedFields
  OBVIOUS
<1> DEFINE E == ExpectedStreams
           goal == [tables |-> FullTables, blob |-> Columns, fileTable |-> 13, streams |-> E,
                    log |-> {}, announced |-> E, saved |-> E \cap Saved]
<1>1. DatabaseAt(CurrentRevision, E, {}) = goal
  <2> HIDE DEF E
  <2>1. DatabaseAt(15, E, {}) = goal
    <3>1. Schema6 \cup {"reflected_stream"} \cup {"torrent"} \cup {"peer"} \cup Extras = FullTables
      BY DEF Schema6, Extras, FullTables
    <3>2. {"single_announce"} \cup {"is_mine"} = Columns
      BY DEF Columns
    <3>q. QED
      BY <3>1, <3>2 DEF DatabaseAt
  <2>q. QED
    BY <2>1, RevisionFacts
<1>2. Content(main) = [tables |-> main.tables, blob |-> main.blob, fileTable |-> main.fileTable,
                       streams |-> main.streams, log |-> {}, announced |-> main.announced,
                       saved |-> main.saved]
  BY DEF Content, Databases
<1>q. QED
  BY <1>1, <1>2 DEF Migrated, MigratedFields

LEMMA ReachedIsMigrated ==
    ASSUME MigrationTypes, SchemaInv, Reached(15)
    PROVE  Migrated
<1>1. MigratedFields
  BY DEF MigrationTypes, Databases, SchemaInv, Reached, MigratedFields, FullTables, Columns, Extras, Exists,
     NoDatabase
<1>q. QED
  BY <1>1, MigratedFacts DEF MigrationTypes

\* How a step may change the database.
Grown ==
    /\ main.tables \subseteq main'.tables /\ main.blob \subseteq main'.blob
    /\ main.fileTable <= main'.fileTable
    /\ ExpectedStreams \subseteq main.streams => ExpectedStreams \subseteq main'.streams
    /\ main.blob # {} /\ main.streams = ExpectedStreams =>
        /\ main'.streams = ExpectedStreams
        /\ main.announced = ExpectedStreams => main'.announced = ExpectedStreams

LEMMA ReachedStays ==
    ASSUME UNCHANGED origin, Grown, main \in Databases, main' \in Databases, NEW r \in Nat, Reached(r)
    PROVE  Reached(r)'
<1>1. ExpectedStreams' = ExpectedStreams
  BY DEF ExpectedStreams
<1> USE DEF Databases
<1>2. r >= 7 => main.blob # {}
  BY DEF Reached
<1>3. (r >= 6 => "blob" \in main'.tables /\ ExpectedStreams \subseteq main'.streams)
      /\ (r >= 7 => "single_announce" \in main'.blob)
      /\ (r >= 8 => "reflected_stream" \in main'.tables)
  BY DEF Reached, Grown
<1>4. (r >= 9 => main'.streams = ExpectedStreams) /\ (r >= 10 => main'.announced = ExpectedStreams)
  BY <1>2 DEF Reached, Grown
<1>5. (r >= 11 => main'.fileTable >= 11) /\ (r >= 12 => main'.fileTable >= 12) /\ (r >= 13 => main'.fileTable = 13)
  BY DEF Reached, Grown
<1>6. (r >= 14 => "peer" \in main'.tables) /\ (r >= 15 => "is_mine" \in main'.blob /\ Extras \subseteq main'.tables)
  BY DEF Reached, Grown
<1>q. QED
  BY <1>1, <1>3, <1>4, <1>5, <1>6 DEF Reached

LEMMA MigratedStays ==
    ASSUME UNCHANGED origin, Grown, MigrationTypes, main' \in Databases, SchemaInv', Migrated
    PROVE  Migrated'
<1>1. ExpectedStreams' = ExpectedStreams
  BY DEF ExpectedStreams
<1>2. MigratedFields
  BY MigratedFacts DEF MigrationTypes
<1>3. main'.tables = FullTables /\ main'.blob = Columns /\ main'.fileTable = 13
  BY <1>2 DEF MigratedFields, Grown, Databases
<1>4. main'.streams = ExpectedStreams /\ main'.announced = ExpectedStreams
  BY <1>2 DEF MigratedFields, Grown, Columns
<1>5. Exists'
  BY <1>3 DEF Exists, NoDatabase
<1>6. main'.saved = ExpectedStreams \cap Saved
  BY <1>1, <1>3, <1>5 DEF SchemaInv
<1>7. MigratedFields'
  BY <1>1, <1>3, <1>4, <1>6 DEF MigratedFields
<1>8. (main \in Databases => (Migrated <=> MigratedFields))'
  BY MigratedFacts, PTL
<1>q. QED
  BY <1>7, <1>8

\* A step of the chain that is followed by another.
LEMMA StepKeeps ==
    ASSUME MigrationInv, chain.phase = "step", chain'.phase = "step", UNCHANGED <<phase, origin, revision, backups>>,
           MigrationTypes', chain'.from = chain.from, chain'.at >= chain.at, Grown, SchemaInv',
           Reached(chain.at)', StepMarks', NamesInv'
    PROVE  MigrationInv'
<1>0. main \in Databases /\ main' \in Databases /\ chain \in Chains /\ chain' \in Chains
  BY DEF MigrationInv, MigrationTypes
<1>1. OriginInv'
  BY DEF MigrationInv, OriginInv
<1>2. revision = origin.revision /\ revision \in 1 .. 14 /\ chain.from = revision /\ chain.at >= revision
      /\ phase = "database"
  BY DEF MigrationInv, PlaceInv
<1>3. Reached(origin.revision)'
  <2>1. Reached(revision)
    BY <1>2 DEF MigrationInv, StepInv
  <2>2. Reached(revision)'
    BY <1>0, <1>2, <2>1, ReachedStays
  <2>q. QED
    BY <1>2, <2>2 DEF Reached
<1>4. PlaceInv'
  BY <1>0, <1>2, RevisionFacts DEF PlaceInv, Chains
<1>6. StepInv'
  BY <1>3 DEF StepInv
<1>7. WholeInv'
  BY <1>2, RevisionFacts DEF WholeInv
<1>5. BackupInv'
  <2>1. Migrated => Migrated'
    BY <1>0, MigratedStays DEF MigrationInv
  <2>2. origin.main # NoDatabase /\ ~Migrated => Held
    BY DEF MigrationInv, BackupInv
  <2>3. Held' <=> Held
    BY DEF Held, Holds
  <2>q. QED
    BY <2>1, <2>2, <2>3 DEF BackupInv
<1>q. QED
  BY <1>1, <1>4, <1>5, <1>6, <1>7 DEF MigrationInv

Names == [rows : {Entry, Gone, {}}, copy : {Entry, Gone, {}}, level : 0 .. 3]
Legacies == [column : BOOLEAN, metadata : BOOLEAN]
ChainOnly == UNCHANGED <<phase, origin, excuse>>

LEMMA SteppedFacts ==
    ASSUME MigrationTypes, chain.phase = "step", chain.at < 15, Stepped
    PROVE  /\ chain' \in Chains /\ chain'.phase = "step" /\ chain'.from = chain.from
           /\ chain'.at = chain.at + 1 /\ chain'.sub = 0
<1>1. chain \in Chains /\ chain.at + 1 \in 0 .. 15
  BY DEF MigrationTypes, Chains
<1>2. chain' = [chain EXCEPT !.at = chain.at + 1, !.sub = 0, !.todo = {}]
  BY DEF Stepped
<1>3. chain'.phase = chain.phase /\ chain'.from = chain.from /\ chain'.at = chain.at + 1 /\ chain'.sub = 0
      /\ chain'.todo = {}
  BY <1>1, <1>2 DEF Chains
<1>4. chain' \in Chains
  <2> DEFINE one == [chain EXCEPT !.at = chain.at + 1]
             two == [one EXCEPT !.sub = 0]
  <2>1. one \in Chains
    BY <1>1 DEF Chains
  <2>3. chain' = [two EXCEPT !.todo = {}]
    BY <1>2
  <2> HIDE DEF one
  <2>2. two \in Chains
    BY <2>1 DEF Chains
  <2> HIDE DEF two
  <2>q. QED
    BY <2>2, <2>3 DEF Chains
<1>q. QED
  BY <1>3, <1>4

LEMMA NextSubFacts ==
    ASSUME MigrationTypes, chain.phase = "step", chain.sub < 3, NextSub
    PROVE  /\ chain' \in Chains /\ chain'.phase = "step" /\ chain'.from = chain.from
           /\ chain'.at = chain.at /\ chain'.sub = chain.sub + 1
<1>1. chain \in Chains /\ chain.sub + 1 \in 0 .. 3
  BY DEF MigrationTypes, Chains
<1>2. chain' = [chain EXCEPT !.sub = chain.sub + 1]
  BY DEF NextSub
<1>q. QED
  BY <1>1, <1>2 DEF Chains

\* Steps of the old databases: lbrynet.sqlite is left alone.
LEMMA OldStepKeeps ==
    ASSUME MigrationInv, chain.phase = "step", chain'.phase = "step", ChainOnly,
           UNCHANGED <<revision, main, backups>>, names' \in Names, legacy' \in Legacies,
           chain' \in Chains, chain'.from = chain.from, chain'.at >= chain.at, chain'.at <= 5,
           chain'.at = 5 => chain'.sub = 0, NamesInv'
    PROVE  MigrationInv'
<1>1. MigrationTypes'
  BY DEF MigrationInv, MigrationTypes, Names, Legacies
<1>2. SchemaInv'
  BY DEF MigrationInv, SchemaInv, ChainOnly, Exists, ExpectedStreams
<1>3. Grown
  BY DEF Grown, MigrationInv, MigrationTypes, Databases
<1>4. Reached(chain.at)'
  BY DEF Chains, Reached
<1>5. StepMarks'
  BY DEF Chains, StepMarks
<1>q. QED
  BY <1>1, <1>2, <1>3, <1>4, <1>5, StepKeeps DEF ChainOnly

LEMMA OldStepsKeep ==
    ASSUME MigrationInv, ChainOnly,
           Migrate1To2 \/ Migrate2Drop \/ Migrate2Copy \/ Migrate2DropTable \/ Migrate2Rename
           \/ Migrate3To4 \/ Migrate4To5
    PROVE  MigrationInv'
<1>0. MigrationTypes /\ NamesInv /\ names \in Names /\ legacy \in Legacies /\ chain \in Chains
  BY DEF MigrationInv, MigrationTypes, Names, Legacies
<1>1. CASE Migrate1To2
  <2>1. chain.phase = "step" /\ chain.at = 1 /\ names' = [names EXCEPT !.level = 2] /\ Stepped
        /\ UNCHANGED <<revision, legacy, main, backups>>
    BY <1>1 DEF Migrate1To2, At
  <2>2. names' \in Names /\ names'.rows = names.rows
    BY <1>0, <2>1 DEF Names
  <2>3. chain' \in Chains /\ chain'.phase = "step" /\ chain'.from = chain.from /\ chain'.at = 2 /\ chain'.sub = 0
    BY <1>0, <2>1, SteppedFacts
  <2>4. NamesInv'
    BY <1>0, <2>1, <2>2, <2>3 DEF NamesInv, ChainOnly
  <2>q. QED
    BY <1>0, <2>1, <2>2, <2>3, <2>4, OldStepKeeps
<1>2. CASE Migrate2Drop
  <2>1. chain.phase = "step" /\ chain.at = 2 /\ chain.sub = 0 /\ names' = [names EXCEPT !.copy = {}] /\ NextSub
        /\ UNCHANGED <<revision, legacy, main, backups>>
    BY <1>2 DEF Migrate2Drop, At
  <2>2. names' \in Names /\ names'.rows = names.rows
    BY <1>0, <2>1 DEF Names
  <2>3. chain' \in Chains /\ chain'.phase = "step" /\ chain'.from = chain.from /\ chain'.at = 2 /\ chain'.sub = 1
    BY <1>0, <2>1, NextSubFacts
  <2>4. NamesInv'
    BY <1>0, <2>1, <2>2, <2>3 DEF NamesInv, ChainOnly
  <2>q. QED
    BY <1>0, <2>1, <2>2, <2>3, <2>4, OldStepKeeps
<1>3. CASE Migrate2Copy
  <2>1. chain.phase = "step" /\ chain.at = 2 /\ chain.sub = 1 /\ names' = [names EXCEPT !.copy = names.rows]
        /\ NextSub /\ UNCHANGED <<revision, legacy, main, backups>>
    BY <1>3 DEF Migrate2Copy, At
  <2>2. names' \in Names /\ names'.rows = names.rows /\ names'.copy = names.rows
    BY <1>0, <2>1 DEF Names
  <2>3. chain' \in Chains /\ chain'.phase = "step" /\ chain'.from = chain.from /\ chain'.at = 2 /\ chain'.sub = 2
    BY <1>0, <2>1, NextSubFacts
  <2>4. NamesInv'
    BY <1>0, <2>1, <2>2, <2>3 DEF NamesInv, ChainOnly
  <2>q. QED
    BY <1>0, <2>1, <2>2, <2>3, <2>4, OldStepKeeps
<1>4. CASE Migrate2DropTable
  <2>1. chain.phase = "step" /\ chain.at = 2 /\ chain.sub = 2 /\ names' = [names EXCEPT !.rows = Gone]
        /\ NextSub /\ UNCHANGED <<revision, legacy, main, backups>>
    BY <1>4 DEF Migrate2DropTable, At
  <2>2. names' \in Names /\ names'.copy = names.copy
    BY <1>0, <2>1 DEF Names
  <2>3. chain' \in Chains /\ chain'.phase = "step" /\ chain'.from = chain.from /\ chain'.at = 2 /\ chain'.sub = 3
    BY <1>0, <2>1, NextSubFacts
  <2>4. NamesInv'
    BY <1>0, <2>1, <2>2, <2>3 DEF NamesInv, ChainOnly
  <2>q. QED
    BY <1>0, <2>1, <2>2, <2>3, <2>4, OldStepKeeps
<1>5. CASE Migrate2Rename
  <2>1. chain.phase = "step" /\ chain.at = 2 /\ chain.sub = 3 /\ Stepped
        /\ names' = [rows |-> names.copy, copy |-> Gone, level |-> 3]
        /\ UNCHANGED <<revision, legacy, main, backups>>
    BY <1>5 DEF Migrate2Rename, At
  <2>2. names' \in Names /\ names'.rows = names.copy
    BY <1>0, <2>1 DEF Names
  <2>3. chain' \in Chains /\ chain'.phase = "step" /\ chain'.from = chain.from /\ chain'.at = 3 /\ chain'.sub = 0
    BY <1>0, <2>1, SteppedFacts
  <2>4. NamesInv'
    <3>2. ~excuse.names => names.copy = Entry
      BY <1>0, <2>1 DEF NamesInv
    <3>q. QED
      BY <2>1, <2>2, <2>3, <3>2 DEF NamesInv, ChainOnly
  <2>q. QED
    BY <1>0, <2>1, <2>2, <2>3, <2>4, OldStepKeeps
<1>6. CASE Migrate3To4 \/ Migrate4To5
  <2>1. chain.phase = "step" /\ chain.at \in {3, 4} /\ Stepped /\ UNCHANGED <<revision, names, main, backups>>
        /\ (legacy' = [legacy EXCEPT !.column = TRUE] \/ legacy' = [legacy EXCEPT !.metadata = TRUE])
    BY <1>6 DEF Migrate3To4, Migrate4To5, At
  <2>2. legacy' \in Legacies
    BY <1>0, <2>1 DEF Legacies
  <2>3. chain' \in Chains /\ chain'.phase = "step" /\ chain'.from = chain.from /\ chain'.at = chain.at + 1
        /\ chain'.sub = 0
    BY <1>0, <2>1, SteppedFacts
  <2>4. NamesInv'
    BY <1>0, <2>1, <2>3 DEF NamesInv, ChainOnly
  <2>5. chain'.at >= chain.at /\ chain'.at <= 5
    BY <2>1, <2>3
  <2>q. QED
    BY <1>0, <2>1, <2>2, <2>3, <2>4, <2>5, OldStepKeeps
<1>q. QED
  BY <1>1, <1>2, <1>3, <1>4, <1>5, <1>6

\* A step of lbrynet.sqlite.
LEMMA DatabaseStepKeeps ==
    ASSUME MigrationInv, chain.phase = "step", chain.at >= 5, Keep, ChainOnly, main' \in Databases,
           chain' \in Chains, chain'.phase = "step", chain'.from = chain.from, chain'.at >= chain.at,
           Grown, SchemaInv', Reached(chain.at)', StepMarks'
    PROVE  MigrationInv'
<1>1. MigrationTypes'
  BY DEF MigrationInv, MigrationTypes, Keep
<1>2. chain.at # 2 /\ chain'.at # 2
  BY DEF MigrationInv, MigrationTypes, Chains
<1>3. NamesInv'
  BY <1>2 DEF MigrationInv, NamesInv, Keep, ChainOnly
<1>q. QED
  BY <1>1, <1>3, StepKeeps DEF Keep, ChainOnly

\* One that leaves the streams alone.
SameStreams ==
    /\ main' \in Databases
    /\ main.tables \subseteq main'.tables /\ main.blob \subseteq main'.blob /\ main.fileTable <= main'.fileTable
    /\ main'.streams = main.streams /\ main'.log \subseteq main.log
    /\ main'.announced \in {main.announced, main.streams}
    /\ main'.fileTable >= 11 =>
        \/ main.fileTable >= 11 /\ main'.saved = main.saved
        \/ main.streams = ExpectedStreams /\ main'.saved = main.streams \cap Saved
    /\ main'.fileTable = 13 => main.fileTable = 13 \/ "torrent" \in main'.tables

LEMMA SameStreamsFacts ==
    ASSUME MigrationInv, Exists, SameStreams, UNCHANGED origin
    PROVE  Grown /\ SchemaInv' /\ Exists'
<1>1. ExpectedStreams' = ExpectedStreams
  BY DEF ExpectedStreams
<1>2. Grown
  BY DEF SameStreams, Grown
<1>3. main \in Databases /\ main' \in Databases /\ "blob" \in main.tables /\ main.fileTable >= 6
  BY DEF MigrationInv, MigrationTypes, SameStreams, SchemaInv
<1>4. "blob" \in main'.tables /\ main'.fileTable >= 6
  BY <1>3 DEF SameStreams, Databases
<1>5. Exists'
  BY <1>4 DEF Exists, NoDatabase
<1>6. main'.fileTable >= 11 => main'.streams = ExpectedStreams /\ main'.saved = ExpectedStreams \cap Saved
  BY <1>3 DEF SameStreams, MigrationInv, SchemaInv
<1>7. main'.fileTable = 13 => "torrent" \in main'.tables
  BY <1>3 DEF SameStreams, MigrationInv, SchemaInv
<1>8. origin.revision < 6 => main'.streams \subseteq Recoverable
  BY DEF SameStreams, MigrationInv, SchemaInv
<1>9. main'.log \subseteq origin.main.log
  BY DEF SameStreams, MigrationInv, SchemaInv
<1>q. QED
  BY <1>1, <1>2, <1>4, <1>5, <1>6, <1>7, <1>8, <1>9 DEF SchemaInv

\* The step at chain.at is done: its mark and the ones before it are there.
LEMMA StepDone ==
    ASSUME MigrationInv, chain.phase = "step", chain.at \in 6 .. 14, Stepped, Keep, ChainOnly, SameStreams,
           chain.at = 6 => "single_announce" \in main'.blob,
           chain.at = 7 => "reflected_stream" \in main'.tables,
           chain.at = 8 => main'.streams = ExpectedStreams,
           chain.at = 9 => main'.announced = main.streams,
           chain.at = 10 => main'.fileTable >= 11,
           chain.at = 11 => main'.fileTable >= 12,
           chain.at = 12 => main'.fileTable = 13,
           chain.at = 13 => "peer" \in main'.tables,
           chain.at = 14 => "is_mine" \in main'.blob /\ Extras \subseteq main'.tables
    PROVE  MigrationInv'
<1>1. MigrationTypes /\ main \in Databases /\ main' \in Databases /\ UNCHANGED origin
  BY DEF MigrationInv, MigrationTypes, SameStreams, ChainOnly
<1>2. chain' \in Chains /\ chain'.phase = "step" /\ chain'.from = chain.from
      /\ chain'.at = chain.at + 1 /\ chain'.sub = 0
  BY <1>1, SteppedFacts
<1>3. Reached(chain.at)
  BY DEF MigrationInv, StepInv
<1>4. Exists
  BY <1>3 DEF Reached, Exists, NoDatabase
<1>5. Grown /\ SchemaInv'
  BY <1>1, <1>4, SameStreamsFacts
<1>6. PICK k \in 6 .. 14 : k = chain.at
  OBVIOUS
<1>7. Reached(k)'
  BY <1>1, <1>3, <1>5, <1>6, ReachedStays
<1>8. ExpectedStreams' = ExpectedStreams
  BY <1>1 DEF ExpectedStreams
<1>9. k >= 9 => main.streams = ExpectedStreams
  BY <1>3, <1>6 DEF Reached
<1>10. Reached(chain.at)'
  <2>1. chain'.at = k + 1
    BY <1>2, <1>6
  <2>2. (k >= 5 => "blob" \in main'.tables /\ ExpectedStreams \subseteq main'.streams)
        /\ (k >= 6 => "single_announce" \in main'.blob) /\ (k >= 7 => "reflected_stream" \in main'.tables)
    BY <1>6, <1>7, <1>8 DEF Reached
  <2>3. (k >= 8 => main'.streams = ExpectedStreams) /\ (k >= 9 => main'.announced = ExpectedStreams)
    BY <1>6, <1>7, <1>8, <1>9 DEF Reached
  <2>4. (k >= 10 => main'.fileTable >= 11) /\ (k >= 11 => main'.fileTable >= 12)
        /\ (k >= 12 => main'.fileTable = 13)
    BY <1>1, <1>6, <1>7 DEF Reached, Databases
  <2>5. (k >= 13 => "peer" \in main'.tables)
        /\ (k >= 14 => "is_mine" \in main'.blob /\ Extras \subseteq main'.tables)
    BY <1>6, <1>7 DEF Reached
  <2>q. QED
    BY <1>6, <1>8, <2>1, <2>2, <2>3, <2>4, <2>5 DEF Reached
<1>11. StepMarks'
  BY <1>2 DEF StepMarks
<1>12. chain'.at >= chain.at /\ chain.at >= 5
  BY <1>2
<1>q. QED
  BY <1>1, <1>2, <1>5, <1>10, <1>11, <1>12, DatabaseStepKeeps

\* A connection that closes after a transaction that made db of the database.
LEMMA CommitFacts ==
    ASSUME NEW db \in Databases, Commit(db)
    PROVE  /\ main' \in Databases /\ main'.tables = db.tables /\ main'.blob = db.blob
           /\ main'.fileTable = db.fileTable /\ main'.streams = db.streams /\ main'.log = {}
           /\ main'.announced = db.announced /\ main'.saved = db.saved
<1>1. main' = [db EXCEPT !.log = {}]
  BY DEF Commit
<1>2. main' \in Databases
  BY <1>1 DEF Databases
<1>q. QED
  BY <1>1, <1>2 DEF Databases

LEMMA LateStepsKeep ==
    ASSUME MigrationInv, ChainOnly,
           Migrate6To7 \/ Migrate7To8 \/ Migrate8Done \/ Migrate9To10 \/ Migrate10To11 \/ Migrate11To12
           \/ Migrate12To13 \/ Migrate13To14 \/ Migrate14Extras
    PROVE  MigrationInv'
<1>0. main \in Databases /\ chain.phase = "step" /\ chain.at \in 6 .. 14 /\ Keep /\ Stepped
  BY DEF MigrationInv, MigrationTypes, Migrate6To7, Migrate7To8, Migrate8Done, Migrate9To10, Migrate10To11,
     Migrate11To12, Migrate12To13, Migrate13To14, Migrate14Extras, At
<1>1. Reached(chain.at) /\ StepMarks
  BY <1>0 DEF MigrationInv, StepInv
<1>2. "blob" \in main.tables /\ main.fileTable >= 6 /\ Exists
  <2>1. "blob" \in main.tables
    BY <1>0, <1>1 DEF Reached
  <2>2. Exists
    BY <2>1 DEF Exists, NoDatabase
  <2>q. QED
    BY <2>1, <2>2 DEF MigrationInv, SchemaInv
<1>3. CASE Migrate6To7
  <2> DEFINE db == [main EXCEPT !.blob = main.blob \cup {"single_announce"}]
  <2>1. Commit(db) /\ chain.at = 6
    BY <1>3 DEF Migrate6To7, At
  <2>2. db \in Databases
    BY <1>0 DEF Databases, Columns
  <2>3. db.tables = main.tables /\ db.blob = main.blob \cup {"single_announce"} /\ db.fileTable = main.fileTable
        /\ db.streams = main.streams /\ db.announced = main.announced /\ db.saved = main.saved
    BY <1>0 DEF Databases
  <2> HIDE DEF db
  <2>4. SameStreams /\ "single_announce" \in main'.blob
    BY <1>0, <2>1, <2>2, <2>3, CommitFacts DEF SameStreams, Databases
  <2>q. QED
    BY <1>0, <2>1, <2>4, StepDone
<1>4. CASE Migrate7To8
  <2> DEFINE db == [main EXCEPT !.tables = main.tables \cup {"reflected_stream"}]
  <2>1. Commit(db) /\ chain.at = 7
    BY <1>4 DEF Migrate7To8, At
  <2>2. db \in Databases
    BY <1>0 DEF Databases, FullTables
  <2>3. db.tables = main.tables \cup {"reflected_stream"} /\ db.blob = main.blob /\ db.fileTable = main.fileTable
        /\ db.streams = main.streams /\ db.announced = main.announced /\ db.saved = main.saved
    BY <1>0 DEF Databases
  <2> HIDE DEF db
  <2>4. SameStreams /\ "reflected_stream" \in main'.tables
    BY <1>0, <2>1, <2>2, <2>3, CommitFacts DEF SameStreams, Databases
  <2>q. QED
    BY <1>0, <2>1, <2>4, StepDone
<1>5. CASE Migrate8Done
  <2> DEFINE db == main
  <2>1. Commit(db) /\ chain.at = 8
    BY <1>5 DEF Migrate8Done, At
  <2>0. main.streams = ExpectedStreams
    <3>1. main.streams \subseteq Sound
      BY <1>1, <1>5 DEF Migrate8Done, At, StepMarks
    <3>2. ExpectedStreams \subseteq main.streams
      BY <1>1, <2>1 DEF Reached
    <3>3. origin.revision \in 1 .. 14
      BY <1>0 DEF MigrationInv, PlaceInv
    <3>4. origin.revision < 6 => main.streams \subseteq Recoverable
      BY DEF MigrationInv, SchemaInv
    <3>q. QED
      BY <3>1, <3>2, <3>3, <3>4, ExpectedFacts DEF MigrationInv
  <2>2. db \in Databases
    BY <1>0, <2>0 DEF Databases, FullTables
  <2>3. db.tables = main.tables /\ db.blob = main.blob /\ db.fileTable = main.fileTable
        /\ db.streams = main.streams /\ db.announced = main.announced /\ db.saved = main.saved
    BY <1>0 DEF Databases
  <2> HIDE DEF db
  <2>4. SameStreams /\ main'.streams = ExpectedStreams
    BY <1>0, <1>2, <2>1, <2>2, <2>3, <2>0, CommitFacts DEF SameStreams, Databases
  <2>q. QED
    BY <1>0, <2>1, <2>4, StepDone
<1>6. CASE Migrate9To10
  <2> DEFINE db == [main EXCEPT !.announced = main.streams]
  <2>1. Commit(db) /\ chain.at = 9
    BY <1>6 DEF Migrate9To10, At
  <2>2. db \in Databases
    BY <1>0 DEF Databases, FullTables
  <2>3. db.tables = main.tables /\ db.blob = main.blob /\ db.fileTable = main.fileTable
        /\ db.streams = main.streams /\ db.announced = main.streams /\ db.saved = main.saved
    BY <1>0 DEF Databases
  <2> HIDE DEF db
  <2>4. SameStreams /\ main'.announced = main.streams
    BY <1>0, <1>2, <2>1, <2>2, <2>3, CommitFacts DEF SameStreams, Databases
  <2>q. QED
    BY <1>0, <2>1, <2>4, StepDone
<1>7. CASE Migrate10To11
  <2>0. chain.at = 10 /\ Commit(IF main.fileTable >= 11 THEN main
                                 ELSE [main EXCEPT !.fileTable = 11, !.saved = main.streams \cap Saved])
    BY <1>7 DEF Migrate10To11, At
  <2>1. main.streams = ExpectedStreams
    BY <1>1, <2>0 DEF Reached
  <2>7. CASE main.fileTable >= 11
    <3> DEFINE db == main
    <3>1. Commit(db)
      BY <2>0, <2>7
    <3>2. db \in Databases
      BY <1>0, <2>1 DEF Databases, FullTables
    <3>3. db.tables = main.tables /\ db.blob = main.blob /\ db.fileTable = main.fileTable
        /\ db.streams = main.streams /\ db.announced = main.announced /\ db.saved = main.saved
      BY <1>0 DEF Databases
    <3> HIDE DEF db
    <3>4. SameStreams /\ main'.fileTable >= 11
      BY <1>0, <1>2, <2>7, <3>1, <3>2, <3>3, <2>1, CommitFacts DEF SameStreams, Databases
    <3>q. QED
      BY <1>0, <2>0, <3>4, StepDone
  <2>8. CASE ~(main.fileTable >= 11)
    <3> DEFINE db == [main EXCEPT !.fileTable = 11, !.saved = main.streams \cap Saved]
    <3>1. Commit(db)
      BY <2>0, <2>8
    <3>2. db \in Databases
      BY <1>0, <2>1 DEF Databases, FullTables
    <3>3. db.tables = main.tables /\ db.blob = main.blob /\ db.fileTable = 11
        /\ db.streams = main.streams /\ db.announced = main.announced /\ db.saved = main.streams \cap Saved
      BY <1>0 DEF Databases
    <3> HIDE DEF db
    <3>4. SameStreams /\ main'.fileTable >= 11
      BY <1>0, <1>2, <2>8, <3>1, <3>2, <3>3, <2>1, CommitFacts DEF SameStreams, Databases
    <3>q. QED
      BY <1>0, <2>0, <3>4, StepDone
  <2>q. QED
    BY <2>7, <2>8
<1>8. CASE Migrate11To12
  <2>0. chain.at = 11 /\ Commit(IF main.fileTable >= 12 THEN main
                                 ELSE [main EXCEPT !.fileTable = 12])
    BY <1>8 DEF Migrate11To12, At
  <2>1. main.fileTable >= 11
    BY <1>1, <2>0 DEF Reached
  <2>7. CASE main.fileTable >= 12
    <3> DEFINE db == main
    <3>1. Commit(db)
      BY <2>0, <2>7
    <3>2. db \in Databases
      BY <1>0, <2>1 DEF Databases, FullTables
    <3>3. db.tables = main.tables /\ db.blob = main.blob /\ db.fileTable = main.fileTable
        /\ db.streams = main.streams /\ db.announced = main.announced /\ db.saved = main.saved
      BY <1>0 DEF Databases
    <3> HIDE DEF db
    <3>4. SameStreams /\ main'.fileTable >= 12
      BY <1>0, <1>2, <2>7, <3>1, <3>2, <3>3, <2>1, CommitFacts DEF SameStreams, Databases
    <3>q. QED
      BY <1>0, <2>0, <3>4, StepDone
  <2>8. CASE ~(main.fileTable >= 12)
    <3> DEFINE db == [main EXCEPT !.fileTable = 12]
    <3>1. Commit(db)
      BY <2>0, <2>8
    <3>2. db \in Databases
      BY <1>0, <2>1 DEF Databases, FullTables
    <3>3. db.tables = main.tables /\ db.blob = main.blob /\ db.fileTable = 12
        /\ db.streams = main.streams /\ db.announced = main.announced /\ db.saved = main.saved
      BY <1>0 DEF Databases
    <3> HIDE DEF db
    <3>4. SameStreams /\ main'.fileTable >= 12
      BY <1>0, <1>2, <2>8, <3>1, <3>2, <3>3, <2>1, CommitFacts DEF SameStreams, Databases
    <3>q. QED
      BY <1>0, <2>0, <3>4, StepDone
  <2>q. QED
    BY <2>7, <2>8
<1>9. CASE Migrate12To13
  <2>0. chain.at = 12 /\ Commit(IF main.fileTable = 13 THEN [main EXCEPT !.tables = main.tables \cup {"peer"} \cup Extras]
                                 ELSE [main EXCEPT !.fileTable = 13, !.tables = main.tables \cup {"torrent"}])
    BY <1>9 DEF Migrate12To13, At
  <2>1. main.fileTable >= 12
    BY <1>1, <2>0 DEF Reached
  <2>7. CASE main.fileTable = 13
    <3> DEFINE db == [main EXCEPT !.tables = main.tables \cup {"peer"} \cup Extras]
    <3>1. Commit(db)
      BY <2>0, <2>7
    <3>2. db \in Databases
      BY <1>0, <2>1 DEF Databases, FullTables, Extras
    <3>3. db.tables = main.tables \cup {"peer"} \cup Extras /\ db.blob = main.blob /\ db.fileTable = main.fileTable
        /\ db.streams = main.streams /\ db.announced = main.announced /\ db.saved = main.saved
      BY <1>0 DEF Databases
    <3> HIDE DEF db
    <3>4. SameStreams /\ main'.fileTable = 13
      BY <1>0, <1>2, <2>7, <3>1, <3>2, <3>3, <2>1, CommitFacts DEF SameStreams, Databases
    <3>q. QED
      BY <1>0, <2>0, <3>4, StepDone
  <2>8. CASE ~(main.fileTable = 13)
    <3> DEFINE db == [main EXCEPT !.fileTable = 13, !.tables = main.tables \cup {"torrent"}]
    <3>1. Commit(db)
      BY <2>0, <2>8
    <3>2. db \in Databases
      BY <1>0, <2>1 DEF Databases, FullTables, Extras
    <3>3. db.tables = main.tables \cup {"torrent"} /\ db.blob = main.blob /\ db.fileTable = 13
        /\ db.streams = main.streams /\ db.announced = main.announced /\ db.saved = main.saved
      BY <1>0 DEF Databases
    <3> HIDE DEF db
    <3>4. SameStreams /\ main'.fileTable = 13
      BY <1>0, <1>2, <2>8, <3>1, <3>2, <3>3, <2>1, CommitFacts DEF SameStreams, Databases
    <3>q. QED
      BY <1>0, <2>0, <3>4, StepDone
  <2>q. QED
    BY <2>7, <2>8
<1>10. CASE Migrate13To14
  <2> DEFINE db == [main EXCEPT !.tables = main.tables \cup {"peer"}]
  <2>1. Commit(db) /\ chain.at = 13
    BY <1>10 DEF Migrate13To14, At
  <2>2. db \in Databases
    BY <1>0 DEF Databases, FullTables
  <2>3. db.tables = main.tables \cup {"peer"} /\ db.blob = main.blob /\ db.fileTable = main.fileTable
        /\ db.streams = main.streams /\ db.announced = main.announced /\ db.saved = main.saved
    BY <1>0 DEF Databases
  <2> HIDE DEF db
  <2>4. SameStreams /\ "peer" \in main'.tables
    BY <1>0, <1>2, <2>1, <2>2, <2>3, CommitFacts DEF SameStreams, Databases
  <2>q. QED
    BY <1>0, <2>1, <2>4, StepDone
<1>11. CASE Migrate14Extras
  <2> DEFINE db == [main EXCEPT !.tables = main.tables \cup {"peer"} \cup Extras]
  <2>1. Commit(db) /\ chain.at = 14
    BY <1>11 DEF Migrate14Extras, At
  <2>0. "is_mine" \in main.blob
    BY <1>1, <1>11 DEF Migrate14Extras, At, StepMarks
  <2>2. db \in Databases
    BY <1>0, <2>0 DEF Databases, FullTables, Extras
  <2>3. db.tables = main.tables \cup {"peer"} \cup Extras /\ db.blob = main.blob /\ db.fileTable = main.fileTable
        /\ db.streams = main.streams /\ db.announced = main.announced /\ db.saved = main.saved
    BY <1>0 DEF Databases
  <2> HIDE DEF db
  <2>4. SameStreams /\ "is_mine" \in main'.blob /\ Extras \subseteq main'.tables
    BY <1>0, <1>2, <2>1, <2>2, <2>3, <2>0, CommitFacts DEF SameStreams, Databases
  <2>q. QED
    BY <1>0, <2>1, <2>4, StepDone
<1>q. QED
  BY <1>3, <1>4, <1>5, <1>6, <1>7, <1>8, <1>9, <1>10, <1>11

LEMMA ColumnsKeep == ASSUME MigrationInv, ChainOnly, Migrate14Columns PROVE MigrationInv'
<1>1. chain.phase = "step" /\ chain.at = 14 /\ chain.sub = 0 /\ NextSub /\ Keep
      /\ main' = [main EXCEPT !.blob = main.blob \cup {"is_mine"}] /\ main \in Databases
  BY DEF Migrate14Columns, At, MigrationInv, MigrationTypes
<1>2. main' \in Databases
  BY <1>1 DEF Databases, Columns
<1>3. main'.tables = main.tables /\ main'.blob = main.blob \cup {"is_mine"} /\ main'.fileTable = main.fileTable
      /\ main'.streams = main.streams /\ main'.log = main.log /\ main'.announced = main.announced
      /\ main'.saved = main.saved
  BY <1>1 DEF Databases
<1>4. SameStreams
  BY <1>1, <1>2, <1>3 DEF SameStreams, Databases
<1>5. chain' \in Chains /\ chain'.phase = "step" /\ chain'.from = chain.from /\ chain'.at = 14 /\ chain'.sub = 1
  BY <1>1, NextSubFacts DEF MigrationInv
<1>6. Reached(14)
  BY <1>1 DEF MigrationInv, StepInv
<1>7. Exists
  BY <1>6 DEF Reached, Exists, NoDatabase
<1>8. Grown /\ SchemaInv'
  BY <1>4, <1>7, SameStreamsFacts DEF ChainOnly
<1>9. Reached(14)'
  BY <1>1, <1>2, <1>6, <1>8, ReachedStays DEF ChainOnly
<1>10. Reached(chain.at)' /\ StepMarks'
  BY <1>3, <1>5, <1>9 DEF StepMarks, Reached
<1>q. QED
  BY <1>1, <1>2, <1>5, <1>8, <1>10, DatabaseStepKeeps

LEMMA LoadKeeps == ASSUME MigrationInv, ChainOnly, Migrate8Load PROVE MigrationInv'
<1>1. chain.phase = "step" /\ chain.at = 8 /\ chain' = [chain EXCEPT !.sub = 1, !.todo = main.streams]
      /\ Keep /\ UNCHANGED main /\ main \in Databases /\ chain \in Chains
  BY DEF Migrate8Load, At, MigrationInv, MigrationTypes
<1>2. chain'.phase = "step" /\ chain'.from = chain.from /\ chain'.at = 8 /\ chain'.sub = 1
      /\ chain'.todo = main.streams
  BY <1>1 DEF Chains
<1>3. chain' \in Chains
  <2> DEFINE one == [chain EXCEPT !.sub = 1]
  <2>1. one \in Chains
    BY <1>1 DEF Chains
  <2>2. chain' = [one EXCEPT !.todo = main.streams]
    BY <1>1
  <2>3. main.streams \in SUBSET Stream
    BY <1>1 DEF Databases
  <2> HIDE DEF one
  <2>q. QED
    BY <2>1, <2>2, <2>3 DEF Chains
<1>4. Grown /\ SchemaInv'
  BY <1>1 DEF Grown, Databases, MigrationInv, SchemaInv, ChainOnly, Exists, ExpectedStreams
<1>5. Reached(8)'
  BY <1>1 DEF MigrationInv, StepInv, Reached, ChainOnly, ExpectedStreams
<1>6. Reached(chain.at)' /\ StepMarks'
  BY <1>1, <1>2, <1>5 DEF Reached, StepMarks
<1>q. QED
  BY <1>1, <1>2, <1>3, <1>4, <1>6, DatabaseStepKeeps

LEMMA DeleteKeeps == ASSUME MigrationInv, ChainOnly, Migrate8Delete PROVE MigrationInv'
<1>1. PICK s \in chain.todo :
        /\ chain' = [chain EXCEPT !.todo = chain.todo \ {s}]
        /\ main' = IF s \in Sound THEN main ELSE [main EXCEPT !.streams = main.streams \ {s}, !.log = main.log \ {s}]
  BY DEF Migrate8Delete
<1>2. chain.phase = "step" /\ chain.at = 8 /\ chain.sub = 1 /\ Keep /\ main \in Databases /\ chain \in Chains
  BY DEF Migrate8Delete, At, MigrationInv, MigrationTypes
<1>3. chain' \in Chains /\ chain'.phase = "step" /\ chain'.from = chain.from /\ chain'.at = 8 /\ chain'.sub = 1
      /\ chain'.todo = chain.todo \ {s}
  BY <1>1, <1>2 DEF Chains
<1>4. main' \in Databases /\ main'.tables = main.tables /\ main'.blob = main.blob
      /\ main'.fileTable = main.fileTable /\ main'.announced = main.announced /\ main'.saved = main.saved
  BY <1>1, <1>2 DEF Databases
<1>5. /\ main'.streams = IF s \in Sound THEN main.streams ELSE main.streams \ {s}
      /\ main'.log \subseteq main.log
  BY <1>1, <1>2 DEF Databases
<1>6. Reached(8) /\ main.streams \ Sound \subseteq chain.todo /\ ExpectedStreams \subseteq Sound
  BY <1>2, ExpectedFacts DEF MigrationInv, StepInv, StepMarks
<1>7. ExpectedStreams' = ExpectedStreams
  BY DEF ExpectedStreams, ChainOnly
<1>8. main.streams = ExpectedStreams => main'.streams = ExpectedStreams
  BY <1>5, <1>6
<1>9. Grown
  BY <1>2, <1>4, <1>5, <1>6, <1>8 DEF Grown, Databases
<1>10. "blob" \in main.tables /\ Exists
  BY <1>6 DEF Reached, Exists, NoDatabase
<1>11. SchemaInv'
  <2>1. Exists' /\ "blob" \in main'.tables /\ main'.fileTable >= 6
    BY <1>4, <1>10 DEF Exists, NoDatabase, MigrationInv, SchemaInv
  <2>2. main'.fileTable >= 11 => main'.streams = ExpectedStreams /\ main'.saved = ExpectedStreams \cap Saved
    BY <1>4, <1>8, <1>10 DEF MigrationInv, SchemaInv
  <2>3. main'.fileTable = 13 => "torrent" \in main'.tables
    BY <1>4 DEF MigrationInv, SchemaInv
  <2>4. origin.revision < 6 => main'.streams \subseteq Recoverable
    BY <1>5 DEF MigrationInv, SchemaInv
  <2>5. main'.log \subseteq origin.main.log
    BY <1>5 DEF MigrationInv, SchemaInv
  <2>q. QED
    BY <1>7, <2>1, <2>2, <2>3, <2>4, <2>5 DEF SchemaInv, ChainOnly
<1>12. Reached(8)'
  BY <1>2, <1>4, <1>6, <1>9, ReachedStays DEF ChainOnly
<1>13. Reached(chain.at)' /\ StepMarks'
  BY <1>3, <1>5, <1>6, <1>12 DEF Reached, StepMarks
<1>q. QED
  BY <1>2, <1>3, <1>4, <1>9, <1>11, <1>13, DatabaseStepKeeps

LEMMA SchemaKeeps == ASSUME MigrationInv, ChainOnly, Migrate5Schema PROVE MigrationInv'
<1>1. chain.phase = "step" /\ chain.at = 5 /\ chain.sub = 0 /\ NextSub /\ Keep /\ main \in Databases
      /\ Commit(IF Exists THEN main ELSE DatabaseAt(6, {}, {}))
  BY DEF Migrate5Schema, At, MigrationInv, MigrationTypes, Keep
<1>2. chain' \in Chains /\ chain'.phase = "step" /\ chain'.from = chain.from /\ chain'.at = 5 /\ chain'.sub = 1
  BY <1>1, NextSubFacts DEF MigrationInv
<1>3. main' \in Databases /\ Grown /\ SchemaInv' /\ Exists'
  <2>1. CASE Exists
    <3>1. Commit(main)
      BY <1>1, <2>1
    <3>2. SameStreams
      BY <1>1, <3>1, CommitFacts DEF SameStreams, Databases
    <3>q. QED
      BY <2>1, <3>2, SameStreamsFacts DEF SameStreams, ChainOnly
  <2>2. CASE ~Exists
    <3> DEFINE db == DatabaseAt(6, {}, {})
    <3>1. db = [tables |-> {"blob"}, blob |-> {}, fileTable |-> 6, streams |-> {}, log |-> {},
                announced |-> {}, saved |-> {}]
      BY DEF DatabaseAt, Schema6
    <3>2. db \in Databases
      BY <3>1 DEF Databases, FullTables
    <3>3. Commit(db)
      BY <1>1, <2>2
    <3>4. main' \in Databases /\ main'.tables = {"blob"} /\ main'.fileTable = 6 /\ main'.streams = {}
          /\ main'.log = {}
      <4> HIDE DEF db
      <4>1. db.tables = {"blob"} /\ db.fileTable = 6 /\ db.streams = {}
        BY <3>1
      <4>q. QED
        BY <3>2, <3>3, <4>1, CommitFacts
    <3>5. main.tables = {} /\ main.blob = {} /\ main.fileTable = 0 /\ main.streams = {}
      BY <2>2 DEF Exists, NoDatabase
    <3>6. Grown
      BY <3>4, <3>5 DEF Grown
    <3>7. Exists'
      BY <3>4 DEF Exists, NoDatabase
    <3>8. SchemaInv'
      BY <3>4, <3>7 DEF SchemaInv
    <3>q. QED
      BY <3>4, <3>6, <3>7, <3>8
  <2>q. QED
    BY <2>1, <2>2
<1>4. Reached(chain.at)' /\ StepMarks'
  BY <1>2, <1>3 DEF Reached, StepMarks
<1>q. QED
  BY <1>1, <1>2, <1>3, <1>4, DatabaseStepKeeps

LEMMA ImportKeeps == ASSUME MigrationInv, ChainOnly, Migrate5Import PROVE MigrationInv'
<1> DEFINE db == [main EXCEPT !.streams = Recoverable]
<1>1. chain.phase = "step" /\ chain.at = 5 /\ chain.sub = 1 /\ Stepped /\ Keep /\ main \in Databases /\ Commit(db)
  BY DEF Migrate5Import, At, MigrationInv, MigrationTypes, Keep
<1>2. main.blob = {} /\ main.fileTable = 6
  BY <1>1 DEF Migrate5Import, At, Fits
<1>3. chain' \in Chains /\ chain'.phase = "step" /\ chain'.from = chain.from /\ chain'.at = 6 /\ chain'.sub = 0
  BY <1>1, SteppedFacts DEF MigrationInv
<1>4. db \in Databases
  BY <1>1, StreamAssumption DEF Databases
<1>5. db.tables = main.tables /\ db.blob = main.blob /\ db.fileTable = main.fileTable /\ db.streams = Recoverable
  BY <1>1 DEF Databases
<1> HIDE DEF db
<1>6. main' \in Databases /\ main'.tables = main.tables /\ main'.blob = {} /\ main'.fileTable = 6
      /\ main'.streams = Recoverable /\ main'.log = {}
  BY <1>1, <1>2, <1>4, <1>5, CommitFacts
<1>7. origin.revision \in 1 .. 5
  BY <1>1 DEF MigrationInv, PlaceInv, MigrationTypes, Chains
<1>8. ExpectedStreams = Recoverable \cap Sound
  BY <1>7, ExpectedFacts DEF MigrationInv
<1>9. Exists /\ "blob" \in main.tables
  BY <1>1 DEF MigrationInv, StepInv, StepMarks, SchemaInv
<1>10. ExpectedStreams' = ExpectedStreams
  BY DEF ExpectedStreams, ChainOnly
<1>11. Grown
  BY <1>2, <1>6, <1>8 DEF Grown
<1>12. SchemaInv'
  BY <1>6, <1>9 DEF SchemaInv
<1>13. Reached(chain.at)' /\ StepMarks'
  BY <1>3, <1>6, <1>8, <1>9, <1>10 DEF Reached, StepMarks
<1>q. QED
  BY <1>1, <1>3, <1>6, <1>11, <1>12, <1>13, DatabaseStepKeeps

\* A step that changes no table.
TablesStay == UNCHANGED <<names, legacy, main, origin>>

LEMMA TablesStayFacts ==
    ASSUME MigrationInv, TablesStay
    PROVE  /\ OriginInv' /\ SchemaInv' /\ (origin.revision \in 1 .. 15 => Reached(origin.revision)')
           /\ Migrated' = Migrated /\ Whole' = Whole /\ Exists' = Exists
<1>1. ExpectedStreams' = ExpectedStreams
  BY DEF TablesStay, ExpectedStreams
<1>2. OriginInv'
  BY DEF MigrationInv, OriginInv, TablesStay
<1>3. SchemaInv' /\ Exists' = Exists
  BY <1>1 DEF MigrationInv, SchemaInv, TablesStay, Exists
<1>4. origin.revision \in 1 .. 15 => Reached(origin.revision)'
  BY <1>1 DEF MigrationInv, StepInv, Reached, TablesStay
<1>5. Migrated' = Migrated
  BY <1>1 DEF Migrated, TablesStay
<1>6. Whole' = Whole
  BY <1>5 DEF Whole, TablesStay
<1>q. QED
  BY <1>2, <1>3, <1>4, <1>5, <1>6

\* The chain stops or goes on without a step.
LEMMA ChainMoves ==
    ASSUME MigrationInv, TablesStay, MigrationTypes', PlaceInv', WholeInv', BackupInv', NamesInv',
           chain'.phase # "step" \/ (chain.phase \in {"backup", "copy"} /\ chain'.phase = "step"
                                     /\ chain'.at = chain.at /\ chain'.sub = 0)
    PROVE  MigrationInv'
<1>1. OriginInv' /\ SchemaInv' /\ (origin.revision \in 1 .. 15 => Reached(origin.revision)')
  BY TablesStayFacts
<1>2. StepInv'
  <2>1. CASE chain'.phase # "step"
    BY <1>1, <2>1 DEF StepInv, TablesStay
  <2>2. CASE chain.phase \in {"backup", "copy"} /\ chain'.phase = "step" /\ chain'.at = chain.at /\ chain'.sub = 0
    <3>1. chain.at = origin.revision /\ origin.revision \in 1 .. 14
      BY <2>2 DEF MigrationInv, PlaceInv
    <3>2. Reached(chain.at)'
      BY <1>1, <2>2, <3>1 DEF Reached, TablesStay
    <3>q. QED
      BY <1>1, <2>2, <3>2 DEF StepInv, StepMarks, TablesStay
  <2>q. QED
    BY <2>1, <2>2
<1>q. QED
  BY <1>1, <1>2 DEF MigrationInv

LEMMA NotRunningFacts ==
    /\ NotRunning \in Chains /\ NotRunning.phase = "idle"
    /\ \A p \in {"read", "open", "done", "failed"} :
        [NotRunning EXCEPT !.phase = p] \in Chains /\ [NotRunning EXCEPT !.phase = p].phase = p
BY DEF NotRunning, Chains

\* Nothing is under way: what was in memory is forgotten.
LEMMA NoStep ==
    ASSUME MigrationInv, TablesStay, UNCHANGED <<revision, backups>>, MigrationTypes', PlaceInv', NamesInv',
           chain'.phase \notin {"backup", "copy", "step", "stamp", "write"}
    PROVE  MigrationInv'
<1>1. WholeInv'
  BY TablesStayFacts DEF MigrationInv, WholeInv, TablesStay
<1>2. BackupInv'
  <2>1. Held' = Held
    BY DEF Held, Holds, TablesStay
  <2>2. Migrated' = Migrated /\ Content(main)' = Content(main) /\ origin' = origin
    BY TablesStayFacts DEF TablesStay, Content
  <2>3. Content(origin.main)' = Content(origin.main)
    BY <2>2
  <2>q. QED
    BY <2>1, <2>2, <2>3 DEF MigrationInv, BackupInv
<1>q. QED
  BY <1>1, <1>2, ChainMoves

LEMMA ReadRevisionKeeps == ASSUME MigrationInv, ChainOnly, ReadRevision PROVE MigrationInv'
<1>0. chain.phase = "read" /\ chain \in Chains /\ phase = "database" /\ revision \in 0 .. 17
      /\ UNCHANGED <<revision, names, legacy, main, backups>> /\ TablesStay
  BY DEF ReadRevision, MigrationInv, MigrationTypes, PlaceInv, ChainOnly, TablesStay
<1>1. CASE revision \in {15, 0, 16}
  <2>1. chain' = [NotRunning EXCEPT !.phase = IF revision = 15 THEN "open" ELSE "failed"]
    BY <1>0, <1>1, RevisionFacts DEF ReadRevision, Return
  <2>2. chain' \in Chains /\ chain'.phase = IF revision = 15 THEN "open" ELSE "failed"
    BY <2>1, NotRunningFacts
  <2>3. MigrationTypes'
    BY <1>0, <2>2 DEF MigrationInv, MigrationTypes
  <2>4. PlaceInv'
    BY <1>0, <2>2, RevisionFacts DEF MigrationInv, PlaceInv, ChainOnly
  <2>5. NamesInv'
    BY <1>0, <2>2 DEF MigrationInv, NamesInv, ChainOnly
  <2>q. QED
    BY <1>0, <2>2, <2>3, <2>4, <2>5, NoStep
<1>2. CASE revision = 17
  <2>1. chain' = [chain EXCEPT !.phase = "stamp"]
    BY <1>0, <1>2, RevisionFacts DEF ReadRevision
  <2>2. chain' \in Chains /\ chain'.phase = "stamp"
    BY <1>0, <2>1 DEF Chains
  <2>3. MigrationTypes'
    BY <1>0, <2>2 DEF MigrationInv, MigrationTypes
  <2>4. PlaceInv'
    BY <1>0, <2>2 DEF MigrationInv, PlaceInv, ChainOnly
  <2>5. NamesInv'
    BY <1>0, <2>2 DEF MigrationInv, NamesInv, ChainOnly
  <2>6. origin.revision = 17 /\ main = NoDatabase /\ origin.main = NoDatabase
    BY <1>2, RevisionFacts DEF MigrationInv, PlaceInv, WholeInv, OriginInv
  <2>7. WholeInv' /\ BackupInv'
    BY <1>0, <2>2, <2>6, RevisionFacts DEF WholeInv, Whole, BackupInv, TablesStay
  <2>q. QED
    BY <1>0, <2>2, <2>3, <2>4, <2>5, <2>7, ChainMoves
<1>3. CASE revision \in 1 .. 14
  <2>1. chain' = [chain EXCEPT !.phase = "backup", !.from = revision, !.at = revision]
    BY <1>0, <1>3, RevisionFacts DEF ReadRevision
  <2>2. chain'.phase = "backup" /\ chain'.from = revision /\ chain'.at = revision /\ chain'.sub = chain.sub
    BY <1>0, <2>1 DEF Chains
  <2>3. chain' \in Chains
    <3> DEFINE one == [chain EXCEPT !.phase = "backup"]
    <3>1. one \in Chains
      BY <1>0 DEF Chains
    <3>2. chain' = [one EXCEPT !.from = revision, !.at = revision]
      BY <2>1
    <3>3. revision \in 0 .. 15
      BY <1>3
    <3> HIDE DEF one
    <3>q. QED
      BY <3>1, <3>2, <3>3 DEF Chains
  <2>4. MigrationTypes'
    BY <1>0, <2>3 DEF MigrationInv, MigrationTypes
  <2>5. revision = origin.revision
    BY <1>3, RevisionFacts DEF MigrationInv, PlaceInv
  <2>6. PlaceInv'
    BY <1>0, <1>3, <2>2, <2>5 DEF MigrationInv, PlaceInv, ChainOnly
  <2>7. NamesInv'
    BY <1>0, <2>2 DEF MigrationInv, NamesInv, ChainOnly
  <2>8. WholeInv'
    BY <1>0, <1>3, <2>2, RevisionFacts DEF WholeInv
  <2>9. BackupInv'
    <3>1. Held' = Held
      BY <1>0 DEF Held, Holds, TablesStay
    <3>2. Migrated' = Migrated /\ Content(main)' = Content(main) /\ origin' = origin
      BY <1>0, TablesStayFacts DEF TablesStay, Content
    <3>3. Content(origin.main)' = Content(origin.main)
      BY <3>2
    <3>q. QED
      BY <1>0, <2>2, <3>1, <3>2, <3>3 DEF MigrationInv, BackupInv
  <2>q. QED
    BY <1>0, <2>2, <2>4, <2>6, <2>7, <2>8, <2>9, ChainMoves
<1>q. QED
  BY <1>0, <1>1, <1>2, <1>3

LEMMA NoBackupKeeps == ASSUME MigrationInv, ChainOnly, NoBackup PROVE MigrationInv'
<1>0. chain.phase = "backup" /\ chain \in Chains /\ ~Exists /\ chain' = [chain EXCEPT !.phase = "step"]
      /\ UNCHANGED <<revision, names, legacy, main, backups>> /\ TablesStay
  BY DEF NoBackup, MigrationInv, MigrationTypes, ChainOnly, TablesStay
<1>1. chain' \in Chains /\ chain'.phase = "step" /\ chain'.at = chain.at /\ chain'.from = chain.from
      /\ chain'.sub = chain.sub
  BY <1>0 DEF Chains
<1>2. revision = origin.revision /\ revision \in 1 .. 14 /\ chain.at = revision /\ chain.from = revision
      /\ phase = "database" /\ chain.sub = 0
  BY <1>0 DEF MigrationInv, PlaceInv
<1>3. MigrationTypes' /\ PlaceInv'
  BY <1>0, <1>1, <1>2 DEF MigrationInv, MigrationTypes, PlaceInv, ChainOnly
<1>4. NamesInv'
  BY <1>0, <1>1, <1>2 DEF MigrationInv, NamesInv, ChainOnly
<1>5. WholeInv'
  <2>1. revision' \in 1 .. 14
    BY <1>0, <1>2
  <2>q. QED
    BY <1>1, <2>1, RevisionFacts DEF WholeInv
<1>6. origin.main = NoDatabase
  <2>1. Reached(revision)
    BY <1>2 DEF MigrationInv, StepInv
  <2>2. revision < 6
    BY <1>0, <1>2, <2>1 DEF Reached, Exists, NoDatabase
  <2>q. QED
    BY <1>2, <2>2 DEF MigrationInv, OriginInv
<1>7. BackupInv'
  BY <1>0, <1>1, <1>6 DEF BackupInv, TablesStay
<1>q. QED
  BY <1>0, <1>1, <1>2, <1>3, <1>4, <1>5, <1>7, ChainMoves

\* A backup is copied whole or stays incomplete, and none that is complete is touched.
LEMMA CreateBackupKeeps == ASSUME MigrationInv, ChainOnly, CreateBackup PROVE MigrationInv'
<1> DEFINE new == [complete |-> FALSE, streams |-> {}, blob |-> {}, fileTable |-> 0]
<1>0. chain.phase = "backup" /\ chain \in Chains /\ chain' = [chain EXCEPT !.phase = "copy"]
      /\ backups' = Append(backups, new) /\ backups \in Seq(BackupRecords)
      /\ UNCHANGED <<revision, names, legacy, main>> /\ TablesStay
  BY DEF CreateBackup, MigrationInv, MigrationTypes, ChainOnly, TablesStay
<1>1. chain' \in Chains /\ chain'.phase = "copy" /\ chain'.at = chain.at /\ chain'.from = chain.from
      /\ chain'.sub = chain.sub
  BY <1>0 DEF Chains
<1>2. revision = origin.revision /\ revision \in 1 .. 14 /\ chain.at = revision /\ chain.from = revision
      /\ phase = "database" /\ chain.sub = 0
  BY <1>0 DEF MigrationInv, PlaceInv
<1>3. new \in BackupRecords /\ ~new.complete
  BY DEF BackupRecords
<1> HIDE DEF new
<1>4. backups' \in Seq(BackupRecords) /\ Len(backups') = Len(backups) + 1 /\ backups'[Len(backups')] = new
      /\ DOMAIN backups \subseteq DOMAIN backups' /\ \A i \in DOMAIN backups : backups'[i] = backups[i]
  BY <1>0, <1>3
<1>5. MigrationTypes' /\ PlaceInv'
  BY <1>0, <1>1, <1>2, <1>4 DEF MigrationInv, MigrationTypes, PlaceInv, ChainOnly
<1>6. NamesInv'
  BY <1>0, <1>1, <1>2 DEF MigrationInv, NamesInv, ChainOnly
<1>7. WholeInv'
  <2>1. revision' \in 1 .. 14
    BY <1>0, <1>2
  <2>q. QED
    BY <1>1, <2>1, RevisionFacts DEF WholeInv
<1>8. BackupInv'
  <2>1. Held => Held'
    BY <1>0, <1>4 DEF Held, Holds, TablesStay
  <2>2. Migrated' = Migrated /\ Content(main)' = Content(main) /\ origin' = origin
    BY <1>0, TablesStayFacts DEF TablesStay, Content
  <2>3. Content(origin.main)' = Content(origin.main)
    BY <2>2
  <2>4. backups' # <<>>
    <3>1. Len(backups') > 0
      BY <1>0, <1>4
    <3>q. QED
      BY <3>1
  <2>q. QED
    BY <1>0, <1>1, <1>3, <1>4, <2>1, <2>2, <2>3, <2>4 DEF MigrationInv, BackupInv
<1>q. QED
  BY <1>0, <1>1, <1>5, <1>6, <1>7, <1>8, ChainMoves

\* The content of a database tells its schema and its streams.
LEMMA ContentFacts ==
    ASSUME NEW a \in Databases, NEW b \in Databases, Content(a) = Content(b)
    PROVE  a.blob = b.blob /\ a.fileTable = b.fileTable /\ a.streams = b.streams
<1>1. Content(a).blob = a.blob /\ Content(a).fileTable = a.fileTable /\ Content(a).streams = a.streams
  BY DEF Content, Databases
<1>2. Content(b).blob = b.blob /\ Content(b).fileTable = b.fileTable /\ Content(b).streams = b.streams
  BY DEF Content, Databases
<1>q. QED
  BY <1>1, <1>2

LEMMA DatabaseAtType ==
    ASSUME NEW r \in 6 .. 17, NEW streams \in SUBSET Stream, NEW log \in SUBSET Stream
    PROVE  DatabaseAt(r, streams, log) \in Databases
BY DEF DatabaseAt, Databases, FullTables, Columns, Schema6, Extras

LEMMA OriginType == ASSUME OriginInv PROVE origin.main \in Databases
<1>1. NoDatabase \in Databases
  BY DEF NoDatabase, Databases
<1>2. CASE origin.revision \in 6 .. 16
  <2>1. PICK log \in SUBSET Stream :
          origin.main = DatabaseAt(origin.revision, IF origin.revision < 9 THEN Stream ELSE Sound, log)
    BY <1>2 DEF OriginInv
  <2>2. origin.revision \in 6 .. 17
    BY <1>2
  <2>3. (IF origin.revision < 9 THEN Stream ELSE Sound) \in SUBSET Stream
    BY StreamAssumption
  <2>q. QED
    BY <2>1, <2>2, <2>3, DatabaseAtType
<1>3. CASE origin.revision \notin 6 .. 16
  BY <1>1, <1>3 DEF OriginInv
<1>q. QED
  BY <1>2, <1>3

LEMMA CopyBackupKeeps == ASSUME MigrationInv, ChainOnly, CopyBackup PROVE MigrationInv'
<1>0. chain.phase = "copy" /\ chain \in Chains /\ chain' = [chain EXCEPT !.phase = "step"]
      /\ backups' = [backups EXCEPT ![Len(backups)] = Snapshot] /\ backups \in Seq(BackupRecords)
      /\ UNCHANGED <<revision, names, legacy, main>> /\ TablesStay /\ main \in Databases
  BY DEF CopyBackup, MigrationInv, MigrationTypes, ChainOnly, TablesStay
<1>1. chain' \in Chains /\ chain'.phase = "step" /\ chain'.at = chain.at /\ chain'.from = chain.from
      /\ chain'.sub = chain.sub
  BY <1>0 DEF Chains
<1>2. revision = origin.revision /\ revision \in 1 .. 14 /\ chain.at = revision /\ chain.from = revision
      /\ phase = "database" /\ chain.sub = 0
  BY <1>0 DEF MigrationInv, PlaceInv
<1>3. Snapshot \in BackupRecords /\ Snapshot.complete /\ Snapshot.blob = main.blob
      /\ Snapshot.fileTable = main.fileTable /\ Snapshot.streams = main.streams \ main.log
  BY <1>0 DEF Snapshot, BackupRecords, Databases
<1>4. backups # <<>> /\ ~backups[Len(backups)].complete
  BY <1>0 DEF MigrationInv, BackupInv
<1>5. Len(backups) \in DOMAIN backups
  BY <1>0, <1>4
<1>6. backups' \in Seq(BackupRecords) /\ DOMAIN backups' = DOMAIN backups /\ backups'[Len(backups)] = Snapshot
      /\ \A i \in DOMAIN backups : i # Len(backups) => backups'[i] = backups[i]
  BY <1>0, <1>3, <1>5
<1>7. MigrationTypes' /\ PlaceInv'
  BY <1>0, <1>1, <1>2, <1>6 DEF MigrationInv, MigrationTypes, PlaceInv, ChainOnly
<1>8. NamesInv'
  BY <1>0, <1>1, <1>2 DEF MigrationInv, NamesInv, ChainOnly
<1>9. WholeInv'
  <2>1. revision' \in 1 .. 14
    BY <1>0, <1>2
  <2>q. QED
    BY <1>1, <2>1, RevisionFacts DEF WholeInv
<1>10. BackupInv'
  <2>1. CASE ~Migrated /\ origin.main # NoDatabase
    <3>1. CASE Content(main) # Content(origin.main)
      <4>1. PICK i \in DOMAIN backups : Holds(backups[i])
        BY <2>1, <3>1 DEF MigrationInv, BackupInv, Held
      <4>2. i # Len(backups)
        BY <1>4, <4>1 DEF Holds
      <4>3. Holds(backups[i])'
        BY <1>0, <1>6, <4>1, <4>2 DEF Holds, TablesStay
      <4>q. QED
        BY <1>1, <1>6, <4>3 DEF BackupInv, Held
    <3>2. CASE Content(main) = Content(origin.main)
      <4>1. main.blob = origin.main.blob /\ main.fileTable = origin.main.fileTable
            /\ main.streams = origin.main.streams
        BY <1>0, <3>2, OriginType, ContentFacts DEF MigrationInv
      <4>2. main.log \subseteq origin.main.log
        BY DEF MigrationInv, SchemaInv
      <4>3. origin' = origin
        BY <1>0 DEF TablesStay
      <4>4. Held'
        <5>1. Snapshot.blob = origin'.main.blob /\ Snapshot.fileTable = origin'.main.fileTable
              /\ origin'.main.streams \ origin'.main.log \subseteq Snapshot.streams
          BY <1>3, <4>1, <4>2, <4>3
        <5>2. Len(backups) \in DOMAIN backups'
          BY <1>5, <1>6
        <5> HIDE DEF Snapshot
        <5>q. QED
          BY <1>3, <1>6, <5>1, <5>2 DEF Held, Holds
      <4>q. QED
        BY <1>1, <4>4 DEF BackupInv
    <3>q. QED
      BY <3>1, <3>2
  <2>2. CASE Migrated \/ origin.main = NoDatabase
    BY <1>0, <1>1, <2>2, TablesStayFacts DEF BackupInv, TablesStay
  <2>q. QED
    BY <2>1, <2>2
<1>q. QED
  BY <1>0, <1>1, <1>2, <1>7, <1>8, <1>9, <1>10, ChainMoves

LEMMA StepRefusedKeeps == ASSUME MigrationInv, ChainOnly, StepRefused PROVE MigrationInv'
<1>1. chain.phase = "step" /\ chain' = [NotRunning EXCEPT !.phase = "failed"] /\ ~Fits
      /\ UNCHANGED <<revision, names, legacy, main, backups>> /\ TablesStay
  BY DEF StepRefused, Fail, Return, ChainOnly, TablesStay
<1>2. chain' \in Chains /\ chain'.phase = "failed"
  BY <1>1, NotRunningFacts
<1>3. MigrationTypes' /\ PlaceInv'
  BY <1>1, <1>2 DEF MigrationInv, MigrationTypes, PlaceInv, ChainOnly
<1>4. ~(chain.at = 2 /\ chain.sub = 3)
  BY <1>1 DEF Fits
<1>5. NamesInv'
  BY <1>1, <1>2, <1>4 DEF MigrationInv, NamesInv, ChainOnly
<1>q. QED
  BY <1>1, <1>2, <1>3, <1>5, NoStep

LEMMA ChainDoneKeeps == ASSUME MigrationInv, ChainOnly, ChainDone PROVE MigrationInv'
<1>0. chain.phase = "step" /\ chain.at = 15 /\ chain \in Chains /\ chain' = [chain EXCEPT !.phase = "stamp"]
      /\ UNCHANGED <<revision, names, legacy, main>> /\ TablesStay /\ backups \in Seq(BackupRecords)
      /\ backups' \in {backups, Front(backups)}
  BY RevisionFacts DEF ChainDone, MigrationInv, MigrationTypes, ChainOnly, TablesStay
<1>1. chain' \in Chains /\ chain'.phase = "stamp"
  BY <1>0 DEF Chains
<1>2. revision = origin.revision /\ revision \in 1 .. 14 /\ phase = "database"
  BY <1>0 DEF MigrationInv, PlaceInv
<1>3. Front(backups) \in Seq(BackupRecords)
  <2>1. Len(backups) \in Nat /\ \A i \in 1 .. Len(backups) : backups[i] \in BackupRecords
    BY <1>0
  <2>q. QED
    BY <1>0, <2>1 DEF Front
<1>4. MigrationTypes' /\ PlaceInv'
  BY <1>0, <1>1, <1>2, <1>3 DEF MigrationInv, MigrationTypes, PlaceInv, ChainOnly
<1>5. NamesInv'
  BY <1>0, <1>1 DEF MigrationInv, NamesInv, ChainOnly
<1>6. Migrated /\ Migrated'
  <2>1. Reached(15)
    BY <1>0 DEF MigrationInv, StepInv
  <2>q. QED
    BY <1>0, <2>1, ReachedIsMigrated, TablesStayFacts DEF MigrationInv
<1>7. WholeInv' /\ BackupInv'
  BY <1>0, <1>1, <1>2, <1>6, RevisionFacts DEF WholeInv, Whole, BackupInv, TablesStay
<1>q. QED
  BY <1>0, <1>1, <1>4, <1>5, <1>7, ChainMoves

\* The revision is written over a whole database.
LEMMA StampKeeps ==
    ASSUME MigrationInv, ChainOnly, TablesStay, UNCHANGED backups, chain' \in Chains,
           chain.phase \in {"stamp", "write"}, chain'.phase \in {"write", "open"},
           revision' = IF chain'.phase = "write" THEN 0 ELSE 15
    PROVE  MigrationInv'
<1>1. phase = "database"
  BY DEF MigrationInv, PlaceInv
<1>2. MigrationTypes' /\ PlaceInv'
  BY <1>1, RevisionFacts DEF MigrationInv, MigrationTypes, PlaceInv, ChainOnly, TablesStay
<1>3. NamesInv'
  BY DEF MigrationInv, NamesInv, ChainOnly, TablesStay
<1>4. WholeInv'
  BY RevisionFacts, TablesStayFacts DEF MigrationInv, WholeInv
<1>5. BackupInv'
  <2>1. Held' = Held
    BY DEF Held, Holds, TablesStay
  <2>2. Migrated' = Migrated /\ Content(main)' = Content(main) /\ origin' = origin
    BY TablesStayFacts DEF TablesStay, Content
  <2>3. Content(origin.main)' = Content(origin.main)
    BY <2>2
  <2>q. QED
    BY <2>1, <2>2, <2>3 DEF MigrationInv, BackupInv
<1>q. QED
  BY <1>2, <1>3, <1>4, <1>5, ChainMoves

LEMMA TruncateRevisionKeeps == ASSUME MigrationInv, ChainOnly, TruncateRevision PROVE MigrationInv'
<1>1. chain.phase = "stamp" /\ chain \in Chains /\ chain' = [chain EXCEPT !.phase = "write"] /\ revision' = 0
      /\ TablesStay /\ UNCHANGED backups
  BY RevisionFacts DEF TruncateRevision, MigrationInv, MigrationTypes, ChainOnly, TablesStay
<1>2. chain' \in Chains /\ chain'.phase = "write"
  BY <1>1 DEF Chains
<1>q. QED
  BY <1>1, <1>2, StampKeeps

LEMMA WriteRevisionKeeps == ASSUME MigrationInv, ChainOnly, WriteRevision PROVE MigrationInv'
<1>1. chain.phase = "write" /\ chain' = [NotRunning EXCEPT !.phase = "open"] /\ revision' = 15
      /\ TablesStay /\ UNCHANGED backups
  BY RevisionFacts DEF WriteRevision, Return, ChainOnly, TablesStay
<1>2. chain' \in Chains /\ chain'.phase = "open"
  BY <1>1, NotRunningFacts
<1>q. QED
  BY <1>1, <1>2, StampKeeps

LEMMA OpenDatabaseKeeps == ASSUME MigrationInv, ChainOnly, OpenDatabase PROVE MigrationInv'
<1>0. chain.phase = "open" /\ chain' = [NotRunning EXCEPT !.phase = "done"]
      /\ UNCHANGED <<revision, names, legacy, backups, origin, phase>>
      /\ main' = IF Exists THEN main ELSE DatabaseAt(15, {}, {})
  BY RevisionFacts DEF OpenDatabase, Return, ChainOnly
<1>1. chain' \in Chains /\ chain'.phase = "done" /\ revision = 15 /\ phase = "database"
  BY <1>0, NotRunningFacts, RevisionFacts DEF MigrationInv, PlaceInv
<1>2. NamesInv'
  BY <1>0, <1>1 DEF MigrationInv, NamesInv, ChainOnly
<1>3. CASE Exists
  <2>1. main' = main /\ TablesStay
    BY <1>0, <1>3 DEF TablesStay
  <2>2. Exists'
    BY <1>3, <2>1 DEF Exists
  <2>3. MigrationTypes' /\ PlaceInv'
    BY <1>0, <1>1, <2>1, <2>2, RevisionFacts DEF MigrationInv, MigrationTypes, PlaceInv
  <2>q. QED
    BY <1>0, <1>1, <1>2, <2>1, <2>3, NoStep
<1>4. CASE ~Exists
  <2>1. main' = DatabaseAt(15, {}, {}) /\ main' \in Databases
    BY <1>0, <1>4, DatabaseAtType
  <2>2. origin.revision = 17
    <3>1. Whole
      BY <1>1, RevisionFacts DEF MigrationInv, WholeInv
    <3>2. ~Migrated
      BY <1>4, MigratedFacts DEF MigrationInv, MigrationTypes, MigratedFields, Exists, NoDatabase
    <3>q. QED
      BY <3>1, <3>2, RevisionFacts DEF Whole
  <2>3. ExpectedStreams' = {}
    BY <1>0, <2>2, RevisionFacts DEF ExpectedStreams
  <2>4. Migrated'
    <3>1. Content(main') = DatabaseAt(15, {}, {})
      BY <2>1 DEF Content, DatabaseAt
    <3>q. QED
      BY <2>3, <3>1, RevisionFacts DEF Migrated
  <2>5. MigratedFields'
    <3>1. (main \in Databases => (Migrated <=> MigratedFields))'
      BY MigratedFacts, PTL
    <3>q. QED
      BY <2>1, <2>4, <3>1
  <2>6. Exists'
    BY <2>5 DEF MigratedFields, Exists, NoDatabase
  <2>7. MigrationTypes' /\ PlaceInv'
    BY <1>0, <1>1, <2>1, <2>6, RevisionFacts DEF MigrationInv, MigrationTypes, PlaceInv
  <2>8. OriginInv'
    BY <1>0 DEF MigrationInv, OriginInv
  <2>9. SchemaInv'
    <3>1. main'.log = {}
      BY <2>1 DEF DatabaseAt
    <3>q. QED
      BY <1>0, <2>2, <2>5, <3>1 DEF SchemaInv, MigratedFields, FullTables
  <2>10. StepInv'
    BY <1>0, <1>1, <2>2 DEF StepInv
  <2>11. WholeInv' /\ BackupInv'
    BY <1>0, <1>1, <2>4, RevisionFacts DEF WholeInv, Whole, BackupInv
  <2>q. QED
    BY <1>2, <2>7, <2>8, <2>9, <2>10, <2>11 DEF MigrationInv
<1>q. QED
  BY <1>3, <1>4

LEMMA ChainNextKeeps == ASSUME MigrationInv, ChainOnly, ChainNext PROVE MigrationInv'
<1>1. CASE ReadRevision \/ NoBackup \/ CreateBackup \/ CopyBackup \/ StepRefused
  BY <1>1, ReadRevisionKeeps, NoBackupKeeps, CreateBackupKeeps, CopyBackupKeeps, StepRefusedKeeps
<1>2. CASE Migrate1To2 \/ Migrate2Drop \/ Migrate2Copy \/ Migrate2DropTable \/ Migrate2Rename
           \/ Migrate3To4 \/ Migrate4To5
  BY <1>2, OldStepsKeep
<1>3. CASE Migrate5Schema \/ Migrate5Import
  BY <1>3, SchemaKeeps, ImportKeeps
<1>4. CASE MigrateRevision6To15Step
  <2>1. CASE Migrate8Load \/ Migrate8Delete \/ Migrate14Columns
    BY <2>1, LoadKeeps, DeleteKeeps, ColumnsKeep
  <2>2. CASE Migrate6To7 \/ Migrate7To8 \/ Migrate8Done \/ Migrate9To10 \/ Migrate10To11 \/ Migrate11To12
             \/ Migrate12To13 \/ Migrate13To14 \/ Migrate14Extras
    BY <2>2, LateStepsKeep
  <2>q. QED
    BY <1>4, <2>1, <2>2 DEF MigrateRevision6To15Step
<1>5. CASE ChainDone \/ TruncateRevision \/ WriteRevision \/ OpenDatabase
  BY <1>5, ChainDoneKeeps, TruncateRevisionKeeps, WriteRevisionKeeps, OpenDatabaseKeeps
<1>q. QED
  BY <1>1, <1>2, <1>3, <1>4, <1>5 DEF ChainNext

\* The chain ends, with the process or before it.
LEMMA ChainEnds ==
    ASSUME MigrationInv, UNCHANGED <<revision, names, legacy, main, backups, origin>>, chain' = NotRunning,
           phase' \notin {"wallet", "running"} \/ chain.phase = "done",
           excuse.names \/ (chain.phase = "step" /\ InWindow) => excuse'.names
    PROVE  MigrationInv'
<1>1. chain' \in Chains /\ chain'.phase = "idle" /\ TablesStay
  BY NotRunningFacts DEF TablesStay
<1>2. MigrationTypes'
  BY <1>1 DEF MigrationInv, MigrationTypes
<1>3. PlaceInv'
  BY <1>1, TablesStayFacts DEF MigrationInv, PlaceInv
<1>4. NamesInv'
  BY <1>1 DEF MigrationInv, NamesInv, InWindow
<1>q. QED
  BY <1>1, <1>2, <1>3, <1>4, NoStep

\* A step of the rest of the daemon.
LEMMA ChainIdle ==
    ASSUME MigrationInv, UNCHANGED <<migrationVars, origin>>, excuse'.names <=> excuse.names,
           phase' = phase \/ chain.phase = "idle",
           phase' \in {"wallet", "running"} => phase \in {"wallet", "running"}
    PROVE  MigrationInv'
<1>1. TablesStay /\ UNCHANGED <<revision, backups, chain>>
  BY DEF TablesStay, migrationVars
<1>2. MigrationTypes'
  BY <1>1 DEF MigrationInv, MigrationTypes, TablesStay
<1>3. PlaceInv'
  BY <1>1, TablesStayFacts DEF MigrationInv, PlaceInv, TablesStay
<1>4. NamesInv'
  BY <1>1 DEF MigrationInv, NamesInv, TablesStay
<1>5. OriginInv' /\ SchemaInv' /\ Migrated' = Migrated /\ Whole' = Whole
      /\ (origin.revision \in 1 .. 15 => Reached(origin.revision)')
  BY <1>1, TablesStayFacts
<1>6. StepInv'
  <2>1. ExpectedStreams' = ExpectedStreams
    BY <1>1 DEF TablesStay, ExpectedStreams
  <2>2. chain.phase = "step" => Reached(chain.at)'
    BY <1>1, <2>1 DEF MigrationInv, StepInv, Reached, TablesStay
  <2>3. StepMarks' = StepMarks
    BY <1>1 DEF StepMarks, TablesStay, Exists
  <2>q. QED
    BY <1>1, <1>5, <2>2, <2>3 DEF MigrationInv, StepInv, TablesStay
<1>7. WholeInv'
  BY <1>1, <1>5 DEF MigrationInv, WholeInv, TablesStay
<1>8. BackupInv'
  <2>1. Held' = Held
    BY <1>1 DEF Held, Holds, TablesStay
  <2>2. Content(main)' = Content(main) /\ origin' = origin
    BY <1>1 DEF TablesStay, Content
  <2>3. Content(origin.main)' = Content(origin.main)
    BY <2>2
  <2>q. QED
    BY <1>1, <1>5, <2>1, <2>2, <2>3 DEF MigrationInv, BackupInv
<1>q. QED
  BY <1>2, <1>3, <1>4, <1>5, <1>6, <1>7, <1>8 DEF MigrationInv

\* The settings file is not being written while the database starts.
MigrationAlone == (phase = "database" => saving.phase = "none") /\ "names" \in DOMAIN excuse

LEMMA MigrationFirst == StartupInit => MigrationInv /\ MigrationAlone
<1> SUFFICES ASSUME StartupInit PROVE MigrationInv /\ MigrationAlone
  OBVIOUS
<1>1. MigrationInit(Revisions) /\ phase = "down" /\ saving = NotSaving
      /\ origin = [revision |-> revision, main |-> main, names |-> names]
      /\ excuse = [settings |-> ~Loads(file) \/ ~Usable(LoadPersisted(file)), database |-> FALSE,
                   names |-> FALSE, hubs |-> hubFile = BadHubFile]
  BY DEF StartupInit, SettingsInit
<1>2. revision \in 1 .. 17 /\ backups = <<>> /\ chain = NotRunning
      /\ names = [rows |-> Entry, copy |-> Gone, level |-> IF revision < 3 THEN revision ELSE 3]
      /\ legacy = [column |-> revision >= 4, metadata |-> revision >= 5]
  BY <1>1, RevisionsAssumption, RevisionFacts DEF MigrationInit
<1>3. origin.revision = revision /\ origin.main = main /\ origin.names = names
  BY <1>1
<1> DEFINE streams == IF revision < 9 THEN Stream ELSE Sound
<1>4. streams \in SUBSET Stream
  BY StreamAssumption
<1>5. IF revision \in 6 .. 16 THEN \E log \in SUBSET Stream : main = DatabaseAt(revision, streams, log)
      ELSE main = NoDatabase
  <2>1. CASE revision \in 6 .. 16
    <3>1. PICK log \in SUBSET Stream : main = DatabaseAt(revision, streams, log \cap streams)
      <4>1. ~(revision < 6 \/ revision = Missing)
        BY <2>1, RevisionFacts
      <4>2. PICK r \in Revisions :
              /\ revision = r
              /\ IF r < 6 \/ r = Missing THEN main = NoDatabase
                 ELSE \E log \in SUBSET Stream :
                          main = DatabaseAt(r, IF r < 9 THEN Stream ELSE Sound, log \cap (IF r < 9 THEN Stream ELSE Sound))
        BY <1>1 DEF MigrationInit
      <4>3. \E log \in SUBSET Stream : main = DatabaseAt(revision, streams, log \cap streams)
        BY <4>1, <4>2, Zenon
      <4>q. QED
        BY <4>3
    <3>2. log \cap streams \in SUBSET Stream
      OBVIOUS
    <3>q. QED
      BY <2>1, <3>1, <3>2
  <2>2. CASE revision \notin 6 .. 16
    <3>1. revision < 6 \/ revision = 17
      BY <1>2, <2>2
    <3>q. QED
      BY <1>1, <2>2, <3>1, RevisionFacts DEF MigrationInit
  <2>q. QED
    BY <2>1, <2>2
<1>6. OriginInv
  BY <1>2, <1>3, <1>5 DEF OriginInv
<1>7. NotRunning \in Chains /\ NotRunning.phase = "idle"
  BY NotRunningFacts
<1>8. MigrationTypes
  <2>1. main \in Databases
    BY <1>3, <1>6, OriginType
  <2>2. names \in [rows : {Entry, Gone, {}}, copy : {Entry, Gone, {}}, level : 0 .. 3]
    BY <1>2
  <2>3. legacy \in [column : BOOLEAN, metadata : BOOLEAN]
    BY <1>2
  <2>4. revision \in 0 .. 17 /\ backups \in Seq(BackupRecords)
    BY <1>2
  <2>q. QED
    BY <1>2, <1>7, <2>1, <2>2, <2>3, <2>4 DEF MigrationTypes
<1>9. PlaceInv
  BY <1>1, <1>2, <1>3, <1>7 DEF PlaceInv
<1>10. SchemaInv /\ (revision \in 1 .. 15 => Reached(revision))
  <2>1. CASE revision \in 6 .. 16
    <3>1. PICK log \in SUBSET Stream : main = DatabaseAt(revision, streams, log)
      BY <1>5, <2>1
    <3>2. ExpectedStreams = Sound
      BY <1>3, <1>6, <2>1, ExpectedFacts
    <3>3. Sound \subseteq streams /\ (revision >= 9 => streams = Sound)
      BY <2>1, StreamAssumption
    <3> HIDE DEF streams
    <3>4. /\ main.streams = streams /\ main.log = log
          /\ main.announced = IF revision >= 10 THEN streams ELSE {}
          /\ main.saved = IF revision >= 11 THEN streams \cap Saved ELSE {}
          /\ main.fileTable = IF revision < 11 THEN 6 ELSE IF revision < 13 THEN revision ELSE 13
      BY <3>1 DEF DatabaseAt
    <3>5. /\ "blob" \in main.tables
          /\ revision >= 8 => "reflected_stream" \in main.tables
          /\ revision >= 13 => "torrent" \in main.tables
          /\ revision >= 14 => "peer" \in main.tables
          /\ revision >= 15 => Extras \subseteq main.tables /\ "is_mine" \in main.blob
          /\ revision >= 7 => "single_announce" \in main.blob
      BY <3>1 DEF DatabaseAt, Schema6
    <3>6. SchemaInv
      BY <1>3, <2>1, <3>2, <3>3, <3>4, <3>5 DEF SchemaInv
    <3>7. Reached(revision)
      BY <2>1, <3>2, <3>3, <3>4, <3>5 DEF Reached
    <3>q. QED
      BY <3>6, <3>7
  <2>2. CASE revision \notin 6 .. 16
    <3>1. main = NoDatabase /\ (revision < 6 \/ revision = 17)
      BY <1>2, <1>5, <2>2
    <3>2. SchemaInv
      BY <3>1 DEF SchemaInv, Exists, NoDatabase
    <3>3. revision \in 1 .. 15 => Reached(revision)
      BY <3>1 DEF Reached
    <3>q. QED
      BY <3>2, <3>3
  <2>q. QED
    BY <2>1, <2>2
<1>11. StepInv
  BY <1>2, <1>3, <1>7, <1>10 DEF StepInv
<1>12. WholeInv
  <2>1. revision = 17 => main = NoDatabase
    BY <1>5
  <2>2. revision = 15 => Migrated
    BY <1>8, <1>10, ReachedIsMigrated
  <2>q. QED
    BY <1>2, <1>3, <1>7, <2>1, <2>2, RevisionFacts DEF WholeInv, Whole
<1>13. BackupInv /\ NamesInv
  BY <1>1, <1>2, <1>3, <1>7 DEF BackupInv, NamesInv
<1>14. MigrationAlone
  BY <1>1 DEF MigrationAlone
<1>q. QED
  BY <1>6, <1>8, <1>9, <1>10, <1>11, <1>12, <1>13, <1>14 DEF MigrationInv

LEMMA MigrationNext ==
    MigrationInv /\ MigrationAlone /\ [StartupNext]_startupVars => MigrationInv' /\ MigrationAlone'
<1> SUFFICES ASSUME MigrationInv, MigrationAlone, [StartupNext]_startupVars PROVE MigrationInv' /\ MigrationAlone'
  OBVIOUS
<1>0. phase # "database" => chain.phase = "idle"
  BY DEF MigrationInv, PlaceInv
<1>1. CASE UNCHANGED startupVars
  BY <1>1, ChainIdle DEF startupVars, settingsVars, MigrationAlone
<1>2. CASE Launch \/ Parse \/ Open
  <2>1. phase \in {"down", "parsing", "opening"}
        /\ phase' \in {"down", "parsing", "opening", "reading", "failed"}
        /\ UNCHANGED <<migrationVars, origin, excuse>>
    BY <1>2 DEF Launch, Parse, Open
  <2>q. QED
    BY <1>0, <2>1, ChainIdle DEF MigrationAlone
<1>3. CASE ReadSettings
  <2>1. phase = "reading" /\ saving' = saving /\ saving.phase = "none" /\ excuse' = excuse
        /\ UNCHANGED <<revision, names, legacy, main, backups, origin>>
    BY <1>3 DEF ReadSettings, settingsVars
  <2>2. CASE phase' = "database" /\ chain' = [NotRunning EXCEPT !.phase = "read"]
    <3>1. chain' \in Chains /\ chain'.phase = "read" /\ chain'.sub = 0 /\ TablesStay
      BY <2>1, <2>2, NotRunningFacts DEF TablesStay, NotRunning
    <3>2. MigrationTypes' /\ PlaceInv'
      BY <2>1, <2>2, <3>1 DEF MigrationInv, MigrationTypes, PlaceInv
    <3>3. NamesInv'
      BY <1>0, <2>1, <3>1 DEF MigrationInv, NamesInv
    <3>4. MigrationInv'
      BY <2>1, <3>1, <3>2, <3>3, NoStep
    <3>q. QED
      BY <2>1, <3>4 DEF MigrationAlone
  <2>3. CASE phase' = "failed" /\ UNCHANGED chain
    <3>1. MigrationInv'
      BY <1>0, <2>1, <2>3, ChainIdle DEF migrationVars
    <3>q. QED
      BY <2>1, <2>3, <3>1 DEF MigrationAlone
  <2>q. QED
    BY <1>3, <2>2, <2>3 DEF ReadSettings
<1>4. CASE Migrate
  <2>1. ChainNext /\ ChainOnly /\ UNCHANGED saving
    BY <1>4 DEF Migrate, ChainOnly, settingsVars
  <2>q. QED
    BY <2>1, ChainNextKeeps DEF MigrationAlone, ChainOnly
<1>5. CASE DatabaseStarted
  <2>1. chain' = NotRunning /\ UNCHANGED <<revision, names, legacy, main, backups, origin, excuse>>
        /\ phase' \in {"failed", "wallet", "running"} /\ chain.phase \in {"done", "failed"}
        /\ (chain.phase # "done" => phase' = "failed")
    BY <1>5 DEF DatabaseStarted
  <2>q. QED
    BY <2>1, ChainEnds DEF MigrationAlone
<1>6. CASE WalletStarted
  <2>1. phase = "wallet" /\ phase' \in {"running", "failed"} /\ UNCHANGED <<migrationVars, origin, excuse>>
    BY <1>6 DEF WalletStarted
  <2>q. QED
    BY <1>0, <2>1, ChainIdle DEF MigrationAlone
<1>7. CASE FindHubs \/ FindHubsFails \/ SettingsSet \/ SettingsClear
  <2>1. phase = "running" /\ phase' = "running" /\ UNCHANGED <<migrationVars, origin>>
    BY <1>7 DEF FindHubs, FindHubsFails, SettingsSet, SettingsClear
  <2>2. excuse'.names = excuse.names /\ "names" \in DOMAIN excuse'
    BY <1>7 DEF FindHubs, FindHubsFails, SettingsSet, SettingsClear, MigrationAlone
  <2>q. QED
    BY <2>1, <2>2, ChainIdle DEF MigrationAlone
<1>8. CASE Save
  <2>1. phase' = phase /\ phase # "database" /\ UNCHANGED <<migrationVars, origin, excuse>>
    BY <1>8 DEF Save, SaveTruncate, SaveWrite, MigrationAlone
  <2>q. QED
    BY <2>1, ChainIdle DEF MigrationAlone
<1>9. CASE SaveError
  <2>1. phase # "database" /\ phase' \in {phase, "down"} /\ UNCHANGED <<migrationVars, origin>>
        /\ (phase' = "down" \/ phase' = phase)
    BY <1>9 DEF SaveError, SaveFails, MigrationAlone
  <2>2. excuse'.names = excuse.names /\ "names" \in DOMAIN excuse'
    BY <1>9 DEF SaveError, MigrationAlone
  <2>q. QED
    BY <1>0, <2>1, <2>2, ChainIdle DEF MigrationAlone
<1>10. CASE Crash
  <2>1. MigrationCrash /\ phase' = "down" /\ origin' = origin /\ excuse' = Excused
    BY <1>10 DEF Crash
  <2>2. "names" \in DOMAIN excuse' /\ (excuse'.names <=> excuse.names \/ InWindow)
    BY <2>1 DEF Excused, MigrationAlone
  <2>3. MigrationInv'
    BY <2>1, <2>2, ChainEnds DEF MigrationCrash
  <2>q. QED
    BY <2>1, <2>2, <2>3 DEF MigrationAlone
<1>11. CASE Exit
  <2>1. MigrationCrash /\ phase' = "down" /\ origin' = origin /\ phase # "database"
        /\ excuse' = [excuse EXCEPT !.hubs = @ \/ SavingHubs]
    BY <1>11 DEF Exit
  <2>2. "names" \in DOMAIN excuse' /\ excuse'.names = excuse.names
    BY <2>1 DEF MigrationAlone
  <2>3. chain.phase # "step"
    BY <1>0, <2>1
  <2>4. MigrationInv'
    BY <2>1, <2>2, <2>3, ChainEnds DEF MigrationCrash
  <2>q. QED
    BY <2>1, <2>2, <2>4 DEF MigrationAlone
<1>q. QED
  BY <1>1, <1>2, <1>3, <1>4, <1>5, <1>6, <1>7, <1>8, <1>9, <1>10, <1>11 DEF StartupNext

LEMMA MigrationSafeFollows == MigrationInv => MigrationSafe
<1> SUFFICES ASSUME MigrationInv PROVE StampedMeansMigrated /\ BackupHoldsOriginal /\ NamesKept
  BY DEF MigrationSafe
<1>1. StampedMeansMigrated
  <2> SUFFICES ASSUME revision = CurrentRevision, Exists \/ phase = "running" PROVE Migrated
    BY DEF StampedMeansMigrated
  <2>1. Whole
    BY DEF MigrationInv, WholeInv
  <2>2. Exists
    BY DEF MigrationInv, PlaceInv
  <2>q. QED
    BY <2>1, <2>2 DEF Whole, Exists
<1>2. BackupHoldsOriginal
  BY DEF MigrationInv, BackupInv, BackupHoldsOriginal, Held, Holds
<1>3. NamesKept
  BY DEF MigrationInv, NamesInv, NamesKept
<1>q. QED
  BY <1>1, <1>2, <1>3

\* What the steps below the revision the chain is at have done is there, in every state.
THEOREM MigrationInvariance == StartupSpec => [](MigrationInv /\ MigrationAlone)
BY MigrationFirst, MigrationNext, PTL DEF StartupSpec

\* For any streams, any original revision and any number of attempts and faults: db_revision
\* says 15 only over a database on which every step has taken effect, a database that is
\* changed and not migrated has a complete backup of the original, and the rows of
\* name_metadata are in the table or its copy (revision.go, migrations.go,
\* migrations_late.go).
THEOREM MigrationSafeHolds == StartupSpec => []MigrationSafe
BY MigrationInvariance, MigrationSafeFollows, PTL

(***************************************************************************)
(* Starts: the settings                                                    *)
(*                                                                         *)
(* Stored is what the store may hold for a kind of setting: everything a   *)
(* file or settings_set can have put there, and what the file gives back   *)
(* as it is when it was written (StoredReturns).                           *)
(***************************************************************************)

IsServer(v) == v = Scalar("server", v.text) /\ v.text \in ServerText
IsList(v) == v = List(v.items) /\ v.items \in Seq(Range(v.items))

Stored(kind, v) ==
    CASE kind = "integer" -> IsScalar(v) /\ v.type = "int"
      [] kind = "float" -> IsScalar(v) /\ v.type = "float"
      [] kind = "servers" -> IsList(v) /\ \A i \in DOMAIN v.items : IsServer(v.items[i])
      [] kind = "max_key_fee" ->
            \/ v = Nil
            \/ /\ v = Fee(v.items[1], v.items[2])
               /\ IsScalar(v.items[1]) /\ v.items[1].type = "float" /\ IsScalar(v.items[2])
      [] OTHER -> IsValue(v)

Servers == {Scalar("server", t) : t \in ServerText}

LEMMA PlainFacts ==
    ASSUME NEW t
    PROVE  /\ t \in {"", "null"} => PlainScalar(t) = Nil
           /\ t \in Truth => PlainScalar(t) = Scalar("bool", t)
           /\ t \in IntText => PlainScalar(t) = Scalar("int", t)
           /\ t \in FloatText => PlainScalar(t) = Scalar("float", t)
           /\ t \notin {"", "null"} \cup Truth \cup IntText \cup FloatText => PlainScalar(t) = Scalar("str", t)
<1> DEFINE all == {"", "null"} \cup Truth \cup IntText \cup FloatText
<1>1. CASE t \in {"", "null"}
  BY <1>1 DEF PlainScalar, Truth, IntText, FloatText
<1>2. CASE t \in Truth
  BY <1>2 DEF PlainScalar, Truth, IntText, FloatText
<1>3. CASE t \in IntText
  BY <1>3 DEF PlainScalar, Truth, IntText, FloatText, Number
<1>4. CASE t \in FloatText
  BY <1>4 DEF PlainScalar, Truth, IntText, FloatText
<1>5. CASE t \notin {"", "null"} \cup Truth \cup IntText \cup FloatText
  BY <1>5 DEF PlainScalar, Text
<1>q. QED
  BY <1>1, <1>2, <1>3, <1>4, <1>5

LEMMA ScalarReturns ==
    ASSUME NEW v, IsScalar(v)
    PROVE  DecodeScalar(ScalarNode(v)) = v
<1>1. v.type = "str" => DecodeScalar(ScalarNode(v)) = v
  <2> SUFFICES ASSUME v.type = "str" PROVE DecodeScalar(ScalarNode(v)) = v
    OBVIOUS
  <2>1. v = Text(v.text)
    BY DEF IsScalar, Text
  <2>2. CASE PlainScalar(v.text).type # "str"
    <3>1. ScalarNode(v) = Node("quoted", v.text)
      BY <2>2 DEF ScalarNode
    <3>q. QED
      BY <2>1, <3>1 DEF DecodeScalar, Node
  <2>3. CASE PlainScalar(v.text).type = "str"
    <3>1. ScalarNode(v) = Node("plain", v.text)
      BY <2>3 DEF ScalarNode
    <3>2. PlainScalar(v.text) = Text(v.text)
      BY <2>3 DEF PlainScalar, Nil, Number, Text, Scalar
    <3>q. QED
      BY <2>1, <3>1, <3>2 DEF DecodeScalar, Node
  <2>q. QED
    BY <2>2, <2>3
<1>2. v.type # "str" => ScalarNode(v) = Node("plain", v.text) /\ DecodeScalar(ScalarNode(v)) = PlainScalar(v.text)
  BY DEF ScalarNode, DecodeScalar, Node
<1>3. v = Nil => v.text = "null" /\ v.type # "str"
  BY DEF Nil, Scalar
<1>4. v = Nil => PlainScalar(v.text) = v
  BY <1>3, PlainFacts
<1>5. v.type = "bool" /\ v.text \in Truth => PlainScalar(v.text) = v
  BY PlainFacts DEF IsScalar
<1>6. (v.type = "int" /\ v.text \in IntText) \/ (v.type = "float" /\ v.text \in FloatText) => PlainScalar(v.text) = v
  BY PlainFacts DEF IsScalar
<1>q. QED
  BY <1>1, <1>2, <1>3, <1>4, <1>5, <1>6 DEF IsScalar

LEMMA ServerReturns ==
    ASSUME NEW v, IsServer(v)
    PROVE  DecodeScalar(ScalarNode(v)) = Text(v.text) /\ v.text \in ServerText
<1>1. v.type = "server" /\ v.text \in ServerText
  BY DEF IsServer, Scalar
<1>2. DecodeScalar(ScalarNode(v)) = PlainScalar(v.text)
  BY <1>1 DEF ScalarNode, DecodeScalar, Node
<1>3. PlainScalar(v.text) = Text(v.text)
  BY <1>1 DEF PlainScalar, ServerText, Truth, IntText, FloatText
<1>q. QED
  BY <1>1, <1>2, <1>3

LEMMA ScalarDecoded ==
    ASSUME NEW node
    PROVE  IsScalar(DecodeScalar(node))
<1>1. IsScalar(PlainScalar(node.text))
  <2> DEFINE t == node.text
             w == PlainScalar(t)
  <2>1. \/ w = Nil
        \/ w = Scalar("bool", t) /\ t \in Truth
        \/ w = Scalar("int", t) /\ t \in IntText
        \/ w = Scalar("float", t) /\ t \in FloatText
        \/ w = Scalar("str", t)
    <3> HIDE DEF t
    <3>q. QED
      BY PlainFacts
  <2> HIDE DEF w, t
  <2>3. w = Nil => IsScalar(w)
    BY DEF IsScalar, Nil, Scalar
  <2>4. w # Nil => w.text = t /\ w = Scalar(w.type, w.text)
    BY <2>1 DEF Scalar
  <2>5. w # Nil => \/ w.type = "str" \/ (w.type = "bool" /\ t \in Truth)
                   \/ (w.type = "int" /\ t \in IntText) \/ (w.type = "float" /\ t \in FloatText)
    BY <2>1 DEF Scalar
  <2>q. QED
    BY <2>3, <2>4, <2>5 DEF IsScalar, w, t
<1>2. IsScalar(Text(node.text))
  BY DEF IsScalar, Text, Scalar
<1>q. QED
  BY <1>1, <1>2 DEF DecodeScalar

LEMMA NodeDecoded ==
    ASSUME NEW node, IsNode(node)
    PROVE  IsValue(Decode(node))
<1>1. CASE node.style = "seq"
  <2> DEFINE items == [i \in DOMAIN node.items |-> DecodeScalar(node.items[i])]
  <2>1. node.items \in Seq(Range(node.items))
    BY <1>1 DEF IsNode
  <2>2. Decode(node) = List(items)
    BY <1>1 DEF Decode
  <2>3. \A i \in DOMAIN items : IsScalar(items[i])
    BY <2>1, ScalarDecoded
  <2>4. items \in Seq(Range(items))
    BY <2>1 DEF Range
  <2> HIDE DEF items
  <2>5. List(items).items = items
    BY DEF List
  <2>q. QED
    BY <2>2, <2>3, <2>4, <2>5 DEF IsValue
<1>2. CASE node.style = "map"
  <2>3. Decode(node) = Fee(DecodeScalar(node.items[1]), DecodeScalar(node.items[2]))
    BY <1>2 DEF Decode
  <2>4. IsScalar(DecodeScalar(node.items[1])) /\ IsScalar(DecodeScalar(node.items[2]))
    BY ScalarDecoded
  <2> DEFINE a == DecodeScalar(node.items[1])
             c == DecodeScalar(node.items[2])
  <2> HIDE DEF a, c
  <2>5. Fee(a, c).items = <<a, c>>
    BY DEF Fee
  <2>6. IsScalar(a) /\ IsScalar(c) /\ Decode(node) = Fee(a, c)
    BY <2>3, <2>4 DEF a, c
  <2>7. Decode(node).items[1] = a /\ Decode(node).items[2] = c
    BY <2>5, <2>6
  <2>q. QED
    BY <2>6, <2>7 DEF IsValue
<1>3. CASE node.style \notin {"seq", "map"}
  <2>q. QED
    BY <1>3, ScalarDecoded DEF Decode, IsValue
<1>q. QED
  BY <1>1, <1>2, <1>3

\* Conversions of a scalar.
LEMMA IntegerFacts ==
    ASSUME NEW v, IsScalar(v), DeserializeInteger(v) # Bad
    PROVE  IsScalar(DeserializeInteger(v)) /\ DeserializeInteger(v).type = "int"
<1>1. \A t \in IntText : IsScalar(Number(t)) /\ Number(t).type = "int"
  BY DEF IsScalar, Number, Scalar, IntText
<1>2. \A t : IntOfBool(t) \in IntText
  BY DEF IntOfBool, IntText
<1>3. \A t : IntOfFloat(t) \in IntText
  BY DEF IntOfFloat, IntText
<1>4. DeserializeInteger(v) \in {v, Number(IntOfBool(v.text)), Number(IntOfFloat(v.text))}
      \/ (v.text \in IntText /\ DeserializeInteger(v) = Number(v.text))
  BY DEF DeserializeInteger
<1>5. DeserializeInteger(v) = v => v.type = "int" \/ \E t \in IntText : v = Number(t)
  BY <1>2, <1>3 DEF DeserializeInteger
<1>q. QED
  BY <1>1, <1>2, <1>3, <1>4, <1>5

LEMMA FloatFacts ==
    ASSUME NEW v, IsScalar(v), DeserializeFloat(v) # Bad
    PROVE  IsScalar(DeserializeFloat(v)) /\ DeserializeFloat(v).type = "float"
<1>1. \A t \in FloatText : IsScalar(Scalar("float", t)) /\ Scalar("float", t).type = "float"
  BY DEF IsScalar, Scalar, FloatText
<1>2. \A t : FloatOfInt(t) \in FloatText
  BY DEF FloatOfInt, FloatText
<1>3. \/ v.type = "float" /\ DeserializeFloat(v) = v
      \/ \E t \in FloatText : DeserializeFloat(v) = Scalar("float", t)
  <2>1. \A t : \E u \in FloatText : Scalar("float", FloatOfInt(t)) = Scalar("float", u)
    BY <1>2
  <2>q. QED
    BY <2>1 DEF DeserializeFloat
<1>q. QED
  BY <1>1, <1>3

\* A number that is stored is read as it is.
LEMMA NumberStays ==
    ASSUME NEW v
    PROVE  /\ v.type = "int" => DeserializeInteger(v) = v
           /\ v.type = "float" => DeserializeFloat(v) = v
BY DEF DeserializeInteger, DeserializeFloat
\* A nonempty set of numbers has a lowest one.
LEMMA LowestNumber ==
  ASSUME NEW T \in SUBSET Nat, T # {}
  PROVE  \E x \in T : \A y \in T : x <= y
<1>1. PICK x \in T : \A y \in T : ~(<<y, x>> \in OpToRel(<, Nat))
  BY NatLessThanWellFounded, WFMin
<1>2. \A y \in T : ~(y < x)
  BY <1>1 DEF OpToRel
<1> QED
  BY <1>2

\* A recurrence over the numbers up to N.
Recurrence(S, N, base, step, g) ==
    g \in [0..N -> S] /\ g[0] = base /\ \A k \in 1..N : g[k] = step[k][g[k - 1]]

\* It has a solution: otherwise there is a shortest prefix that has none.
LEMMA RecurrenceSolved ==
  ASSUME NEW S, NEW N \in Nat, NEW base \in S, NEW step \in [1..N -> [S -> S]]
  PROVE  \E g : Recurrence(S, N, base, step, g)
<1> DEFINE G(n, g) == g \in [0..n -> S] /\ g[0] = base /\ \A k \in 1..n : g[k] = step[k][g[k - 1]]
           Wrong == {n \in 0..N : ~\E g : G(n, g)}
<1>0. Wrong \in SUBSET Nat /\ Wrong \subseteq 0..N /\ \A n \in 0..N : n \notin Wrong => \E g : G(n, g)
  OBVIOUS
<1>1. ASSUME Wrong # {} PROVE FALSE
  <2>1. PICK n \in Wrong : \A y \in Wrong : n <= y
    <3> HIDE DEF Wrong
    <3> QED
      BY <1>0, <1>1, LowestNumber, Zenon
  <2>2. CASE n = 0
    <3>1. G(0, [k \in 0..0 |-> base])
      OBVIOUS
    <3> QED
      BY <2>1, <2>2, <3>1
  <2>3. CASE n # 0
    <3>1. n \in 1..N /\ n - 1 \in 0..N /\ n - 1 \notin Wrong
      <4> HIDE DEF Wrong
      <4>1. n \in 0..N
        BY <1>0
      <4>2. n - 1 \in Nat /\ ~(n <= n - 1) /\ n \in 1..N /\ n - 1 \in 0..N
        BY <2>3, <4>1
      <4> QED
        BY <2>1, <4>2
    <3>2. PICK g : G(n - 1, g)
      BY <1>0, <3>1, Zenon
    <3> DEFINE h == [k \in 0..n |-> IF k = n THEN step[n][g[n - 1]] ELSE g[k]]
    <3>3. g[n - 1] \in S /\ step[n][g[n - 1]] \in S
      BY <3>1, <3>2
    <3>4. h \in [0..n -> S] /\ h[0] = base
      BY <3>1, <3>2, <3>3
    <3>5. ASSUME NEW k \in 1..n PROVE h[k] = step[k][h[k - 1]]
      BY <3>1, <3>2
    <3>6. G(n, h)
      BY <3>4, <3>5
    <3> QED
      BY <2>1, <3>6
  <2> QED
    BY <2>2, <2>3
<1>2. N \in 0..N
  OBVIOUS
<1>3. \E g : G(N, g)
  BY <1>0, <1>1, <1>2, Zenon
<1> QED
  BY <1>3 DEF Recurrence


\* deserializeServers keeps the servers of a list, and all of a list of servers.
LEMMA ServersFacts ==
    ASSUME NEW v, IsList(v), v.type = "list"
    PROVE  /\ \E s \in Seq(Servers) : DeserializeServers(v) = List(s)
           /\ (\A i \in DOMAIN v.items : v.items[i].type = "str" /\ v.items[i].text \in ServerText) =>
                DeserializeServers(v) = List([i \in DOMAIN v.items |-> Scalar("server", v.items[i].text)])
<1> DEFINE N == Len(v.items)
           one(k) == Scalar("server", v.items[k].text)
           fits(k) == v.items[k].type = "str" /\ v.items[k].text \in ServerText
           next(k, s) == IF fits(k) THEN Append(s, one(k)) ELSE s
           E(g) == g = [k \in 0 .. N |-> IF k = 0 THEN <<>> ELSE next(k, g[k - 1])]
           kept == CHOOSE g : E(g)
<1>1. N \in Nat /\ DOMAIN v.items = 1 .. N
  BY DEF IsList
<1>2. DeserializeServers(v) = List(kept[N])
  BY DEF DeserializeServers
<1>3. \A k : fits(k) => one(k) \in Servers
  BY DEF Servers
<1>4. <<>> \in Seq(Servers)
  OBVIOUS
<1>11. \A k, s : s \in Seq(Servers) => next(k, s) \in Seq(Servers)
  BY <1>3
<1>12. \A k, s : fits(k) => next(k, s) = Append(s, one(k))
  OBVIOUS
<1> HIDE DEF N, one, fits, next
<1>5. \E g : E(g)
  <2> DEFINE step == [k \in 1 .. N |-> [s \in Seq(Servers) |-> next(k, s)]]
  <2>1. \A k \in 1 .. N, s \in Seq(Servers) : next(k, s) \in Seq(Servers)
    BY <1>11
  <2>2. step \in [1 .. N -> [Seq(Servers) -> Seq(Servers)]]
    BY <2>1
  <2>3. \A k \in 1 .. N, s \in Seq(Servers) : step[k][s] = next(k, s)
    OBVIOUS
  <2> HIDE DEF step
  <2>4. PICK g \in [0 .. N -> Seq(Servers)] : g[0] = <<>> /\ \A k \in 1 .. N : g[k] = step[k][g[k - 1]]
    <3>1. \E g : Recurrence(Seq(Servers), N, <<>>, step, g)
      BY <1>1, <1>4, <2>2, RecurrenceSolved
    <3>q. QED
      BY <3>1 DEF Recurrence
  <2>5. \A k \in 1 .. N : k - 1 \in 0 .. N /\ g[k - 1] \in Seq(Servers)
    BY <1>1, <2>4
  <2>6. \A k \in 0 .. N : g[k] = IF k = 0 THEN <<>> ELSE next(k, g[k - 1])
    <3>1. \A k \in 1 .. N : g[k] = next(k, g[k - 1])
      BY <2>3, <2>4, <2>5
    <3>2. \A k \in 0 .. N : k = 0 \/ k \in 1 .. N
      BY <1>1
    <3>q. QED
      BY <2>4, <3>1, <3>2
  <2>7. E(g)
    BY <2>4, <2>6
  <2>q. QED
    BY <2>7
<1>6. E(kept)
  BY <1>5
<1> HIDE DEF kept
<1>7. /\ kept[0] = <<>>
      /\ \A k \in 1 .. N : kept[k] = next(k, kept[k - 1])
  BY <1>1, <1>6
<1>8. \A k \in 0 .. N : kept[k] \in Seq(Servers)
  <2> DEFINE Wrong == {k \in 0 .. N : kept[k] \notin Seq(Servers)}
  <2>1. ASSUME Wrong # {} PROVE FALSE
    <3>1. Wrong \in SUBSET Nat
      BY <1>1
    <3>2. PICK k \in Wrong : \A y \in Wrong : k <= y
      <4> HIDE DEF Wrong
      <4>q. QED
        BY <2>1, <3>1, LowestNumber, Zenon
    <3>3. k # 0
      BY <1>4, <1>7, <3>2
    <3>4. k \in 1 .. N /\ k - 1 \in 0 .. N /\ k - 1 \notin Wrong
      BY <1>1, <3>2, <3>3
    <3>5. kept[k] \in Seq(Servers)
      BY <1>7, <1>11, <3>4
    <3>q. QED
      BY <3>2, <3>5
  <2>q. QED
    BY <2>1
<1>9. ASSUME \A k \in 1 .. N : fits(k)
      PROVE  \A k \in 0 .. N : kept[k] = [i \in 1 .. k |-> one(i)]
  <2> DEFINE Wrong == {k \in 0 .. N : kept[k] # [i \in 1 .. k |-> one(i)]}
  <2>1. ASSUME Wrong # {} PROVE FALSE
    <3>1. Wrong \in SUBSET Nat
      BY <1>1
    <3>2. PICK k \in Wrong : \A y \in Wrong : k <= y
      <4> HIDE DEF Wrong
      <4>q. QED
        BY <2>1, <3>1, LowestNumber, Zenon
    <3>3. k # 0
      <4>1. [i \in 1 .. 0 |-> one(i)] = <<>>
        OBVIOUS
      <4>q. QED
        BY <1>7, <3>2, <4>1
    <3>4. k \in 1 .. N /\ k - 1 \in 0 .. N /\ k - 1 \notin Wrong /\ k \in Nat
      BY <1>1, <3>2, <3>3
    <3>5. kept[k] = Append([i \in 1 .. k - 1 |-> one(i)], one(k))
      BY <1>7, <1>9, <1>12, <3>4
    <3>6. Append([i \in 1 .. k - 1 |-> one(i)], one(k)) = [i \in 1 .. k |-> one(i)]
      <4>1. [i \in 1 .. k - 1 |-> one(i)] \in Seq({one(i) : i \in 1 .. k})
        BY <3>4
      <4>2. Len([i \in 1 .. k - 1 |-> one(i)]) = k - 1
        BY <3>4
      <4>q. QED
        BY <3>4, <4>1, <4>2
    <3>q. QED
      BY <3>2, <3>5, <3>6
  <2>q. QED
    BY <2>1
<1>10. ASSUME \A i \in DOMAIN v.items : v.items[i].type = "str" /\ v.items[i].text \in ServerText
       PROVE  DeserializeServers(v) = List([i \in DOMAIN v.items |-> Scalar("server", v.items[i].text)])
  <2>1. \A k \in 1 .. N : fits(k)
    BY <1>1, <1>10 DEF fits
  <2>2. kept[N] = [i \in 1 .. N |-> one(i)]
    BY <1>1, <1>9, <2>1
  <2>3. kept[N] = [i \in DOMAIN v.items |-> Scalar("server", v.items[i].text)]
    BY <1>1, <2>2 DEF one
  <2>q. QED
    BY <1>2, <2>3
<1>q. QED
  BY <1>1, <1>2, <1>8, <1>10

LEMMA FieldFacts ==
    /\ \A x : List(x).type = "list" /\ List(x).text = "" /\ List(x).items = x
    /\ \A t : Text(t).type = "str" /\ Text(t).text = t
    /\ NoNode.style = "none" /\ Absent.type = "absent" /\ Bad.type = "error" /\ Nil.type = "nil"
BY DEF List, Text, Scalar, NoNode, Node, Absent, Bad, Nil

LEMMA FeeForm ==
    ASSUME NEW a, NEW c
    PROVE  Fee(a, c).type = "fee" /\ Fee(a, c).items = <<a, c>>
BY DEF Fee

LEMMA FeeFields ==
    ASSUME NEW v, NEW a, NEW c, v = Fee(a, c)
    PROVE  v.type = "fee" /\ v.items[1] = a /\ v.items[2] = c
<1>1. v.type = "fee" /\ v.items = <<a, c>>
  BY FeeForm, Zenon
<1>q. QED
  BY <1>1

\* A value of each form, and its type.
LEMMA ValueForms ==
    ASSUME NEW v, IsValue(v)
    PROVE  \/ IsScalar(v) /\ v.type \notin {"list", "fee", "absent", "error", "server"}
           \/ IsList(v) /\ v.type = "list" /\ \A i \in DOMAIN v.items : IsScalar(v.items[i])
           \/ /\ v = Fee(v.items[1], v.items[2]) /\ v.type = "fee"
              /\ IsScalar(v.items[1]) /\ IsScalar(v.items[2])
<1>1. IsScalar(v) => v.type \notin {"list", "fee", "absent", "error", "server"}
  BY DEF IsScalar, Nil, Scalar
<1>2. v = List(v.items) => v.type = "list"
  BY FieldFacts
<1>3. v = Fee(v.items[1], v.items[2]) => v.type = "fee"
  BY FeeFields
<1>q. QED
  BY <1>1, <1>2, <1>3 DEF IsValue, IsList

LEMMA ScalarNodeFacts ==
    ASSUME NEW v
    PROVE  ScalarNode(v).style \in {"plain", "quoted"} /\ IsNode(ScalarNode(v)) /\ ScalarNode(v) # NoNode
BY DEF ScalarNode, Node, NoNode, IsNode

LEMMA FeeReturns ==
    ASSUME NEW a, NEW c, IsScalar(a), IsScalar(c)
    PROVE  /\ Serialize(Fee(a, c)) # NoNode /\ IsNode(Serialize(Fee(a, c)))
           /\ Decode(Serialize(Fee(a, c))) = Fee(a, c)
<1> DEFINE node == Serialize(Fee(a, c))
           items == [i \in DOMAIN <<a, c>> |-> ScalarNode(<<a, c>>[i])]
<1>1. node = [style |-> "map", text |-> "", items |-> items]
  BY DEF Serialize, Fee
<1>2. items[1] = ScalarNode(a) /\ items[2] = ScalarNode(c) /\ items \in Seq(Range(items)) /\ Len(items) = 2
  <2>1. DOMAIN <<a, c>> = 1 .. 2
    OBVIOUS
  <2>2. items = [i \in 1 .. 2 |-> ScalarNode(<<a, c>>[i])]
    BY <2>1
  <2>3. items[1] = ScalarNode(a) /\ items[2] = ScalarNode(c)
    BY <2>2
  <2>4. items \in Seq(Range(items)) /\ Len(items) = 2
    <3> HIDE DEF items
    <3>1. DOMAIN items = 1 .. 2 /\ items = [i \in 1 .. 2 |-> items[i]]
      BY <2>2
    <3>2. \A i \in 1 .. 2 : items[i] \in Range(items)
      BY <3>1 DEF Range
    <3>q. QED
      BY <3>1, <3>2
  <2>q. QED
    BY <2>3, <2>4
<1> HIDE DEF items
<1> HIDE DEF node
<1>3. node.style = "map" /\ node.items = items
  BY <1>1
<1>4. node # NoNode
  BY <1>3, FieldFacts, Zenon
<1>5. Decode(node) = Fee(DecodeScalar(ScalarNode(a)), DecodeScalar(ScalarNode(c)))
  BY <1>2, <1>3 DEF Decode
<1>6. IsNode(node)
  BY <1>2, <1>3 DEF IsNode
<1>q. QED
  BY <1>4, <1>5, <1>6, ScalarReturns DEF node

LEMMA ListSerialized ==
    ASSUME NEW v, IsList(v)
    PROVE  /\ Serialize(v) # NoNode /\ IsNode(Serialize(v))
           /\ Decode(Serialize(v)) = List([i \in DOMAIN v.items |-> DecodeScalar(ScalarNode(v.items[i]))])
<1> DEFINE node == Serialize(v)
           items == [i \in DOMAIN v.items |-> ScalarNode(v.items[i])]
<1>1. v.type = "list" /\ v.items \in Seq(Range(v.items))
  BY FieldFacts DEF IsList
<1>2. node = [style |-> "seq", text |-> "", items |-> items]
  BY <1>1 DEF Serialize
<1>3. items \in Seq(Range(items))
  BY <1>1 DEF Range
<1>4. \A i \in DOMAIN v.items : items[i] = ScalarNode(v.items[i])
  OBVIOUS
<1>5. DOMAIN items = DOMAIN v.items
  OBVIOUS
<1> HIDE DEF items
<1> HIDE DEF node
<1>6. node.style = "seq" /\ node.items = items
  BY <1>2
<1>7. node # NoNode
  BY <1>6, FieldFacts, Zenon
<1>8. IsNode(node)
  BY <1>3, <1>6 DEF IsNode
<1>9. Decode(node) = List([i \in DOMAIN v.items |-> DecodeScalar(items[i])])
  BY <1>5, <1>6 DEF Decode
<1>10. [i \in DOMAIN v.items |-> DecodeScalar(items[i])]
         = [i \in DOMAIN v.items |-> DecodeScalar(ScalarNode(v.items[i]))]
  BY <1>4
<1>q. QED
  BY <1>7, <1>8, <1>9, <1>10 DEF node

\* What is written is read again.
LEMMA ValueReturns ==
    ASSUME NEW v, IsValue(v)
    PROVE  Serialize(v) # NoNode /\ IsNode(Serialize(v)) /\ Decode(Serialize(v)) = v
<1>1. CASE IsScalar(v) /\ v.type \notin {"list", "fee", "absent", "error", "server"}
  <2>1. Serialize(v) = ScalarNode(v)
    BY <1>1 DEF Serialize
  <2>2. Decode(ScalarNode(v)) = DecodeScalar(ScalarNode(v))
    BY ScalarNodeFacts DEF Decode
  <2>q. QED
    BY <1>1, <2>1, <2>2, ScalarNodeFacts, ScalarReturns
<1>2. CASE IsList(v) /\ v.type = "list" /\ \A i \in DOMAIN v.items : IsScalar(v.items[i])
  <2>1. \A i \in DOMAIN v.items : DecodeScalar(ScalarNode(v.items[i])) = v.items[i]
    BY <1>2, ScalarReturns
  <2>2. v = List(v.items) /\ v.items = [i \in DOMAIN v.items |-> v.items[i]]
    BY <1>2 DEF IsList
  <2>3. [i \in DOMAIN v.items |-> DecodeScalar(ScalarNode(v.items[i]))] = [i \in DOMAIN v.items |-> v.items[i]]
    BY <2>1
  <2>q. QED
    BY <1>2, <2>2, <2>3, ListSerialized
<1>3. CASE v = Fee(v.items[1], v.items[2]) /\ v.type = "fee" /\ IsScalar(v.items[1]) /\ IsScalar(v.items[2])
  BY <1>3, FeeReturns
<1>q. QED
  BY <1>1, <1>2, <1>3, ValueForms

\* deserializeMaxKeyFee.
LEMMA FeeStored ==
    ASSUME NEW a, NEW c, IsScalar(a), a.type = "float", IsScalar(c)
    PROVE  Stored("max_key_fee", Fee(a, c))
<1> DEFINE d == Fee(a, c)
<1>1. d.items[1] = a /\ d.items[2] = c
  BY FeeFields
<1>2. d = Fee(d.items[1], d.items[2])
  BY <1>1
<1> HIDE DEF d
<1>q. QED
  BY <1>1, <1>2 DEF Stored, d

LEMMA FeeFacts ==
    ASSUME NEW v, IsValue(v), DeserializeMaxKeyFee(v) # Bad
    PROVE  Stored("max_key_fee", DeserializeMaxKeyFee(v))
<1> DEFINE d == DeserializeMaxKeyFee(v)
           items == IF v.type = "str" THEN Fields(v.text) ELSE v.items
<1>2. d = Nil => Stored("max_key_fee", d)
  BY DEF Stored
<1> SUFFICES Stored("max_key_fee", d)
  OBVIOUS
<1>3. \A c \in Currency : IsScalar(Text(c))
  BY DEF IsScalar, Text, Scalar
<1>4. CASE v.type = "fee"
  <2>1. IsScalar(v.items[1]) /\ IsScalar(v.items[2])
    BY <1>4, ValueForms
  <2>2. d = IF DeserializeFloat(v.items[1]) = Bad THEN Bad ELSE Fee(DeserializeFloat(v.items[1]), v.items[2])
    BY <1>4 DEF DeserializeMaxKeyFee
  <2>3. d # Bad
    OBVIOUS
  <2> HIDE DEF d
  <2>4. DeserializeFloat(v.items[1]) # Bad /\ d = Fee(DeserializeFloat(v.items[1]), v.items[2])
    BY <2>2, <2>3
  <2>5. IsScalar(DeserializeFloat(v.items[1])) /\ DeserializeFloat(v.items[1]).type = "float"
    BY <2>1, <2>4, FloatFacts
  <2>q. QED
    BY <2>1, <2>4, <2>5, FeeStored
<1>5. CASE v.type \in {"str", "list"}
  <2>1. \A i \in DOMAIN items : IsScalar(items[i])
    <3>1. CASE v.type = "str"
      <4>1. \A t : IsScalar(Text(t))
        BY DEF IsScalar, Text, Scalar
      <4>2. items = Fields(v.text)
        BY <3>1
      <4> HIDE DEF items
      <4>3. items = <<Text("5"), Text("usd")>> \/ items = <<Text(v.text)>>
        BY <4>2 DEF Fields
      <4>4. items = <<Text("5"), Text("usd")>> => \A i \in DOMAIN items : i \in {1, 2} /\ items[i] \in {Text("5"), Text("usd")}
        OBVIOUS
      <4>5. items = <<Text(v.text)>> => \A i \in DOMAIN items : items[i] = Text(v.text)
        OBVIOUS
      <4>q. QED
        BY <4>1, <4>3, <4>4, <4>5
    <3>2. CASE v.type = "list"
      <4>1. \A i \in DOMAIN v.items : IsScalar(v.items[i])
        BY <3>2, ValueForms
      <4>q. QED
        BY <3>2, <4>1
    <3>q. QED
      BY <1>5, <3>1, <3>2
  <2>2. Len(items) = 2 => 1 \in DOMAIN items
    <3>1. CASE v.type = "str"
      <4>1. items = <<Text("5"), Text("usd")>> \/ items = <<Text(v.text)>>
        BY <3>1 DEF Fields
      <4> HIDE DEF items
      <4>q. QED
        BY <4>1
    <3>2. CASE v.type = "list"
      <4>1. v.items \in Seq(Range(v.items))
        BY <3>2, ValueForms DEF IsList
      <4>q. QED
        BY <3>2, <4>1
    <3>q. QED
      BY <1>5, <3>1, <3>2
  <2>3. \/ d = Nil
        \/ /\ Len(items) = 2 /\ DeserializeFloat(items[1]) # Bad /\ Upper(items[2].text) \in Currency
           /\ d = Fee(DeserializeFloat(items[1]), Text(Upper(items[2].text)))
    <3>1. d # Bad
      OBVIOUS
    <3>q. QED
      BY <1>5, <3>1 DEF DeserializeMaxKeyFee
  <2> HIDE DEF d, items
  <2>4. CASE d # Nil
    <3>1. IsScalar(DeserializeFloat(items[1])) /\ DeserializeFloat(items[1]).type = "float"
      BY <2>1, <2>2, <2>3, <2>4, FloatFacts
    <3>q. QED
      BY <1>3, <2>3, <2>4, <3>1, FeeStored
  <2>q. QED
    BY <1>2, <2>4
<1>6. CASE v.type \notin {"fee", "str", "list"}
  <2>1. d = Nil
    BY <1>6 DEF DeserializeMaxKeyFee
  <2>q. QED
    BY <1>2, <2>1
<1>q. QED
  BY <1>4, <1>5, <1>6

\* What a conversion returns can be stored.
LEMMA DeserializedStored ==
    ASSUME NEW kind \in Kinds, NEW v, IsValue(v), Deserialize(kind, v) # Bad
    PROVE  Stored(kind, Deserialize(kind, v))
<1>1. CASE kind = "integer"
  <2>1. Deserialize(kind, v) = DeserializeInteger(v)
    BY <1>1 DEF Deserialize
  <2>2. IsScalar(v)
    <3>1. v.type \notin {"list", "fee"}
      BY <2>1 DEF DeserializeInteger
    <3>q. QED
      BY <3>1, ValueForms
  <2>q. QED
    BY <1>1, <2>1, <2>2, IntegerFacts DEF Stored
<1>2. CASE kind = "float"
  <2>1. Deserialize(kind, v) = DeserializeFloat(v)
    BY <1>2 DEF Deserialize
  <2>2. IsScalar(v)
    <3>1. v.type \notin {"list", "fee"}
      BY <2>1 DEF DeserializeFloat
    <3>q. QED
      BY <3>1, ValueForms
  <2>q. QED
    BY <1>2, <2>1, <2>2, FloatFacts DEF Stored
<1>3. CASE kind = "servers"
  <2>1. Deserialize(kind, v) = DeserializeServers(v)
    BY <1>3 DEF Deserialize
  <2>2. PICK s \in Seq(Servers) : DeserializeServers(v) = List(s)
    <3>1. CASE v.type = "list"
      BY <3>1, ValueForms, ServersFacts
    <3>2. CASE v.type # "list"
      <4>1. <<>> \in Seq(Servers) /\ DeserializeServers(v) = List(<<>>)
        BY <3>2 DEF DeserializeServers
      <4>q. QED
        BY <4>1
    <3>q. QED
      BY <3>1, <3>2
  <2>3. s \in Seq(Range(s)) /\ \A i \in DOMAIN s : IsServer(s[i])
    <3>1. \A x \in Servers : IsServer(x)
      BY DEF Servers, IsServer, Scalar
    <3>q. QED
      BY <3>1 DEF Range
  <2>4. List(s).items = s
    BY FieldFacts
  <2>5. Stored("servers", List(s))
    BY <2>3, <2>4 DEF Stored, IsList
  <2>q. QED
    BY <1>3, <2>1, <2>2, <2>5
<1>4. CASE kind = "max_key_fee"
  BY <1>4, FeeFacts DEF Deserialize
<1>5. CASE kind \in {"string", "path", "string_choice", "toggle", "strings"}
  BY <1>5 DEF Deserialize, Stored
<1>q. QED
  BY <1>1, <1>2, <1>3, <1>4, <1>5 DEF Kinds

\* What can be stored is written, and read again as it is.
LEMMA StoredReturns ==
    ASSUME NEW kind \in Kinds, NEW v, Stored(kind, v)
    PROVE  /\ Serialize(v) # NoNode /\ IsNode(Serialize(v))
           /\ Deserialize(kind, Decode(Serialize(v))) = v
           /\ v \notin {Absent, Bad}
<1>0. ASSUME IsValue(v) PROVE v \notin {Absent, Bad}
  <2>1. Absent.type = "absent" /\ Bad.type = "error"
    BY DEF Absent, Bad, Scalar
  <2>q. QED
    BY <1>0, <2>1, ValueForms
<1>1. CASE kind = "integer"
  <2>1. IsScalar(v) /\ v.type = "int" /\ IsValue(v)
    BY <1>1 DEF Stored, IsValue
  <2>q. QED
    BY <1>0, <1>1, <2>1, ValueReturns, NumberStays DEF Deserialize
<1>2. CASE kind = "float"
  <2>1. IsScalar(v) /\ v.type = "float" /\ IsValue(v)
    BY <1>2 DEF Stored, IsValue
  <2>q. QED
    BY <1>0, <1>2, <2>1, ValueReturns, NumberStays DEF Deserialize
<1>3. CASE kind = "servers"
  <2>1. IsList(v) /\ \A i \in DOMAIN v.items : IsServer(v.items[i])
    BY <1>3 DEF Stored
  <2> DEFINE read == [i \in DOMAIN v.items |-> DecodeScalar(ScalarNode(v.items[i]))]
             w == List(read)
  <2>2. \A i \in DOMAIN v.items : read[i] = Text(v.items[i].text) /\ v.items[i].text \in ServerText
                                  /\ v.items[i] = Scalar("server", v.items[i].text)
    BY <2>1, ServerReturns DEF IsServer
  <2>3. DOMAIN read = DOMAIN v.items
    OBVIOUS
  <2>4. read \in Seq(Range(read))
    BY <2>1 DEF IsList, Range
  <2> HIDE DEF read
  <2>5. w.items = read /\ w.type = "list" /\ IsList(w)
    BY <2>4, FieldFacts DEF IsList
  <2>6. \A i \in DOMAIN read : read[i].type = "str" /\ read[i].text = v.items[i].text
    <3> SUFFICES ASSUME NEW i \in DOMAIN v.items PROVE read[i].type = "str" /\ read[i].text = v.items[i].text
      BY <2>3
    <3>1. Text(v.items[i].text).type = "str" /\ Text(v.items[i].text).text = v.items[i].text
      BY FieldFacts, Zenon
    <3>2. read[i] = Text(v.items[i].text)
      BY <2>2
    <3>q. QED
      BY <3>1, <3>2, Zenon
  <2>7. Serialize(v) # NoNode /\ IsNode(Serialize(v)) /\ Decode(Serialize(v)) = w
    BY <2>1, ListSerialized DEF read
  <2> HIDE DEF w
  <2>8. DeserializeServers(w) = List([i \in DOMAIN w.items |-> Scalar("server", w.items[i].text)])
    <3>1. \A i \in DOMAIN w.items : w.items[i].type = "str" /\ w.items[i].text \in ServerText
      BY <2>2, <2>3, <2>5, <2>6
    <3>q. QED
      BY <2>5, <3>1, ServersFacts
  <2>9. [i \in DOMAIN w.items |-> Scalar("server", w.items[i].text)] = v.items
    <3>1. v.items = [i \in DOMAIN v.items |-> v.items[i]]
      BY <2>1 DEF IsList
    <3>2. \A i \in DOMAIN v.items : Scalar("server", w.items[i].text) = v.items[i]
      BY <2>2, <2>3, <2>5, <2>6
    <3>q. QED
      BY <2>3, <2>5, <3>1, <3>2
  <2>10. v = List(v.items) /\ v.type = "list"
    BY <2>1, FieldFacts DEF IsList
  <2>11. v \notin {Absent, Bad}
    BY <2>10, FieldFacts, Zenon
  <2>q. QED
    BY <1>3, <2>7, <2>8, <2>9, <2>10, <2>11 DEF Deserialize
<1>4. CASE kind = "max_key_fee"
  <2>1. IsValue(v)
    <3>1. IsScalar(Nil)
      BY DEF IsScalar, Nil, Scalar
    <3>q. QED
      BY <1>4, <3>1 DEF Stored, IsValue
  <2>2. DeserializeMaxKeyFee(v) = v
    <3>1. CASE v = Nil
      <4>1. v.type = "nil"
        BY <3>1 DEF Nil, Scalar
      <4>q. QED
        BY <3>1, <4>1 DEF DeserializeMaxKeyFee
    <3>2. CASE v # Nil
      <4>1. v = Fee(v.items[1], v.items[2]) /\ IsScalar(v.items[1]) /\ v.items[1].type = "float"
        BY <1>4, <3>2 DEF Stored
      <4>2. v.type = "fee"
        BY <4>1, FeeFields
      <4>3. DeserializeFloat(v.items[1]) = v.items[1] /\ v.items[1] # Bad
        BY <4>1, NumberStays, FieldFacts, Zenon
      <4>q. QED
        BY <4>1, <4>2, <4>3 DEF DeserializeMaxKeyFee
    <3>q. QED
      BY <3>1, <3>2
  <2>q. QED
    BY <1>0, <1>4, <2>1, <2>2, ValueReturns DEF Deserialize
<1>5. CASE kind \in {"string", "path", "string_choice", "toggle", "strings"}
  <2>1. IsValue(v)
    BY <1>5 DEF Stored
  <2>q. QED
    BY <1>0, <1>5, <2>1, ValueReturns DEF Deserialize
<1>q. QED
  BY <1>1, <1>2, <1>3, <1>4, <1>5 DEF Kinds

\* Values the store may have for the settings.
Persistable(values) ==
    /\ values = [n \in Name |-> values[n]]
    /\ \A n \in Name : values[n] = Absent \/ Stored(Kind[n], values[n])

IsFile(f) == \A k \in Key : IsNode(f.entries[k])

LEMMA KindFacts == \A n \in Name : Kind[n] \in Kinds
BY KindAssumption

LEMMA CanonicalFacts == \A k \in Key : CanonicalOf(k) \in Name /\ (k \in Name => CanonicalOf(k) = k)
BY AliasAssumption DEF Key, CanonicalOf

LEMMA LoadedFacts ==
    ASSUME NEW f, IsFile(f), NEW k \in Key, Loaded(f, k) # Bad
    PROVE  Loaded(f, k) = Absent \/ Stored(Kind[CanonicalOf(k)], Loaded(f, k))
<1>1. CASE f.entries[k] = NoNode
  BY <1>1 DEF Loaded
<1>2. CASE f.entries[k] # NoNode
  <2>1. Loaded(f, k) = Deserialize(Kind[CanonicalOf(k)], Decode(f.entries[k]))
    BY <1>2 DEF Loaded
  <2>2. IsValue(Decode(f.entries[k]))
    BY NodeDecoded DEF IsFile
  <2>3. Kind[CanonicalOf(k)] \in Kinds
    BY CanonicalFacts, KindFacts
  <2>q. QED
    BY <2>1, <2>2, <2>3, DeserializedStored
<1>q. QED
  BY <1>1, <1>2

\* loadPersisted.
LEMMA LoadPersistedFacts ==
    ASSUME NEW f, IsFile(f), Loads(f)
    PROVE  Persistable(LoadPersisted(f))
<1> DEFINE values == LoadPersisted(f)
           old(n) == {a \in DOMAIN Alias : Alias[a] = n /\ f.entries[a] # NoNode}
<1>1. values = [n \in Name |-> IF old(n) = {} THEN Loaded(f, n) ELSE Loaded(f, CHOOSE a \in old(n) : TRUE)]
  BY DEF LoadPersisted
<1>2. ASSUME NEW n \in Name PROVE \E k \in Key : CanonicalOf(k) = n /\ values[n] = Loaded(f, k)
  <2>1. CASE old(n) = {}
    BY <1>1, <2>1, CanonicalFacts DEF Key
  <2>2. CASE old(n) # {}
    <3> DEFINE a == CHOOSE a \in old(n) : TRUE
    <3>1. a \in old(n)
      BY <2>2
    <3>2. a \in Key /\ CanonicalOf(a) = n
      BY <3>1, AliasAssumption DEF Key, CanonicalOf
    <3>3. values[n] = Loaded(f, a)
      BY <1>1, <2>2
    <3>q. QED
      BY <3>2, <3>3
  <2>q. QED
    BY <2>1, <2>2
<1>3. values = [n \in Name |-> values[n]]
  BY <1>1
<1> HIDE DEF values
<1>4. ASSUME NEW n \in Name PROVE values[n] = Absent \/ Stored(Kind[n], values[n])
  BY <1>2, LoadedFacts DEF Loads
<1>q. QED
  BY <1>3, <1>4 DEF Persistable, values

LEMMA NoNodeFacts == IsNode(NoNode) /\ Serialize(Absent) = NoNode
BY DEF IsNode, NoNode, Node, Serialize, Absent, Scalar

LEMMA EmptyFileFacts == IsFile(EmptyFile) /\ IsFile(Malformed)
BY NoNodeFacts DEF IsFile, EmptyFile, Malformed, Yaml

\* The file that saveLocked writes loads, and gives back the layer it was written from.
LEMMA WrittenReturns ==
    ASSUME NEW values, Persistable(values)
    PROVE  /\ IsFile(Written(values)) /\ Loads(Written(values))
           /\ LoadPersisted(Written(values)) = values
<1> DEFINE f == Written(values)
<1>1. f.parses = TRUE /\ \A k \in Key : f.entries[k] = IF k \in Name THEN Serialize(values[k]) ELSE NoNode
  BY DEF Written, Yaml
<1>2. \A a \in DOMAIN Alias : a \in Key /\ a \notin Name /\ f.entries[a] = NoNode
  BY <1>1, AliasAssumption DEF Key
<1>3. \A n \in Name : n \in Key /\ f.entries[n] = Serialize(values[n])
  BY <1>1 DEF Key
<1> HIDE DEF f
<1>4. ASSUME NEW n \in Name
      PROVE  IsNode(f.entries[n]) /\ Loaded(f, n) = values[n] /\ values[n] # Bad
  <2>1. CanonicalOf(n) = n /\ f.entries[n] = Serialize(values[n]) /\ Kind[n] \in Kinds
    BY <1>3, KindFacts DEF CanonicalOf
  <2>2. CASE values[n] = Absent
    <3>1. f.entries[n] = NoNode /\ Absent # Bad
      BY <2>1, <2>2, NoNodeFacts, FieldFacts
    <3>q. QED
      BY <2>2, <3>1, NoNodeFacts DEF Loaded
  <2>3. CASE Stored(Kind[n], values[n])
    BY <2>1, <2>3, StoredReturns DEF Loaded
  <2>q. QED
    BY <2>2, <2>3 DEF Persistable
<1>5. \A k \in Key : IsNode(f.entries[k]) /\ Loaded(f, k) # Bad
  <2>1. ASSUME NEW a \in DOMAIN Alias PROVE IsNode(f.entries[a]) /\ Loaded(f, a) # Bad
    BY <1>2, NoNodeFacts, FieldFacts DEF Loaded
  <2>q. QED
    BY <1>4, <2>1 DEF Key
<1>6. LoadPersisted(f) = values
  <2>1. \A n \in Name : {a \in DOMAIN Alias : Alias[a] = n /\ f.entries[a] # NoNode} = {}
    BY <1>2
  <2>2. LoadPersisted(f) = [n \in Name |-> Loaded(f, n)]
    BY <2>1 DEF LoadPersisted
  <2>3. LoadPersisted(f) = [n \in Name |-> values[n]]
    BY <1>4, <2>2
  <2>q. QED
    BY <2>3 DEF Persistable
<1>q. QED
  BY <1>1, <1>5, <1>6 DEF IsFile, Loads, f

\* settings_set: what is accepted can be stored, and can be used unless it is out of range.
LEMMA AcceptedFacts ==
    ASSUME NEW n \in Name, NEW raw \in RawValue,
           DecodeSettingJSON(raw) # Bad, CleanAndValidate(Kind[n], DecodeSettingJSON(raw)) # Bad
    PROVE  LET value == CleanAndValidate(Kind[n], DecodeSettingJSON(raw)) IN
           Stored(Kind[n], value) /\ (~Beyond(value) => Readable(Kind[n], value))
<1> DEFINE given == DecodeSettingJSON(raw)
           value == CleanAndValidate(Kind[n], given)
<1>1. IsValue(given)
  <2>1. IsValue(raw)
    BY ValuesAssumption
  <2>2. IsValue(List(<<Text("h:5")>>))
    <3> DEFINE items == <<Text("h:5")>>
    <3>1. IsScalar(Text("h:5"))
      BY DEF IsScalar, Text, Scalar
    <3>2. items \in Seq(Range(items)) /\ \A i \in DOMAIN items : items[i] = Text("h:5")
      BY DEF Range
    <3> HIDE DEF items
    <3>3. List(items).items = items
      BY FieldFacts
    <3>q. QED
      BY <3>1, <3>2, <3>3 DEF IsValue, items
  <2>3. given \in {raw, Bad} \/ given = List(<<Text("h:5")>>)
    BY DEF DecodeSettingJSON
  <2>q. QED
    BY <2>1, <2>2, <2>3
<1>2. Kind[n] \in Kinds
  BY KindFacts
<1> HIDE DEF given
<1>3. value = Deserialize(Kind[n], given) /\ value # Bad /\ Validate(Kind[n], value)
  BY DEF CleanAndValidate, given
<1>4. Stored(Kind[n], value)
  BY <1>1, <1>2, <1>3, DeserializedStored
<1> HIDE DEF value
<1>5. ASSUME ~Beyond(value) PROVE Readable(Kind[n], value)
  <2>1. value.text \notin BigText /\ \A i \in DOMAIN value.items : value.items[i].text \notin BigText
    BY <1>5 DEF Beyond
  <2>q. QED
    BY <1>2, <1>3, <2>1 DEF Validate, Readable, Kinds
<1>q. QED
  BY <1>4, <1>5 DEF value, given

(***************************************************************************)
(* The state.  SettingsInv says what is in the settings file and in the       *)
(* layers at every point of a save, what an undisturbed migration leaves   *)
(* behind, so that the statements of every step fit (Fresh), and that a    *)
(* file of known hubs that does not load is being written or excused.      *)
(***************************************************************************)

\* The layers in memory, and the ones a failed save restores.
IsLayers(l) == l = [k \in Layer |-> l[k]] /\ Persistable(l["runtime"]) /\ Persistable(l["persisted"])

Excuses == [settings : BOOLEAN, database : BOOLEAN, names : BOOLEAN, hubs : BOOLEAN]

StoreTypes ==
    /\ IsFile(file) /\ IsLayers(layer) /\ IsLayers(saving.restore)
    /\ saving = [phase |-> saving.phase, restore |-> saving.restore]
    /\ saving.phase \in {"none", "open", "write"}
    /\ saving.phase # "none" => phase \in {"reading", "running"}

\* The file, or the layer a failed save restores, has what was acknowledged.
FileInv ==
    /\ ~lapse /\ saving.phase # "write" => Loads(file) /\ LoadPersisted(file) = acknowledged
    /\ saving.phase = "none" /\ phase \in {"reading", "database", "wallet", "running"} =>
        layer["persisted"] = acknowledged
    /\ saving.phase # "none" /\ phase = "running" => saving.restore["persisted"] = acknowledged

\* What the settings hold is usable, unless there is an excuse.
UsableInv ==
    /\ lapse => excuse.settings
    /\ ~excuse.settings => /\ Usable(layer["persisted"]) /\ Usable(saving.restore["persisted"])
                           /\ Usable(acknowledged)

\* While the settings are read nothing has been set.
ReadingInv ==
    phase = "reading" =>
        /\ layer["runtime"] = NoValues
        /\ layer["arguments"] = Converted(arguments) /\ layer["environment"] = Converted(env)

HubFileInv == hubFile = BadHubFile => excuse.hubs \/ SavingHubs

\* What the statements of the chain find, unless an earlier attempt was interrupted.
Fresh ==
    /\ chain.at < 5 \/ (chain.at = 5 /\ chain.sub = 0) => main = NoDatabase
    /\ chain.at = 5 /\ chain.sub # 0 => main.fileTable = 6
    /\ chain.at <= 6 => "single_announce" \notin main.blob
    /\ chain.at <= 7 => "reflected_stream" \notin main.tables
    /\ chain.at <= 12 => main.fileTable # 13
    /\ chain.at <= 13 \/ (chain.at = 14 /\ chain.sub = 0) => "is_mine" \notin main.blob
    /\ chain.at >= 2 => names.level >= 2

\* The data directory is as it was before the first start.
Original == Content(main) = Content(origin.main) /\ names = origin.names

\* Steps of several statements, and what the fourth step leaves for the fifth.
LegacyInv ==
    /\ chain.sub # 0 => chain.phase = "step" /\ chain.at \in {2, 5, 8, 14}
    /\ origin.revision \in 5 .. 16 => legacy.metadata
    /\ chain.phase = "step" /\ chain.at >= 5 => legacy.metadata

\* An attempt that no interrupted one preceded.
AttemptInv ==
    ~excuse.database =>
        /\ ~excuse.names
        /\ revision = Truncated => chain.phase = "write"
        /\ revision \notin {Truncated, CurrentRevision} /\ chain.phase \notin {"step", "stamp", "write"} => Original
        /\ chain.phase = "step" => Fresh
        /\ chain.phase = "failed" => origin.revision = CurrentRevision + 1

SettingsInv ==
    /\ excuse \in Excuses
    /\ StoreTypes /\ FileInv /\ UsableInv /\ ReadingInv
    /\ HubFileInv /\ LegacyInv /\ AttemptInv /\ StartFailureExplained

LEMMA ExcuseStep ==
    ASSUME excuse \in Excuses, [StartupNext]_startupVars
    PROVE  /\ excuse' \in Excuses
           /\ excuse.settings => excuse'.settings
           /\ excuse.database => excuse'.database
           /\ excuse.hubs => excuse'.hubs
<1>1. CASE UNCHANGED excuse
  BY <1>1
<1>2. CASE FindHubsFails
  BY <1>2 DEF FindHubsFails, Excuses
<1>3. CASE SettingsSet
  <2>1. PICK n \in Name : excuse' = [excuse EXCEPT !.settings = @ \/ Beyond(layer'["runtime"][n])]
    BY <1>3 DEF SettingsSet
  <2>2. Beyond(layer'["runtime"][n]) \in BOOLEAN
    BY DEF Beyond
  <2>q. QED
    BY <2>1, <2>2 DEF Excuses
<1>4. CASE SaveError
  BY <1>4 DEF SaveError, Excuses
<1>5. CASE Crash
  <2>1. /\ excuse' = [excuse EXCEPT !.database = @ \/ Unfinished, !.names = @ \/ InWindow,
                            !.settings = @ \/ saving.phase = "write", !.hubs = @ \/ SavingHubs]
        /\ Unfinished \in BOOLEAN /\ InWindow \in BOOLEAN /\ SavingHubs \in BOOLEAN
    BY <1>5 DEF Crash, Excused, Unfinished, InWindow, SavingHubs
  <2>q. QED
    BY <2>1 DEF Excuses
<1>6. CASE Exit
  <2>1. excuse' = [excuse EXCEPT !.hubs = @ \/ SavingHubs] /\ SavingHubs \in BOOLEAN
    BY <1>6 DEF Exit, SavingHubs
  <2>q. QED
    BY <2>1 DEF Excuses
<1>7. UNCHANGED excuse \/ FindHubsFails \/ SettingsSet \/ SaveError \/ Crash \/ Exit
  <2>1. CASE UNCHANGED startupVars
    BY <2>1 DEF startupVars
  <2>2. CASE Launch \/ Parse \/ Open \/ ReadSettings \/ Migrate \/ DatabaseStarted
             \/ WalletStarted \/ FindHubs \/ SettingsClear \/ Save
    BY <2>2 DEF Launch, Parse, Open, ReadSettings, Migrate, DatabaseStarted,
                WalletStarted, FindHubs, SettingsClear, Save
  <2>q. QED
    BY <2>1, <2>2 DEF StartupNext
<1>q. QED
  BY <1>1, <1>2, <1>3, <1>4, <1>5, <1>6, <1>7

(***************************************************************************)
(* The store                                                               *)
(***************************************************************************)

StoreInv == StoreTypes /\ FileInv /\ UsableInv /\ ReadingInv
UpPhase == {"reading", "database", "wallet", "running"}

LEMMA NoLayersFacts ==
    /\ IsLayers(NoLayers) /\ Persistable(NoValues) /\ Usable(NoValues)
    /\ NoLayers["persisted"] = NoValues /\ NoLayers["runtime"] = NoValues
<1>1. Persistable(NoValues) /\ Usable(NoValues)
  BY DEF Persistable, NoValues, Usable
<1>2. NoLayers["persisted"] = NoValues /\ NoLayers["runtime"] = NoValues /\ NoLayers = [k \in Layer |-> NoLayers[k]]
  BY DEF NoLayers, Layer
<1>q. QED
  BY <1>1, <1>2 DEF IsLayers

\* A step that leaves the store alone.
LEMMA StoreIdle ==
    ASSUME StoreInv, UNCHANGED settingsVars, excuse.settings => excuse'.settings,
           saving.phase # "none" => phase' = phase,
           phase' \in UpPhase => phase \in UpPhase,
           phase' = "reading" => phase = "reading" /\ UNCHANGED <<arguments, env>>
    PROVE  StoreInv'
<1>1. UNCHANGED <<layer, file, saving, acknowledged, lapse>>
  BY DEF settingsVars
<1>2. StoreTypes'
  BY <1>1 DEF StoreInv, StoreTypes
<1>3. FileInv'
  BY <1>1 DEF StoreInv, FileInv, UpPhase
<1>4. UsableInv'
  BY <1>1 DEF StoreInv, UsableInv
<1>5. ReadingInv'
  BY <1>1 DEF StoreInv, ReadingInv
<1>q. QED
  BY <1>2, <1>3, <1>4, <1>5 DEF StoreInv

LEMMA OpenStoreKeeps ==
    ASSUME StoreInv, OpenStore(arguments, env), phase = "opening", phase' = "reading",
           UNCHANGED <<arguments, env, excuse>>
    PROVE  StoreInv'
<1> DEFINE loaded == LoadPersisted(file)
           new == [runtime |-> NoValues, arguments |-> Converted(arguments),
                   environment |-> Converted(env), persisted |-> loaded]
<1>1. /\ Loads(file) /\ UNCHANGED file /\ layer' = new /\ acknowledged' = loaded /\ lapse' = FALSE
      /\ saving' = [phase |-> IF Upgraded(file) THEN "open" ELSE "none", restore |-> NoLayers]
  BY DEF OpenStore
<1>2. IsFile(file) /\ saving.phase = "none"
  BY DEF StoreInv, StoreTypes
<1>3. Persistable(loaded)
  BY <1>1, <1>2, LoadPersistedFacts
<1>4. ~excuse.settings => Usable(loaded)
  BY <1>2 DEF StoreInv, FileInv, UsableInv
<1> HIDE DEF loaded
<1>5. new["runtime"] = NoValues /\ new["persisted"] = loaded /\ new = [k \in Layer |-> new[k]]
      /\ new["arguments"] = Converted(arguments) /\ new["environment"] = Converted(env)
  BY DEF Layer
<1>6. layer'["runtime"] = NoValues /\ layer'["persisted"] = loaded /\ IsLayers(layer')
      /\ layer'["arguments"] = Converted(arguments) /\ layer'["environment"] = Converted(env)
  BY <1>1, <1>3, <1>5, NoLayersFacts DEF IsLayers
<1>7. saving'.restore = NoLayers /\ saving'.phase \in {"none", "open"}
      /\ saving' = [phase |-> saving'.phase, restore |-> saving'.restore]
  BY <1>1
<1>8. StoreTypes'
  BY <1>1, <1>2, <1>6, <1>7, NoLayersFacts DEF StoreTypes
<1>9. FileInv'
  BY <1>1, <1>6 DEF FileInv, loaded
<1>10. UsableInv'
  BY <1>1, <1>4, <1>6, <1>7, NoLayersFacts DEF UsableInv
<1>11. ReadingInv'
  BY <1>6 DEF ReadingInv
<1>q. QED
  BY <1>8, <1>9, <1>10, <1>11 DEF StoreInv

\* settings_set and settings_clear: one value of both layers changes and a save begins.
LEMMA ChangeKeeps ==
    ASSUME StoreInv, phase = "running", phase' = "running", saving.phase = "none",
           NEW n \in Name, NEW value, value = Absent \/ Stored(Kind[n], value),
           layer' = [layer EXCEPT !["runtime"][n] = value, !["persisted"][n] = value],
           saving' = [phase |-> "open", restore |-> layer], UNCHANGED <<file, acknowledged, lapse>>,
           excuse.settings => excuse'.settings,
           ~excuse'.settings => value = Absent \/ CanRead(n, value)
    PROVE  StoreInv'
<1> DEFINE With(values) == [values EXCEPT ![n] = value]
<1>1. IsLayers(layer)
  BY DEF StoreInv, StoreTypes
<1>2. \A values : Persistable(values) => Persistable(With(values))
  <2> SUFFICES ASSUME NEW values, Persistable(values) PROVE Persistable(With(values))
    OBVIOUS
  <2>1. values = [m \in Name |-> values[m]] /\ \A m \in Name : values[m] = Absent \/ Stored(Kind[m], values[m])
    BY DEF Persistable
  <2>2. DOMAIN values = Name
    BY <2>1
  <2>3. \A m \in Name : With(values)[m] = IF m = n THEN value ELSE values[m]
    BY <2>2
  <2>4. With(values) = [m \in Name |-> With(values)[m]]
    BY <2>2
  <2>q. QED
    BY <2>1, <2>3, <2>4 DEF Persistable
<1>3. layer'["runtime"] = With(layer["runtime"]) /\ layer'["persisted"] = With(layer["persisted"])
      /\ layer' = [k \in Layer |-> layer'[k]]
  <2>1. layer = [k \in Layer |-> layer[k]] /\ DOMAIN layer = Layer
    BY <1>1 DEF IsLayers
  <2>q. QED
    BY <2>1 DEF Layer
<1>4. IsLayers(layer')
  BY <1>1, <1>2, <1>3 DEF IsLayers
<1>5. saving'.phase = "open" /\ saving'.restore = layer
  OBVIOUS
<1>6. StoreTypes'
  BY <1>1, <1>4, <1>5 DEF StoreInv, StoreTypes
<1>7. FileInv'
  BY <1>5 DEF StoreInv, FileInv
<1>8. ~excuse'.settings => Usable(With(layer["persisted"]))
  <2> SUFFICES ASSUME ~excuse'.settings PROVE Usable(With(layer["persisted"]))
    OBVIOUS
  <2>1. Usable(layer["persisted"])
    BY DEF StoreInv, UsableInv
  <2>2. DOMAIN layer["persisted"] = Name
    BY <1>1 DEF IsLayers, Persistable
  <2>3. \A m \in Name : With(layer["persisted"])[m] = IF m = n THEN value ELSE layer["persisted"][m]
    BY <2>2
  <2>q. QED
    BY <2>1, <2>3 DEF Usable
<1>9. UsableInv'
  BY <1>3, <1>5, <1>8 DEF StoreInv, UsableInv
<1>10. ReadingInv'
  BY DEF ReadingInv
<1>q. QED
  BY <1>6, <1>7, <1>9, <1>10 DEF StoreInv

LEMMA SaveKeeps ==
    ASSUME StoreInv, SaveTruncate \/ SaveWrite, UNCHANGED <<phase, arguments, env, excuse>>
    PROVE  StoreInv'
<1>1. CASE SaveTruncate
  <2>1. saving.phase = "open" /\ file' = EmptyFile /\ saving' = [saving EXCEPT !.phase = "write"]
        /\ UNCHANGED <<layer, acknowledged, lapse>>
    BY <1>1 DEF SaveTruncate
  <2>2. saving = [phase |-> saving.phase, restore |-> saving.restore] /\ phase \in {"reading", "running"}
    BY <2>1 DEF StoreInv, StoreTypes
  <2>3. saving' = [phase |-> "write", restore |-> saving.restore]
    BY <2>1, <2>2
  <2>4. saving'.phase = "write" /\ saving'.restore = saving.restore
    BY <2>3
  <2>5. StoreTypes'
    BY <2>1, <2>2, <2>3, <2>4, EmptyFileFacts DEF StoreInv, StoreTypes
  <2>6. FileInv' /\ UsableInv' /\ ReadingInv'
    BY <2>1, <2>4 DEF StoreInv, FileInv, UsableInv, ReadingInv
  <2>q. QED
    BY <2>5, <2>6 DEF StoreInv
<1>2. CASE SaveWrite
  <2>1. saving.phase = "write" /\ file' = Written(layer["persisted"]) /\ saving' = NotSaving
        /\ acknowledged' = layer["persisted"] /\ lapse' = FALSE /\ UNCHANGED layer
    BY <1>2 DEF SaveWrite
  <2>2. Persistable(layer["persisted"])
    BY DEF StoreInv, StoreTypes, IsLayers
  <2>3. IsFile(file') /\ Loads(file') /\ LoadPersisted(file') = layer["persisted"]
    BY <2>1, <2>2, WrittenReturns
  <2>4. saving'.phase = "none" /\ saving'.restore = NoLayers
        /\ saving' = [phase |-> saving'.phase, restore |-> saving'.restore]
    BY <2>1 DEF NotSaving
  <2>5. StoreTypes'
    BY <2>1, <2>3, <2>4, NoLayersFacts DEF StoreInv, StoreTypes
  <2>6. FileInv'
    BY <2>1, <2>3, <2>4 DEF FileInv
  <2>7. UsableInv'
    BY <2>1, <2>4, NoLayersFacts DEF StoreInv, UsableInv
  <2>8. ReadingInv'
    BY <2>1 DEF StoreInv, ReadingInv
  <2>q. QED
    BY <2>5, <2>6, <2>7, <2>8 DEF StoreInv
<1>q. QED
  BY <1>1, <1>2

LEMMA SaveErrorKeeps == ASSUME StoreInv, excuse \in Excuses, SaveError PROVE StoreInv'
<1>1. /\ saving.phase \in {"open", "write"} /\ layer' = saving.restore /\ saving' = NotSaving
      /\ lapse' = (lapse \/ saving.phase = "write") /\ UNCHANGED acknowledged
      /\ file' \in IF saving.phase = "open" THEN {file} ELSE {EmptyFile, Malformed}
      /\ phase' = IF phase = "running" THEN phase ELSE "down"
      /\ excuse'.settings = (excuse.settings \/ saving.phase = "write")
  BY DEF SaveError, SaveFails, Excuses
<1>2. saving'.phase = "none" /\ saving'.restore = NoLayers
      /\ saving' = [phase |-> saving'.phase, restore |-> saving'.restore]
  BY <1>1 DEF NotSaving
<1>3. IsFile(file') /\ (saving.phase = "open" => file' = file)
  BY <1>1, EmptyFileFacts DEF StoreInv, StoreTypes
<1>4. StoreTypes'
  BY <1>1, <1>2, <1>3, NoLayersFacts DEF StoreInv, StoreTypes
<1>5. FileInv'
  BY <1>1, <1>2, <1>3 DEF StoreInv, FileInv
<1>6. UsableInv'
  BY <1>1, <1>2, NoLayersFacts DEF StoreInv, UsableInv
<1>7. ReadingInv'
  BY <1>1 DEF ReadingInv
<1>q. QED
  BY <1>4, <1>5, <1>6, <1>7 DEF StoreInv

\* The process ends.
LEMMA StoreEnds ==
    ASSUME StoreInv, SettingsCrash, phase' = "down",
           excuse.settings \/ saving.phase = "write" => excuse'.settings
    PROVE  StoreInv'
<1>1. layer' = NoLayers /\ saving' = NotSaving /\ lapse' = (lapse \/ saving.phase = "write")
      /\ UNCHANGED <<file, acknowledged>>
  BY DEF SettingsCrash
<1>2. saving'.phase = "none" /\ saving'.restore = NoLayers
      /\ saving' = [phase |-> saving'.phase, restore |-> saving'.restore]
  BY <1>1 DEF NotSaving
<1>3. StoreTypes'
  BY <1>1, <1>2, NoLayersFacts DEF StoreInv, StoreTypes
<1>4. FileInv' /\ ReadingInv'
  BY <1>1, <1>2 DEF StoreInv, FileInv, ReadingInv
<1>5. UsableInv'
  BY <1>1, <1>2, NoLayersFacts DEF StoreInv, UsableInv
<1>q. QED
  BY <1>3, <1>4, <1>5 DEF StoreInv

LEMMA StoreStep ==
    ASSUME StoreInv, excuse \in Excuses, [StartupNext]_startupVars
    PROVE  StoreInv'
<1>0. /\ excuse.settings => excuse'.settings
      /\ saving.phase # "none" => phase \in {"reading", "running"}
  BY ExcuseStep DEF StoreInv, StoreTypes
<1>1. CASE UNCHANGED startupVars
  BY <1>1, StoreIdle DEF startupVars
<1>2. CASE Launch \/ Parse \/ Migrate \/ DatabaseStarted \/ WalletStarted
  <2>1. UNCHANGED settingsVars /\ phase \in {"down", "parsing", "database", "wallet"} /\ phase' # "reading"
        /\ (phase' \in UpPhase => phase \in UpPhase)
    BY <1>2 DEF Launch, Parse, Migrate, DatabaseStarted, WalletStarted, UpPhase
  <2>q. QED
    BY <1>0, <2>1, StoreIdle
<1>3. CASE ReadSettings
  <2>1. UNCHANGED settingsVars /\ saving.phase = "none" /\ phase = "reading" /\ phase' \in {"database", "failed"}
    BY <1>3 DEF ReadSettings
  <2>q. QED
    BY <1>0, <2>1, StoreIdle DEF UpPhase
<1>4. CASE Open
  <2>1. CASE OpenStore(arguments, env) /\ phase' = "reading"
    BY <1>4, <2>1, OpenStoreKeeps DEF Open
  <2>2. CASE OpenRefused(arguments, env) /\ phase' = "failed"
    <3>1. UNCHANGED settingsVars /\ phase = "opening"
      BY <1>4, <2>2 DEF Open, OpenRefused
    <3>q. QED
      BY <1>0, <2>2, <3>1, StoreIdle DEF UpPhase
  <2>q. QED
    BY <1>4, <2>1, <2>2 DEF Open
<1>5. CASE FindHubs \/ FindHubsFails
  <2>1. UNCHANGED settingsVars /\ phase = "running" /\ phase' = "running"
    BY <1>5 DEF FindHubs, FindHubsFails
  <2>q. QED
    BY <1>0, <2>1, StoreIdle
<1>6. CASE SettingsSet
  <2>1. PICK n \in Name, raw \in RawValue :
            Set(n, raw) /\ excuse' = [excuse EXCEPT !.settings = @ \/ Beyond(layer'["runtime"][n])]
    BY <1>6 DEF SettingsSet
  <2> DEFINE value == CleanAndValidate(Kind[n], DecodeSettingJSON(raw))
  <2>2. /\ saving.phase = "none" /\ DecodeSettingJSON(raw) # Bad /\ value # Bad
        /\ layer' = [layer EXCEPT !["runtime"][n] = value, !["persisted"][n] = value]
        /\ saving' = [phase |-> "open", restore |-> layer] /\ UNCHANGED <<file, acknowledged, lapse>>
    BY <2>1 DEF Set
  <2>3. Stored(Kind[n], value) /\ (~Beyond(value) => CanRead(n, value))
    BY <2>2, AcceptedFacts DEF CanRead
  <2> HIDE DEF value
  <2>4. layer'["runtime"][n] = value
    <3>1. layer = [k \in Layer |-> layer[k]] /\ layer["runtime"] = [m \in Name |-> layer["runtime"][m]]
      BY DEF StoreInv, StoreTypes, IsLayers, Persistable
    <3>2. DOMAIN layer = Layer /\ DOMAIN layer["runtime"] = Name
      BY <3>1
    <3>q. QED
      BY <2>2, <3>2 DEF Layer
  <2>5. ~excuse'.settings => ~Beyond(value)
    BY <2>1, <2>4 DEF Excuses
  <2>6. phase = "running" /\ phase' = "running"
    BY <1>6 DEF SettingsSet
  <2>q. QED
    BY <1>0, <2>2, <2>3, <2>5, <2>6, ChangeKeeps
<1>7. CASE SettingsClear
  <2>1. PICK n \in Name : Clear(n)
    BY <1>7 DEF SettingsClear
  <2>2. phase = "running" /\ phase' = "running" /\ UNCHANGED excuse
    BY <1>7 DEF SettingsClear
  <2>q. QED
    BY <2>1, <2>2, ChangeKeeps DEF Clear
<1>8. CASE Save
  BY <1>8, SaveKeeps DEF Save
<1>9. CASE SaveError
  BY <1>9, SaveErrorKeeps
<1>10. CASE Crash
  <2>1. SettingsCrash /\ phase' = "down" /\ excuse' = Excused
    BY <1>10 DEF Crash
  <2>2. saving.phase = "write" => excuse'.settings
    BY <2>1 DEF Excused, Excuses
  <2>q. QED
    BY <1>0, <2>1, <2>2, StoreEnds
<1>11. CASE Exit
  <2>1. SettingsCrash /\ phase' = "down" /\ (phase = "failed" \/ saving.phase = "none")
    BY <1>11 DEF Exit
  <2>q. QED
    BY <1>0, <2>1, StoreEnds
<1>q. QED
  BY <1>1, <1>2, <1>3, <1>4, <1>5, <1>6, <1>7, <1>8, <1>9, <1>10, <1>11 DEF StartupNext

(***************************************************************************)
(* The file of known hubs                                                  *)
(***************************************************************************)

LEMMA TableIsNoFile == ASSUME NEW h \in HubTables PROVE h # BadHubFile
BY HubsAssumption DEF HubTables

LEMMA HubFileStep ==
    ASSUME HubFileInv, HubsInv, excuse \in Excuses, [StartupNext]_startupVars
    PROVE  HubFileInv'
<1>0. excuse.hubs => excuse'.hubs
  BY ExcuseStep
<1>1. CASE UNCHANGED hubVars
  BY <1>0, <1>1 DEF HubFileInv, SavingHubs, hubVars
<1>2. CASE OpenKnownHubs
  BY <1>0, <1>2 DEF HubFileInv, SavingHubs, OpenKnownHubs
<1>3. CASE FindHubsFails
  <2>1. excuse'.hubs = (excuse.hubs \/ hubFile' = BadHubFile)
    BY <1>3 DEF FindHubsFails, Excuses
  <2>q. QED
    BY <2>1 DEF HubFileInv
<1>4. CASE Crash \/ Exit
  <2>1. hubFile' = hubFile /\ (SavingHubs => excuse'.hubs)
    BY <1>4 DEF Crash, Exit, HubsCrash, Excused, Excuses
  <2>q. QED
    BY <1>0, <2>1 DEF HubFileInv
<1>5. CASE HubStep
  <2>0. lister \in [Lister -> ListerTypes] /\ HandshakeInv
    BY DEF HubsInv, HubTypes, ListerTypes
  <2>1. CASE UNCHANGED <<hubFile, lister>>
    BY <1>0, <2>1 DEF HubFileInv, SavingHubs
  <2>2. ASSUME NEW w \in Lister, hubFile' = hubFile, lister[w].pc # "write",
               \A v \in Lister : v # w => lister'[v] = lister[v]
        PROVE  HubFileInv'
    <3>1. SavingHubs => SavingHubs'
      BY <2>2 DEF SavingHubs
    <3>q. QED
      BY <1>0, <2>2, <3>1 DEF HubFileInv
  <2>3. CASE HandshakePeers \/ PeersNotification
    <3>1. \E w \in Lister : hubFile' = hubFile /\ lister[w].pc # "write"
                            /\ \A v \in Lister : v # w => lister'[v] = lister[v]
      <4>1. CASE HandshakePeers
        <5>1. lister["handshake"].pc = "idle"
          BY <2>0, <4>1 DEF HandshakePeers, HandshakeInv
        <5>2. "handshake" \in Lister
          BY DEF Lister
        <5>3. hubFile' = hubFile /\ \A v \in Lister : v # "handshake" => lister'[v] = lister[v]
          BY <2>0, <4>1 DEF HandshakePeers
        <5>q. QED
          BY <5>1, <5>2, <5>3
      <4>2. CASE PeersNotification
        <5>1. lister["notification"].pc = "idle" /\ "notification" \in Lister
          BY <4>2 DEF PeersNotification, Lister
        <5>3. hubFile' = hubFile /\ \A v \in Lister : v # "notification" => lister'[v] = lister[v]
          BY <2>0, <4>2 DEF PeersNotification
        <5>q. QED
          BY <5>1, <5>3
      <4>q. QED
        BY <2>3, <4>1, <4>2
    <3>q. QED
      BY <2>2, <3>1
  <2>4. ASSUME NEW w \in Lister, AddHub(w) \/ AddFails(w) \/ AddEnds(w) \/ SnapshotHubs(w) PROVE HubFileInv'
    <3>1. hubFile' = hubFile /\ lister[w].pc \in {"add", "save"}
      BY <2>4 DEF AddHub, AddFails, AddEnds, SnapshotHubs
    <3>2. \A v \in Lister : v # w => lister'[v] = lister[v]
      <4>1. CASE AddHub(w)
        BY <2>0, <4>1 DEF AddHub
      <4>2. CASE AddFails(w) \/ AddEnds(w) \/ SnapshotHubs(w)
        BY <2>0, <4>2 DEF AddFails, AddEnds, SnapshotHubs
      <4>q. QED
        BY <2>4, <4>1, <4>2
    <3>q. QED
      BY <2>2, <3>1, <3>2
  <2>5. ASSUME NEW w \in Lister, TruncateHubFile(w) PROVE HubFileInv'
    <3>1. lister'[w].pc = "write"
      BY <2>0, <2>5 DEF TruncateHubFile, ListerTypes
    <3>q. QED
      BY <3>1 DEF HubFileInv, SavingHubs
  <2>6. ASSUME NEW w \in Lister, WriteHubFile(w) PROVE HubFileInv'
    <3>1. hubFile' \in HubTables
      BY <2>0, <2>6 DEF WriteHubFile, ListerTypes
    <3>q. QED
      BY <3>1, TableIsNoFile DEF HubFileInv
  <2>7. SelectInOrder \/ ResolveAll \/ ProbeEnds \/ Fallback \/ ConnectFails \/ Dial \/ HandshakeOk
        \/ SessionLost \/ (\E a \in DOMAIN search.names : Pong(a)) => UNCHANGED <<hubFile, lister>>
    BY DEF SelectInOrder, ResolveAll, Resolve, ProbeEnds, Fallback, ConnectFails, Dial, HandshakeOk,
           SessionLost, Pong
  <2>q. QED
    BY <1>5, <2>1, <2>3, <2>4, <2>5, <2>6, <2>7 DEF HubStep
<1>6. UNCHANGED hubVars \/ OpenKnownHubs \/ FindHubsFails \/ Crash \/ Exit \/ HubStep
  <2>1. CASE UNCHANGED startupVars
    BY <2>1 DEF startupVars
  <2>2. CASE Launch \/ Parse \/ Open \/ ReadSettings \/ Migrate \/ DatabaseStarted
             \/ WalletStarted \/ FindHubs \/ SettingsSet \/ SettingsClear \/ Save \/ SaveError
    BY <2>2 DEF Launch, Parse, Open, ReadSettings, Migrate, DatabaseStarted,
                WalletStarted, FindHubs, SettingsSet, SettingsClear, Save, SaveError
  <2>q. QED
    BY <2>1, <2>2 DEF StartupNext
<1>q. QED
  BY <1>1, <1>2, <1>3, <1>4, <1>5, <1>6

(***************************************************************************)
(* The attempts of the migration chain                                     *)
(***************************************************************************)

\* An original data directory fits the step of its revision.
LEMMA OriginalFresh ==
    ASSUME MigrationInv, Original, NEW r \in 1 .. 14, origin.revision = r
    PROVE  /\ r <= 5 => main = NoDatabase
           /\ r <= 6 => "single_announce" \notin main.blob
           /\ r <= 7 => "reflected_stream" \notin main.tables
           /\ r <= 12 => main.fileTable # 13
           /\ "is_mine" \notin main.blob
           /\ r >= 2 => names.level >= 2
<1>1. main \in Databases /\ OriginInv /\ main.log \subseteq origin.main.log
  BY DEF MigrationInv, MigrationTypes, SchemaInv
<1>2. origin.main \in Databases
  BY <1>1, OriginType
<1>3. main.tables = origin.main.tables /\ main.blob = origin.main.blob /\ main.fileTable = origin.main.fileTable
      /\ main.streams = origin.main.streams /\ main.announced = origin.main.announced
      /\ main.saved = origin.main.saved
  BY <1>1, <1>2 DEF Original, Content, Databases
<1>4. CASE r <= 5
  <2>1. origin.main = NoDatabase
    BY <1>1, <1>4 DEF OriginInv
  <2>2. main.log = {}
    BY <1>1, <2>1 DEF NoDatabase
  <2>3. main = NoDatabase
    BY <1>1, <1>3, <2>1, <2>2 DEF Databases, NoDatabase
  <2>4. names.level = IF r < 3 THEN r ELSE 3
    BY <1>1 DEF Original, OriginInv
  <2>q. QED
    BY <1>4, <2>3, <2>4 DEF NoDatabase
<1>5. CASE r >= 6
  <2>1. PICK log \in SUBSET Stream : origin.main = DatabaseAt(r, IF r < 9 THEN Stream ELSE Sound, log)
    BY <1>1, <1>5 DEF OriginInv
  <2>2. names.level = 3
    BY <1>1, <1>5 DEF Original, OriginInv
  <2>3. origin.main.fileTable = (IF r < 11 THEN 6 ELSE IF r < 13 THEN r ELSE 13)
    BY <2>1 DEF DatabaseAt
  <2>4. origin.main.blob = (IF r >= 7 THEN {"single_announce"} ELSE {}) \cup (IF r >= 15 THEN {"is_mine"} ELSE {})
    BY <2>1 DEF DatabaseAt
  <2>5. r <= 7 => origin.main.tables = {"blob"}
    BY <2>1 DEF DatabaseAt, Schema6
  <2>q. QED
    BY <1>3, <1>5, <2>2, <2>3, <2>4, <2>5
<1>q. QED
  BY <1>4, <1>5

\* The statements of a step fit what an undisturbed attempt finds.
LEMMA FreshFits ==
    ASSUME MigrationInv, LegacyInv, Fresh, ~excuse.names, chain.phase = "step", chain.at < 15
    PROVE  Fits
<1>1. chain \in Chains /\ main \in Databases
  BY DEF MigrationInv, MigrationTypes
<1>2. ~(chain.at = 2 /\ chain.sub = 3) => names.rows # Gone
  BY EntryAssumption DEF MigrationInv, NamesInv
<1>3. chain.at >= 5 => legacy.metadata
  BY DEF LegacyInv
<1>5. chain.at = 5 => main.blob = {}
  BY <1>1 DEF Fresh, Databases, Columns
<1>6. CASE chain.at \in {1, 2, 4}
  BY <1>2, <1>6 DEF Fits, Fresh
<1>7. CASE chain.at = 5
  <2>1. legacy.metadata = TRUE /\ names.rows # Gone
    BY <1>2, <1>3, <1>7 DEF MigrationInv, MigrationTypes
  <2>2. chain.sub # 0 => main.blob = {} /\ main.fileTable = 6
    BY <1>5, <1>7 DEF Fresh
  <2>q. QED
    BY <1>7, <2>1, <2>2 DEF Fits
<1>8. CASE chain.at \in {6, 7}
  BY <1>8 DEF Fits, Fresh
<1>9. CASE chain.at \in {12, 14}
  BY <1>9 DEF Fits, Fresh
<1>10. CASE chain.at \notin {1, 2, 4, 5, 6, 7, 12, 14}
  BY <1>10 DEF Fits
<1>q. QED
  BY <1>6, <1>7, <1>8, <1>9, <1>10

\* A step that is followed by another.
LEMMA StepAttempt ==
    ASSUME MigrationInv, AttemptInv, ChainOnly, chain.phase = "step", chain'.phase = "step", UNCHANGED revision,
           Fresh => Fresh'
    PROVE  AttemptInv'
<1>1. revision = origin.revision /\ revision \in 1 .. 14
  BY DEF MigrationInv, PlaceInv
<1>q. QED
  BY <1>1, RevisionFacts DEF AttemptInv, ChainOnly

\* The steps of the old databases.
LEMMA OldAttempts ==
    ASSUME MigrationInv, LegacyInv, AttemptInv, ChainOnly,
           Migrate1To2 \/ Migrate2Drop \/ Migrate2Copy \/ Migrate2DropTable \/ Migrate2Rename
           \/ Migrate3To4 \/ Migrate4To5
    PROVE  LegacyInv' /\ AttemptInv'
<1>0. chain.phase = "step" /\ chain \in Chains /\ names \in Names /\ legacy \in Legacies /\ MigrationTypes
      /\ UNCHANGED <<revision, main>> /\ origin' = origin
  BY DEF MigrationInv, MigrationTypes, Names, Legacies, Migrate1To2, Migrate2Drop, Migrate2Copy,
         Migrate2DropTable, Migrate2Rename, Migrate3To4, Migrate4To5, At, ChainOnly
<1>1. CASE Migrate2Drop \/ Migrate2Copy \/ Migrate2DropTable
  <2>1. chain.at = 2 /\ chain.sub < 3 /\ NextSub /\ UNCHANGED legacy /\ names'.level = names.level
    BY <1>0, <1>1 DEF Migrate2Drop, Migrate2Copy, Migrate2DropTable, At, Names
  <2>2. chain'.phase = "step" /\ chain'.at = 2
    BY <1>0, <2>1, NextSubFacts
  <2>3. LegacyInv'
    BY <1>0, <2>1, <2>2 DEF LegacyInv
  <2>4. Fresh => Fresh'
    BY <1>0, <2>1, <2>2 DEF Fresh
  <2>q. QED
    BY <1>0, <2>2, <2>3, <2>4, StepAttempt
<1>2. CASE Migrate1To2 \/ Migrate2Rename \/ Migrate3To4 \/ Migrate4To5
  <2>1. chain.at \in 1 .. 4 /\ Stepped
    BY <1>2 DEF Migrate1To2, Migrate2Rename, Migrate3To4, Migrate4To5, At
  <2>2. chain'.phase = "step" /\ chain'.at = chain.at + 1 /\ chain'.sub = 0
    BY <1>0, <2>1, SteppedFacts
  <2>3. /\ legacy.metadata => legacy'.metadata
        /\ chain.at = 4 => legacy'.metadata
    <3>1. CASE Migrate4To5
      BY <1>0, <3>1 DEF Migrate4To5, Legacies
    <3>2. CASE Migrate1To2 \/ Migrate2Rename \/ Migrate3To4
      BY <1>0, <3>2 DEF Migrate1To2, Migrate2Rename, Migrate3To4, At, Legacies
    <3>q. QED
      BY <1>2, <3>1, <3>2
  <2>4. (chain.at >= 2 /\ names.level >= 2) \/ chain.at = 1 => names'.level >= 2
    <3>1. CASE Migrate1To2
      BY <1>0, <3>1 DEF Migrate1To2, Names
    <3>2. CASE Migrate2Rename
      BY <1>0, <3>2 DEF Migrate2Rename, Names
    <3>3. CASE Migrate3To4 \/ Migrate4To5
      BY <1>0, <3>3 DEF Migrate3To4, Migrate4To5, At
    <3>q. QED
      BY <1>2, <3>1, <3>2, <3>3
  <2>5. LegacyInv'
    BY <1>0, <2>1, <2>2, <2>3 DEF LegacyInv
  <2>6. Fresh => Fresh'
    BY <1>0, <2>1, <2>2, <2>4 DEF Fresh
  <2>q. QED
    BY <1>0, <2>2, <2>5, <2>6, StepAttempt
<1>q. QED
  BY <1>1, <1>2

\* The steps of lbrynet.sqlite.
LEMMA LegacyStays ==
    ASSUME LegacyInv, chain.phase = "step", chain'.phase = "step", chain.at >= 5, UNCHANGED <<legacy, origin>>,
           chain'.sub # 0 => chain'.at \in {5, 8, 14}
    PROVE  LegacyInv'
BY DEF LegacyInv

LEMMA LateAttempts ==
    ASSUME MigrationInv, LegacyInv, AttemptInv, ChainOnly,
           Migrate5Schema \/ Migrate5Import \/ MigrateRevision6To15Step
    PROVE  LegacyInv' /\ AttemptInv'
<1>0. /\ chain.phase = "step" /\ chain \in Chains /\ main \in Databases /\ MigrationTypes
      /\ UNCHANGED <<revision, names, legacy, origin>> /\ chain.at \in 5 .. 14
  <2>1. chain \in Chains /\ main \in Databases /\ MigrationTypes /\ UNCHANGED origin
    BY DEF MigrationInv, MigrationTypes, ChainOnly
  <2>2. Migrate5Schema \/ Migrate5Import =>
            chain.phase = "step" /\ chain.at = 5 /\ UNCHANGED <<revision, names, legacy>>
    BY DEF Migrate5Schema, Migrate5Import, At
  <2>3. ASSUME MigrateRevision6To15Step PROVE Keep /\ chain.phase = "step" /\ chain.at \in 6 .. 14
    <3>0. Migrate8Load \/ Migrate8Delete \/ Migrate8Done =>
              Keep /\ chain.phase = "step" /\ chain.at = 8
      BY DEF Migrate8Load, Migrate8Delete, Migrate8Done, At
    <3>1. Migrate6To7 \/ Migrate7To8 => Keep /\ chain.phase = "step" /\ chain.at \in 6 .. 14
      BY DEF Migrate6To7, Migrate7To8, At
    <3>2. Migrate9To10 \/ Migrate10To11 \/ Migrate11To12 \/ Migrate12To13 =>
              Keep /\ chain.phase = "step" /\ chain.at \in 6 .. 14
      BY DEF Migrate9To10, Migrate10To11, Migrate11To12, Migrate12To13, At
    <3>3. Migrate13To14 \/ Migrate14Columns \/ Migrate14Extras =>
              Keep /\ chain.phase = "step" /\ chain.at \in 6 .. 14
      BY DEF Migrate13To14, Migrate14Columns, Migrate14Extras, At
    <3>q. QED
      BY <2>3, <3>0, <3>1, <3>2, <3>3 DEF MigrateRevision6To15Step
  <2>q. QED
    BY <2>1, <2>2, <2>3 DEF Keep
<1>1. ASSUME chain'.phase = "step", chain'.sub # 0 => chain'.at \in {5, 8, 14}, Fresh => Fresh'
      PROVE  LegacyInv' /\ AttemptInv'
  BY <1>0, <1>1, LegacyStays, StepAttempt
<1>2. ASSUME Stepped
      PROVE  chain'.phase = "step" /\ chain'.at = chain.at + 1 /\ chain'.sub = 0
  BY <1>0, <1>2, SteppedFacts
<1>3. CASE Migrate5Schema
  <2>1. chain.at = 5 /\ chain.sub = 0 /\ NextSub /\ Commit(IF Exists THEN main ELSE DatabaseAt(6, {}, {}))
    BY <1>3 DEF Migrate5Schema, At
  <2>2. chain'.phase = "step" /\ chain'.at = 5 /\ chain'.sub = 1
    BY <1>0, <2>1, NextSubFacts
  <2>3. ASSUME Fresh PROVE Fresh'
    <3>1. main = NoDatabase
      BY <2>1, <2>3 DEF Fresh
    <3>2. main' = [DatabaseAt(6, {}, {}) EXCEPT !.log = {}]
      BY <2>1, <3>1 DEF Commit, Exists
    <3>3. main'.fileTable = 6 /\ main'.blob = {} /\ main'.tables = {"blob"}
      BY <3>2 DEF DatabaseAt, Schema6
    <3>q. QED
      BY <1>0, <2>1, <2>2, <2>3, <3>3 DEF Fresh
  <2>q. QED
    BY <1>1, <2>2, <2>3
<1>4. CASE Migrate5Import
  <2>1. chain.at = 5 /\ chain.sub = 1 /\ Stepped /\ Commit([main EXCEPT !.streams = Recoverable])
    BY <1>4 DEF Migrate5Import, At
  <2>2. main'.fileTable = main.fileTable /\ main'.blob = main.blob /\ main'.tables = main.tables
    BY <1>0, <2>1 DEF Commit, Databases
  <2>3. chain'.phase = "step" /\ chain'.at = 6 /\ chain'.sub = 0
    BY <1>2, <2>1
  <2>4. Fresh => Fresh'
    BY <1>0, <2>1, <2>2, <2>3 DEF Fresh
  <2>q. QED
    BY <1>1, <2>3, <2>4
<1>5. CASE Migrate6To7 \/ Migrate7To8
  <2>1. Stepped /\ chain.at \in {6, 7}
    BY <1>5 DEF Migrate6To7, Migrate7To8, At
  <2>2. main'.fileTable = main.fileTable /\ (chain.at = 6 => main'.tables = main.tables)
        /\ ("is_mine" \in main'.blob => "is_mine" \in main.blob)
    <3>1. CASE Migrate6To7
      <4>1. main' = [[main EXCEPT !.blob = @ \cup {"single_announce"}] EXCEPT !.log = {}]
        BY <3>1 DEF Migrate6To7, Commit
      <4>2. main'.fileTable = main.fileTable /\ main'.tables = main.tables /\ main'.blob = main.blob \cup {"single_announce"}
        BY <1>0, <4>1 DEF Databases
      <4>q. QED
        BY <4>2
    <3>2. CASE Migrate7To8
      <4>1. main' = [[main EXCEPT !.tables = @ \cup {"reflected_stream"}] EXCEPT !.log = {}] /\ chain.at = 7
        BY <3>2 DEF Migrate7To8, Commit, At
      <4>2. main'.fileTable = main.fileTable /\ main'.blob = main.blob
        BY <1>0, <4>1 DEF Databases
      <4>q. QED
        BY <4>1, <4>2
    <3>q. QED
      BY <1>5, <3>1, <3>2
  <2>3. chain'.phase = "step" /\ chain'.at = chain.at + 1 /\ chain'.sub = 0
    BY <1>2, <2>1
  <2>4. Fresh => Fresh'
    BY <1>0, <2>1, <2>2, <2>3 DEF Fresh
  <2>q. QED
    BY <1>1, <2>3, <2>4
<1>6. CASE Migrate8Load \/ Migrate8Delete
  <2>1. chain.at = 8 /\ chain'.at = 8 /\ chain'.phase = "step"
    BY <1>0, <1>6 DEF Migrate8Load, Migrate8Delete, At, Chains
  <2>2. main'.fileTable = main.fileTable /\ main'.blob = main.blob
    <3>1. CASE Migrate8Load
      BY <3>1 DEF Migrate8Load
    <3>2. CASE Migrate8Delete
      BY <1>0, <3>2 DEF Migrate8Delete, Databases
    <3>q. QED
      BY <1>6, <3>1, <3>2
  <2>3. Fresh => Fresh'
    BY <1>0, <2>1, <2>2 DEF Fresh
  <2>q. QED
    BY <1>1, <2>1, <2>3
<1>7. CASE Migrate8Done \/ Migrate9To10 \/ Migrate10To11 \/ Migrate11To12
  <2>1. Stepped /\ chain.at \in 8 .. 11
    BY <1>7 DEF Migrate8Done, Migrate9To10, Migrate10To11, Migrate11To12, At
  <2>2. main'.blob = main.blob /\ (main.fileTable # 13 => main'.fileTable # 13)
    <3>1. CASE Migrate8Done
      BY <1>0, <3>1 DEF Migrate8Done, Commit, Databases
    <3>2. CASE Migrate9To10
      <4>1. main' = [[main EXCEPT !.announced = main.streams] EXCEPT !.log = {}]
        BY <3>2 DEF Migrate9To10, Commit
      <4>q. QED
        BY <1>0, <4>1 DEF Databases
    <3>3. CASE Migrate10To11
      <4>1. \/ main' = [main EXCEPT !.log = {}]
            \/ main' = [[main EXCEPT !.fileTable = 11, !.saved = main.streams \cap Saved] EXCEPT !.log = {}]
        BY <3>3 DEF Migrate10To11, Commit
      <4>2. CASE main' = [main EXCEPT !.log = {}]
        BY <1>0, <4>2 DEF Databases
      <4>3. CASE main' = [[main EXCEPT !.fileTable = 11, !.saved = main.streams \cap Saved] EXCEPT !.log = {}]
        <5>1. main'.blob = main.blob /\ main'.fileTable = 11
          BY <1>0, <4>3 DEF Databases
        <5>q. QED
          BY <5>1
      <4>q. QED
        BY <4>1, <4>2, <4>3
    <3>4. CASE Migrate11To12
      <4>1. \/ main' = [main EXCEPT !.log = {}]
            \/ main' = [[main EXCEPT !.fileTable = 12] EXCEPT !.log = {}]
        BY <3>4 DEF Migrate11To12, Commit
      <4>2. CASE main' = [main EXCEPT !.log = {}]
        BY <1>0, <4>2 DEF Databases
      <4>3. CASE main' = [[main EXCEPT !.fileTable = 12] EXCEPT !.log = {}]
        <5>1. main'.blob = main.blob /\ main'.fileTable = 12
          BY <1>0, <4>3 DEF Databases
        <5>q. QED
          BY <5>1
      <4>q. QED
        BY <4>1, <4>2, <4>3
    <3>q. QED
      BY <1>7, <3>1, <3>2, <3>3, <3>4
  <2>3. chain'.phase = "step" /\ chain'.at = chain.at + 1 /\ chain'.sub = 0
    BY <1>2, <2>1
  <2>4. Fresh => Fresh'
    BY <1>0, <2>1, <2>2, <2>3 DEF Fresh
  <2>q. QED
    BY <1>1, <2>3, <2>4
<1>8. CASE Migrate12To13 \/ Migrate13To14
  <2>1. Stepped /\ chain.at \in {12, 13}
    BY <1>8 DEF Migrate12To13, Migrate13To14, At
  <2>2. main'.blob = main.blob
    <3>1. CASE Migrate12To13
      <4>1. \/ main' = [[main EXCEPT !.tables = @ \cup {"peer"} \cup Extras] EXCEPT !.log = {}]
            \/ main' = [[main EXCEPT !.fileTable = 13, !.tables = @ \cup {"torrent"}] EXCEPT !.log = {}]
        BY <3>1 DEF Migrate12To13, Commit
      <4>q. QED
        BY <1>0, <4>1 DEF Databases
    <3>2. CASE Migrate13To14
      <4>1. main' = [[main EXCEPT !.tables = @ \cup {"peer"}] EXCEPT !.log = {}]
        BY <3>2 DEF Migrate13To14, Commit
      <4>q. QED
        BY <1>0, <4>1 DEF Databases
    <3>q. QED
      BY <1>8, <3>1, <3>2
  <2>3. chain'.phase = "step" /\ chain'.at = chain.at + 1 /\ chain'.sub = 0
    BY <1>2, <2>1
  <2>4. Fresh => Fresh'
    BY <1>0, <2>1, <2>2, <2>3 DEF Fresh
  <2>q. QED
    BY <1>1, <2>3, <2>4
<1>9. CASE Migrate14Columns
  <2>1. chain.at = 14 /\ chain.sub = 0 /\ NextSub
    BY <1>9 DEF Migrate14Columns, At
  <2>2. chain'.phase = "step" /\ chain'.at = 14 /\ chain'.sub = 1
    BY <1>0, <2>1, NextSubFacts
  <2>3. Fresh => Fresh'
    BY <1>0, <2>1, <2>2 DEF Fresh
  <2>q. QED
    BY <1>1, <2>2, <2>3
<1>10. CASE Migrate14Extras
  <2>1. chain.at = 14 /\ Stepped
    BY <1>10 DEF Migrate14Extras, At
  <2>2. chain'.phase = "step" /\ chain'.at = 15 /\ chain'.sub = 0
    BY <1>2, <2>1
  <2>3. Fresh => Fresh'
    BY <1>0, <2>1, <2>2 DEF Fresh
  <2>q. QED
    BY <1>1, <2>2, <2>3
<1>q. QED
  BY <1>3, <1>4, <1>5, <1>6, <1>7, <1>8, <1>9, <1>10 DEF MigrateRevision6To15Step

\* The chain reads the revision, copies the database, and ends.
LEMMA ChainAttempts ==
    ASSUME MigrationInv, LegacyInv, AttemptInv, ChainOnly,
           ReadRevision \/ NoBackup \/ CreateBackup \/ CopyBackup \/ StepRefused
           \/ ChainDone \/ TruncateRevision \/ WriteRevision \/ OpenDatabase
    PROVE  LegacyInv' /\ AttemptInv'
<1>0. /\ chain \in Chains /\ PlaceInv /\ CurrentRevision = 15 /\ Missing = 17 /\ Truncated = 0
      /\ UNCHANGED <<phase, origin, excuse, names, legacy>>
  <2>1. UNCHANGED <<names, legacy>>
    BY DEF ReadRevision, NoBackup, CreateBackup, CopyBackup, StepRefused, Fail, ChainDone, TruncateRevision,
           WriteRevision, OpenDatabase
  <2>q. QED
    BY <2>1, RevisionFacts DEF MigrationInv, MigrationTypes, ChainOnly
<1>1. ASSUME UNCHANGED <<revision, main>>, chain'.sub = 0, chain'.phase = "failed" => excuse.database,
             chain.phase \in {"read", "backup", "copy"}, chain'.phase \in {"backup", "copy", "open", "stamp", "failed"}
      PROVE  LegacyInv' /\ AttemptInv'
  <2>1. LegacyInv'
    BY <1>0, <1>1 DEF LegacyInv
  <2>2. AttemptInv'
    BY <1>0, <1>1 DEF AttemptInv, Original, Content
  <2>q. QED
    BY <2>1, <2>2
<1>2. CASE ReadRevision
  <2>0. chain.phase = "read" /\ chain.sub = 0 /\ UNCHANGED <<revision, main>>
    BY <1>0, <1>2 DEF ReadRevision, PlaceInv
  <2>1. CASE revision = Truncated
    <3>1. excuse.database /\ chain' = [NotRunning EXCEPT !.phase = "failed"]
      BY <1>0, <1>2, <2>0, <2>1 DEF ReadRevision, AttemptInv, Return
    <3>q. QED
      BY <1>1, <2>0, <3>1 DEF NotRunning
  <2>2. CASE revision = CurrentRevision + 1
    <3>1. origin.revision = 16 /\ chain' = [NotRunning EXCEPT !.phase = "failed"]
      BY <1>0, <1>2, <2>2 DEF ReadRevision, PlaceInv, Return
    <3>2. chain'.phase = "failed" /\ chain'.sub = 0
      BY <3>1 DEF NotRunning
    <3>3. LegacyInv'
      BY <1>0, <3>2 DEF LegacyInv
    <3>4. AttemptInv'
      BY <1>0, <2>0, <3>1, <3>2 DEF AttemptInv, Original, Content
    <3>q. QED
      BY <3>3, <3>4
  <2>3. CASE revision = CurrentRevision
    <3>1. chain' = [NotRunning EXCEPT !.phase = "open"]
      BY <1>0, <1>2, <2>3 DEF ReadRevision, Return
    <3>q. QED
      BY <1>1, <2>0, <3>1 DEF NotRunning
  <2>4. CASE revision = Missing
    <3>1. chain' = [chain EXCEPT !.phase = "stamp"]
      BY <1>0, <1>2, <2>4 DEF ReadRevision
    <3>q. QED
      BY <1>0, <1>1, <2>0, <3>1 DEF Chains
  <2>5. CASE revision \notin {Truncated, CurrentRevision, CurrentRevision + 1, Missing}
    <3>1. chain' = [chain EXCEPT !.phase = "backup", !.from = revision, !.at = revision]
      BY <1>0, <1>2, <2>5 DEF ReadRevision
    <3>q. QED
      BY <1>0, <1>1, <2>0, <3>1 DEF Chains
  <2>q. QED
    BY <2>1, <2>2, <2>3, <2>4, <2>5
<1>3. CASE NoBackup \/ CopyBackup
  <2>1. /\ chain.phase \in {"backup", "copy"} /\ chain' = [chain EXCEPT !.phase = "step"]
        /\ UNCHANGED <<revision, main>>
    BY <1>3 DEF NoBackup, CopyBackup
  <2>2. chain.at = revision /\ chain.sub = 0 /\ revision = origin.revision /\ revision \in 1 .. 14
    BY <1>0, <2>1 DEF PlaceInv
  <2>3. chain'.phase = "step" /\ chain'.at = revision /\ chain'.sub = 0
    BY <1>0, <2>1, <2>2 DEF Chains
  <2>4. LegacyInv'
    BY <1>0, <2>2, <2>3 DEF LegacyInv
  <2>5. ASSUME ~excuse.database PROVE Fresh'
    <3>1. Original
      BY <1>0, <2>1, <2>2, <2>5 DEF AttemptInv
    <3> DEFINE r == revision
    <3>2. /\ r <= 5 => main = NoDatabase
          /\ r <= 6 => "single_announce" \notin main.blob
          /\ r <= 7 => "reflected_stream" \notin main.tables
          /\ r <= 12 => main.fileTable # 13
          /\ "is_mine" \notin main.blob
          /\ r >= 2 => names.level >= 2
      BY <2>2, <3>1, OriginalFresh
    <3>q. QED
      BY <1>0, <2>1, <2>2, <2>3, <3>2 DEF Fresh
  <2>6. AttemptInv'
    BY <1>0, <2>1, <2>2, <2>3, <2>5 DEF AttemptInv
  <2>q. QED
    BY <2>4, <2>6
<1>4. CASE CreateBackup
  <2>1. chain.phase = "backup" /\ chain' = [chain EXCEPT !.phase = "copy"] /\ UNCHANGED <<revision, main>>
    BY <1>4 DEF CreateBackup
  <2>q. QED
    BY <1>0, <1>1, <2>1 DEF Chains, PlaceInv
<1>5. CASE StepRefused
  <2>1. chain.phase = "step" /\ chain.at < 15 /\ ~Fits /\ UNCHANGED <<revision, main>>
        /\ chain' = [NotRunning EXCEPT !.phase = "failed"]
    BY <1>0, <1>5 DEF StepRefused, Fail, Return
  <2>2. excuse.database
    BY <2>1, FreshFits DEF AttemptInv
  <2>3. chain'.phase = "failed" /\ chain'.sub = 0
    BY <2>1 DEF NotRunning
  <2>q. QED
    BY <1>0, <2>2, <2>3 DEF LegacyInv, AttemptInv
<1>6. CASE ChainDone
  <2>1. chain.phase = "step" /\ chain.at = 15 /\ chain' = [chain EXCEPT !.phase = "stamp"]
        /\ UNCHANGED <<revision, main>>
    BY <1>0, <1>6 DEF ChainDone
  <2>2. chain'.phase = "stamp" /\ chain'.sub = 0
    BY <1>0, <2>1 DEF LegacyInv, Chains
  <2>q. QED
    BY <1>0, <2>1, <2>2 DEF LegacyInv, AttemptInv
<1>7. CASE TruncateRevision
  <2>1. chain.phase = "stamp" /\ chain' = [chain EXCEPT !.phase = "write"] /\ revision' = Truncated
    BY <1>7 DEF TruncateRevision
  <2>2. chain'.phase = "write" /\ chain'.sub = 0
    BY <1>0, <2>1 DEF LegacyInv, Chains
  <2>q. QED
    BY <1>0, <2>1, <2>2 DEF LegacyInv, AttemptInv
<1>8. CASE WriteRevision \/ OpenDatabase
  <2>1. revision' = CurrentRevision /\ chain'.phase \in {"open", "done"} /\ chain'.sub = 0
    <3>1. CASE WriteRevision
      BY <3>1 DEF WriteRevision, Return, NotRunning
    <3>2. CASE OpenDatabase
      BY <1>0, <3>2 DEF OpenDatabase, Return, NotRunning, PlaceInv
    <3>q. QED
      BY <1>8, <3>1, <3>2
  <2>q. QED
    BY <1>0, <2>1 DEF LegacyInv, AttemptInv
<1>q. QED
  BY <1>2, <1>3, <1>4, <1>5, <1>6, <1>7, <1>8

\* A chain that ends without having changed the data directory leaves it original.
LEMMA InterruptedAttempt ==
    ASSUME MigrationInv, LegacyInv, AttemptInv, chain' = NotRunning,
           UNCHANGED <<revision, names, legacy, main, origin>>,
           ~excuse'.database => ~excuse.database /\ ~Unfinished,
           excuse'.names => excuse.names \/ (chain.phase = "step" /\ InWindow)
    PROVE  LegacyInv' /\ AttemptInv'
<1>0. /\ chain \in Chains /\ PlaceInv /\ OriginInv /\ main \in Databases
      /\ CurrentRevision = 15 /\ Missing = 17 /\ Truncated = 0
      /\ chain'.phase = "idle" /\ chain'.sub = 0
  BY RevisionFacts DEF MigrationInv, MigrationTypes, NotRunning
<1>1. LegacyInv'
  BY <1>0 DEF LegacyInv
<1>2. ASSUME ~excuse'.database PROVE ~excuse'.names
  <2>1. ~excuse.names /\ ~Unfinished
    BY <1>2 DEF AttemptInv
  <2>2. ASSUME chain.phase = "step", InWindow PROVE FALSE
    <3>1. names.copy = Entry
      BY <2>1, <2>2 DEF MigrationInv, NamesInv, InWindow
    <3>2. origin.names.copy = Gone
      BY <1>0 DEF OriginInv
    <3>3. names # origin.names
      BY <3>1, <3>2, EntryAssumption
    <3>q. QED
      BY <2>1, <2>2, <3>3 DEF Unfinished
  <2>q. QED
    BY <2>1, <2>2
<1>3. ASSUME ~excuse'.database PROVE revision # Truncated
  BY <1>3 DEF AttemptInv, Unfinished
<1>4. ASSUME ~excuse'.database, revision \notin {Truncated, CurrentRevision} PROVE Original
  <2>1. CASE chain.phase \notin {"step", "stamp", "write"}
    BY <1>4, <2>1 DEF AttemptInv
  <2>2. CASE chain.phase \in {"step", "stamp", "write"}
    <3>1. names = origin.names /\ (main = NoDatabase \/ Content(main) = Content(origin.main))
      BY <1>4, <2>2 DEF Unfinished, Content
    <3>2. ASSUME main = NoDatabase PROVE origin.main = NoDatabase
      <4>1. revision = origin.revision
        BY <1>0, <1>4 DEF PlaceInv
      <4>2. CASE origin.revision \in 6 .. 14
        <5>1. "blob" \in main.tables
          BY <4>2 DEF MigrationInv, StepInv, Reached
        <5>q. QED
          BY <3>2, <5>1 DEF NoDatabase
      <4>3. CASE origin.revision = 16
        <5>1. chain.phase \in {"stamp", "write"}
          BY <1>0, <2>2, <4>1, <4>3 DEF PlaceInv
        <5>2. Migrated
          BY <1>0, <4>3, <5>1 DEF MigrationInv, WholeInv, Whole
        <5>3. main.tables # {}
          BY <1>0, <5>2 DEF Migrated, Content, DatabaseAt, Schema6, Databases
        <5>q. QED
          BY <3>2, <5>3 DEF NoDatabase
      <4>4. CASE origin.revision \notin 6 .. 16
        BY <1>0, <4>4 DEF OriginInv
      <4>q. QED
        BY <1>0, <1>4, <4>1, <4>2, <4>3, <4>4
    <3>q. QED
      BY <3>1, <3>2 DEF Original, Content
  <2>q. QED
    BY <2>1, <2>2
<1>5. AttemptInv'
  <2>1. Original => Original'
    BY DEF Original, Content
  <2>q. QED
    BY <1>0, <1>2, <1>3, <1>4, <2>1 DEF AttemptInv
<1>q. QED
  BY <1>1, <1>5

\* A step of the rest of the daemon.
LEMMA NoAttempt ==
    ASSUME LegacyInv, AttemptInv, UNCHANGED <<migrationVars, origin>>,
           excuse'.database <=> excuse.database, excuse'.names <=> excuse.names
    PROVE  LegacyInv' /\ AttemptInv'
<1>1. UNCHANGED <<revision, names, legacy, main, chain, origin>>
  BY DEF migrationVars
<1>2. LegacyInv'
  BY <1>1 DEF LegacyInv
<1>3. (Original => Original') /\ (Fresh => Fresh')
  BY <1>1 DEF Original, Content, Fresh
<1>q. QED
  BY <1>1, <1>2, <1>3 DEF AttemptInv

LEMMA AttemptStep ==
    ASSUME MigrationInv, LegacyInv, AttemptInv, excuse \in Excuses, [StartupNext]_startupVars
    PROVE  LegacyInv' /\ AttemptInv'
<1>0. /\ chain \in Chains /\ CurrentRevision = 15 /\ Missing = 17 /\ Truncated = 0
      /\ phase # "database" => chain.phase = "idle"
  BY RevisionFacts DEF MigrationInv, MigrationTypes, PlaceInv
<1>1. CASE UNCHANGED startupVars
  BY <1>1, NoAttempt DEF startupVars
<1>2. CASE Launch \/ Parse \/ Open \/ WalletStarted \/ FindHubs \/ SettingsClear \/ Save
  BY <1>2, NoAttempt DEF Launch, Parse, Open, WalletStarted, FindHubs, SettingsClear, Save
<1>3. CASE FindHubsFails \/ SettingsSet \/ SaveError
  <2>1. UNCHANGED <<migrationVars, origin>>
    BY <1>3 DEF FindHubsFails, SettingsSet, SaveError
  <2>2. excuse'.database = excuse.database /\ excuse'.names = excuse.names
    BY <1>3 DEF FindHubsFails, SettingsSet, SaveError, Excuses
  <2>q. QED
    BY <2>1, <2>2, NoAttempt
<1>4. CASE ReadSettings
  <2>1. phase = "reading" /\ UNCHANGED <<revision, names, legacy, main, backups, origin, excuse>>
    BY <1>4 DEF ReadSettings
  <2>2. CASE UNCHANGED chain
    BY <2>1, <2>2, NoAttempt DEF migrationVars
  <2>3. CASE chain' = [NotRunning EXCEPT !.phase = "read"]
    <3>1. chain'.phase = "read" /\ chain'.sub = 0 /\ chain.phase = "idle"
      BY <1>0, <2>1, <2>3 DEF NotRunning
    <3>2. LegacyInv'
      BY <2>1, <3>1 DEF LegacyInv
    <3>3. Original => Original'
      BY <2>1 DEF Original, Content
    <3>q. QED
      BY <1>0, <2>1, <3>1, <3>2, <3>3 DEF AttemptInv
  <2>q. QED
    BY <1>4, <2>2, <2>3 DEF ReadSettings
<1>5. CASE Migrate
  <2>1. ChainNext /\ ChainOnly
    BY <1>5 DEF Migrate, ChainOnly
  <2>q. QED
    BY <2>1, ChainAttempts, OldAttempts, LateAttempts DEF ChainNext
<1>6. CASE DatabaseStarted
  <2>1. /\ chain' = NotRunning /\ chain.phase \in {"done", "failed"}
        /\ UNCHANGED <<revision, names, legacy, main, origin, excuse>>
    BY <1>6 DEF DatabaseStarted
  <2>2. ~Unfinished
    BY <2>1 DEF Unfinished
  <2>q. QED
    BY <2>1, <2>2, InterruptedAttempt
<1>7. CASE Crash
  <2>1. MigrationCrash /\ origin' = origin /\ excuse' = Excused
    BY <1>7 DEF Crash
  <2>2. excuse'.database = (excuse.database \/ Unfinished) /\ excuse'.names = (excuse.names \/ InWindow)
    BY <2>1 DEF Excused, Excuses
  <2>3. InWindow => chain.phase = "step"
    BY <1>0 DEF InWindow, LegacyInv
  <2>q. QED
    BY <2>1, <2>2, <2>3, InterruptedAttempt DEF MigrationCrash
<1>8. CASE Exit
  <2>1. MigrationCrash /\ origin' = origin /\ phase \in {"failed", "running"}
        /\ excuse'.database = excuse.database /\ excuse'.names = excuse.names
    BY <1>8 DEF Exit, Excuses
  <2>2. ~Unfinished
    BY <1>0, <2>1 DEF Unfinished
  <2>q. QED
    BY <2>1, <2>2, InterruptedAttempt DEF MigrationCrash
<1>q. QED
  BY <1>1, <1>2, <1>3, <1>4, <1>5, <1>6, <1>7, <1>8 DEF StartupNext

(***************************************************************************)
(* A start that fails                                                      *)
(***************************************************************************)

\* A setting that cannot be read was not usable where it comes from.
LEMMA UnreadableExplained ==
    ASSUME StoreInv, phase = "reading", NEW n \in Name, ~CanRead(n, Effective(n))
    PROVE  excuse.settings \/ ~Usable(Converted(arguments)) \/ ~Usable(Converted(env))
<1>1. layer["runtime"][n] = Absent
      /\ layer["arguments"] = Converted(arguments) /\ layer["environment"] = Converted(env)
  BY DEF StoreInv, ReadingInv, NoValues
<1>2. \/ \E k \in {"arguments", "environment", "persisted"} : layer[k][n] # Absent /\ Effective(n) = layer[k][n]
      \/ Effective(n) = DefaultValue[n]
  BY <1>1 DEF Effective
<1>3. Effective(n) # DefaultValue[n]
  BY DefaultAssumption
<1>4. ~Usable(layer["arguments"]) \/ ~Usable(layer["environment"]) \/ ~Usable(layer["persisted"])
  BY <1>2, <1>3 DEF Usable
<1>q. QED
  BY <1>1, <1>4 DEF StoreInv, UsableInv

LEMMA ExplainedStep ==
    ASSUME StoreInv, HubFileInv, HubsInv, HubsFirst, MigrationInv, AttemptInv, StartFailureExplained,
           excuse \in Excuses, [StartupNext]_startupVars
    PROVE  StartFailureExplained'
<1>1. CASE UNCHANGED startupVars
  <2>1. UNCHANGED <<phase, excuse, origin, arguments, env>>
    BY <1>1 DEF startupVars
  <2>2. Workable(InEffect)' = Workable(InEffect)
    BY <1>1 DEF startupVars, settingsVars, Workable, InEffect, Effective
  <2>q. QED
    BY <2>1, <2>2 DEF StartFailureExplained, Converts, Usable, Converted
<1>2. CASE Launch \/ Parse \/ FindHubs \/ FindHubsFails \/ SettingsSet \/ SettingsClear \/ Crash \/ Exit \/ Migrate
  <2>1. phase' # "failed"
    BY <1>2 DEF Launch, Parse, FindHubs, FindHubsFails, SettingsSet, SettingsClear, Crash, Exit, Migrate
  <2>q. QED
    BY <2>1 DEF StartFailureExplained
<1>3. CASE Save \/ SaveError
  <2>1. saving.phase # "none"
    BY <1>3 DEF Save, SaveError, SaveTruncate, SaveWrite, SaveFails
  <2>2. phase # "failed"
    BY <2>1 DEF StoreInv, StoreTypes
  <2>3. phase' # "failed"
    BY <1>3, <2>2 DEF Save, SaveError
  <2>q. QED
    BY <2>3 DEF StartFailureExplained
<1>4. CASE Open
  <2>1. UNCHANGED <<excuse, arguments, env, origin>> /\ phase = "opening"
        /\ (phase' = "failed" => ~(Converts(arguments) /\ Converts(env) /\ Loads(file)))
    BY <1>4 DEF Open, OpenRefused
  <2>2. ~Loads(file) => excuse.settings
    BY <2>1 DEF StoreInv, StoreTypes, FileInv, UsableInv
  <2>q. QED
    BY <2>1, <2>2 DEF StartFailureExplained, Converts, Usable, Converted
<1>5. CASE ReadSettings
  <2>1. UNCHANGED <<excuse, arguments, env, origin>> /\ phase = "reading"
        /\ (phase' = "failed" => (\E n \in Name : ~CanRead(n, Effective(n))) \/ ~Workable(InEffect))
    BY <1>5 DEF ReadSettings
  <2>2. phase' = "failed" => \/ excuse.settings \/ ~Usable(Converted(arguments)) \/ ~Usable(Converted(env))
                            \/ ~Workable(InEffect)
    BY <2>1, UnreadableExplained
  <2>3. Workable(InEffect)' = Workable(InEffect)
    BY <1>5 DEF ReadSettings, settingsVars, Workable, InEffect, Effective
  <2>q. QED
    BY <2>1, <2>2, <2>3 DEF StartFailureExplained, Converts, Usable, Converted
<1>6. CASE DatabaseStarted
  <2>1. UNCHANGED <<excuse, origin>> /\ (phase' = "failed" => chain.phase = "failed")
    BY <1>6 DEF DatabaseStarted
  <2>2. phase' = "failed" => excuse.database \/ origin.revision = CurrentRevision + 1
    BY <2>1 DEF AttemptInv
  <2>q. QED
    BY <2>1, <2>2 DEF StartFailureExplained
<1>7. CASE WalletStarted
  <2>1. UNCHANGED excuse /\ phase = "wallet" /\ (phase' = "failed" => hubFile = BadHubFile)
    BY <1>7 DEF WalletStarted
  <2>2. ~SavingHubs
    BY <2>1 DEF HubsInv, HubsFirst, LoadedInv, SavingHubs
  <2>q. QED
    BY <2>1, <2>2 DEF HubFileInv, StartFailureExplained
<1>q. QED
  BY <1>1, <1>2, <1>3, <1>4, <1>5, <1>6, <1>7 DEF StartupNext

LEMMA SettingsFirst == StartupInit => SettingsInv
<1> SUFFICES ASSUME StartupInit PROVE SettingsInv
  OBVIOUS
<1>0. MigrationInv
  BY MigrationFirst
<1>1. /\ file \in File /\ layer = NoLayers /\ saving = NotSaving /\ lapse = ~Loads(file)
      /\ acknowledged = IF Loads(file) THEN LoadPersisted(file) ELSE NoValues
      /\ phase = "down" /\ chain = NotRunning
      /\ origin = [revision |-> revision, main |-> main, names |-> names]
      /\ excuse = [settings |-> ~Loads(file) \/ ~Usable(LoadPersisted(file)), database |-> FALSE,
                   names |-> FALSE, hubs |-> hubFile = BadHubFile]
  BY DEF StartupInit, SettingsInit, MigrationInit
<1>2. /\ excuse.settings = (~Loads(file) \/ ~Usable(LoadPersisted(file))) /\ excuse.database = FALSE
      /\ excuse.names = FALSE /\ excuse.hubs = (hubFile = BadHubFile)
      /\ excuse \in Excuses
  <2>1. (~Loads(file) \/ ~Usable(LoadPersisted(file))) \in BOOLEAN /\ (hubFile = BadHubFile) \in BOOLEAN
    OBVIOUS
  <2>q. QED
    BY <1>1, <2>1 DEF Excuses
<1>3. saving.phase = "none" /\ saving.restore = NoLayers
      /\ saving = [phase |-> saving.phase, restore |-> saving.restore]
  BY <1>1 DEF NotSaving
<1>4. StoreTypes
  BY <1>1, <1>3, NoLayersFacts, ValuesAssumption DEF StoreTypes, IsFile
<1>5. FileInv /\ ReadingInv
  BY <1>1, <1>3 DEF FileInv, ReadingInv
<1>6. UsableInv
  BY <1>1, <1>2, <1>3, NoLayersFacts DEF UsableInv
<1>7. HubFileInv
  BY <1>2 DEF HubFileInv
<1>8. chain.phase = "idle" /\ chain.sub = 0
  BY <1>1 DEF NotRunning
<1>9. origin.revision = revision /\ origin.main = main /\ origin.names = names
  BY <1>1
<1>10. LegacyInv
  <2>1. PICK r \in Revisions : revision = r /\ legacy = [column |-> r >= 4, metadata |-> r >= 5]
    BY DEF StartupInit, MigrationInit
  <2>2. legacy.metadata = (revision >= 5)
    BY <2>1
  <2>3. \A i \in 5 .. 16 : i >= 5
    OBVIOUS
  <2>4. origin.revision \in 5 .. 16 => legacy.metadata
    BY <1>9, <2>2, <2>3
  <2>q. QED
    BY <1>8, <2>4 DEF LegacyInv
<1>11. AttemptInv
  <2>1. revision # Truncated
    BY <1>0, <1>9, RevisionFacts DEF MigrationInv, OriginInv
  <2>2. Original
    BY <1>9 DEF Original
  <2>q. QED
    BY <1>2, <1>8, <2>1, <2>2 DEF AttemptInv
<1>12. StartFailureExplained
  BY <1>1 DEF StartFailureExplained
<1>q. QED
  BY <1>2, <1>4, <1>5, <1>6, <1>7, <1>10, <1>11, <1>12 DEF SettingsInv

LEMMA SettingsNext ==
    SettingsInv /\ HubsInv /\ HubsFirst /\ MigrationInv /\ [StartupNext]_startupVars => SettingsInv'
<1> SUFFICES ASSUME SettingsInv, HubsInv, HubsFirst, MigrationInv, [StartupNext]_startupVars PROVE SettingsInv'
  OBVIOUS
<1>1. excuse \in Excuses /\ StoreInv /\ HubFileInv /\ LegacyInv /\ AttemptInv /\ StartFailureExplained
  BY DEF SettingsInv, StoreInv
<1>2. (excuse \in Excuses)'
  BY <1>1, ExcuseStep
<1>3. StoreInv'
  BY <1>1, StoreStep
<1>4. HubFileInv'
  BY <1>1, HubFileStep
<1>5. LegacyInv' /\ AttemptInv'
  BY <1>1, AttemptStep
<1>6. StartFailureExplained'
  BY <1>1, ExplainedStep
<1>q. QED
  BY <1>2, <1>3, <1>4, <1>5, <1>6 DEF SettingsInv, StoreInv

LEMMA SettingsSafeFollows == SettingsInv => SettingsSafe
BY DEF SettingsInv, SettingsSafe, SettingsSurvive, FileInv

\* What the file, the layers and an undisturbed migration hold, at every point of a save
\* and of an attempt.
THEOREM SettingsInvariance == StartupSpec => []SettingsInv
BY SettingsFirst, SettingsNext, HubsInvariance, MigrationInvariance, PTL DEF StartupSpec

\* For any settings of the kinds the code has, any values, files, command lines and
\* environments, any database and any hubs, and any number of starts, calls and faults: the
\* next start loads what settings_set last acknowledged, and a start that fails has one of the
\* reasons StartFailureExplained lists (config.go, app.go, revision.go, known_hubs.go).
THEOREM SettingsSafeHolds == StartupSpec => []SettingsSafe
BY SettingsInvariance, SettingsSafeFollows, PTL
=============================================================================
