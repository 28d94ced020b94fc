----------------------------- MODULE HubSelection -----------------------------
(***************************************************************************)
(* How the wallet's network finds its server (src/wallet/spv/selector.go   *)
(* and connect of network.go): servers are resolved and probed over UDP,   *)
(* the ones that answer are dialled in turn, and the lists of further hubs *)
(* they send go to the known hubs and their file (known_hubs.go).          *)
(*                                                                         *)
(* A server is a name or a numeric address.  The calls over a session, its *)
(* end and the wake-ups of the loop are SPVNetwork's: here a session is up *)
(* or lost.  Resolution is not cached: a lookup may fail at any time.      *)
(***************************************************************************)
EXTENDS Naturals, Sequences, SequencesExt

CONSTANTS
    Hub,            \* servers: names and numeric addresses
    Address,        \* the address each name has; an address has itself
    Faulty,         \* an entry of a peer list that is no server: a bad port, a number
    Skipped,        \* one that is passed over: empty, or without a port
    Countries,      \* of hubs
    NoCountry,      \* no country in the details of a hub, or no jurisdiction
    NoHubFile,      \* there is no known_hubs.yml
    BadHubFile      \* one that does not load: cut short, or not a mapping of servers

IsHubTable(h) == DOMAIN h \subseteq Hub /\ h \in [DOMAIN h -> Countries]

ASSUME HubsAssumption ==
    /\ Address \in [Hub -> Hub]
    /\ NoCountry \in Countries
    /\ \A S \in SUBSET Hub : {NoHubFile, BadHubFile} \cap [S -> Countries] = {}

VARIABLES
    net,        \* external: the configured servers and what every address answers
    hubs,       \* KnownHubs.hubs: known servers and their countries
    hubFile,    \* known_hubs.yml: NoHubFile, BadHubFile or what hubs was
    search,     \* connect and Select
    lister,     \* the goroutines in updateKnownHubs
    saveMu,     \* KnownHubs.saveMu
    unsaved     \* history: known hubs that no save was asked for, or whose save failed

hubVars == <<net, hubs, hubFile, search, lister, saveMu, unsaved>>

\* The reconnect loop, in a handshake, and the notification loop of a client.
Lister == {"handshake", "notification"}
NoList == [pc |-> "idle", list |-> <<>>, added |-> {}, doc |-> <<>>]
NoSearch == [pc |-> "off", names |-> <<>>, candidates |-> <<>>, guess |-> FALSE]
Idle == [NoSearch EXCEPT !.pc = "idle"]

Country(s) == net.answers[Address[s]].country
Known == DOMAIN hubs

HubsInit(networks, files) ==
    /\ net \in networks /\ hubFile \in files
    /\ hubs = <<>> /\ search = NoSearch /\ lister = [w \in Lister |-> NoList]
    /\ saveMu = "nobody" /\ unsaved = {}

\* The process ends.
HubsCrash ==
    /\ hubs' = <<>> /\ search' = NoSearch /\ lister' = [w \in Lister |-> NoList]
    /\ saveMu' = "nobody" /\ unsaved' = {}
    /\ UNCHANGED <<net, hubFile>>

(***************************************************************************)
(* Known hubs                                                              *)
(***************************************************************************)

\* load: a file that is not a mapping of hubs to details is refused as a whole.
LoadHubs ==
    /\ hubFile # BadHubFile
    /\ hubs' = IF hubFile = NoHubFile THEN <<>> ELSE hubFile

\* OpenKnownHubs, and the start of the network.
OpenKnownHubs ==
    /\ LoadHubs
    /\ search' = Idle
    /\ UNCHANGED <<net, hubFile, lister, saveMu, unsaved>>

\* Set: the first insertion of a server wins.
SetHub(known, s) == IF s \in DOMAIN known THEN known
                    ELSE [t \in DOMAIN known \cup {s} |-> IF t = s THEN NoCountry ELSE known[t]]

UpdateCountry(known, s, country) == [SetHub(known, s) EXCEPT ![s] = country]

\* A change that nobody saves.
KeepInMemory(known) ==
    /\ hubs' = known
    /\ unsaved' = unsaved \cup (DOMAIN known \ Known)

(***************************************************************************)
(* Selection                                                               *)
(***************************************************************************)

\* selectionServers; the configured ones are forgotten once a hub is known.
SelectionServers ==
    IF ~net.explicit /\ Known # {} THEN Known ELSE ToSet(net.servers)

\* SequentialSelector: servers the user has set are tried in their order.
SelectInOrder ==
    /\ search.pc = "idle" /\ net.explicit
    /\ search' = [Idle EXCEPT !.pc = "dial", !.candidates = net.servers]
    /\ UNCHANGED <<net, hubs, hubFile, lister, saveMu, unsaved>>

\* resolveProbeEndpoints: of the names of one address, the first that is resolved counts.
Resolve(resolved) ==
    /\ search.pc = "idle" /\ ~net.explicit
    /\ \E names \in [{Address[s] : s \in resolved} -> resolved] :
        /\ \A a \in DOMAIN names : Address[names[a]] = a
        /\ search' = [Idle EXCEPT !.pc = "probe", !.names = names]
    /\ UNCHANGED <<net, hubs, hubFile, lister, saveMu, unsaved>>

ResolveAll == Resolve(SelectionServers)
ResolveSome == \E resolved \in SUBSET SelectionServers \ {{}, SelectionServers} : Resolve(resolved)

\* Pong.Available
Available(a) == net.answers[a].pong = "available"

\* A pong of the address a; one that does not decode or whose country is unknown is none.
Pong(a) ==
    /\ search.pc = "probe" /\ a \in DOMAIN search.names
    /\ net.answers[a].pong # "silent"
    /\ LET s == search.names[a] IN
        /\ KeepInMemory(UpdateCountry(hubs, s, Country(s)))
        /\ search' = IF Available(a) /\ s \notin ToSet(search.candidates)
                     THEN [search EXCEPT !.candidates = Append(@, s)] ELSE search
    /\ UNCHANGED <<net, hubFile, lister, saveMu>>

\* The deadline passes, or everybody has answered.  That Select drops the candidates of
\* other countries makes no difference: connect passes over them too.
ProbeEnds ==
    /\ search.pc = "probe" /\ search.candidates # <<>>
    /\ search' = [search EXCEPT !.pc = "dial"]
    /\ UNCHANGED <<net, hubs, hubFile, lister, saveMu, unsaved>>

\* Nobody answered as available: one of the probed addresses is tried all the same.
Fallback ==
    /\ search.pc = "probe" /\ search.candidates = <<>>
    /\ \E a \in DOMAIN search.names :
        /\ KeepInMemory(SetHub(hubs, a))
        /\ search' = [search EXCEPT !.pc = "dial", !.candidates = <<a>>, !.guess = TRUE]
    /\ UNCHANGED <<net, hubFile, lister, saveMu>>

\* The socket of the probes fails.
ProbeFails ==
    /\ search.pc = "probe"
    /\ search' = Idle
    /\ UNCHANGED <<net, hubs, hubFile, lister, saveMu, unsaved>>

(***************************************************************************)
(* Connections                                                             *)
(***************************************************************************)

NextCandidate == [search EXCEPT !.pc = "dial", !.candidates = Tail(@)]

\* No candidate is left: the loop tries again later.
ConnectFails ==
    /\ search.pc = "dial" /\ search.candidates = <<>>
    /\ search' = Idle
    /\ UNCHANGED <<net, hubs, hubFile, lister, saveMu, unsaved>>

\* connect compares the country of the pong, if there was one, with the jurisdiction.
InJurisdiction(s) ==
    net.explicit \/ search.guess \/ net.jurisdiction \in {NoCountry, Country(s)}

Dial ==
    /\ search.pc = "dial" /\ search.candidates # <<>>
    /\ LET s == Head(search.candidates) IN
        search' = IF InJurisdiction(s) /\ net.answers[Address[s]].accepts
                  THEN [search EXCEPT !.pc = "handshake"] ELSE NextCandidate
    /\ UNCHANGED <<net, hubs, hubFile, lister, saveMu, unsaved>>

\* handshake: the answer to server.peers.subscribe.
HandshakePeers ==
    /\ search.pc = "handshake"
    /\ search' = [search EXCEPT !.pc = "peers"]
    /\ lister' = [lister EXCEPT !["handshake"] =
                     [NoList EXCEPT !.pc = "add", !.list = net.answers[Address[Head(search.candidates)]].peers]]
    /\ UNCHANGED <<net, hubs, hubFile, saveMu, unsaved>>

HandshakeOk ==
    /\ search.pc = "peers" /\ lister["handshake"].pc = "idle"
    /\ search' = [search EXCEPT !.pc = "up"]
    /\ UNCHANGED <<net, hubs, hubFile, lister, saveMu, unsaved>>

\* A call of the handshake fails, before or after the peer list.
HandshakeFails ==
    /\ search.pc = "handshake" \/ (search.pc = "peers" /\ lister["handshake"].pc = "idle")
    /\ search' = NextCandidate
    /\ UNCHANGED <<net, hubs, hubFile, lister, saveMu, unsaved>>

\* blockchain.peers.subscribe: the hub announces another hub.
PeersNotification ==
    /\ search.pc = "up" /\ lister["notification"].pc = "idle"
    /\ lister' = [lister EXCEPT !["notification"] =
                     [NoList EXCEPT !.pc = "add", !.list = net.answers[Address[Head(search.candidates)]].news]]
    /\ UNCHANGED <<net, hubs, hubFile, search, saveMu, unsaved>>

\* The session ends; its notification handler goes on.
SessionLost ==
    /\ search.pc = "up"
    /\ search' = Idle
    /\ UNCHANGED <<net, hubs, hubFile, lister, saveMu, unsaved>>

(***************************************************************************)
(* updateKnownHubs and Save                                                *)
(***************************************************************************)

\* One entry of the list.
AddHub(w) ==
    /\ lister[w].pc = "add" /\ lister[w].list # <<>> /\ Head(lister[w].list) # Faulty
    /\ LET s == Head(lister[w].list)
           new == s # Skipped /\ s \notin Known IN
        /\ hubs' = IF s = Skipped THEN hubs ELSE SetHub(hubs, s)
        /\ lister' = [lister EXCEPT ![w].list = Tail(@),
                                    ![w].added = IF new THEN @ \cup {s} ELSE @]
    /\ UNCHANGED <<net, hubFile, search, saveMu, unsaved>>

\* An entry that is no server ends the update, and what it added is not saved.
AddFails(w) ==
    /\ lister[w].pc = "add" /\ lister[w].list # <<>> /\ Head(lister[w].list) = Faulty
    /\ unsaved' = unsaved \cup lister[w].added
    /\ lister' = [lister EXCEPT ![w] = NoList]
    /\ UNCHANGED <<net, hubs, hubFile, search, saveMu>>

\* The end of the list: a save if a hub was new.
AddEnds(w) ==
    /\ lister[w].pc = "add" /\ lister[w].list = <<>>
    /\ lister' = [lister EXCEPT ![w] = IF @.added = {} THEN NoList ELSE [@ EXCEPT !.pc = "save"]]
    /\ UNCHANGED <<net, hubs, hubFile, search, saveMu, unsaved>>

\* Mutant: the snapshot is taken before the lock.
SnapshotUnlocked(w) ==
    /\ lister[w].pc = "save"
    /\ saveMu' = w
    /\ lister' = [lister EXCEPT ![w].pc = "truncate", ![w].doc = hubs]
    /\ UNCHANGED <<net, hubs, hubFile, search, unsaved>>

\* Save: take the lock and a copy of the hubs.
SnapshotHubs(w) ==
    /\ lister[w].pc = "save" /\ saveMu = "nobody"
    /\ saveMu' = w
    /\ lister' = [lister EXCEPT ![w].pc = "truncate", ![w].doc = hubs]
    /\ UNCHANGED <<net, hubs, hubFile, search, unsaved>>

TruncateHubFile(w) ==
    /\ lister[w].pc = "truncate"
    /\ hubFile' = BadHubFile
    /\ lister' = [lister EXCEPT ![w].pc = "write"]
    /\ UNCHANGED <<net, hubs, search, saveMu, unsaved>>

WriteHubFile(w) ==
    /\ lister[w].pc = "write"
    /\ hubFile' = lister[w].doc
    /\ unsaved' = unsaved \ DOMAIN lister[w].doc
    /\ lister' = [lister EXCEPT ![w] = NoList]
    /\ saveMu' = "nobody"
    /\ UNCHANGED <<net, hubs, search>>

\* The file cannot be opened, or the write stops half way; nobody looks at the error.
SaveHubsFails(w) ==
    /\ \/ lister[w].pc = "truncate" /\ UNCHANGED hubFile
       \/ /\ lister[w].pc = "write"
          /\ \E kept \in SUBSET DOMAIN lister[w].doc :
                hubFile' \in {BadHubFile, [s \in kept |-> lister[w].doc[s]]}
    /\ unsaved' = Known
    /\ lister' = [lister EXCEPT ![w] = NoList]
    /\ saveMu' = "nobody"
    /\ UNCHANGED <<net, hubs, search>>

HubStep ==
    \/ SelectInOrder \/ ResolveAll \/ ProbeEnds \/ Fallback \/ ConnectFails \/ Dial
    \/ HandshakePeers \/ HandshakeOk \/ PeersNotification \/ SessionLost
    \/ \E a \in DOMAIN search.names : Pong(a)
    \/ \E w \in Lister : AddHub(w) \/ AddFails(w) \/ AddEnds(w) \/ SnapshotHubs(w)
                         \/ TruncateHubFile(w) \/ WriteHubFile(w)

HubFault ==
    \/ ResolveSome \/ ProbeFails \/ HandshakeFails
    \/ \E w \in Lister : SaveHubsFails(w)

SavingHubs == \E w \in Lister : lister[w].pc = "write"
===============================================================================
