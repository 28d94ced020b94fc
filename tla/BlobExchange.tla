---------------------------- MODULE BlobExchange ----------------------------
(* How the daemon gets a blob it does not hold: peers are discovered through  *)
(* the DHT, the trackers and the fixed peers, every address is asked at once   *)
(* and the first good answer wins (blob/network_fetcher.go, exchange.go,       *)
(* tracker.go); the other end of such a connection is peer/server.go.          *)
(*                                                                            *)
(* A fetch is one flight of the blob manager, whose waiters, disk and rows     *)
(* BlobManager models. What the network answers does not change while the     *)
(* model runs. Delays and deadlines are untimed: a fixed peer may be asked at  *)
(* once or after everybody else.                                              *)
EXTENDS Integers, FiniteSets

CONSTANTS
    Peer,       \* addresses of peers
    Blob,       \* blobs of the stream
    Other       \* bytes that are none of them

Source == {"dht", "trackers", "fixed"}

\* Peers running this daemon hold a blob or lack it; the other kinds are the
\* ways in which a foreign peer disappoints.
Kind == {"holds", "lacks", "unreachable", "silent", "refuses", "mislabels",
         "oversizes", "truncates", "corrupts"}

ASSUME BlobExchangeAssumption == Other \notin Blob

VARIABLES
    world,      \* external: what each source names and what kind each peer is
    cache,      \* blobs in the blob manager's store
    fetch       \* the flights, by blob

---------------------------------------------------------------------------
(* The network.                                                               *)

Named(reports) == UNION {report.peers : report \in {r \in reports : r.ok}}

\* What a source sends on batches. queryUDPTracker and resolvePeerAddresses name
\* nobody when they fail; the others' peers are still used.
Batch(s) ==
    CASE s = "dht" -> IF world.node = "up" THEN world.found ELSE {}
      [] s = "trackers" -> Named(world.trackers)
      [] s = "fixed" -> Named(world.fixed)

Configured(s) ==
    CASE s = "dht" -> world.node # "off"
      [] s = "trackers" -> world.trackers # {}
      [] s = "fixed" -> world.fixed # {}

\* What comes back on the connection.
Reply(shape, named, fits, whole, bytes) ==
    [shape |-> shape, named |-> named, fits |-> fits, whole |-> whole, bytes |-> bytes]

\* getAvailableBlobs and getRequestedBlob: a peer server that lacks the blob answers
\* without incoming_blob; one that holds it sends the length of the very bytes
\* it read, so a deletion in between cannot tear the answer.
getRequestedBlob(held, b) ==
    IF held THEN Reply("incoming", b, TRUE, TRUE, b)
            ELSE Reply("empty", Other, FALSE, FALSE, Other)

handleConnection(kind, b) ==
    CASE kind \in {"holds", "lacks"} -> getRequestedBlob(kind = "holds", b)
      [] kind = "refuses" -> Reply("error", Other, FALSE, FALSE, Other)
      [] kind = "mislabels" -> Reply("incoming", Other, TRUE, TRUE, b)
      [] kind = "oversizes" -> Reply("incoming", b, FALSE, TRUE, b)
      [] kind = "truncates" -> Reply("incoming", b, TRUE, FALSE, b)
      [] kind = "corrupts" -> Reply("incoming", b, TRUE, TRUE, Other)

\* DownloadBlobContext accepts it.
validateIncomingBlob(b, reply) == reply.named = b /\ reply.fits

Accepts(b, reply) ==
    /\ reply.shape = "incoming"
    /\ validateIncomingBlob(b, reply)
    /\ reply.whole
    /\ reply.bytes = b

---------------------------------------------------------------------------
(* NetworkFetcher. A download goes from "dialing" to "asked" to "good" or      *)
(* "bad", and is "used" when the loop has taken its result.                    *)

NoFetch == [st |-> "none", source |-> [s \in Source |-> "off"], call |-> [p \in Peer |-> "none"]]

NewFetch ==
    [NoFetch EXCEPT !.st = "running",
                    !.source = [s \in Source |-> IF Configured(s) THEN "looking" ELSE "off"]]

\* Without any source the fetcher fails at once.
Launch(b) ==
    fetch' = [fetch EXCEPT ![b] = IF \A s \in Source : ~Configured(s)
                                  THEN [NoFetch EXCEPT !.st = "failed"] ELSE NewFetch]

Running(b) == fetch[b].st = "running"

\* A source has finished looking: its batch waits in the channel, which has room
\* for all three.
Discover(b, s) ==
    /\ Running(b) /\ fetch[b].source[s] = "looking"
    /\ fetch' = [fetch EXCEPT ![b].source[s] = "sent"]
    /\ UNCHANGED <<world, cache>>

\* Addresses that are new and have a port are dialled.
TakeBatch(b, s) ==
    /\ Running(b) /\ fetch[b].source[s] = "sent"
    /\ fetch' = [fetch EXCEPT
           ![b].source[s] = "taken",
           ![b].call = [p \in Peer |-> IF p \in Batch(s) \ world.portless /\ @[p] = "none"
                                       THEN "dialing" ELSE @[p]]]
    /\ UNCHANGED <<world, cache>>

\* DownloadBlobContext, up to the request.
Dial(b, p) ==
    /\ Running(b) /\ fetch[b].call[p] = "dialing"
    /\ fetch' = [fetch EXCEPT ![b].call[p] = IF world.kind[p] = "unreachable" THEN "bad" ELSE "asked"]
    /\ UNCHANGED <<world, cache>>

\* The answer, or the deadline of the connection.
Receive(b, p) ==
    /\ Running(b) /\ fetch[b].call[p] = "asked"
    /\ fetch' = [fetch EXCEPT ![b].call[p] =
           IF world.kind[p] # "silent" /\ Accepts(b, handleConnection(world.kind[p], b))
           THEN "good" ELSE "bad"]
    /\ UNCHANGED <<world, cache>>

\* The first good result wins; a bad one is only remembered as lastErr.
TakeResult(b, p) ==
    /\ Running(b) /\ fetch[b].call[p] \in {"good", "bad"}
    /\ fetch' = IF fetch[b].call[p] = "good"
                THEN [fetch EXCEPT ![b] = [NoFetch EXCEPT !.st = "won"]]
                ELSE [fetch EXCEPT ![b].call[p] = "used"]
    /\ UNCHANGED <<world, cache>>

\* Mutant: the end of the sources ends the loop.
LoopEndsEarly(b) == \A s \in Source : fetch[b].source[s] \in {"off", "taken"}

\* finishedSources = sources and active = 0.
LoopEnds(b) ==
    /\ \A s \in Source : fetch[b].source[s] \in {"off", "taken"}
    /\ \A p \in Peer : fetch[b].call[p] \in {"none", "used"}

Exhausted(b) ==
    /\ Running(b) /\ LoopEnds(b)
    /\ fetch' = [fetch EXCEPT ![b] = [NoFetch EXCEPT !.st = "failed"]]
    /\ UNCHANGED <<world, cache>>

ExchangeStep ==
    \E b \in Blob :
        \/ \E s \in Source : Discover(b, s) \/ TakeBatch(b, s)
        \/ \E p \in Peer : Dial(b, p) \/ Receive(b, p) \/ TakeResult(b, p)
        \/ Exhausted(b)

---------------------------------------------------------------------------
(* Every source fails or is asked to the end: a fetch that fails although     *)
(* nobody cancelled it was told of no usable peer that holds the blob,        *)
(* whichever source was slow and whichever peers disappointed first           *)
(* (NetworkFetcher's loop and its "all peer sources failed").                 *)
FetchFailureExplained ==
    \A b \in Blob : fetch[b].st = "failed" =>
        \A s \in Source : Configured(s) =>
            \A p \in Batch(s) \ world.portless : world.kind[p] # "holds"
=============================================================================
