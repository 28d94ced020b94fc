---------------------------------- MODULE DHT ----------------------------------
(***************************************************************************)
(* The Kademlia node of dht/node.go, its identity file (identity.go) and   *)
(* the announcer that publishes the blobs of the database through it       *)
(* (announcer.go).  Self runs the client half: a bootstrap loop, a refresh *)
(* loop, the announcer and the lookups of the downloader, all sharing one  *)
(* routing table.  The other nodes of the network run the server half.     *)
(*                                                                         *)
(* Datagrams may be lost, late or answered by a node that has restarted    *)
(* (with its identity or with a new one).  A request is handled at most    *)
(* once here: every handler but store is a read, and store is idempotent.  *)
(* What arrives after the call has ended finds no pending entry and is     *)
(* dropped, so the messages of a call live in the call's own record.       *)
(*                                                                         *)
(* Addresses are numbers (the order of CompactAddr), an identity is a      *)
(* sequence of Width bits, a blob hash is an identity.  The order inside a *)
(* bucket and of the announced keys is left out: nothing reads it but the  *)
(* listings.                                                               *)
(***************************************************************************)
EXTENDS Naturals, FiniteSets, Sequences, SequencesExt

CONSTANTS
    Nodes,       \* addresses of the nodes of the network, Self among them
    Self,        \* the address of the node of this daemon
    Width,       \* bits of an identity (HashSize * 8)
    K,           \* contacts of a bucket and of an answer
    Alpha,       \* parallel calls of a lookup
    MaxRounds,   \* rounds of a lookup (10)
    Enough,      \* an announcement counts when more nodes than this kept it (4)
    SeedGoal,    \* seeds that are enough for a bootstrap (3)
    FirstId,     \* the identity each node starts with
    SpareId,     \* the identity a node gets when its own is lost
    Seeds,       \* the configured bootstrap nodes, a sequence of addresses
    Known,       \* the contacts each other node holds
    Published,   \* the announcements each other node holds at first
    Blob,        \* the blob of this daemon that is due for announcement
    Refreshed,   \* the identities a refresh may draw
    MaxEvents,   \* bound: refreshes, announcements, lookups, stops, restarts and lapses
    MaxActive,   \* bound: goroutines of Self at work at a time
    NoAnswer,    \* no answer yet
    Absent,      \* there is no identity file
    Torn         \* an identity file that does not decode

Ids == [1 .. Width -> {0, 1}]
Procs == {"bootstrap", "refresh", "announcer", "finder"}

ASSUME DHTAssumption ==
    /\ Nodes \subseteq Nat /\ Self \in Nodes
    /\ Width \in Nat /\ K \in Nat \ {0} /\ Alpha \in Nat \ {0}
    /\ MaxRounds \in Nat /\ Enough \in Nat
    /\ FirstId \in [Nodes -> Ids] /\ SpareId \in Ids
    /\ Absent \notin Ids /\ Torn \notin Ids /\ Absent # Torn

(* The network at the start: finitely many nodes under different           *)
(* identities, which know each other under them and hold no announcement   *)
(* of Self.                                                                *)
FirstContacts == {[id |-> FirstId[n], at |-> n] : n \in Nodes}
Announcements == [key : Ids, id : Ids, at : Nat, live : BOOLEAN]

ASSUME NetworkAssumption ==
    /\ IsFiniteSet(Nodes)
    /\ \A n, m \in Nodes : FirstId[n] = FirstId[m] => n = m
    /\ \A n \in Nodes : FirstId[n] # SpareId
    /\ Known \in [Nodes -> SUBSET FirstContacts]
    /\ Published \in [Nodes -> SUBSET Announcements]
    /\ \A n \in Nodes : \A a \in Published[n] : a.at # Self
    /\ Seeds \in Seq(Nodes) /\ Blob \in Ids /\ Refreshed \subseteq Ids

VARIABLES
    node,      \* Self: "down", "loading", "torn", "running", "stopping", "stopped"
    idFile,    \* node_id of the data directory: an identity, Absent or Torn
    ident,     \* the identity each node answers with
    boots,     \* how often each node has been started (its token secret)
    table,     \* routing.buckets of Self
    failures,  \* routing.failures of Self
    stored,    \* announcements and announcementTimes of each node
    rpcs,      \* pending of Self, with the datagrams on their way
    job,       \* what each goroutine of Self is doing
    due,       \* the row of Blob: next_announce_time has passed
    events,    \* refreshes, announcements, lookups, stops, restarts and lapses so far
    heard,     \* history: addresses that have answered Self since it started
    kept,      \* history: nodes that carried out a store of the round
    missed     \* history: an announcement round or a lookup broke its promise

dhtVars == <<node, idFile, ident, boots, table, failures, stored, rpcs, job, due,
          events, heard, kept, missed>>

-----------------------------------------------------------------------------
(* Distances and the routing table *)

Distance(a, b) == [i \in 1 .. Width |-> IF a[i] = b[i] THEN 0 ELSE 1]
DistanceLess(a, b) ==
    \E i \in 1 .. Width : a[i] < b[i] /\ \A j \in 1 .. i - 1 : a[j] = b[j]
Nearer(key, c, d) == DistanceLess(Distance(key, c.id), Distance(key, d.id))

BucketIndex(id) ==
    LET differ == {i \in 1 .. Width : id[i] # ident[Self][i]}
    IN  IF differ = {} THEN Width ELSE CHOOSE i \in differ : \A j \in differ : i <= j

First(seq, n) == SubSeq(seq, 1, IF Len(seq) < n THEN Len(seq) ELSE n)

(* The contacts of a set, the nearest to the key first: a contact comes    *)
(* after those that are nearer.                                            *)
Rank(S, key, c) == Cardinality({d \in S : Nearer(key, d, c)})
NearestFirst(S, key) ==
    [i \in 1 .. Cardinality(S) |-> CHOOSE c \in S : Rank(S, key, c) = i - 1]

ClosestPeers(t, key, n) == First(NearestFirst(t, key), n)

(* A contact displaces every other identity at its address, even when its  *)
(* own bucket then turns out to be full.                                   *)
AddPeer(rt, c) ==
    LET evicted == {d \in rt.table : d.id # c.id /\ d.at = c.at}
        rest    == {d \in rt.table : d \notin evicted /\ d.id # c.id}
        cleared == [id \in Ids |-> IF \E d \in evicted : d.id = id THEN 0 ELSE rt.failures[id]]
        fits    == \/ \E d \in rt.table : d.id = c.id
                   \/ Cardinality({d \in rest : BucketIndex(d.id) = BucketIndex(c.id)}) < K
    IN  CASE c.id = ident[Self] -> rt
          [] c.id # ident[Self] /\ fits ->
                [table |-> rest \cup {c}, failures |-> [cleared EXCEPT ![c.id] = 0]]
          [] OTHER -> [table |-> rest, failures |-> cleared]

MarkFailure(rt, id) ==
    IF rt.failures[id] = 0
    THEN [rt EXCEPT !.failures[id] = 1]
    ELSE [table |-> {c \in rt.table : c.id # id}, failures |-> [rt.failures EXCEPT ![id] = 0]]

Routing == [table |-> table, failures |-> failures]
SetRouting(rt) == table' = rt.table /\ failures' = rt.failures

-----------------------------------------------------------------------------
(* The server half: what a node answers *)

Reply(n) == [id |-> ident[n], error |-> FALSE, contacts |-> <<>>, token |-> 0,
             providers |-> <<>>, pages |-> 0, all |-> {}]

makeToken(n) == boots[n]

handleFindNode(n, r) ==
    [Reply(n) EXCEPT !.contacts = ClosestPeers(Known[n], r.key, K)]

(* The providers of a blob are ordered by address, then paged by K; the    *)
(* last page an answer names is Len \div (K + 1) + 1.                      *)
CompactLess(a, b) == a.at < b.at \/ (a.at = b.at /\ DistanceLess(a.id, b.id))
Announced(n, key) ==
    LET providers == {a \in stored[n] : a.key = key /\ a.live}
        before(a) == Cardinality({b \in providers : CompactLess(b, a)})
    IN  [i \in 1 .. Cardinality(providers) |-> (CHOOSE a \in providers : before(a) = i - 1).at]

Page(announced, page) == First(SubSeq(announced, page * K + 1, Len(announced)), K)

handleFindValue(n, r) ==
    LET announced == Announced(n, r.key)
        count     == Len(announced)
    IN  [Reply(n) EXCEPT
            !.token     = makeToken(n),
            !.contacts  = IF r.page = 0 THEN ClosestPeers(Known[n], r.key, K) ELSE <<>>,
            !.pages     = IF count > 0 THEN count \div (K + 1) + 1 ELSE 0,
            !.providers = Page(announced, r.page),
            !.all       = Range(announced)]

verifyToken(n, token) == token = makeToken(n)

handleStore(n, r) ==
    IF verifyToken(n, r.token) THEN Reply(n) ELSE [Reply(n) EXCEPT !.error = TRUE]

Announcement(r) == [key |-> r.key, id |-> ident[Self], at |-> Self, live |-> TRUE]
StoredAfter(n, r) ==
    IF r.method = "store" /\ verifyToken(n, r.token)
    THEN {a \in stored[n] : ~(a.key = r.key /\ a.id = ident[Self])} \cup {Announcement(r)}
    ELSE stored[n]

(* handleRequest: the request reaches its node, which answers.             *)
HandleRequest(r) ==
    /\ r.stage = "sent"
    /\ LET n == r.to
           answer == CASE r.method = "ping"      -> Reply(n)
                       [] r.method = "findNode"  -> handleFindNode(n, r)
                       [] r.method = "findValue" -> handleFindValue(n, r)
                       [] r.method = "store"     -> handleStore(n, r)
       IN  /\ rpcs' = (rpcs \ {r}) \cup {[r EXCEPT !.stage = "answered", !.answer = answer]}
           /\ stored' = [stored EXCEPT ![n] = StoredAfter(n, r)]
           /\ kept' = IF r.method = "store" /\ ~answer.error THEN kept \cup {n} ELSE kept
    /\ UNCHANGED <<node, idFile, ident, boots, table, failures, job, due, events,
                   heard, missed>>

-----------------------------------------------------------------------------
(* Calls *)

Call(p, c, method, key, page, token) ==
    [by |-> p, to |-> c.at, id |-> c.id, method |-> method, key |-> key,
     page |-> page, token |-> token,
     stage |-> IF node = "running" THEN "sent" ELSE "refused", answer |-> NoAnswer]

Calls(p) == {r \in rpcs : r.by = p}

(* Mutant: an error datagram counts as an answer.                          *)
EndsAnyType(r, out) ==
    out \in {"answer", "fault"} => r.stage = "answered" /\ node = "running"

(* The end of sendRPC: the response was delivered and taken, it was        *)
(* delivered but is an error or lost against the timer, or nothing came    *)
(* (a timeout, a stopped node).                                            *)
Ends(r, out) ==
    /\ out \in {"answer", "fault"} => r.stage = "answered" /\ node = "running"
    /\ out = "answer" => ~r.answer.error

(* handleMessage for a response: the sender becomes a contact under the    *)
(* identity it states.                                                     *)
Received(r, out) ==
    IF out = "nothing" THEN Routing ELSE AddPeer(Routing, [id |-> r.answer.id, at |-> r.to])
Hear(r, out) == heard' = IF out = "nothing" THEN heard ELSE heard \cup {r.to}

-----------------------------------------------------------------------------
(* Iterative lookups *)

Idle == [stage |-> "idle"]
Lookup(key, find) ==
    [stage |-> "round", key |-> key, find |-> find, again |-> FALSE,
     short |-> ClosestPeers(table, key, K), asked |-> {}, replied |-> {}, round |-> 0,
     peer |-> NoAnswer, page |-> 0, last |-> 0, news |-> <<>>,
     found |-> {}, wanted |-> {}, acks |-> {}]

HasId(seq, id) == \E i \in 1 .. Len(seq) : seq[i].id = id

(* New contacts go to the end of the shortlist, one entry per identity.    *)
Learn(short, news) ==
    LET add(s, c) == IF HasId(s, c.id) \/ c.id = ident[Self] THEN s ELSE Append(s, c)
        list[i \in 0 .. Len(news)] == IF i = 0 THEN short ELSE add(list[i - 1], news[i])
    IN  list[Len(news)]

(* Mutant: every contact of the shortlist is offered, asked or not.        *)
ReofferAll(rt, j) ==
    LET offered[i \in 0 .. Len(j.short)] ==
            IF i = 0 THEN rt ELSE AddPeer(offered[i - 1], j.short[i])
    IN  offered[Len(j.short)]

(* After a round the verified contacts are offered to the table once more. *)
Reoffer(rt, j) ==
    LET offer(t, c) == IF c.id \in j.replied THEN AddPeer(t, c) ELSE t
        offered[i \in 0 .. Len(j.short)] ==
            IF i = 0 THEN rt ELSE offer(offered[i - 1], j.short[i])
    IN  offered[Len(j.short)]

Sorted(j) == First(NearestFirst(Range(j.short), j.key), 2 * K)

(* The first n contacts of the shortlist with one of these identities.     *)
FirstWith(short, ids, n) ==
    LET places == {i \in 1 .. Len(short) : short[i].id \in ids}
    IN  {short[i] : i \in {k \in places : Cardinality({h \in places : h < k}) < n}}

Answering(j) == FirstWith(j.short, j.replied, K)

Query(p, j, c) ==
    Call(p, c, IF j.find THEN "findValue" ELSE "findNode", j.key, 0, 0)

(* A lookup hands its answering contacts to its caller: AnnounceBlob asks  *)
(* each of them for a token, the refresh loop goes on to its own identity. *)
AfterLookup(p, j) ==
    CASE p = "announcer" -> [j EXCEPT !.stage = "announce"]
      [] p = "refresh" /\ j.again -> Lookup(ident[Self], FALSE)
      [] OTHER -> Idle
AfterCalls(p, j) ==
    IF p # "announcer" THEN {}
    ELSE {Call(p, c, "findValue", j.key, 0, 0) : c \in Answering(j)}

(* iterativeLookup, the head of a round: the nearest contacts not yet      *)
(* asked are asked together; with none left, or out of rounds, the lookup  *)
(* is over.                                                                *)
NextRound(p) ==
    LET j == job[p]
        first == j.round = 0
        k == IF first THEN j ELSE [j EXCEPT !.short = Sorted(j)]
        ask == FirstWith(k.short, Ids \ j.asked, Alpha)
        over == ask = {} \/ j.round = MaxRounds
    IN  /\ j.stage = "round" /\ Calls(p) = {}
        /\ UNCHANGED <<node, idFile, ident, boots, stored, due, events, heard, kept, missed>>
        /\ SetRouting(IF first THEN Routing ELSE Reoffer(Routing, j))
        /\ job' = [job EXCEPT ![p] =
                      IF over THEN AfterLookup(p, k)
                      ELSE [k EXCEPT !.round = @ + 1, !.asked = @ \cup {c.id : c \in ask}]]
        /\ rpcs' = rpcs \cup IF over THEN AfterCalls(p, k) ELSE {Query(p, j, c) : c \in ask}

(* The pages of the first answer have room for the list and for one        *)
(* provider stored meanwhile; from (K + 1)^2 - 1 providers on (80 with the *)
(* K of the code) there may be no room for a further one, and from         *)
(* (K + 1)^2 + K on (89) not even for the list itself.                     *)
PagesSuffice(count) == count < (K + 1) * (K + 1) - 1
Promised(answer) == IF PagesSuffice(Cardinality(answer.all)) THEN answer.all ELSE {}

(* A call of the round ends.  An answer of findValue that fills a page is  *)
(* followed by the further pages before its contacts are taken.            *)
RoundResult(p, r, out) ==
    LET j == job[p]
        ok == out = "answer"
        sender == [id |-> r.id, at |-> r.to]
        more == ok /\ j.find /\ Len(r.answer.providers) >= K /\ r.answer.pages >= 1
        next == [j EXCEPT !.replied = @ \cup {r.id},
                          !.found = @ \cup Range(r.answer.providers)]
    IN  /\ j.stage = "round" /\ r \in Calls(p) /\ Ends(r, out)
        /\ rpcs' = (rpcs \ {r}) \cup
              IF more THEN {Call(p, sender, "findValue", j.key, 1, 0)} ELSE {}
        /\ job' = [job EXCEPT ![p] =
              CASE more -> [next EXCEPT !.stage = "paging", !.page = 1, !.peer = sender,
                                        !.last = r.answer.pages, !.news = r.answer.contacts,
                                        !.wanted = Promised(r.answer)]
                [] ok /\ ~more -> [next EXCEPT !.short = Learn(@, r.answer.contacts)]
                [] OTHER -> j]
        /\ SetRouting(IF ok THEN Received(r, out) ELSE MarkFailure(Received(r, out), r.id))
        /\ Hear(r, out)
        /\ missed' = IF ok /\ ~more /\ ~(r.answer.all \subseteq next.found)
                     THEN missed \cup {"provider"} ELSE missed
        /\ UNCHANGED <<node, idFile, ident, boots, stored, due, events, kept>>

(* FindValue: one more page of the same node.                              *)
PageResult(p, r, out) ==
    LET j == job[p]
        ok == out = "answer"
        found == IF ok THEN j.found \cup Range(r.answer.providers) ELSE j.found
        more == ok /\ Len(r.answer.providers) >= K /\ j.page + 1 <= j.last
    IN  /\ j.stage = "paging" /\ r \in Calls(p) /\ r.page = j.page /\ Ends(r, out)
        /\ rpcs' = (rpcs \ {r}) \cup
              IF more THEN {Call(p, j.peer, "findValue", j.key, j.page + 1, 0)} ELSE {}
        /\ job' = [job EXCEPT ![p] =
              IF more THEN [j EXCEPT !.found = found, !.page = @ + 1]
              ELSE [j EXCEPT !.stage = "round", !.short = Learn(@, j.news), !.found = found,
                             !.wanted = {}, !.news = <<>>, !.peer = NoAnswer, !.page = 0, !.last = 0]]
        /\ SetRouting(Received(r, out)) /\ Hear(r, out)
        /\ missed' = IF ok /\ ~more /\ ~(j.wanted \subseteq found)
                     THEN missed \cup {"provider"} ELSE missed
        /\ UNCHANGED <<node, idFile, ident, boots, stored, due, events, kept>>

-----------------------------------------------------------------------------
(* The loops and the operations of Self *)

Event == events < MaxEvents /\ events' = events + 1
Free == Cardinality({p \in Procs : job[p] # Idle}) < MaxActive

StartJob(p, j) ==
    /\ node = "running" /\ job[p] = Idle /\ Free
    /\ job' = [job EXCEPT ![p] = j]
    /\ UNCHANGED <<node, idFile, ident, boots, table, failures, stored, rpcs, due,
                   heard, missed>>


(* bootstrapLoop: the table is empty, the seeds are pinged in their order. *)
Pinging == [Lookup(ident[Self], FALSE) EXCEPT !.stage = "ping"]
StartBootstrap == table = {} /\ StartJob("bootstrap", Pinging) /\ UNCHANGED <<events, kept>>

Ping(p, seed) == Call(p, [id |-> ident[Self], at |-> seed], "ping", ident[Self], 0, 0)

(* Bootstrap: page counts the seeds tried, last the seeds that answered;   *)
(* a name that does not resolve is skipped.  With one answer the own       *)
(* identity is looked up.                                                  *)
PingNext ==
    LET j == job["bootstrap"]
        stop == node # "running"
        enough == j.last >= SeedGoal \/ j.page = Len(Seeds)
    IN  /\ j.stage = "ping" /\ Calls("bootstrap") = {}
        /\ CASE stop \/ (enough /\ j.last = 0) ->
                   job' = [job EXCEPT !["bootstrap"] = Idle] /\ UNCHANGED rpcs
             [] ~stop /\ enough /\ j.last > 0 ->
                   job' = [job EXCEPT !["bootstrap"] = Lookup(ident[Self], FALSE)] /\ UNCHANGED rpcs
             [] OTHER ->
                   /\ job' = [job EXCEPT !["bootstrap"].page = @ + 1]
                   /\ rpcs' \in {rpcs, rpcs \cup {Ping("bootstrap", Seeds[j.page + 1])}}
        /\ UNCHANGED <<node, idFile, ident, boots, table, failures, stored, due, events,
                       heard, kept, missed>>

PingResult(r, out) ==
    /\ job["bootstrap"].stage = "ping" /\ r \in Calls("bootstrap") /\ Ends(r, out)
    /\ rpcs' = rpcs \ {r}
    /\ Hear(r, out) /\ SetRouting(Received(r, out))
    /\ job' = IF out = "answer" THEN [job EXCEPT !["bootstrap"].last = @ + 1] ELSE job
    /\ UNCHANGED <<node, idFile, ident, boots, stored, due, events, kept, missed>>

(* expireAnnouncements and the refresh lookups: a random identity, then    *)
(* the own one.                                                            *)
StartRefresh(key) ==
    /\ node = "running" /\ job["refresh"] = Idle /\ Free /\ Event
    /\ stored' = [stored EXCEPT ![Self] = {a \in @ : a.live}]
    /\ job' = [job EXCEPT !["refresh"] = [Lookup(key, FALSE) EXCEPT !.again = TRUE]]
    /\ UNCHANGED <<node, idFile, ident, boots, table, failures, rpcs, due, heard, kept, missed>>

StartFind == Event /\ StartJob("finder", Lookup(Blob, TRUE)) /\ UNCHANGED kept

(* BlobAnnouncer.round: the blob is due.                                   *)
StartAnnounce == due /\ Event /\ kept' = {} /\ StartJob("announcer", Lookup(Blob, FALSE))

(* AnnounceBlob, one goroutine per contact: findValue for the token, then  *)
(* the store.                                                              *)
AnnounceResult(r, out) ==
    LET ok == out = "answer" IN
    /\ job["announcer"].stage = "announce" /\ r \in Calls("announcer") /\ Ends(r, out)
    /\ rpcs' = (rpcs \ {r}) \cup
          (IF ok /\ r.method = "findValue"
           THEN {Call("announcer", [id |-> r.id, at |-> r.to], "store", r.key, 0, r.answer.token)}
           ELSE {})
    /\ Hear(r, out) /\ SetRouting(Received(r, out))
    /\ job' = IF ok /\ r.method = "store"
              THEN [job EXCEPT !["announcer"].acks = @ \cup {r.id}] ELSE job
    /\ UNCHANGED <<node, idFile, ident, boots, stored, due, events, kept, missed>>

(* The end of the round: MarkBlobsAnnounced when enough nodes accepted the *)
(* blob and the announcer has not been stopped meanwhile.                  *)
Accepted(j) == Cardinality(j.acks)
AnnounceDone ==
    LET j == job["announcer"]
        mark == Accepted(j) > Enough /\ node = "running"
    IN  /\ j.stage = "announce" /\ Calls("announcer") = {}
        /\ job' = [job EXCEPT !["announcer"] = Idle]
        /\ due' = (due /\ ~mark)
        /\ missed' = IF mark /\ Cardinality(kept) <= Enough /\ ident = FirstId
                     THEN missed \cup {"announcement"} ELSE missed
        /\ UNCHANGED <<node, idFile, ident, boots, table, failures, stored, rpcs, events,
                       heard, kept>>

(* QueueBlobAnnouncements, or twelve hours later.                          *)
FallDue ==
    /\ ~due /\ due' = TRUE
    /\ UNCHANGED <<node, idFile, ident, boots, table, failures, stored, rpcs, job, events,
                   heard, kept, missed>>

-----------------------------------------------------------------------------
(* Life cycle *)

(* loadOrCreateNodeID: an identity on disk is used as it is; a torn file   *)
(* is an error; without a file a fresh identity is linked into place.      *)
LoadIdentity ==
    /\ node = "down" /\ idFile # Torn
    /\ node' = IF idFile = Absent THEN "loading" ELSE "running"
    /\ ident' = IF idFile = Absent THEN ident ELSE [ident EXCEPT ![Self] = idFile]
    /\ boots' = IF idFile = Absent THEN boots ELSE [boots EXCEPT ![Self] = @ + 1]
    /\ UNCHANGED <<idFile, table, failures, stored, rpcs, job, due, events, heard, kept, missed>>

(* A fresh draw never repeats an earlier one.                              *)
FreshId == IF boots[Self] = 0 THEN FirstId[Self] ELSE SpareId

(* The link either publishes the whole file or fails; then the file is     *)
(* created exclusively and written in place.                               *)
LinkIdentity ==
    /\ node = "loading"
    /\ ident' = [ident EXCEPT ![Self] = FreshId]
    /\ \/ idFile' = FreshId /\ node' = "running" /\ boots' = [boots EXCEPT ![Self] = @ + 1]
       \/ idFile' = Torn /\ node' = "torn" /\ UNCHANGED boots
    /\ UNCHANGED <<table, failures, stored, rpcs, job, due, events, heard, kept, missed>>

publishNodeIDExclusive ==
    /\ node = "torn"
    /\ \/ idFile' = ident[Self] /\ node' = "running" /\ boots' = [boots EXCEPT ![Self] = @ + 1]
       \/ idFile' = Absent /\ node' = "down" /\ UNCHANGED boots
    /\ UNCHANGED <<ident, table, failures, stored, rpcs, job, due, events, heard, kept, missed>>

(* Stop: no call can be sent any more, the waiting ones return.            *)
Stop ==
    /\ node = "running" /\ node' = "stopping" /\ Event
    /\ UNCHANGED <<idFile, ident, boots, table, failures, stored, rpcs, job, due,
                   heard, kept, missed>>

(* loopWG.Wait: the bootstrap and the refresh loop have returned.          *)
StopEnds ==
    /\ node = "stopping" /\ job["bootstrap"] = Idle /\ job["refresh"] = Idle
    /\ node' = "stopped"
    /\ UNCHANGED <<idFile, ident, boots, table, failures, stored, rpcs, job, due, events,
                   heard, kept, missed>>

(* The process of Self ends, in good order or by a crash, and the memory   *)
(* of the node with it.                                                    *)
Exit ==
    /\ node # "down" /\ Event
    /\ node' = "down" /\ table' = {} /\ failures' = [id \in Ids |-> 0]
    /\ stored' = [stored EXCEPT ![Self] = {}]
    /\ rpcs' = {} /\ job' = [p \in Procs |-> Idle] /\ heard' = {} /\ kept' = {}
    /\ UNCHANGED <<idFile, ident, boots, due, missed>>

(* The list of providers shrinks under a lookup that is paging: the page   *)
(* boundaries move, and the lookup is excused (history).                   *)
Excuse ==
    /\ job' = [p \in Procs |-> IF job[p].stage = "paging" THEN [job[p] EXCEPT !.wanted = {}]
                                                         ELSE job[p]]
    /\ rpcs' = {IF r.stage = "answered" THEN [r EXCEPT !.answer.all = {}] ELSE r : r \in rpcs}

(* Another node restarts: its announcements and its token secret are gone, *)
(* its identity is kept or, with its data directory, lost too.             *)
PeerRestart(n, id) ==
    /\ n # Self /\ Event
    /\ id \in {ident[n], SpareId} /\ \A m \in Nodes \ {n} : ident[m] # id
    /\ ident' = [ident EXCEPT ![n] = id]
    /\ boots' = [boots EXCEPT ![n] = @ + 1]
    /\ stored' = [stored EXCEPT ![n] = {}]
    /\ Excuse
    /\ UNCHANGED <<node, idFile, table, failures, due, heard, kept, missed>>

(* AnnouncementExpiration passes for an announcement.                      *)
Lapse(n, a) ==
    /\ Event
    /\ a.live /\ stored' = [stored EXCEPT ![n] = (@ \ {a}) \cup {[a EXCEPT !.live = FALSE]}]
    /\ Excuse
    /\ UNCHANGED <<node, idFile, ident, boots, table, failures, due, heard, kept, missed>>

-----------------------------------------------------------------------------
DHTInit ==
    /\ node = "down" /\ idFile = Absent
    /\ ident = FirstId /\ boots = [n \in Nodes |-> 0]
    /\ table = {} /\ failures = [id \in Ids |-> 0]
    /\ stored = Published
    /\ rpcs = {} /\ job = [p \in Procs |-> Idle]
    /\ due = TRUE /\ events = 0
    /\ heard = {} /\ kept = {} /\ missed = {}

Outcomes == {"answer", "fault", "nothing"}
Result(r, out) ==
    \/ RoundResult(r.by, r, out)
    \/ PageResult(r.by, r, out)
    \/ PingResult(r, out)
    \/ AnnounceResult(r, out)

(* What the goroutine of p does next on its own: the head of a round, the  *)
(* next seed, the end of a call or of the announcement.                    *)
Proceed(p) ==
    \/ NextRound(p)
    \/ p = "bootstrap" /\ PingNext
    \/ p = "announcer" /\ AnnounceDone
    \/ \E r \in Calls(p), out \in Outcomes : Result(r, out)

DHTNext ==
    \/ LoadIdentity \/ LinkIdentity \/ publishNodeIDExclusive
    \/ Stop \/ StopEnds \/ Exit
    \/ \E n \in Nodes, id \in Ids : PeerRestart(n, id)
    \/ \E n \in Nodes : \E a \in stored[n] : Lapse(n, a)
    \/ FallDue
    \/ StartBootstrap \/ StartFind \/ StartAnnounce
    \/ \E key \in Refreshed : StartRefresh(key)
    \/ \E r \in rpcs : HandleRequest(r)
    \/ \E p \in Procs : Proceed(p)

DHTSpec == DHTInit /\ [][DHTNext]_dhtVars

-----------------------------------------------------------------------------
(* Properties *)

(* The table holds only contacts whose address has answered this node,     *)
(* never the node itself, one identity per address, and at most K contacts *)
(* a bucket, whatever lookups, failures and changed identities interleave  *)
(* (AddPeer, MarkFailure and the second offer at the end of a round).      *)
ContactsVerified ==
    /\ \A c \in table : c.at \in heard /\ c.id # ident[Self]
    /\ \A c, d \in table : c.id = d.id \/ c.at = d.at => c = d
    /\ \A i \in 1 .. Width : Cardinality({c \in table : BucketIndex(c.id) = i}) <= K

(* The announcer marks a blob as announced, and leaves it alone for twelve *)
(* hours, only when more than Enough distinct nodes have carried out a     *)
(* store of that round, as long as no node has changed its identity: an    *)
(* address known under two identities is counted twice.                    *)
AnnouncedMeansStored == "announcement" \notin missed

(* A lookup that has fetched the pages of a node without an error knows    *)
(* every provider the node listed when it answered the first page, also    *)
(* when a store moves the page boundaries, as long as the list is short    *)
(* enough for the pages the node announced (PagesSuffice) and does not     *)
(* shrink meanwhile.                                                       *)
ProvidersComplete == "provider" \notin missed

(* Every announcement of Self in the network carries the identity of its   *)
(* identity file: a restart, a failed link or a crash while the identity   *)
(* is published never makes the node appear under a second one.            *)
IdentityKept ==
    /\ \A n \in Nodes : \A a \in stored[n] : a.at = Self => a.id = idFile
    /\ node = "running" => idFile = ident[Self]

(* Identities are sound: the ones this node believes others to have, and   *)
(* the one it has itself.                                                  *)
IdentitiesSound == ContactsVerified /\ IdentityKept

(* What announcements and lookups report is what the network did.          *)
ReportsTrue == AnnouncedMeansStored /\ ProvidersComplete
=============================================================================
