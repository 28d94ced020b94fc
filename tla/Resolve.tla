------------------------------ MODULE Resolve ------------------------------
(***************************************************************************)
(* Resolution of claims: every call asks the hub for outputs, fetches the   *)
(* transactions they name through the ledger's shared LRU cache             *)
(* (wallet/hub_outputs_fetch.go), verifies them against the header file     *)
(* (transaction_merkle.go, transaction_fetch_execution.go), writes the      *)
(* hub's metadata into the shared cached outputs under hubOutputsInflateMu  *)
(* (hub_outputs_inflate.go) and takes a copy away (hub_outputs_detach.go,   *)
(* hub_outputs_snapshot.go).  The callers are ResolveAndSnapshot,           *)
(* claim_search, GetClaimByClaimID and the three resolvers of               *)
(* list_resolution.go.  The tip worker reorganises the headers meanwhile.   *)
(*                                                                          *)
(* A transaction has one output, which is one claim, so a transaction       *)
(* stands for its identifier, its output and its claim.  A hash is the pair *)
(* of its two children.                                                     *)
(***************************************************************************)
EXTENDS Integers, Sequences, FiniteSets, SequencesExt

CONSTANTS
    Calls,             \* concurrent requests
    NoCall,
    Tx,                \* transactions
    NoTx,
    ChannelOf,         \* the channel that signed a claim, or NoTx
    Chains,            \* chains of the hub, in the order it adopts them:
                       \* sequences of blocks, a block a sequence of Tx
    KnownHeaders,      \* headers in the file at the start
    Scenarios,         \* what the calls are: set of [Calls -> Job]
    Capacity,          \* tx_cache_size
    FetchBatchSize,    \* TransactionFetchBatchSize
    ResolveBatchSize,
    MaxQuirks          \* reorganisations, failures and answers of the hub that
                       \* are not the plain ones, in one run

ASSUME ResolveAssumption ==
    /\ Capacity \in Nat /\ FetchBatchSize \in Nat \ {0}
    /\ ResolveBatchSize \in Nat \ {0} /\ MaxQuirks \in Nat
    /\ NoTx \notin Tx /\ NoCall \notin Calls

Jobs == [kind : {"resolve", "local", "search", "lookup", "purchases", "collection"},
         ask : Seq(Tx) \ {<<>>}, supports : Seq(Tx), inChannel : BOOLEAN]

\* A claim is signed by one channel at most; a call asks for something.
ASSUME ClaimsAssumption ==
    /\ ChannelOf \in [Tx -> Tx \cup {NoTx}]
    /\ Chains \in Seq(Seq(Seq(Tx))) /\ Chains # <<>>
    /\ Scenarios \subseteq [Calls -> Jobs]

VARIABLES
    hub,        \* index of the chain the hub is on
    headers,    \* merkle roots in the header file, height 0 first
    nextHeight,        \* height updateSPVLiveHeaders tries next
    heard,      \* index of the last chain whose tip was notified to the worker
    patched,    \* heights whose header a notified one replaced since the cache was last
                \* cleared (history)
    cache,      \* ledgerTransactionCache, oldest entry first
    objs,       \* the Transaction objects each call has parsed
    lock,       \* holder of hubOutputsInflateMu
    call,       \* the calls
    quirks

resolveVars == <<hub, headers, nextHeight, heard, patched, cache, objs, lock, call, quirks>>

NoObj == <<NoCall, 0>>
NoTag == <<NoCall, 0>>
Obj(o) == objs[o[1]][o[2]]
TagOf(p) == <<p, call[p].query>>

\* The elements of a set in the order of a relation.
Arranged(S, before) ==
    [k \in 1..Cardinality(S) |->
        CHOOSE x \in S : Cardinality({y \in S : <<y, x>> \in before}) = k - 1]
Increasing(S) == {pair \in S \X S : pair[1] < pair[2]}

----------------------------------------------------------------------------
(* Merkle trees: the hub's side (external) and the daemon's. *)

\* The tree over a block of 2^k transactions, as nodes <<level, index>>.
Node(block) ==
    LET f[l \in 0..Len(block), i \in 0..Len(block)] ==
            IF l = 0 THEN block[i + 1] ELSE <<f[l - 1, 2 * i], f[l - 1, 2 * i + 1]>>
    IN  f

Depth(block) == CHOOSE k \in 0..Len(block) : 2^k = Len(block)
RootOf(block) == Node(block)[Depth(block), 0]
PosOf(block, t) == (CHOOSE i \in DOMAIN block : block[i] = t) - 1

Sibling(i) == IF i % 2 = 0 THEN i + 1 ELSE i - 1

\* blockchain.transaction.get_merkle of an honest hub.
ProofOf(block, t) ==
    [merkle |-> [l \in 1..Depth(block) |->
                    Node(block)[l - 1, Sibling(PosOf(block, t) \div 2^(l - 1))]],
     pos    |-> PosOf(block, t)]

\* A proof without members, and one without the member "merkle".
EmptyProof == [merkle |-> <<>>, pos |-> -1]
BareProof  == [merkle |-> <<>>, pos |-> -2]

\* Bit i of the position says on which side the i-th branch is.
TransactionMerkleRoot(branches, position, leaf) ==
    FoldLeft(LAMBDA working, i :
                IF (position \div 2^(i - 1)) % 2 = 1
                THEN <<branches[i], working>>
                ELSE <<working, branches[i]>>,
             leaf, [i \in DOMAIN branches |-> i])

\* Height the hub reports for a transaction: 0 while it is in no block.
HeightIn(c, t) ==
    IF \E h \in DOMAIN Chains[c] : t \in Range(Chains[c][h])
    THEN (CHOOSE h \in DOMAIN Chains[c] : t \in Range(Chains[c][h])) - 1
    ELSE 0

----------------------------------------------------------------------------
(* The hub's answers (external): messages as result.proto decodes to. *)

Claim(t, chan) ==
    [tx |-> t, nout |-> 0, height |-> HeightIn(hub, t), err |-> "none",
     claim |-> TRUE, chan |-> chan]
Reference(t) == [Claim(t, NoTx) EXCEPT !.claim = FALSE]
ErrorFor(t, name) ==
    [Claim(t, ChannelOf[t]) EXCEPT !.err = name, !.claim = FALSE]

ChannelsNamed(txos) == {txos[i].chan : i \in DOMAIN txos} \ {NoTx}

\* A claim message for every channel the primary messages name.
WithExtra(txos) ==
    [txos |-> txos, blocked |-> <<>>,
     extra |-> SetToSeq({Claim(c, NoTx) : c \in ChannelsNamed(txos)})]

PlainAnswer(txs) == WithExtra([i \in DOMAIN txs |-> Claim(txs[i], ChannelOf[txs[i]])])

\* Answers that differ from the plain one at one claim: an error, a censored
\* claim, a claim without its channel, an output that does not exist, a
\* channel that is named and not sent; one result short; the results in the
\* other order; a result withheld and its channel listed as blocked.
OddAnswers(txs) ==
    LET plain == PlainAnswer(txs)
        rest  == SubSeq(plain.txos, 2, Len(plain.txos))
        with(i, m) == WithExtra([plain.txos EXCEPT ![i] = m])
    IN  (UNION {{with(i, ErrorFor(txs[i], "NOT_FOUND")),
                 with(i, ErrorFor(txs[i], "BLOCKED")),
                 with(i, Claim(txs[i], NoTx)),
                 with(i, [plain.txos[i] EXCEPT !.nout = 1])} : i \in DOMAIN txs})
        \cup {[plain EXCEPT !.extra = <<>>],
              WithExtra(Reverse(plain.txos)),
              WithExtra(rest),
              [WithExtra(rest) EXCEPT
                  !.extra = plain.extra,
                  !.blocked = SetToSeq({Reference(c) : c \in ChannelsNamed(plain.txos)})]}

----------------------------------------------------------------------------
(* The transaction cache: ledgerTransactionCache. *)

Cached(c, t) == \E i \in DOMAIN c : c[i].txid = t
PlaceOf(c, t) == CHOOSE i \in DOMAIN c : c[i].txid = t
EntryOf(c, t) == c[PlaceOf(c, t)]
Without(c, t) == RemoveAt(c, PlaceOf(c, t))

\* Mutant: a hit does not move the entry to the front.
getLockedStay(c, t) == c

\* A present entry becomes the newest one.
getLocked(c, t) == IF Cached(c, t) THEN Append(Without(c, t), EntryOf(c, t)) ELSE c

Placeholder(t) == [txid |-> t, obj |-> NoObj, quiet |-> FALSE]

\* A full cache drops its oldest entry for the placeholder.
insertPlaceholderLocked(c, t) ==
    IF Cached(c, t) THEN getLocked(c, t)
    ELSE Append(IF Len(c) >= Capacity THEN Tail(c) ELSE c, Placeholder(t))

IsHit(c, t) ==
    Cached(c, t) /\ EntryOf(c, t).obj # NoObj /\ Obj(EntryOf(c, t).obj).verified

\* plan: verified transactions are hits, everything else is fetched behind a
\* placeholder; a hit that the plan's own placeholders pushed out, or a cache
\* that can hold nothing, is an error.
ScanRequest(s, request) ==
    LET t == request.txid
        c == getLocked(s.cache, t)
        full == ~Cached(c, t) /\ Capacity < 1
    IN  IF s.bad THEN s
        ELSE IF IsHit(c, t)
        THEN [s EXCEPT !.cache = c, !.hits = IF Contains(@, t) THEN @ ELSE Append(@, t)]
        ELSE [s EXCEPT !.bad = full,
                       !.cache = IF full THEN c ELSE insertPlaceholderLocked(c, t),
                       !.misses = Append(@, request)]

CollectHit(s, t) ==
    IF s.bad \/ ~Cached(s.cache, t) THEN [s EXCEPT !.bad = TRUE]
    ELSE [s EXCEPT !.cache = getLocked(@, t), !.txs = Append(@, EntryOf(s.cache, t).obj)]

Scan(ordered) ==
    LET scanned[i \in 0..Len(ordered)] ==
            IF i = 0 THEN [cache |-> cache, hits |-> <<>>, misses |-> <<>>, bad |-> FALSE]
            ELSE ScanRequest(scanned[i - 1], ordered[i])
    IN  scanned[Len(ordered)]

Collect(s) ==
    LET collected[i \in 0..Len(s.hits)] ==
            IF i = 0 THEN [cache |-> s.cache, txs |-> <<>>, bad |-> s.bad]
            ELSE CollectHit(collected[i - 1], s.hits[i])
    IN  collected[Len(s.hits)]

plan(ordered) ==
    LET scanned == Scan(ordered)
        hit     == Collect(scanned)
    IN  [cache |-> hit.cache, txs |-> hit.txs, misses |-> scanned.misses, bad |-> hit.bad]

Rewinding == nextHeight < Len(headers)

\* The header at the object's height is still the one it was verified against,
\* and no rewind under way is about to replace it (history).
Quiet(o) ==
    LET h == Obj(o).height
    IN  /\ h + 1 \in DOMAIN headers /\ headers[h + 1] = Obj(o).against
        /\ Rewinding => h < nextHeight

\* storeBatch: setExisting in order, up to the first entry that is gone.
setExisting(s, o) ==
    LET t == Obj(o).txid
    IN  IF s.bad \/ ~Cached(s.cache, t) THEN [s EXCEPT !.bad = TRUE]
        ELSE [s EXCEPT !.cache =
                Append(Without(@, t), [txid |-> t, obj |-> o, quiet |-> Quiet(o)])]

storeBatch(order) ==
    LET stored[i \in 0..Len(order)] ==
            IF i = 0 THEN [cache |-> cache, bad |-> FALSE] ELSE setExisting(stored[i - 1], order[i])
    IN  stored[Len(order)]

----------------------------------------------------------------------------
(* Requests and batches. *)

\* TransactionRequests: the (txid, height) pairs of the messages that are no
\* errors, each once, primary messages first.
TransactionRequests(answer) ==
    LET messages   == answer.txos \o answer.extra
        request(i) == [txid |-> messages[i].tx, height |-> messages[i].height]
        named  == {i \in DOMAIN messages : messages[i].err = "none"}
        first  == {i \in named : \A j \in named : j < i => request(j) # request(i)}
        places == Arranged(first, Increasing(first))
    IN  [k \in DOMAIN places |-> request(places[k])]

\* The stable sort by height.
HeightOrder(requests) ==
    {pair \in (DOMAIN requests) \X (DOMAIN requests) :
        LET h == requests[pair[1]].height
            g == requests[pair[2]].height
        IN  h < g \/ (h = g /\ pair[1] < pair[2])}
ByHeight(requests) ==
    LET places == Arranged(DOMAIN requests, HeightOrder(requests))
    IN  [k \in DOMAIN places |-> requests[places[k]]]

Chunks(s, size) ==
    [k \in 1..((Len(s) + size - 1) \div size) |->
        SubSeq(s, (k - 1) * size + 1, IF k * size < Len(s) THEN k * size ELSE Len(s))]

\* PlanTransactionFetchBatches.
PlanTransactionFetchBatches(requests) == Chunks(ByHeight(requests), FetchBatchSize)

TxidsOf(requests) == {requests[i].txid : i \in DOMAIN requests}

----------------------------------------------------------------------------
(* The calls. *)

\* A job asks for claims; "local" also asks for the channels of supports.
Queries(job) ==
    (IF job.kind \in {"resolve", "local"} THEN Chunks(job.ask, ResolveBatchSize)
     ELSE <<job.ask>>)
    \o (IF job.kind = "local" /\ job.supports # <<>> THEN <<job.supports>> ELSE <<>>)

KeepsLock(p) == call[p].job.kind = "resolve"
Snapshots(p) == call[p].job.kind \in {"resolve", "search"}

\* A call that holds nothing.
Idle(job) ==
    [job |-> job, pc |-> "query", query |-> 1,
     answer |-> [txos |-> <<>>, extra |-> <<>>, blocked |-> <<>>],
     txs |-> <<>>, batches |-> <<>>, results |-> <<>>, fetched |-> <<>>,
     headerCount |-> 0, items |-> <<>>, page |-> <<>>, attached |-> <<>>,
     err |-> "none", since |-> {}, cleared |-> FALSE, foreign |-> FALSE]

ResolveInit ==
    /\ hub = 1
    /\ headers = [h \in 1..KnownHeaders |-> RootOf(Chains[1][h])]
    /\ nextHeight = KnownHeaders
    /\ heard = 1
    /\ patched = {}
    /\ cache = <<>>
    /\ objs = [p \in Calls |-> <<>>]
    /\ lock = NoCall
    /\ \E jobs \in Scenarios :
        call = [p \in Calls |-> Idle(jobs[p])]
    /\ quirks = 0

Stands(p, pc) == call[p].pc = pc

Quirk == quirks < MaxQuirks /\ quirks' = quirks + 1

Nothing(job) == [i \in DOMAIN job.ask |-> NoTx]

\* The call returns an error: the deferred unlock runs, and the resolvers of
\* purchases and collections turn everything but a cancellation into a
\* resolution that found nothing.
Fail(p, why) ==
    LET swallowed == call[p].job.kind \in {"purchases", "collection"} /\ why # "canceled"
    IN  /\ call' = [call EXCEPT ![p] = [Idle(@.job) EXCEPT !.pc = "done",
                        !.err = IF swallowed THEN "none" ELSE why,
                        !.attached = IF swallowed THEN Nothing(call[p].job) ELSE <<>>]]
        /\ lock' = IF lock = p THEN NoCall ELSE lock

\* Between its plan and its last store a call relies on its entries.
Fetching == {"fetch", "verify", "merkle"}

\* Every other call in flight sees these entries used; a plan starts anew.
Touch(c, p, ids) ==
    [q \in Calls |-> IF q # p /\ c[q].pc \in Fetching
                     THEN [c[q] EXCEPT !.since = @ \cup ids] ELSE c[q]]

\* QueryResolveBatch or QueryClaimSearch, DecodeHubOutputsBase64, and
\* prepareHubOutputs up to the plan.
Query(p) ==
    /\ Stands(p, "query")
    /\ \E answer \in {PlainAnswer(Queries(call[p].job)[call[p].query])}
                     \cup OddAnswers(Queries(call[p].job)[call[p].query]) :
        LET ordered == ByHeight(TransactionRequests(answer))
            planned == plan(ordered)
            ids     == TxidsOf(ordered)
        IN  /\ IF answer = PlainAnswer(Queries(call[p].job)[call[p].query])
               THEN UNCHANGED quirks ELSE Quirk
            /\ cache' = planned.cache
            /\ call' = Touch([call EXCEPT ![p] =
                    [@ EXCEPT !.answer = answer,
                              !.txs = planned.txs,
                              !.batches = PlanTransactionFetchBatches(planned.misses),
                              !.since = ids, !.cleared = FALSE, !.foreign = FALSE,
                              !.err = IF planned.bad THEN "cache" ELSE "none",
                              !.pc = IF planned.bad THEN "failed"
                                     ELSE IF planned.misses = <<>> THEN "inflate"
                                     ELSE "fetch"]], p, ids)
    /\ UNCHANGED <<hub, headers, nextHeight, heard, patched, objs, lock>>

\* An RPC of the call is refused, or its context is cancelled.
RPCFails(p, why) ==
    /\ call[p].pc \in {"query", "fetch", "merkle"}
    /\ Quirk
    /\ Fail(p, why)
    /\ UNCHANGED <<hub, headers, nextHeight, heard, patched, cache, objs>>

\* A plan or a batch that did not fit the cache.
Failed(p) ==
    /\ Stands(p, "failed")
    /\ Fail(p, call[p].err)
    /\ UNCHANGED <<hub, headers, nextHeight, heard, patched, cache, objs, quirks>>

Proofs(t, h) ==
    {ProofOf(b, t) : b \in {Chains[c][h + 1] : c \in {d \in DOMAIN Chains :
                                /\ h + 1 \in DOMAIN Chains[d]
                                /\ t \in Range(Chains[d][h + 1])}}}

\* The remote height of a transaction: that of its last request.
RemoteHeight(p, t) ==
    LET all == FlattenSeq(call[p].batches)
    IN  all[CHOOSE i \in DOMAIN all :
                /\ all[i].txid = t
                /\ \A j \in DOMAIN all : all[j].txid = t => j <= i].height

Entry(p, key, raw, proof) ==
    [txid |-> raw, height |-> RemoteHeight(p, key), proof |-> proof, asked |-> FALSE]

\* What the hub sends for one requested transaction: the plain entry carries
\* the proof of its chain, or none when that has it at another height.
PlainEntry(p, t) ==
    LET h == RemoteHeight(p, t) + 1
    IN  Entry(p, t, t, IF h \in DOMAIN Chains[hub] /\ t \in Range(Chains[hub][h])
                       THEN ProofOf(Chains[hub][h], t) ELSE EmptyProof)

\* requestTransactionBatch up to ParseTransactionFetchBatchResult: missing
\* transactions are tolerated, a raw transaction is never compared with its
\* key.  An answer that names an unrequested transaction or is malformed
\* fails as RPCFails does.
FetchBatch(p) ==
    /\ Stands(p, "fetch")
    /\ LET keys  == SetToSeq(TxidsOf(Head(call[p].batches)))
           plain == [i \in DOMAIN keys |-> PlainEntry(p, keys[i])]
           odd   == {SubSeq(plain, 2, Len(plain))}
                    \cup {[plain EXCEPT ![1] = Entry(p, keys[1], keys[1], proof)] :
                             proof \in Proofs(keys[1], plain[1].height)
                                       \cup {EmptyProof, BareProof}}
                    \cup {[plain EXCEPT ![1] = Entry(p, keys[1], t, plain[1].proof)] :
                             t \in Tx \ {keys[1]}}
       IN  \E results \in {plain} \cup odd :
            /\ IF results = plain THEN UNCHANGED quirks ELSE Quirk
            /\ call' = [call EXCEPT ![p].results = results, ![p].fetched = <<>>,
                            ![p].foreign = @ \/ \E i \in DOMAIN results :
                                                  results[i].txid \notin TxidsOf(Head(call[p].batches)),
                            ![p].pc = "verify"]
    /\ UNCHANGED <<hub, headers, nextHeight, heard, patched, cache, objs, lock>>

\* Parsed transactions become objects of the call.
NewObject(p, entry, verified) ==
    [txid |-> entry.txid, height |-> entry.height, verified |-> verified,
     due |-> /\ entry.height \in 1..(Len(headers) - 1)
             /\ \E c \in DOMAIN Chains : \E h \in DOMAIN Chains[c] :
                    /\ RootOf(Chains[c][h]) = headers[entry.height + 1]
                    /\ entry.txid \in Range(Chains[c][h])
                    /\ entry.proof = ProofOf(Chains[c][h], entry.txid),
     against |-> IF entry.height + 1 \in DOMAIN headers THEN headers[entry.height + 1] ELSE NoTx,
     meta |-> NoTag, chan |-> NoObj]

Push(p, entry, verified) ==
    /\ objs' = [objs EXCEPT ![p] = Append(@, NewObject(p, entry, verified))]
    /\ call' = [call EXCEPT ![p].results = Tail(@),
                    ![p].fetched = Append(@, <<p, Len(objs[p]) + 1>>),
                    ![p].pc = "verify"]

\* ApplyTransactionMerkleVerification against the header at the height.
Matches(entry) ==
    TransactionMerkleRoot(entry.proof.merkle, entry.proof.pos, entry.txid)
        = headers[entry.height + 1]

\* verifyFetchedTransaction: a height the headers do not reach is left
\* unverified, an empty proof is asked for once, an object without the member
\* is left unverified.
Verify(p) ==
    /\ Stands(p, "verify") /\ call[p].results # <<>>
    /\ LET entry == Head(call[p].results)
           count == IF entry.asked THEN call[p].headerCount ELSE Len(headers)
       IN  \/ /\ entry.height \notin 1..(count - 1)
              /\ Push(p, entry, FALSE)
           \/ /\ entry.height \in 1..(count - 1)
              /\ entry.proof = EmptyProof /\ ~entry.asked
              /\ call' = [call EXCEPT ![p].pc = "merkle", ![p].headerCount = count]
              /\ UNCHANGED objs
           \/ /\ entry.height \in 1..(count - 1)
              /\ entry.proof = BareProof \/ (entry.proof = EmptyProof /\ entry.asked)
              /\ Push(p, entry, FALSE)
           \/ /\ entry.height \in 1..(count - 1)
              /\ entry.proof \notin {EmptyProof, BareProof}
              /\ Push(p, entry, Matches(entry))
    /\ UNCHANGED <<hub, headers, nextHeight, heard, patched, cache, lock, quirks>>

\* The fallback blockchain.transaction.get_merkle: any proof the hub holds for
\* that height, an empty object, or null, which is an error.
FetchMerkle(p) ==
    /\ Stands(p, "merkle")
    /\ \E proof \in Proofs(Head(call[p].results).txid, Head(call[p].results).height)
                    \cup {EmptyProof} :
            call' = [call EXCEPT ![p].pc = "verify", ![p].results[1].proof = proof,
                                 ![p].results[1].asked = TRUE]
    /\ UNCHANGED <<hub, headers, nextHeight, heard, patched, cache, objs, lock, quirks>>

\* Two objects of one transaction in a batch: the last one is stored, at the
\* place of the first.
BatchOrder(fetched) ==
    LET same(i)  == {j \in DOMAIN fetched : Obj(fetched[j]).txid = Obj(fetched[i]).txid}
        first    == {i \in DOMAIN fetched : \A j \in same(i) : i <= j}
        places   == Arranged(first, Increasing(first))
        last(i)  == CHOOSE j \in same(i) : \A k \in same(i) : k <= j
    IN  [k \in DOMAIN places |-> fetched[last(places[k])]]

\* fetchCachedHubTransactions after the answer of one batch.
Store(p) ==
    /\ Stands(p, "verify") /\ call[p].results = <<>>
    /\ LET order  == BatchOrder(call[p].fetched)
           stored == storeBatch(order)
           rest   == Tail(call[p].batches)
       IN  /\ cache' = stored.cache
           /\ call' = Touch([call EXCEPT ![p] =
                    [@ EXCEPT !.batches = rest, !.fetched = <<>>,
                              !.txs = IF stored.bad THEN call[p].txs ELSE call[p].txs \o order,
                              !.err = IF stored.bad THEN "cache" ELSE call[p].err,
                              !.headerCount = 0,
                              !.pc = IF stored.bad THEN "failed"
                                     ELSE IF rest = <<>> THEN "inflate" ELSE "fetch"]],
                    p, {Obj(order[i]).txid : i \in DOMAIN order})
    /\ UNCHANGED <<hub, headers, nextHeight, heard, patched, objs, lock, quirks>>

----------------------------------------------------------------------------
(* Inflation: the hub's metadata is written into the shared objects. *)

\* The object a message's transaction hash leads to, the last one of the list.
TransactionFor(txs, t) ==
    LET at == {i \in DOMAIN txs : Obj(txs[i]).txid = t}
    IN  IF at = {} THEN NoObj ELSE txs[CHOOSE i \in at : \A j \in at : j <= i]

Item(kind, t, o) == [kind |-> kind, tx |-> t, obj |-> o, meta |-> NoTag, chan |-> NoObj,
                         described |-> FALSE]

\* inflateHubOutput returns an error (with its censor), a missing transaction
\* or an output,
InflatedItem(p, m) ==
    LET o == TransactionFor(call[p].txs, m.tx)
    IN  CASE m.err # "none" ->
                [Item("error", m.tx, NoObj) EXCEPT
                    !.chan = IF m.err = "BLOCKED" THEN TransactionFor(call[p].txs, m.chan) ELSE @]
          [] m.err = "none" /\ o = NoObj -> Item("missing", m.tx, NoObj)
          [] OTHER -> Item("output", m.tx, o)

\* or fails on an output that does not exist or a channel that was not sent;
Trouble(p, m) ==
    LET o == TransactionFor(call[p].txs, m.tx)
    IN  CASE m.err = "none" /\ o # NoObj /\ m.nout > 0 -> "IndexError"
          [] /\ m.err = "none" /\ o # NoObj /\ m.nout = 0 /\ m.claim
             /\ m.chan # NoTx /\ TransactionFor(call[p].txs, m.chan) = NoObj -> "KeyError"
          [] OTHER -> "none"

\* a claim's metadata is written to its output even when its channel then fails.
Describes(p, m, o) ==
    m.err = "none" /\ m.claim /\ m.nout = 0 /\ TransactionFor(call[p].txs, m.tx) = o

\* Inflate: extra outputs, then the primary ones, then the blocked channels, up
\* to the first that fails.  A message without a channel leaves the one the
\* object had.
Inflate(p) ==
    LET answer   == call[p].answer
        messages == answer.extra \o answer.txos \o answer.blocked
        failing  == {i \in DOMAIN messages : Trouble(p, messages[i]) # "none"}
        reached  == {i \in DOMAIN messages : \A j \in failing : i <= j}
        told(o)  == {i \in reached : Describes(p, messages[i], o)}
        linked(o) == {i \in told(o) \ failing : messages[i].chan # NoTx}
        last(o)  == CHOOSE i \in linked(o) : \A j \in linked(o) : j <= i
        inflated(o) ==
            [Obj(o) EXCEPT
                !.meta = IF told(o) = {} THEN @ ELSE TagOf(p),
                !.chan = IF linked(o) = {} THEN @
                         ELSE TransactionFor(call[p].txs, messages[last(o)].chan)]
    IN  [mem   |-> [q \in Calls |-> [k \in DOMAIN objs[q] |-> inflated(<<q, k>>)]],
         items |-> [i \in DOMAIN answer.txos |-> InflatedItem(p, answer.txos[i])],
         err   |-> IF failing = {} THEN "none"
                   ELSE Trouble(p, messages[CHOOSE i \in failing : i \in reached])]

\* cloneResolvedTransactionOutputForAnnotations: the copy has the metadata of
\* the moment and still points to the shared channel object.
CloneForAnnotations(p, mem, item) ==
    IF item.kind # "output" THEN item
    ELSE LET o == mem[item.obj[1]][item.obj[2]]
             told == {m \in Range(call[p].answer.txos \o call[p].answer.extra) : m.claim}
         IN  [item EXCEPT !.meta = o.meta, !.chan = o.chan,
                          !.described = /\ o.chan # NoObj
                                        /\ \E m \in told :
                                             o.chan = TransactionFor(call[p].txs, m.tx)]

\* Mutant: nobody waits for hubOutputsInflateMu.
MayEnterAlways(p) == TRUE
MayEnter(p) == lock \in {NoCall, p}

\* processHubOutputs / inflateDetachedHubOutputs / ResolveAndSnapshot take
\* hubOutputsInflateMu and inflate.
InflatePrepared(p) ==
    /\ Stands(p, "inflate")
    /\ MayEnter(p)
    /\ LET done == Inflate(p)
       IN  /\ objs' = done.mem
           /\ IF done.err # "none"
              THEN Fail(p, done.err)
              ELSE /\ lock' = p
                   /\ call' = [call EXCEPT ![p].pc = "copy",
                        ![p].items = @ \o [i \in DOMAIN done.items |->
                                             CloneForAnnotations(p, done.mem, done.items[i])]]
    /\ UNCHANGED <<hub, headers, nextHeight, heard, patched, cache, quirks>>

\* The output and the channel it points to as they are now.
Snapshot(item) ==
    [kind |-> item.kind, tx |-> item.tx, meta |-> item.meta, described |-> item.described,
     chanTx   |-> IF item.chan = NoObj THEN NoTx ELSE Obj(item.chan).txid,
     chanMeta |-> IF item.chan = NoObj THEN NoTag ELSE Obj(item.chan).meta]

SnapshotAll(items) == [i \in DOMAIN items |-> Snapshot(items[i])]

LastQuery(p) == call[p].query = Len(Queries(call[p].job))

\* EnrichResolvedTransactionOutputAnnotations reads the wallet's database and
\* may fail; the snapshot callers run it inside the lock, GetClaimByClaimID on
\* its detached copy.
EnrichFails(p) ==
    /\ \/ Stands(p, "copy") /\ Snapshots(p)
       \/ Stands(p, "finish") /\ call[p].job.kind = "lookup"
    /\ Quirk
    /\ Fail(p, "database")
    /\ UNCHANGED <<hub, headers, nextHeight, heard, patched, cache, objs>>

\* Queries that answer the urls; the one for the supports comes after them.
UrlQueries(job) == Len(Chunks(job.ask, ResolveBatchSize))

Short(p) ==
    /\ call[p].job.kind = "local" /\ call[p].query = UrlQueries(call[p].job)
    /\ Len(call[p].page) + Len(call[p].items) # Len(call[p].job.ask)

\* Detached pages are copied before the lock is released; a snapshot of one
\* query is encoded inside it; ResolveAndSnapshot keeps the lock, and its
\* uncopied outputs, until every batch has been inflated.
Copy(p) ==
    /\ Stands(p, "copy")
    /\ LET more == KeepsLock(p) /\ ~LastQuery(p)
       IN  IF Short(p) THEN Fail(p, "AssertionError")
           ELSE /\ lock' = IF more THEN p ELSE NoCall
                /\ call' = [call EXCEPT
                    ![p].page = IF more THEN @ ELSE @ \o SnapshotAll(call[p].items),
                    ![p].items = IF more THEN @ ELSE <<>>,
                    ![p].answer = Idle(call[p].job).answer, ![p].txs = <<>>,
                    ![p].since = {}, ![p].cleared = FALSE, ![p].foreign = FALSE,
                    ![p].query = IF LastQuery(p) THEN @ ELSE @ + 1,
                    ![p].pc = IF LastQuery(p) THEN "finish" ELSE "query"]
    /\ UNCHANGED <<hub, headers, nextHeight, heard, patched, cache, objs, quirks>>

----------------------------------------------------------------------------
(* What the callers make of the results. *)

\* A url with a channel is answered only by a claim whose channel signed it.
Checked(inChannel, item) ==
    IF item.kind = "missing" THEN [item EXCEPT !.kind = "error"]
    ELSE IF item.kind = "output" /\ inChannel
            /\ (item.chanTx = NoTx \/ item.chanTx # ChannelOf[item.tx])
         THEN [item EXCEPT !.kind = "error"]
         ELSE item

\* The results with a claim's identifier; the last one is taken, of purchases
\* and supports,
Matching(id, results) == {k \in DOMAIN results : results[k].tx = id}
mapTransactionResolvedClaims(ids, results) ==
    [i \in DOMAIN ids |->
        LET at == Matching(ids[i], results)
        IN  IF at = {} THEN NoTx ELSE results[CHOOSE k \in at : \A j \in at : j <= k]]

\* and the first one for an entry of a collection.
hydrateTransactionCollectionHubResults(ids, results) ==
    [i \in DOMAIN ids |->
        LET at == Matching(ids[i], results)
        IN  IF at = {} THEN NoTx ELSE results[CHOOSE k \in at : \A j \in at : k <= j]]

AllOutputs(results) == \A k \in DOMAIN results : results[k].kind = "output"

\* Its search stops at the first match, so a result that is no output is an
\* error only when it comes before it.
CollectionReadable(ids, results) ==
    \A i \in DOMAIN ids : \A k \in DOMAIN results :
        results[k].kind # "output" => \E j \in 1..(k - 1) : results[j].tx = ids[i]

Return(p, page, attached) ==
    [call EXCEPT ![p] = [Idle(@.job) EXCEPT !.pc = "done", !.page = page, !.attached = attached]]

Raise(p, why) == [call EXCEPT ![p] = [Idle(@.job) EXCEPT !.pc = "done", !.err = why]]

\* copyLocalTransactionOutputAnnotations: a local output keeps its channel.
Local(item) ==
    IF item.kind # "output" THEN item
    ELSE [item EXCEPT !.chanTx = ChannelOf[item.tx], !.chanMeta = NoTag, !.described = FALSE]

\* ResolveAndSnapshot and ResolveLocalTransactionOutputs: one result for every
\* url, by position; the supports get their channels by identifier.
FinishResolve(p) ==
    LET job   == call[p].job
        n     == Len(job.ask)
        page  == call[p].page
        found == SubSeq(page, n + 1, Len(page))
        checked(i) == Checked(job.inChannel, page[i])
    IN  IF job.kind = "resolve"
        THEN IF Len(page) # n THEN Raise(p, "AssertionError")
             ELSE Return(p, [i \in 1..n |-> checked(i)], <<>>)
        ELSE IF AllOutputs(found)
             THEN Return(p, [i \in 1..n |-> Local(checked(i))],
                         mapTransactionResolvedClaims(job.supports, found))
             ELSE Raise(p, "AttributeError")

FinishSearch(p) ==
    LET ask == call[p].job.ask
        page == call[p].page
    IN  CASE call[p].job.kind = "search" -> Return(p, page, <<>>)
          [] call[p].job.kind = "lookup" ->
                IF page = <<>> \/ page[1].kind # "output" THEN Raise(p, "missing")
                ELSE Return(p, page, <<>>)
          [] call[p].job.kind = "purchases" ->
                IF AllOutputs(page)
                THEN Return(p, page, mapTransactionResolvedClaims(ask, page))
                ELSE Raise(p, "AttributeError")
          [] call[p].job.kind = "collection" ->
                IF CollectionReadable(ask, page)
                THEN Return(p, page, hydrateTransactionCollectionHubResults(ask, page))
                ELSE Raise(p, "AttributeError")

Finish(p) ==
    /\ Stands(p, "finish")
    /\ call' = IF call[p].job.kind \in {"resolve", "local"}
               THEN FinishResolve(p) ELSE FinishSearch(p)
    /\ UNCHANGED <<hub, headers, nextHeight, heard, patched, cache, objs, lock, quirks>>

----------------------------------------------------------------------------
(* The hub's chain and the tip worker, updateSPVLiveHeaders. *)

\* The hub adopts another chain, perhaps after some in between (external).
Reorganise ==
    /\ Quirk
    /\ hub' \in hub + 1..Len(Chains)
    /\ UNCHANGED <<headers, nextHeight, heard, patched, cache, objs, lock, call>>

\* The header of a chain at height h follows the one we have below it.
LinksOurs(c, h) == h = 0 \/ headers[h] = RootOf(Chains[c][h])

\* What ConnectContext is given, as a chain and a height: the headers that the
\* worker pulls from where it stands,
Pulled == IF nextHeight < Len(Chains[hub]) THEN {<<hub, nextHeight>>} ELSE {}

\* or one that was notified, the tip of a chain that the hub is on or was on
\* meanwhile, at a height that we have.
Notified ==
    IF Rewinding THEN {}
    ELSE {<<c, Len(Chains[c]) - 1>> : c \in {d \in heard + 1..hub : Len(Chains[d]) <= Len(headers)}}

\* Mutant: a rejected header leaves the cache as it is.
RejectKeepsCache ==
    /\ \E tip \in Pulled \cup Notified :
        /\ ~LinksOurs(tip[1], tip[2])
        /\ nextHeight' = tip[2] - 1
        /\ heard' = IF tip \in Notified THEN tip[1] ELSE heard
    /\ UNCHANGED <<hub, headers, patched, cache, objs, lock, call, quirks>>

\* A header does not follow ours: onRejected clears the cache, and the height
\* below is pulled.
Reject ==
    /\ \E tip \in Pulled \cup Notified :
        /\ ~LinksOurs(tip[1], tip[2])
        /\ nextHeight' = tip[2] - 1
        /\ heard' = IF tip \in Notified THEN tip[1] ELSE heard
    /\ cache' = <<>> /\ patched' = {}
    /\ call' = [p \in Calls |-> [call[p] EXCEPT !.cleared = @ \/ call[p].pc \in Fetching]]
    /\ UNCHANGED <<hub, headers, objs, lock, quirks>>

\* Pulled headers that follow ours are written over ours; the file is never cut.
Connect ==
    /\ \E tip \in Pulled : LinksOurs(tip[1], tip[2])
    /\ headers' = [h \in DOMAIN headers \cup DOMAIN Chains[hub] |->
                     IF h > nextHeight /\ h \in DOMAIN Chains[hub] THEN RootOf(Chains[hub][h]) ELSE headers[h]]
    /\ nextHeight' = Len(headers')
    /\ UNCHANGED <<hub, heard, patched, cache, objs, lock, call, quirks>>

\* A notified header that follows ours replaces the one at its height, alone:
\* nothing is rejected, so nothing is cleared, and the worker returns.
ConnectNotified ==
    /\ \E tip \in Notified :
        /\ LinksOurs(tip[1], tip[2])
        /\ headers' = [headers EXCEPT ![tip[2] + 1] = RootOf(Chains[tip[1]][tip[2] + 1])]
        /\ patched' = IF headers' = headers THEN patched ELSE patched \cup {tip[2]}
        /\ heard' = tip[1]
    /\ UNCHANGED <<hub, nextHeight, cache, objs, lock, call, quirks>>

\* A call of the worker fails while it rewinds; the next update begins anew.
AbandonRewind ==
    /\ Rewinding
    /\ nextHeight' = Len(headers)
    /\ UNCHANGED <<hub, headers, heard, patched, cache, objs, lock, call, quirks>>

Step(p) ==
    \/ Query(p) \/ FetchBatch(p) \/ Verify(p) \/ FetchMerkle(p) \/ Store(p)
    \/ Failed(p) \/ InflatePrepared(p) \/ Copy(p) \/ Finish(p)

Fault(p) == (\E why \in {"canceled", "rpc"} : RPCFails(p, why)) \/ EnrichFails(p)

Done == \A p \in Calls : Stands(p, "done")

ResolveNext ==
    \/ \E p \in Calls : Step(p) \/ Fault(p)
    \/ Reorganise \/ Reject \/ Connect \/ ConnectNotified \/ AbandonRewind
    \/ Done /\ UNCHANGED resolveVars

ResolveSpec == ResolveInit /\ [][ResolveNext]_resolveVars

----------------------------------------------------------------------------
(* Properties. *)

\* Every claim a call returns carries the metadata of the answer that call
\* got, and so does the channel shown with it when that answer described the
\* channel, whatever other calls wrote into the shared cached outputs
\* meanwhile (hubOutputsInflateMu, hub_outputs_detach.go).
PageMatchesHub ==
    \A p \in Calls : \A i \in DOMAIN call[p].page :
        LET item == call[p].page[i]
        IN  item.kind = "output" =>
                /\ item.meta[1] = p
                /\ item.described => item.chanMeta[1] = p

\* A call fails on the transaction cache only when the transactions in use
\* since its plan exceed the capacity, when a reorganisation cleared the cache
\* under it, or when the hub sent a transaction nobody asked for
\* (ledgerTransactionCache.plan and storeBatch).
CacheErrorExplained ==
    \A p \in Calls :
        Stands(p, "failed") => \/ call[p].cleared
                           \/ call[p].foreign
                           \/ Cardinality(call[p].since) > Capacity

\* A transaction is verified exactly when the hub's proof is its proof in the
\* block our headers have at its height at that moment
\* (TransactionMerkleRoot, verifyFetchedTransaction).
ProofsExact ==
    \A p \in Calls : \A i \in DOMAIN objs[p] : objs[p][i].verified = objs[p][i].due

\* A transaction that the cache gives out as verified is in the chain our
\* headers describe, with two exceptions: its call stored it after the header
\* it was verified against had been replaced, or while a rewind that had
\* cleared the cache was about to replace it; or a notified header has replaced
\* the one at its height since, without a rejection.  Whatever was stored
\* before a rewind is gone before the rewind replaces a header (onRejected).
CachedOnChain ==
    \A i \in DOMAIN cache :
        LET o == Obj(cache[i].obj)
        IN  cache[i].quiet /\ IsHit(cache, cache[i].txid) /\ o.height \notin patched =>
                \E c \in DOMAIN Chains : \E h \in DOMAIN Chains[c] :
                    /\ cache[i].txid \in Range(Chains[c][h])
                    /\ RootOf(Chains[c][h]) = headers[o.height + 1]

\* A purchase, a collection entry or a support is given a claim, and never an
\* error of the hub, that has its own identifier and the metadata of the answer
\* its own call got, or none, whatever the hub returns and in whatever order;
\* a failed search gives none at all (list_resolution.go).
AttachedAsAsked ==
    \A p \in Calls : Stands(p, "done") =>
        LET job == call[p].job
            ask == IF job.kind = "local" THEN job.supports ELSE job.ask
        IN  \A i \in DOMAIN call[p].attached :
                LET item == call[p].attached[i]
                IN  item # NoTx => item.tx = ask[i] /\ item.kind = "output" /\ item.meta[1] = p

\* Nobody waits for a mutex that a call has taken away: it is held only by a
\* call that is still inflating or, for ResolveAndSnapshot, between batches,
\* never by one that returned an error.
LockReleased == lock # NoCall => call[lock].pc \notin {"finish", "done"}

\* A call is answered with what was asked for, and with the hub's answer to it.
AnswersMatch == PageMatchesHub /\ AttachedAsAsked

\* A transaction that is taken for verified was on the chain when it was
\* verified, and is on it while it is cached but for the two exceptions of
\* CachedOnChain.
VerifiedIsOnChain == ProofsExact /\ CachedOnChain

\* A failure stays with its call: it has a reason, and it blocks nobody.
FailuresContained == CacheErrorExplained /\ LockReleased
=============================================================================
