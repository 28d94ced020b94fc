# Verification of the LBRY daemon

TLA+ models of the stateful parts of the daemon under `src/`, TLC configurations
that check them on small instances, and TLAPS proofs of the results that matter
most. Every definition is a translation of code: `PROJECT.json` maps it to the
file and lines it stands for.

## 1. The system

The daemon is one Go process. It serves a JSON-RPC interface, keeps an SPV wallet
in step with remote wallet servers, caches content blobs and downloads, saves and
streams files, and takes part in a DHT. Everything below runs as goroutines of
that process; the shared state is in memory under mutexes, in two SQLite
databases (wallet and files), in the blob directory, in wallet files and in
header files.

| part | source | state | operations | talks to |
|---|---|---|---|---|
| command line, settings | `config/cli.go`, `config/store.go` | layered settings, settings file | parse, load, get, set, clear, save | start-up, RPC |
| database revision | `database/revision.go`, `migrations*.go` | revision file, legacy and current databases, backups | ensure revision, each step of the chain | start-up |
| daemon life cycle | `app.go`, `main.go`, `componentgraph/` | services, stages, readiness monitor | Run, Shutdown | everything |
| background downloader, disk space worker | `backgrounddownloader/manager.go`, `diskspace/manager.go` | ongoing download, usage cache, cleanMu | poll, download, clean, Stop | DHT store, blob cache, file manager |
| blob cache | `blob/manager.go` | entries, flights, files on disk | Start, Stop, Ensure, Get, Set, Delete | database rows, fetcher, RPC, reflector, cleaner |
| blob fetcher and peer server | `blob/network_fetcher.go`, `exchange.go`, `tracker.go`, `peer/server.go` | connections of one fetch | discover, ask, serve | blob cache, DHT, trackers |
| blob and file rows | `database/managed_streams.go` | `blob`, `stream`, `file` tables | sync at start, record, delete, clean, statuses | blob cache, file manager, disk space manager |
| file manager | `filemanager/manager.go` | rows, active saves, running/stopping/paused | Start, Stop, Save, Stop of a file, Register, Pause, Resume, idle transitions | rows, RPC, stream server, disk space manager |
| stream server, gets and file operations | `stream/server.go`, `rpc/get.go`, `rpc/file_mutations.go`, `app.go` | registered requests, idle timers, blocks, get flights | serve a range, get, start, stop, save, delete | file manager, blob cache, spending, resolution |
| address synchronisation | `wallet/address_sync.go`, `address_manager.go` | queue, worker counters, tickets, gap | worker, cycles, history updates, gap extension, stop | SPV network, wallet database, readiness |
| tip and headers | `wallet/spv_sync.go`, `spv_tip.go`, `headers.go`, `header_storage.go` | header chain, initial tip, readiness | tip pull, notifications, reorganisation, checkpoint fill | SPV network, address worker |
| SPV network | `wallet/spv/*.go` | client, reconnect loop, pending calls, known hubs and their file | connect, detach, retry, keepalive, subscribe, broadcast | all of the wallet |
| resolution | `wallet/resolve.go`, `hub_outputs_*.go`, `transaction_fetch*.go`, `transaction_merkle.go`, `list_resolution.go` | transaction cache, shared outputs, inflation mutex | resolve, claim_search, lists | SPV network, headers, RPC |
| spending | `wallet/transaction_balancing*.go`, `coin_selection.go`, `ledgerdb/spendables.go`, `transaction_broadcast.go` | reservations of outputs | select, reserve, sign, broadcast, release | RPC, wallet database, network |
| wallet files | `wallet/wallet.go`, `account.go`, `storage.go`, `preferences.go`, `channel_keys.go` | accounts, encryption, preferences, wallet file | load, save, lock, unlock, encrypt, sync | RPC, start-up |
| DHT | `dht/` | routing table, pending requests, announcements, identity file | ping, find, store, announce | peers, blob rows |
| the rest | `exchangerate/`, `trackerannouncer/`, `torrent/`, `fileanalysis/`, `wallet/keys`, claim encodings | little or none | periodic I/O, encodings | - |

### What is hard, and what makes each part correct

* **Blob cache.** Callers of one blob share a fetch. They join, leave, and
  abandon it while its goroutine ends and a successor starts; deletions and
  reflector uploads of the same blob run meanwhile; the process may stop or die
  between the rename of a file and its database row. Correct means: one live
  fetch per blob, nobody fails because somebody else cancelled, entries and
  files agree, a completed blob has its row, every Ensure returns.
* **Address synchronisation.** Notifications, subscription answers, finished
  cycles and finished histories reach one worker in any order through a queue
  with a one-slot wake channel; storing a history creates new addresses, which
  are subscribed in turn; connections are lost and made again, and the worker may
  be told to stop at any of these points. Correct means: no wake-up lost, the
  counters exact, readiness only after the first histories, and in the end every
  address subscribed and its transactions stored, or the worker ended.
* **File manager and cleanup.** Saves are cancelled and replaced, paused for a
  cleanup, resumed, timed out and stopped, with one mutex held over several
  steps and one that is not. Correct means: every save tracked, none during the
  deletion of a cleanup or after Stop, pauses lifted, Stop completes.
* **Streaming and gets.** Requests, idle timers that fire late, file operations
  and gets meet on one stream; callers of a get give up at any step; blobs come
  from peers that lie. Correct means: a stream that is played stays awake, one
  that was played goes to sleep, nobody plays what is being deleted, the bytes are those
  of the range, nothing is bought twice.
* **Spending.** Several requests select and reserve outputs, sign, broadcast and
  release; a broadcast may fail after the server accepted it; `utxo_release` and
  the completion of start-up release everybody's reservations.
* **Resolution.** Calls share cached transactions, whose outputs they overwrite
  under one mutex and copy; the cache has a capacity; headers are reorganised
  between the proof and its use.
* **Tip and headers.** Reorganisations rewind and retry; the headers file is copied
  over in place and the process may die in the middle.
* **Network.** Retried calls race reconnection, keepalive and Stop; a bounded channel
  connects the connection's reader with a worker that calls the same connection.
* **Wallet files.** Two goroutines save one file through one temporary name;
  passwords are adopted, replaced, wrong or empty; documents are merged.
* **DHT.** Datagrams are lost, nodes restart under their own or a new identity,
  provider lists are paged while they change.
* **Start-up.** The settings file is truncated and written in place, and so is the file of
  known hubs, by two goroutines; the migration chain begins again from the start after any
  interruption.
* **Life cycle.** Services shut down concurrently, components start in stages and
  a failure in the middle leaves some of them started.

## 2. Modules

| module | models | uses | proved in |
|---|---|---|---|
| `BlobManager` (`MCBlobManager`) | blob cache, blob directory, finished rows | | `BlobManagerProofs` |
| `AddressSync` | address worker, cycles, history updates, gap extension, readiness, stop | | `AddressSyncProofs` |
| `FileManager` | file manager with the cleanup of the disk space manager | | `FileManagerProofs` |
| `HeaderSync` | header store and its file, tip worker, checkpoint fill | | `LedgerProofs` |
| `CoinSelection` | the selection strategies, as operators, with a reference definition | | |
| `Spending` (`MCSpending`) | requests that select, reserve, sign, broadcast and release outputs | `CoinSelection` | |
| `SPVNetwork` (`MCSPVNetwork`) | reconnect loop, JSON-RPC sessions, calls, the tip worker's queue | | `NetworkProofs` |
| `Daemon` (`MCDaemon`) | component graph, Run, services, readiness monitor, background downloader, Shutdown | | `DaemonProofs` |
| `WalletStore` | abstract: a store whose document changes in one instant | | |
| `WalletFile` (`MCWalletFile`) | one wallet in memory and on disk; refines `WalletStore` | `WalletStore` | `WalletFileProofs` |
| `DHT` (`MCDHT`) | routing table, lookups, stores, announcer, identity file | | `NetworkProofs` |
| `Settings` | layers, conversions, the YAML file and its save | | |
| `CommandLine` | the parser of the start command, with a reference definition | | |
| `Migration` | revision file, backups, the migration chain | | |
| `HubSelection` | probes, choice of a server, known hubs and their file | | |
| `Startup` (`MCStartup`) | starts of the daemon, one after another | `Settings`, `CommandLine`, `Migration`, `HubSelection` | `DaemonProofs` |
| `Resolve` (`MCResolve`) | resolution of claims over the shared transaction cache | | `LedgerProofs` |
| `BlobExchange` | discovery of peers and the exchange of one blob | | `StreamingProofs` |
| `Streaming` (`MCStreaming`) | stream server, file operations and gets on one stream | `BlobExchange` | `StreamingProofs` |

Conventions. A section of code under one mutex is one step. A mutex held over
several visible effects (`diskMu`, `startMu`, `addressGeneratorMu`,
`hubOutputsInflateMu`, `walletMutationMu`, the database's mutex while the cleaner
deletes) is a variable or a guard. A statement of a database is one step; a
transaction is one step. A context that ends is a flag; a goroutine is a record
with a `phase` or `pc` that says which statement it is about to execute. Failures of
I/O are actions of their own. Payloads are left out; a history is the set of its
transactions, and stands for its own status hash. Bounds are named constants, and a
budget counts what the environment may do. History variables are named as
such where they are declared. Definitions whose
comment begins with "Mutant" are plausible bugs; the mutant list of `PROJECT.json` puts
each in the place of the definition it distorts, and the named property must then fail.

### BlobManager

`life` is the process (down, up, stopped), `persist` its `save_blobs` setting.
`blobs` is the map of entries, "disk" for a nil entry backed by the file and
"memory" for one that holds the bytes; `disk` and `finished` are the directory
and the finished rows and survive `Crash`.

A flight goes through `fetching` (download), `fetched` (Set has the bytes),
`publishing` (the file is written, diskMu held), `recording`, and on failure
`rollback` and `unlinking`, to `finishing` (unregister, close done). The
goroutine unregisters itself only if the map still holds it. A caller waits on
its flight; `Leave` counts it off and cancels the flight when it was the last.
Handlers are blob_delete, file_delete, the cleaner and the reflector server: the
first three delete in different orders of row and file, which the model keeps.
`Start` is the directory scan with `SyncStoredBlobs`, `Stop` cancels registered
flights and empties the maps while goroutines go on.

`excused` is a history variable: blobs the code itself leaves cached without a row
(stored by the reflector server, or whose removal the file system refused).

Beyond the properties: a flight all waiters left is cancelled, so its record fails and it
deletes the blob by hash (`blob/manager.go:272`); the flight that replaced it may have
stored and recorded the blob by then. The file goes, the finished row stays until the
next start.

### AddressSync

`queue`, `wake`, `waking` are `spvAddressQueue`: `Push` appends and unlocks,
and only then (`Wake`) sends on the one-slot channel if the queue was empty.
`worker` has the locals of `runSPVAddressWorker`; its `pc` is the wait for
the initial tip, the select, or the drain of the queue. A cycle lists the
addresses, subscribes them, pushes the answers and ensures the gap; an update
compares, fetches, saves and ensures the gap, and the updates of one address run
in ticket order (`backlog`). `Stop` ends the context; the worker then leaves its select
(`WorkerExit`), waits for the result of the cycle it believes to be running
(`ExitResult`) and for the updates under way (`ExitDone`), while requests are
abandoned (`HistoryAbandoned`). `tip`, `addressCycles` and `ready` are what
`maybeMarkReadyLocked` looks at. The server's notifications (`RemoteChange`) are
external; they are delivered in any order and die with the connection.
`owed` and `faulted` are history variables: initial statuses of the first
cycle not handled yet, and addresses one of whose requests failed (the code does
not retry those before the next connection).

What the model shows beyond the properties: the wallet may become ready before the queue
is drained, because the case of a history's end evaluates readiness without the drain
that the comment in the case of a cycle's result asks for (`address_sync.go:366`
and `:374`). With two cycles running, the exit waits for one result only; the
other cycle's goroutine ends by itself later.

### FileManager

`manager` is running/stopping/paused, `active` the map of saves by stream, `op` a
save: `run`, `completed` (the row is written), `failed`, `ending` (the result is
published), `done`. A request (`user`) cancels the active save of its stream, waits
for it, prepares the row, begins the save and waits for its result, its timeout
or the end of its context, holding `startMu` until the save has begun.
`clean` is the one cleanup that `cleanMu` lets run: pause, wait for the saves,
delete, resume. A pause whose context ends leaves a goroutine (`Late`) which
resumes later. `drained` records which `saveTasks.Wait` calls have returned.
`Start` loads rows and resumes what was running; `StopBegin`, `StopPause` and
`StopFinish` are Stop and its goroutine.

Beyond the properties: the goroutine of a timed-out pause resumes whatever pause is set
when its saves have ended, that of a later cleanup included
(`filemanager/manager.go:502`). Outside the model, and so under no property: a repeated save
that is cancelled removes the output file of a row that is still marked saved
(`filemanager/manager.go:954`; output files are not modelled), and the truncation to
megabytes in the choice of blobs to clean (`database/managed_streams.go:755`).

### HeaderSync

A header is the chain it belongs to and the chain of the hash it names as its
predecessor; all chains of the server agree below `Fork`, which is above the
checkpoints. `store` is the working copy, `file` the headers file: `Close` copies
the one over the other from the start and shortens nothing. `CloseCrash` stops the
copy between or inside two headers: the copy's blocks do not end where headers do,
a new file is sized before it is filled, and an old one grows, so zeros, torn
headers and a ragged end are left for `Open`, which repairs links, pads to the
checkpointed size and looks for chunks that do not match (`missing`).

`tip` has the locals of `updateSPVLiveHeaders`: a pull from the store's
length or from one header further back, the two predecessors whose chunks must be
present (`TipEnsure`), and the connection of the batch. Whether the difficulty fits
when the header two below belongs to another chain is left open (`FirmlyLinks`). A
chunk is fetched in one step, since `chunkFetchLock` is held for it and its bytes do
not depend on when they are asked for. `headerMu` is `tip.pc` being neither
idle nor off. `fill.todo` is the list that MissingCheckpointedChunks returned, as the set
whose newest chunk is taken next. `wire` dies with a connection; `notified` is the last header passed
on, which a repetition is compared with.

What the model shows about the code, beyond the properties: the subscription's answer
is not passed to the worker, so blocks missed while disconnected, or a
reorganisation while the daemon was off, are noticed at the next notification
only (`fresh` is the history variable for that). A stale notification that still links
overwrites one header of the chain that was pulled meanwhile and leaves the link
above it broken; later updates mend it only if the difficulty tells, the repair of the
next `Open` in any case. A reorganisation to a lower height leaves the old headers
above it. All three are the Python SDK's behaviour.

A stop is assumed to wait for both workers (its context does not end first), and
errors of the file system other than a crash are left out.

### CoinSelection and Spending

`CoinSelection` has the strategies as operators on sequences of estimators. Branch
and bound is the code's loop, one `SearchStep` a round, with its tentative selection,
lookahead sum and best waste; random draw yields every outcome; `SQLite` is the
strategy the database implements with windows of growing amounts.
`StandardReference` says the same over all subsets of the pool.

In `Spending` a request is one call of a handler. The handlers differ in what they
supply, whether they add outputs and whether a failed broadcast or a preview
releases, so each is a record of those four facts. `BeginPayment`, `BeginClaim`,
`BeginEverything` and `BeginSpend` are what a handler does before balancing. The balance
loop selects and reserves the deficit (`ListAndSelect` takes `utxoReservationMu`, and
`ReserveOutputs` releases it; the database's strategy does both in one transaction,
`GetAndReserve`), computes change and begins another pass while the
transaction has no output. `Sign`, `Preview`, `Broadcast`, `BroadcastFails` and
`ReleaseTransaction` follow. A broadcast that fails may have been accepted all the
same. `reserved` and `spent` are columns of the wallet database and survive `Crash`;
`chain` is what the server has accepted, which the database learns of with `Store`.

Four history variables keep the properties honest about what the code does not do.
`unlocked` has the coins that are listed without the mutex (`account_fund` of
everything, `txo_spend`). `exposed` has the outputs that were accepted without a reservation,
or whose reservation somebody else clears (`utxo_release`, the completion of start-up, the
release of a transaction that shares them). `doubtful` has the inputs of a transaction that
the server accepted and whose answer was lost: `BroadcastOrRelease` takes that for a failure
and releases them (`transaction_broadcast.go:63`), so the wallet offers them again until it
stores the transaction. The code does not avoid this, and `AcceptedNotReoffered` names it as
an exception; what it claims is that there is no fourth path besides these three.
`leaked` has the reservations that stay behind: `txo_spend` releases neither its
preview nor its other batches, `FundAccount` does not release after a failed
broadcast, and a release may fail. They last until `utxo_release` or a restart.
Three more observations: a deficit below ten dewies
selects nothing with the database's strategy; its windows end where the next ceiling would
overflow an integer (`spendables.go:134`), at 10^12 dewies at the lowest and at 10^14 for a
wallet without smaller coins, so a wallet of larger coins is told that its funds do not suffice
(`SelectionMatchesReference` claims completeness below `SQLiteReach` only); and a
transaction that has no output after five passes is signed as it is (a test expects it).

### SPVNetwork

`running`, `client`, `connecting`, `wake`, `done` are fields of `Network`, `loop` is
the local state of `run`. A session is a `Client`: `open` while its done channel is,
`wire` and `requests` the two directions of its connection, `reading` and
`notifications` the reader that blocks when the notification channel is full. A call is
one of the public methods; only the "retry" kind waits for a client and tries again. The
tip worker is a caller and also the consumer of `tipUpdates`, into which the handler of
notifications of the same connection blocks: the model composes the network with this
consumer because the two wait for each other. Faults are lost connections, keepalive
failures, timeouts, and contexts that end; `left` bounds them.

Beyond the properties: a wake-up left from the time without a session tears the next,
healthy one down once (`StaleTeardown`); `enqueueSPVHeader` ignores the client's context;
the height `publishClient` sets may overwrite a newer one; errors of frames that are too
large or not JSON are not retried; `RequestReconnect` has no caller outside the tests. How
a server is found is HubSelection's subject; here it is any server.

### Daemon

`DependsOn` is the component graph, `Startable` what `StartStages` accepts. `run` is where
`Run` stands and how far it has come in the order of the components; `up`, `cancelled`,
`reported` the components' own state. A service (`svc`, `shut`) is a serve function and a
shutdown function that run in goroutines of their own; managers among them wait for
the wallet's readiness monitor. `bg` composes the loop and the worker of the background
downloader, `cleaning` the disk space worker. The stream and metrics servers behave as the
rpc server does and are not repeated.

Beyond the properties: services are stopped concurrently, so the tracker announcer may
outlive the file manager it uses; a file manager or tracker that was waiting may start
after its Stop returned, while the database closes; after a failed DHT start the readiness
monitor and the exchange rate goroutines are left running; the error path of the
background downloader's Start cannot be reached.

### WalletFile and WalletStore

`mem` and `pw` are the accounts, preferences and password of one wallet, `disk` the wallet
path and the temporary path. The RPC goroutine and the post-ready start-up (`writer`) run
lists of steps (migrate channel keys, raise a gap, save); a save is `BeginSave`,
`OpenTemporary`, `WriteTemporary`, `SyncTemporary`, `Rename`, and `RenameFails` with
`RenameAgain` for the fallback. A process that dies loses what was not synced. `WalletStore`
says what a store promises: what a restart reads changes only to the whole document of a
running save. `WalletFile` implements it, with `stored` and `offered` as the refinement
mapping (property `AtomicStore`), as long as the two writers do not share the temporary file.
Besides encryption on disk there is one more preference (`note`), and `noteFirst` says in which
order the two were set first, which is the order they are written and hashed in. An account
may be in the wallet twice, as `account_add` allows.

Beyond the properties (history variables `compromised`, `lapsed`, `foreign`, `withdrawn`; `asked`
is what was last said about encryption on disk): the
start-up saves without `walletMutationMu` and under the same `<path>.tmp.<pid>`, so
overlapping saves can lose an update, publish an empty file or delete the wallet; the
fallback of a failed rename removes the file first; an unlock of an unlocked wallet adopts
any password; `sync_apply` without data replaces the password of a locked wallet; clear
secrets reach the disk after an account is added to a locked wallet, an unlock that stops
half way, an empty password, or encryption on disk that is switched off and on again over
such an account (found while proving `SecretsGuarded`: it takes six events, more than the run
has). The sixth lapse is a save that finds the preference on and no password: it turns the
preference off and writes the secrets in the clear (`wallet.go:570`, `withdrawn`).
`preference_set` does that on its own, and `sync_apply` when a merged document asks for
encryption and the migration of a merged account saves before the password is adopted
(`rpc/sync.go:43` and `:58`). Accounts changed in the same second on two devices do not
converge, nor does one that is in the wallet twice; two devices that set their preferences in
different orders end with the same preferences and different hashes, as
`preferences_test.go:134` expects, so `SyncConverges` claims equal hashes for equal orders only; a merge that fails keeps what it did so far and does not save; channel
keys are always stored in the clear.

### DHT

Self has a routing table (`table`, `failures`), calls (`rpcs`) and four goroutines that use
them (`job`): bootstrap, refresh, announcer and the downloader's finder. A lookup goes in
rounds of `Alpha` calls; a provider lookup pages through each node's list. The other nodes
answer, restart with a new token secret, change their identity, take other stores and let
announcements lapse. `idFile` and the `loading` and `torn` states of `node` are
the publication of the identity file.

`ProvidersComplete` speaks of nodes that count fewer than (K+1)^2 - 1 providers at the first
page (`PagesSuffice`; 80 with K = 8). The number of pages, length/(K+1)+1 (`node.go:679`), has
room for these and for one that is stored meanwhile. Above that a store may push a provider
beyond the last page, and from (K+1)^2 + K on (89) some are beyond it in any case.

Beyond the properties: `AddPeer` evicts the other identity at an address even when the
new one's bucket is full, and the second offer of a round adds the told identity again; an
address known under two identities counts twice towards "more than four peers"; a lapse or
restart during paging may skip providers; a crash in the fallback without hard links leaves
a torn `node_id`; requests never add the requester to the table. The nodes of the model tell
of each other truthfully (`NetworkAssumption`): an identity is known under one address. Without
that `ContactsVerified` does not hold of the code: when a lookup's shortlist grows beyond 2K, a
contact that replied, was cut from it and is learnt again under another address is offered to
the table with an address that never answered.

### Startup, Settings, CommandLine, Migration, HubSelection

`Startup` composes four components along one process: `Launch`, `Parse`, opening the
settings, reading what the daemon needs, the migration, the known hubs, and then
`settings_set`, `settings_clear` and the search for hubs until the process ends. What a start finds is what the ones before it
left. `Settings` keeps the four layers and the file as YAML scalars; texts are from a
small universe with one text for each way the conversions tell texts apart. `CommandLine`
reads tokens from left to right like the code; `StartSettings` is the reference, which looks
at the whole line. `Migration` has the revision file, the two legacy databases
and `lbrynet.sqlite` with its write-ahead log, the backup, and one action for each
transaction or lone statement of the chain. `HubSelection` has `connect` with the two
selectors (`search`), `KnownHubs` (`hubs`, `saveMu`, `hubFile`), and the two goroutines that
run `updateKnownHubs` (`lister`): the reconnect loop in a handshake, and the notification
handler of a session, which outlives it. `net` is what the servers outside answer; `unsaved`
is a history of hubs that no successful save was asked for.

`ReadSettings` is one step for everything between the opening of the settings and the database,
and for the settings the wallet reads after it. The constant `Use` says what a start does with a setting: reads it by its kind,
reads it later on demand (`max_key_fee`), lets it be null (`jurisdiction`), listens on it,
makes a directory of it, or skips the components it lists; `Requires` are the dependencies of
components. What skipping a component means for the rest of the start is the subject of Daemon.
`Crash` also stands for errors of the machine, such as a port that another process has taken.

Beyond the properties (variable `excuse`): a crash after the first committed step that is
not idempotent (6 to 7, 7 to 8, 14 to 15, 5 to 6 once 6 to 7 ran, 12 to 13 before 14 to 15)
leaves a data directory that does not start until the backup is restored; one after the end
of the chain and before the revision is written leaves a migrated database without backup
that does not start; a crash between DROP and RENAME of 2 to 3 makes the next start drop the
only copy of `name_metadata`. The backup omits the write-ahead log and databases older than
6. An empty `db_revision` is refused, a missing one is stamped 15. `settings_set` accepts
integers beyond the machine's range with which the daemon does not start again; toggles from
the environment are strings and fail. It also checks no more than the type of an address, a
directory or a list of components: what cannot be listened on (`app.go:487`), an empty or
unusable directory (`app.go:158`) and a skipped component that another one depends on
(`app.go:155`) are stored, and the next start fails. `Workable` says which values these are,
and `StartFailureExplained` names them as a reason; what it excludes is a start that fails for
any other accepted value. Step 8 to 9 removes blob rows that streams share.
The persisted `config` entry has no effect on the path.

Of the hubs: once one is known, even from one pong or as the fallback of a search in which
nobody answered, the configured servers are not probed again in that process, and after a
save in none. The fallback ignores the jurisdiction. A peer list with an unreadable entry
keeps the hubs before it in memory only, and the country of a hub is not saved until the next
list with a new hub. `known_hubs.yml` is truncated in place: a crash, a failed write or an
orderly stop while a notification handler saves leaves a file with which the daemon does not
start (`excuse.hubs`).

### Resolve

A call (`call`) asks the hub, plans which transactions it needs, fetches the missing ones in
batches, verifies each against the headers, inflates the shared outputs while it holds
`lock`, and takes copies. `cache` is the LRU with its capacity, `objs` the parsed
transactions, which calls share by reference. The tip worker (`nextHeight`) connects what it
is given: headers that it pulls from where it stands (`Connect`), or the one of a notification
at a height it has (`ConnectNotified`; `heard` is the last chain it was notified of). A header
that does not link is rejected, which clears the cache and goes back by one (`Reject`); a
request that fails in the middle of that ends the update (`AbandonRewind`). A notified header
that links replaces ours at its height and clears nothing. Links are decided by the header
before alone; that the difficulty may also refuse a header is left to HeaderSync. Hash trees are pairs of children,
built by the hub and folded by the daemon.

`CachedOnChain` has two exceptions, both of them windows of the code. The cache is cleared at
each rejected header, before the new headers are written, so a call that stores a transaction
between the two, or after the header it was verified against (`against`) was replaced, leaves a
stale verified entry (field `quiet`; the call needs a placeholder that survived the clear,
which another call has put there). And a notified header that replaces ours leaves the entries
of its height (`patched`) until the next rejection or restart. Each was seen by TLC to be
needed: without it the property fails.

Beyond the properties: a call that runs alone fails when the cache is cleared under it, as its
placeholders are gone; of results with the same identifier a collection takes the first, and purchases and
supports the last; a cached output keeps its old channel when the new answer has none; results of
`resolve` and of local supports are matched by position; `ResolveAndSnapshot` holds the
mutex during the RPCs of later batches, and the wait for the mutex ignores cancellation; the
header file is never truncated. `InflateHubOutputs` without detaching has no caller outside
the tests; the `restricted` flag has no effect and is left out.

### BlobExchange and Streaming

`BlobExchange` has the three sources of peers, the connections to all of them at once and
the reply of each kind of peer, ours and foreign ones; a fetch is one flight of BlobManager.
`Streaming` puts requests (`req`: register, mark active, describe, plan, write), file
operations and cleanups of the disk (`op`), idle timers (`timer`, `firing`, `idling`) and gets (`get`, `flight`,
keyed by parameters) on one stream. Descriptors are validated and ranges computed as in the
code, on streams of two blobs with padding and with claims that give right and wrong sizes. Where a
blob begins (`Position`) is a recursive function, so that it can be proved about.
A cleanup (`PauseFiles`, `CleanFiles`) pauses the file manager: saves are refused, the running
one is cancelled with its row left as running, and an idle transition returns without effect.
`Resume` takes up rows that are running with an output file that was not saved yet. The status
of a row in memory and in the database is one field, and `Shutdown` also stands for the stop of
the file manager.

`PlayedGoesIdle` has the exceptions that the code has. An idle timer tries once: when its five
seconds are over before it has `lifecycleMu` or during the stop, when the stop fails, or when
it meets a pause (`filemanager/manager.go:295`; `manager_test.go:421` expects the row to stay
running), nothing tries again before the next request. The same holds of a save that a cleanup
cancelled and Resume does not take up, and of a save, stop or deletion that failed after it had
taken the timer. `missed` records these until a request registers or a save begins. (A timer
that ran out of time stays in `idleTimers` and never fires again; the model removes it.)

Beyond the properties: a start, a save and the end of another deletion lift a running
deletion's block (`lifted`). The end of a deletion also clears `deleting` for one that
has marked the stream and not yet blocked it (`app.go:765`), and a get may then register the
stream behind that deletion's back; the proof of `DeletionQuiet` showed it, with two deletions,
a get and a request, and `Markers` accounts for it. The late write of a stop may mark as stopped a stream that is
played, and a request that has looked the row up while a deletion ends may play a stream
that a get then registers as stopped (both `overruled`); a failed deletion leaves a running row without idle timer; gets with
different parameters may both buy; a get cancelled between the save of its row and the
broadcast releases its payment and the next get does not pay; a row registered by a get
and never played stays running.

## 3. Runs

Every run is expected to pass. A property that joins several promises is the conjunction
of the named parts in parentheses.

| run | module | shows |
|---|---|---|
| `blob_manager` | MCBlobManager | one live fetch per blob (`SingleFlight`), nobody inherits a cancellation (`NoInheritedCancellation`), entries and files agree and a completed blob has its row (`CacheAgrees`: `DiskBacked`, `CompletedIsRecorded`), no Ensure is left behind (`EnsureReturns`) |
| `address_sync` | AddressSync | `NoLostWakeup`; readiness after the first histories, on an exact count (`ReadinessSound`: `ReadyAfterInitialHistories`, `PendingHistoriesExact`); at rest everything is subscribed and stored, or the stopped worker has ended (`RestIsSynced`) |
| `file_manager` | FileManager | saves are tracked, absent during a cleanup's deletion and after Stop (`SavesAccounted`: `SaveTracked`, `CleanBarrier`, `StopQuiet`); at rest nothing is paused, half stopped or waiting (`RestIsFree`) |
| `spending` | MCSpending | no coin funds two transactions, reservations are accounted for, fees are bounded (`FundingSound`: `NoSharedFunding`, `ReservedAccounted`, `FeeBounded`); what the server accepted is not offered again but on three named paths (`AcceptedNotReoffered`); the selection is what a search of all subsets says, with the database's strategy below the end of its windows (`SelectionMatchesReference`) |
| `header_sync` | HeaderSync | checkpointed chunks are right or known to be missing (`HeadersComplete`: `CheckpointsExact`, `FillComplete`); `TipFollows`; `OpenLinked`; updates and fills end (`WorkersEnd`: `UpdateEnds`, `FillEnds`) |
| `spv_network` | MCSPVNetwork | an answer goes to its request (`AnswerMatches`); one session, nobody waits for what is there (`SessionSound`: `OneSession`, `NoStrandedWaiter`); calls and Stop return (`WaitsEnd`: `CallsReturn`, `StopReturns`) |
| `daemon` | MCDaemon | dependencies outlive their users and nothing is left at the end (`OrderlyShutdown`: `DependenciesUp`, `ReturnsClean`); the ongoing flag is true to its worker (`OngoingExact`); Run returns when told to (`RunReturns`) |
| `wallet_file` | MCWalletFile | the file keeps up with memory (`SavedMatchesMemory`); secrets and passwords (`SecretsGuarded`: `ClearSecretsNeedLapse`, `OnePassword`, `EncryptionKept`); a round of synchronisation ends with the same accounts and preferences, and with equal hashes exactly for equal orders (`SyncConverges`); the refinement `AtomicStore` |
| `dht` | MCDHT | verified contacts and one identity (`IdentitiesSound`: `ContactsVerified`, `IdentityKept`); what is reported as announced or found is so (`ReportsTrue`: `AnnouncedMeansStored`, `ProvidersComplete`) |
| `startup` | MCStartup | settings survive, and a start fails only for a listed reason, among them accepted values that cannot be started with (`SettingsSafe`: `SettingsSurvive`, `StartFailureExplained`); the revision is true, the backup is there, names are kept (`MigrationSafe`: `StampedMeansMigrated`, `BackupHoldsOriginal`, `NamesKept`); announced hubs are in the file and the dialled one fits (`HubsSound`: `KnownHubsSaved`, `DialledFits`); `CommandLineMatchesReference` |
| `resolve` | MCResolve | a call shows its own answer (`AnswersMatch`: `PageMatchesHub`, `AttachedAsAsked`); verified means on the chain, outside two windows (`VerifiedIsOnChain`: `ProofsExact`, `CachedOnChain`); failures have a cause and hold no mutex (`FailuresContained`: `CacheErrorExplained`, `LockReleased`) |
| `streaming` | MCStreaming | `IdleExact` (`PlayedNotIdled`, `PlayedGoesIdle`), `DeletionQuiet`, `RangeExact`, `PaidOnce`, `FetchFailureExplained` |

**Bounds.**

* Blob cache: one blob (blobs share only diskMu and the database's mutex, which another
  operation on the same blob contends for as well), two callers, two flights, so that an
  abandoned flight overlaps its successor, one handler; callers and flights are symmetric.
  Two handlers were checked once as well (2.3 million states).
* Address synchronisation: one address in use and one that the gap generates, one
  transaction, and two events out of connections, changes of the history and a stop
  (`MaxEvents`), so that a reconnection, a change or a stop meets the first cycle.
* File manager: one stream (streams share startMu and the pause only), two saves, so that a
  cancelled one overlaps its replacement, one request, one cleanup, one goroutine of a
  timed-out pause; two requests were checked once as well (5.7 million states).
* Spending: two requests on a wallet of two coins and a claim, either coin enough for a
  small request and one of them for a large one, with the standard and the database's
  strategy; and one request through the balance loop on every wallet of three coins of
  amounts 1, 4, 5 and 8, every choice of confirmed coins and all four strategies a user would
  configure (the others are parts of the standard one). Fees are scaled down (base, output
  and dust 1, input 2) so that a coin can be worth less than its fee and change can fall on
  either side of dust. With the windows growing by factors of 2, they end at 64 at the lowest
  and at 128 for a wallet without smaller coins; wallets of amounts 3, 5, 63, 64 and 128 are on
  both sides of that. `txo_spend` names at most two outputs in batches of one, and of two
  requests only one lists its inputs outside the mutex (`Solo` and `Supplied` in
  `MCSpending`). Requests are symmetric.
* Headers: one checkpointed chunk of two headers, one header the chains share above it and
  three in which they differ, two chains, one change of the server's chain, batches of two
  headers, so that a reorganisation falls between two batches, two rewinds, so that the
  bound is met, one crash. Two chunks, three changes and longer chains were checked once as
  well (4.5 and 2.2 million states).
* SPV network: two sessions, two callers, one request slot, room for one message in every
  channel, and three budgets: a call of any kind against one fault and one stop; four blocks,
  so that the reader blocks behind the tip worker's own request; two callers for one slot.
* Daemon: one fault; eight sets of enabled components, among them two that must be refused.
  The sets together have every component and every dependency.
* Wallet file: two accounts, two preferences, two passwords and the empty one, three requests or faults, one of
  them a fault; three documents of other devices, one of which arrives while all three are
  merged in `SyncConverges`. After a lapse a behaviour is followed to the end of its
  request only (`Explored`).
* DHT: three nodes with identities of four bits, `K` and `Alpha` 2, so that buckets and pages
  fill up, seven providers outside, the most that `PagesSuffice` allows with this `K`, and stores
  that add an eighth; "enough" is one node, two events, two goroutines of Self at a time.
* Start-up: every revision of the data directory at which a step differs, two starts with up
  to two calls on an up-to-date directory, three on an older one, two faults; all command
  lines of up to three tokens after start are parsed, seven are followed to the end. Eleven
  settings of all nine kinds and all six uses, with values that can and cannot be listened on,
  made a directory of or skipped. Three
  streams: a sound one, one whose descriptor cannot be recovered, one that is not sound.
  Hubs are looked for on an up-to-date directory with default settings, in two starts with one
  fault: two hubs that tell of three more, a jurisdiction with an unreadable list, hubs that are
  busy or refuse, servers set by the user; no file, a broken one, or one with another hub. One
  notification handler runs at a time; a handshake and it are the two that save at once.
* Resolve: two calls, four pairs of kinds; a channel, two claims of it and one more; a capacity
  of 3 transactions, batches of two; three chains of the hub, so that one is notified that
  links and one that does not; one quirk (a failure, an odd answer or a change of chain). About
  770,000 states, the longest of the runs.
* Streaming: a descriptor and two content blobs of four bytes, three peers, up to two each of
  requests, operations (cleanups among them) and gets, in the groups `MCStreaming` lists; two faults. Two deletions
  with a get and a request, and a deletion and a save with a get and two requests, were checked
  once as well (1.5 and 4.6 million states).

**Fairness.** Three runs check liveness. `header_sync`: goroutines that can run do run (weak
fairness), the network's loop connects again, and of ever new connections some last for an
answer (strong fairness of the requests). `spv_network`: goroutines run, the server answers,
and a waiter's wake-up is not for ever, round after round, delayed until the next session is
up: connecting takes several round trips and a wake-up none. Nothing is assumed of starts,
stops, timeouts and losses. `daemon`: goroutines run, and what waits on a context that has
ended returns; strong fairness for the select of the background downloader, which chooses at
random among what is ready. Nothing is assumed of signals, the wallet's synchronisation or
ticks. `blob_manager`, `address_sync` and `file_manager` state what must have happened by the
time nothing more can (`ENABLED`), an invariant: it needs no fairness beyond goroutines that
run, and it holds of every state at rest.

**Deadlock** is checked in `blob_manager`, `header_sync`, `resolve` and `streaming`, whose
models end only in an explicit state with everybody done. It is not checked where the system
may stop: after Stop, after Run has returned, or when the requests and events of the bound are
used up.

## 4. Proofs

Eight modules hold proofs, each of the component whose name it has; `DaemonProofs` also has
those of Startup, `NetworkProofs` has those of SPVNetwork and DHT, and `LedgerProofs` those of
HeaderSync and Resolve. A theorem `XHolds` states
the property `X` of section 3 for every value of the constants; `Invariance` is the inductive
invariant it follows from, which TLC checked on the component's run before it was proved. The
proofs have one lemma for each action or small group of actions, and under it a step for each
conjunct the action disturbs.

`BlobManagerProofs`, for every finite set of callers and any blobs, flights and handlers:
`TypeCorrect`, `SingleFlightHolds`, `NoInheritedCancellationHolds`, `CacheAgreesHolds`.
`DownInv`: a process that is down holds nothing but files and rows. `RegisterInv`: the
registry holds running flights, each under its own blob, and a running flight nobody
cancelled is registered and has a waiter. `WaiterInv`: the waiter count of a registered flight
is the number of callers waiting on it, which needs lemmas on cardinality. `AwaitedInv`: a
running flight somebody waits for is registered and not cancelled. `MutexInv`: diskMu is held
exactly by the flight or handler between its two effects. `DiskInv`: entries and files agree
except for the blob its holder is changing. `RecordInv`: a cached blob without a row, or
whose row a cleanup is about to delete, has a flight or handler that will settle it.

`AddressSyncProofs`, for any addresses, connections and changes: `NoLostWakeupHolds` from
`WakeInv`, which says the same of every place of the worker at which it is not about to look at
the queue; `ReadinessSoundHolds` from `ReadyInv`. `CountInv` gives the exact count of pending
histories, `FirstInv` what cannot have happened before the first cycle's result is received,
`OwedInv` where every initial status that the first cycle owes is: in the queue while somebody
is bound to drain it, or counted.

`FileManagerProofs`, for any streams, saves, requests and cleanups: `SavesAccountedHolds`.
`TrackInv`: a save that has not ended is the active one of its stream, and the other way round.
`LifeInv`: nothing is under way before Start, saves are refused from Stop's first step on, and
there is one cleanup. `DrainInv`: what a `saveTasks.Wait` that has returned excludes until the
pause is lifted, and after Stop for good.

`NetworkProofs` on SPVNetwork, for any sessions, callers and capacities: `AnswerMatchesHolds`,
`SessionSoundHolds`. `AnswerInv`: a response channel is filled only while its call waits,
and with its answer. `LifeInv`: a run is under way from Start to finishRun, only a running
network has a client, and the loop closes its session before it forgets it. `NoStrandedWaiter`
is inductive with both.

`NetworkProofs` on DHT, for any finite network, width of the identities, bucket size, parallel
calls, seeds and number of events: `IdentitiesSoundHolds`, `AnnouncedMeansStoredHolds`, from
`DHTInv`. `Believed` is what may be said of an address: its first identity, and the spare one
once its node has taken it; an identity is at one address only. `TableInv`: the table has
believed contacts whose address was reached, with the limits of the buckets. `JobsInv` and
`RpcsInv` say the same of shortlists, calls and answers on their way, that who replied to a
lookup was reached, and that who acknowledged a store keeps it; the second offer of a round
needs the former, `AnnouncedMeansStored` the latter and that an injection from the
acknowledgements to the keepers exists (`AcksCounted`). `FileInv`, `StoredInv`: what the identity
file holds at each point of its publication, and that it is the one Self's announcements carry.
The order by distance is a strict one (`Nearer` of an identity is decided at the first bit that
differs), so every contact has its own rank and `NearestFirst` lists them all; the shortlists
are recursive functions over the places of the answer, as in `deserializeServers` below.
Assumed of the network: the nodes have different identities, know each other under them and
hold no announcement of Self at the start (`NetworkAssumption`).

`WalletFileProofs`, for any accounts, passwords, remotes and writers: `AtomicStoreHolds`, the
refinement; `SecretsGuardedHolds`; `SavedMatchesMemoryHolds`.
`OwnerInv`: as long as the store is not compromised, the wallet file is on stable storage, one
save at a time owns the temporary file, and what it holds and whether it is synced follows
from that save's phase. With it every
step of `WalletFile` is a step of `WalletStore` or leaves `stored` and `offered` alone.
`SecretsInv`: unless one of the lapses has happened, what memory holds may be saved as it is,
and every document, on disk, in the temporary file or in the hands of a save, is encrypted
when its own preference asks for it; what was asked for is what memory and an up-to-date save
say, unless a save withdrew it (`EncryptionKept`). A merge goes through the accounts one by one; that it
adds no clear secret is proved by taking the shortest document for which it would. `SavedInv`:
a save that was not overtaken carries what memory holds, so a file that no save is owed for
has it.

`DaemonProofs`, for every set of enabled components and any number of faults:
`OrderlyShutdownHolds`, `OngoingExactHolds`. `Places` has a conjunct for each part of Run
(start, serving, stop, failed start, join, end): which components are up and which have
been told to end, from the place Run has reached in its order. `EnabledInv`: what is enabled
has its dependencies, and nothing else runs. `ShutInv`: a shutdown function that has begun has
ended its service's context. `MonitorInv`: the readiness monitor ends before the services are
shut down. `ReportInv`: after stopAll only a service that will take its report back is reported.
`BgInv`: the ongoing flag is the worker's.

`DaemonProofs` on Startup, for any hubs, answers, settings, files, command lines, streams and
revisions and any number of starts, attempts, calls and faults: `HubsSoundHolds`,
`MigrationSafeHolds`, `SettingsSafeHolds`. `HubsInv`: every known
hub is in the file, in the hands of a goroutine that will save it, or excused, and the snapshot
of whoever holds `saveMu` has everything the file had (`SnapshotInv`), without which two saves
could lose each other's hubs. `MigrationInv` looks at a chain that is always begun from the
original revision, over whatever earlier attempts have committed: `Reached(r)` is what the
steps below `r` do, every step keeps it (`Grown`), so it holds of the original revision at all
times and of the place of the chain while it runs, and at 15 it says `Migrated`. `SchemaInv`:
what no attempt can break, such as that a file table of revision 11 or later has the final
streams. `WholeInv`: nothing touches the revision file before. `BackupInv`: once the content
differs from the original some complete backup holds it; the next attempt's copy goes under
another name and does not disturb it. `NamesInv`: where the rows of `name_metadata` are.

`SettingsInv` has both halves of `SettingsSafe`. *What is acknowledged returns:* `Stored` says
what the store may hold for each kind of setting. Everything that a file or `settings_set`
gives is in it (`DeserializedStored`), and writing it as YAML and reading it back gives it again
(`StoredReturns`), so a complete save loads as the layer it was written from (`WrittenReturns`);
`FileInv` follows the file and the layer a failed save restores through the steps of a save.
`deserializeServers` filters a list: it is a recursive function over the places of the list,
whose value at every place is obtained from the library's theorem on such definitions. *A
failed start has a reason:* `UsableInv`: what is held can be read unless something excuses it
(what can be read and not started with is the reason `Workable` gives),
since what `validate` accepts is readable unless it is beyond the machine's range
(`AcceptedFacts`). `HubFileInv` is the same for the file of known hubs. For the migration the
invariant is about attempts that no interrupted one preceded (`AttemptInv`): while nothing runs
the data directory is the `Original`, an original one is `Fresh` for the step of its revision
(`OriginalFresh`), every step leaves one that is fresh for the next, and the statements of a
step fit a fresh one (`FreshFits`), so no step is refused. `LegacyInv`: the steps of several
statements, and that step 4 has made the table step 5 reads. The proof showed two faults of the
model, which is corrected: the guards of a CASE overlapped (`Fits` between the two transactions
of step 5), and a float given to `settings_set` for an integer setting was not counted as
beyond the range after its conversion.

`LedgerProofs`, headers, for any checkpoints, batch size, server and number of crashes:
`HeadersCompleteHolds` from `HeadersInv`. The tip worker writes into the checkpoints too, after
a rewind or when a chunk was missing, so `CheckpointsExact` stands on `BatchRight`: what a
server sends below the fork is what every chain has there. `FillCovers`: nothing becomes
missing while a fill works through the list it made. `TypeInv` has what keeps every write
inside the store or at its end. `OpenLinkedHolds` needs the types only, and that a set of
heights has a lowest one. `TipFollowsHolds` from `TrackInv`: once the server's present tip is
handed over, it is the last of the updates, or the update at hand is on its `Tracking` course:
its batch is the server's and ends at or below the tip, and it pulls from above the tip only
when the tip is written.

`LedgerProofs`, resolution, for any calls, jobs, claims, chains, capacity, batch sizes and
number of quirks: `AnswersMatchHolds` and `FailuresContainedHolds` from `ResolveInv`, which has
for each call p (`Sound`):

* `CallGood`: every result in the page of p carries p's metadata; a call for local outputs that
  is past its urls has a result for each of them, so what follows are the supports; what it is
  given at the end is a claim with the identifier it asked for and p's metadata, or nothing
  (`GivenGood`, `AllGiven`).
* `HeldBy`: an output p has inflated and not yet copied carries p's metadata, and so does the
  channel object it points to, which other calls write into. It stays so because who holds such
  outputs holds `hubOutputsInflateMu`, and whoever else inflates holds it instead. The metadata
  of the channel is p's as Inflate goes through extra and primary messages before the copy.
* `FetchGood`: while p fetches, and as long as nothing excuses a failure, the transactions p has
  still to store (`Needed`) are in the cache, and every entry behind one of them in the order of
  use was used since p's plan (`Keeps`). The entry the cache drops is the oldest, so a needed one
  is dropped only when everything in the cache and the newcomer were used since: more than the
  capacity. Every plan and every store of any call keeps this (`PlanFacts`, `StoreFacts`, by
  taking the first request at which it would be wrong).
* `Explained`: a call that failed on the cache had such an excuse.

`StepPreserves` is what every step of a call owes the others: it leaves the entries they need
and the outputs they hold. The rest is about the operators: the stable sort by height and the
first occurrences (`ArrangedFacts`), the batches, the hub's messages, and that a transaction
hash leads to an object of the call's own list (`TransactionForFacts`).

`StreamingProofs`, for any requests, operations, gets, blobs and peers: `DeletionQuietHolds`
from `QuietInv` (what is marked or blocked at each step of a deletion, and that the requests
left are those it waits for); `PaidOnceHolds` from `PaidInv` (a worker nobody cancelled is the
one its key finds, the row is saved before the payment is sent, and after a payment no live
worker can pay); `FetchFailureExplainedHolds` from `FetchInv` (while a fetch runs, everybody a
finished source named has been dialled, and whoever failed it does not hold the blob);
`IdleExactHolds` from `IdleInv` (`PlayInv`: who looked the row up finds it, who marked it keeps
it awake, and nobody marks it while a timer function stops it; `SleepInv`: as long as the
attempt to stop it was not `missed`, a stream that was played and is running has a request, a timer, a save or an operation
on the way that puts it to sleep or forgets it); `RangeExactHolds` from `RangeInv`, for every
descriptor, size of the claim and range header. A request that walks its plan has written
exactly what of the range lies before the blob at hand (`Before`), byte for byte (`Begun`). That
the next blob continues it stands on two recursive functions, the positions of the blobs
(`PositionFacts`, `PositionsGrow`) and the file (`FileFacts`: blob b begins in the file where the
descriptor says), both by taking the shortest prefix that would be wrong; on the plan having no
gaps (`PlanBegins`, `PlanGoesOn`); and on `writePlannedBlob` writing as much as the plan says
(`WrittenFacts`). Blobs but the last must be full, as `CreateStreamDescriptor` makes them
(`PlaintextAssumption`): the code pads a short one with zeroes wherever it is.

Assumptions: the named ASSUMEs on constants (identities are distinct, callers finite, bounds
are natural numbers, scenarios have the right shape; the blobs of a stream decrypt to less than
their length and, but for the last, to all of it but one byte; settings have one of the nine kinds and
defaults that the start can read (`DefaultAssumption`; a null for what may be null), one of the
six uses and dependencies among components (`UseAssumption`); an entry of a settings file is a YAML node and a value of `settings_set` one
that JSON can deliver), which TLC evaluates in every run.

Only model-checked:

* liveness and what uses ENABLED, which the prover does not do: `EnsureReturns`, `RestIsFree`,
  `RestIsSynced`, `RunReturns`, `WaitsEnd`, `WorkersEnd`;
* what a recursive search, parse or merge computes, which needs induction over data:
  `SelectionMatchesReference`, `CommandLineMatchesReference`, `SyncConverges`,
  and `FundingSound` and `AcceptedNotReoffered`, which need that a selection, a recursive search, returns
  coins of its pool and sums of their amounts;
* the rest: `VerifiedIsOnChain` of Resolve, which needs that a branch of a Merkle tree folds to
  its root (induction over the tree) and that different proofs do not, and of DHT the half of
  `ReportsTrue` about paged lookups (`ProvidersComplete`).

## 5. Not modelled

Cryptography, scripts, mnemonics, claim encodings and bencode: pure functions the
repository tests against recorded outputs of the Python SDK. Parameter parsing and
formatting of the RPC server. Exchange rates, the contents of tracker announcements, the
torrent stub, metrics and logs: periodic I/O without shared state. `config/identity.go` and
the client commands of the command line.

In modelled parts: the output files and the reflection loop of the file manager; which
blobs a cleanup chooses and the usage cache; `account_deposit` and change that becomes
spendable; several ledgers; a stop of the header workers whose context ends first; the
timing of probes and the expiry of resolved names; `WaitTransaction` and the persistence of
fetched transactions; the framing of peer requests, decryption and the creation of
streams; missing legacy databases of revisions 1 to 5; liveness of DHT lookups.

## 6. Plan

The components of the first plan are modelled and eleven have their main safety properties
proved. What is left is proof, in this order:

1. `ProvidersComplete` of DHT: a provider that is still wanted comes at or after the page asked
   for, as long as stores only move it towards the end.
2. `ReservedAccounted` of Spending, which does not depend on what a selection computes.

They would share a proof module with one of the eight, as Startup does with Daemon.
