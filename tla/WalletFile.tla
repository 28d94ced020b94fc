------------------------------ MODULE WalletFile ------------------------------
(***************************************************************************)
(* One wallet: its accounts and preferences in memory, the document on     *)
(* disk, and the code that moves one to the other.                         *)
(*                                                                         *)
(* The wallet RPCs are serialised by walletMutationMu; the post-ready      *)
(* startup (CompleteStartup) saves the same wallet from its own goroutine  *)
(* without that lock.  Both save by writing <path>.tmp.<pid>, syncing,     *)
(* closing and renaming it, one file operation per step, and the process   *)
(* may die between any two of them.                                        *)
(*                                                                         *)
(* An account's secrets are in the clear or encrypted under a password;    *)
(* the ciphertext is abstracted to that password.  Timestamps are Now for  *)
(* what this process writes, and Past or Future for what files and other   *)
(* devices bring.                                                          *)
(***************************************************************************)
EXTENDS Naturals, Sequences, FiniteSets, SequencesExt

CONSTANTS
    Accounts,      \* account identifiers (the address of the public key)
    FreshAccount,  \* the account generated for an empty wallet
    Passwords,     \* passwords the user types; Blank is the empty one
    Values,        \* account settings: name and address generator parameters
    OnDisk,        \* the documents a daemon may find at its first start
    Remotes,       \* documents of other devices
    Delivered,     \* the ones that arrive in the behaviours that are checked
    Missing,       \* no file at the wallet path
    Torn,          \* a file that is not a JSON document
    NoEntry,       \* the preference is not in the document
    MaxEvents,     \* bound on the requests and faults of one behaviour
    MaxFaults      \* bound on its failed operations and crashes

Past == 1
Now == 2
Future == 3
Times == {Past, Now, Future}

NoPassword == "nil"        \* EncryptionPassword == nil
Blank == ""                \* EncryptionPassword points to ""
Clear == "clear"           \* secrets not encrypted
Legacy == "legacy"         \* a certificate that is not a PEM block
Pem == "pem"               \* a channel key stored under its address

Paths == {"file", "tmp"}   \* the wallet path and the temporary path

Writers == {"rpc", "startup"}

Typed == Passwords \union {Blank}
AccountRecords ==
    [id : Accounts, lock : Typed \union {Clear}, val : Values, mod : Times,
     keys : SUBSET {Legacy, Pem}, gap : BOOLEAN]

Entries == {NoEntry} \union [value : BOOLEAN, ts : Times]

(* A wallet document: the encrypt-on-disk preference, another preference,  *)
(* which of the two was inserted first, and the accounts.                  *)
Documents ==
    [eod : Entries, note : Entries, noteFirst : BOOLEAN, accounts : Seq(AccountRecords)]

(* noteFirst says nothing but the order of the entries that are there.     *)
Ordered(d) ==
    /\ d.note = NoEntry => ~d.noteFirst
    /\ d.note # NoEntry /\ d.eod = NoEntry => d.noteFirst

ASSUME ConstantsAssumption ==
    /\ FreshAccount \in Accounts /\ Values # {}
    /\ Delivered \subseteq Remotes
    /\ {NoPassword, Blank, Clear} \cap Passwords = {}
    /\ OnDisk \subseteq Documents \union {Missing} /\ Remotes \subseteq Documents
    /\ Missing \notin Documents /\ Torn \notin Documents
    /\ NoEntry \notin [value : BOOLEAN, ts : Times]
    /\ \A d \in Remotes \union (OnDisk \ {Missing}) : Ordered(d)
    /\ MaxEvents \in Nat /\ MaxFaults \in Nat

VARIABLES
    up,        \* "down", "loading", "up" or "refused" (the document is unreadable)
    mem,       \* Wallet.Accounts and Wallet.Preferences
    pw,        \* Wallet.EncryptionPassword
    writer,    \* per goroutine: program counter, open inode, document, steps left
    disk,      \* the contents of the files at the two paths
    synced,    \* the paths whose contents are on stable storage
    requests,  \* requests so far
    faults,    \* faults so far
    dirty,     \* memory holds a change that no successful save has covered
    compromised, \* a rename failed, or two saves shared the temporary file
    lapsed,    \* secrets came into the clear that no save will encrypt
    foreign,   \* sync_apply replaced the password of a locked wallet
    asked,     \* the last word of the user, of another device or of the file
               \* at the start, is that the wallet be encrypted on disk
    withdrawn  \* a save without a password turned encryption on disk off

wallet == <<mem, pw>>
files == <<disk, synced>>
budget == <<requests, faults>>
history == <<dirty, compromised, lapsed, foreign, asked, withdrawn>>
vars == <<up, mem, pw, writer, disk, synced, requests, faults, dirty,
          compromised, lapsed, foreign, asked, withdrawn>>

-------------------------------------------------------------------------------
(* The wallet document.                                                    *)

Locked(m) == \E i \in DOMAIN m.accounts : m.accounts[i].lock # Clear

Exposed(m) == \E i \in DOMAIN m.accounts : m.accounts[i].lock = Clear

LocksOf(m) == {m.accounts[i].lock : i \in DOMAIN m.accounts} \ {Clear}

EncryptOnDisk(m) == m.eod # NoEntry /\ m.eod.value

Ids(m) == {m.accounts[i].id : i \in DOMAIN m.accounts}

(* TimestampedPreferences.Set: an entry that exists keeps its place.       *)
SetEncryptOnDisk(m, v) == [m EXCEPT !.eod = [value |-> v, ts |-> Now]]

SetNote(m, v) == [m EXCEPT !.note = [value |-> v, ts |-> Now],
                           !.noteFirst = @ \/ m.eod = NoEntry]

OnAccounts(m, Change(_)) ==
    [m EXCEPT !.accounts = [i \in DOMAIN m.accounts |-> Change(m.accounts[i])]]

(* The same for the n-th of the accounts with identifier a: account_add    *)
(* takes an account the wallet already has.                                *)
Nth(m, a, n) ==
    {i \in DOMAIN m.accounts :
        m.accounts[i].id = a /\ Cardinality({j \in 1..i : m.accounts[j].id = a}) = n}

OnNth(m, a, n, Change(_)) ==
    [m EXCEPT !.accounts = [i \in DOMAIN m.accounts |->
        IF i \in Nth(m, a, n) THEN Change(m.accounts[i]) ELSE m.accounts[i]]]

(* EncryptAccountSecret and DecryptAccountSecret on the seed and the       *)
(* private key of an account.                                              *)
EncryptSecrets(p, a) == [a EXCEPT !.lock = p]

Decrypts(p, a) == a.lock = p

(* Account.Encrypt, of an account that is not encrypted yet.               *)
EncryptAccount(p, a) == IF a.lock = Clear THEN EncryptSecrets(p, a) ELSE a

(* Account.ToDict: a non-empty password encrypts the secrets that are in   *)
(* the clear; the other fields, channel keys included, are copied.         *)
ToDict(p, a) ==
    IF a.lock = Clear /\ p \notin {NoPassword, Blank} THEN EncryptSecrets(p, a) ELSE a

ToObject(m, p) == OnAccounts(m, LAMBDA a : ToDict(p, a))

(* Wallet.Save up to Storage.Write: the memory it leaves and its document. *)
SaveNeverResets(m, p) == FALSE  \* mutant: the preference outlives its password

SaveResets(m, p) == EncryptOnDisk(m) /\ p = NoPassword /\ ~Locked(m)

Saved(m, p) == IF SaveResets(m, p) THEN SetEncryptOnDisk(m, FALSE) ELSE m

SavedDocument(m, p) ==
    ToObject(Saved(m, p), IF EncryptOnDisk(m) THEN p ELSE NoPassword)

NewAccount(a) ==
    [id |-> a, lock |-> Clear, val |-> CHOOSE v \in Values : TRUE, mod |-> Now, keys |-> {}, gap |-> TRUE]

(* Account.Merge: settings by modification time, channel keys by union.    *)
MergeAccount(a, r) ==
    [a EXCEPT !.val = IF a.mod < r.mod THEN r.val ELSE @,
              !.gap = IF a.mod < r.mod THEN r.gap ELSE @,
              !.mod = IF a.mod < r.mod THEN r.mod ELSE @,
              !.keys = @ \union r.keys]

(* One record of Wallet.Merge: the first account with its id, or a new one.*)
MergeRecord(m, r) ==
    IF r.id \in Ids(m)
    THEN OnNth(m, r.id, 1, LAMBDA a : MergeAccount(a, r))
    ELSE [m EXCEPT !.accounts = Append(@, r)]

(* Mutant: an incoming entry of the same second is skipped as well.        *)
MergeLaterEntry(e, f) == IF f = NoEntry \/ (e # NoEntry /\ f.ts <= e.ts) THEN e ELSE f

(* TimestampedPreferences.Merge of one entry: an older one is skipped.     *)
MergeEntry(e, f) == IF f = NoEntry \/ (e # NoEntry /\ f.ts < e.ts) THEN e ELSE f

(* An entry that is new here comes after those that are not.               *)
MergePreferences(m, d) ==
    [m EXCEPT !.eod = MergeEntry(@, d.eod), !.note = MergeEntry(@, d.note),
              !.noteFirst = IF m.eod = NoEntry /\ m.note = NoEntry THEN d.noteFirst ELSE @]

(* Wallet.Merge stopping after the first n records of the document.        *)
MergeUpTo(m, d, n) ==
    LET merged[k \in 0..Len(d.accounts)] ==
          IF k = 0 THEN MergePreferences(m, d) ELSE MergeRecord(merged[k - 1], d.accounts[k])
    IN merged[n]

Merge(m, d) == MergeUpTo(m, d, Len(d.accounts))

(* The accounts sorted by identifier, as Wallet.Hash visits them.          *)
ById(m) == [a \in Ids(m) |-> SelectSeq(m.accounts, LAMBDA r : r.id = a)]

(* What Wallet.Hash covers of a wallet whose password is known: the        *)
(* preferences in the order in which they were inserted, and every account *)
(* without the values of its channel keys.                                 *)
Hash(m) == [eod |-> m.eod, note |-> m.note, noteFirst |-> m.noteFirst, accounts |-> ById(m)]

(* What has been synchronised is in the clear, since Pack refuses a locked *)
(* wallet; the wallets a daemon first starts from are in the clear or      *)
(* under one password, all of them that ask for encryption are encrypted.  *)
ASSUME SecretsAssumption ==
    /\ \A d \in Remotes : ~Locked(d)
    /\ \A d \in OnDisk \ {Missing} :
         /\ ~(Locked(d) /\ Exposed(d)) /\ ~(EncryptOnDisk(d) /\ Exposed(d))
         /\ Cardinality(LocksOf(d)) <= 1

EmptyWallet == [eod |-> NoEntry, note |-> NoEntry, noteFirst |-> FALSE, accounts |-> <<>>]

(* WalletStorage.Read accepts a JSON object and, without a file, answers   *)
(* with the default document; WalletFromStorage builds every account.      *)
Readable(d) == d # Torn

Load(d) == IF d = Missing THEN EmptyWallet ELSE d

(* WalletManagerFromLBRYNetConfig completes what it loaded: an empty       *)
(* wallet gets an account, a locked one gets the preference it lacks.      *)
Completed(m) ==
    LET filled == IF m.accounts = <<>> THEN [m EXCEPT !.accounts = <<NewAccount(FreshAccount)>>] ELSE m
    IN IF Locked(filled) /\ filled.eod = NoEntry THEN SetEncryptOnDisk(filled, TRUE) ELSE filled

-------------------------------------------------------------------------------
(* The file system under WalletStorage.                                    *)

(* What WalletStorage.Read finds at the wallet path.                       *)
Stored == disk.file

Saving(w) == writer[w].pc \in {"open", "write", "sync", "rename", "again"}

IdleWriter == [pc |-> "idle", fd |-> "none", doc |-> Missing, fresh |-> TRUE, todo |-> <<>>]

Init ==
    /\ up = "down"
    /\ mem = EmptyWallet
    /\ pw = NoPassword
    /\ writer = [w \in Writers |-> IdleWriter]
    /\ \E d \in OnDisk : disk = [file |-> d, tmp |-> Missing]
    /\ synced = Paths
    /\ requests = 0
    /\ faults = 0
    /\ dirty = FALSE
    /\ compromised = FALSE
    /\ lapsed = FALSE
    /\ foreign = FALSE
    /\ asked = FALSE
    /\ withdrawn = FALSE

-------------------------------------------------------------------------------
(* Saving.  A goroutine's todo lists the steps of its handler that remain. *)

MayFault == faults < MaxFaults /\ requests + faults < MaxEvents

(* Wallet.Save: build the document; the storage steps follow.              *)
BeginSave(w, m) ==
    /\ mem' = Saved(m, pw)
    /\ writer' = [o \in Writers |->
          IF o = w THEN [writer[w] EXCEPT !.pc = "open", !.todo = Tail(@), !.fresh = TRUE,
                                          !.doc = SavedDocument(m, pw)]
          ELSE [writer[o] EXCEPT !.fresh = FALSE]]
    /\ dirty' = TRUE
    /\ withdrawn' = (withdrawn \/ SaveResets(m, pw))

SkipStep(w) ==
    /\ writer' = [writer EXCEPT ![w].todo = Tail(@)]
    /\ UNCHANGED <<mem, dirty, withdrawn>>

HasLegacy(m, step) == \E i \in Nth(m, step.id, step.nth) : Legacy \in m.accounts[i].keys

GapStale(m, step) == \E i \in Nth(m, step.id, step.nth) : ~m.accounts[i].gap

DropLegacy(m, step) == OnNth(m, step.id, step.nth, LAMBDA r : [r EXCEPT !.keys = @ \ {Legacy}])

RaiseGap(m, step) == OnNth(m, step.id, step.nth, LAMBDA r : [r EXCEPT !.gap = TRUE])

Running(w) == writer[w].pc = "run" /\ writer[w].todo # <<>>

(* The unconditional Save at the end of a handler.                         *)
SaveStep(w) ==
    /\ Running(w)
    /\ Head(writer[w].todo).kind = "save"
    /\ BeginSave(w, mem)
    /\ UNCHANGED <<up, pw, files, budget, compromised, lapsed, foreign, asked>>

(* MigrateChannelKeys: saves only when some certificate is not current.    *)
MigrateChannelKeys(w) ==
    /\ Running(w)
    /\ Head(writer[w].todo).kind = "migrate"
    /\ LET step == Head(writer[w].todo)
       IN IF HasLegacy(mem, step) THEN BeginSave(w, DropLegacy(mem, step)) ELSE SkipStep(w)
    /\ UNCHANGED <<up, pw, files, budget, compromised, lapsed, foreign, asked>>

(* Mutant: the raised gap is left to the next save.                        *)
RaiseGapOnly(w) ==
    /\ Running(w)
    /\ Head(writer[w].todo).kind = "gap"
    /\ mem' = RaiseGap(mem, Head(writer[w].todo))
    /\ writer' = [writer EXCEPT ![w].todo = Tail(@)]
    /\ UNCHANGED <<up, pw, files, budget, history>>

(* SaveMaxGap: saves only when a gap differs from the observed one.        *)
SaveMaxGap(w) ==
    /\ Running(w)
    /\ Head(writer[w].todo).kind = "gap"
    /\ LET step == Head(writer[w].todo)
       IN IF GapStale(mem, step) THEN BeginSave(w, RaiseGap(mem, step)) ELSE SkipStep(w)
    /\ UNCHANGED <<up, pw, files, budget, compromised, lapsed, foreign, asked>>

(* sync_apply adopts a differing password when encryption on disk is asked *)
(* for by now, after the migrations, whose saves may have withdrawn it.    *)
Adopts(p) == EncryptOnDisk(mem) /\ pw # p

AdoptPassword(w) ==
    /\ Running(w)
    /\ Head(writer[w].todo).kind = "adopt"
    /\ \E p \in Typed :
         /\ p = Head(writer[w].todo).password
         /\ pw' = IF Adopts(p) THEN p ELSE pw
         /\ foreign' = (foreign \/ (Adopts(p) /\ Locked(mem)))
    /\ lapsed' = (lapsed \/ pw' = Blank)
    /\ writer' = [writer EXCEPT ![w].todo = Tail(@)]
    /\ UNCHANGED <<up, mem, files, budget, dirty, compromised, asked, withdrawn>>

(* A goroutine gives up; the daemon exits when this was its start.         *)
GiveUp(w) ==
    /\ writer' = IF up = "loading" THEN [o \in Writers |-> IdleWriter]
                 ELSE [writer EXCEPT ![w] = IdleWriter]
    /\ up' = IF up = "loading" THEN "down" ELSE up

(* The handler answers, or the startup goroutine ends.                     *)
Return(w) ==
    /\ writer[w].pc = "run"
    /\ writer[w].todo = <<>>
    /\ writer' = [writer EXCEPT ![w] = IdleWriter]
    /\ up' = IF w = "rpc" /\ up = "loading" THEN "up" ELSE up
    /\ UNCHANGED <<mem, pw, files, budget, history>>

(* Something else the handler calls fails (a PEM block, the address gap,   *)
(* the ledger database): the panic skips the saves that were still due.    *)
Fail(w) ==
    /\ Running(w)
    /\ MayFault
    /\ faults' = faults + 1
    /\ GiveUp(w)
    /\ UNCHANGED <<wallet, files, requests, history>>

(* os.OpenFile(temporary, O_CREATE|O_TRUNC): another save's temporary file *)
(* is emptied and shared.                                                  *)
OpenTemporary(w) ==
    /\ writer[w].pc = "open"
    /\ disk' = [disk EXCEPT !.tmp = Torn]
    /\ synced' = synced \ {"tmp"}
    /\ writer' = [writer EXCEPT ![w].pc = "write", ![w].fd = "tmp"]
    /\ compromised' = (compromised \/ \E o \in Writers \ {w} : Saving(o))
    /\ UNCHANGED <<up, wallet, budget, dirty, lapsed, foreign, asked, withdrawn>>

(* The write goes to the open file, wherever it is linked by now.          *)
WriteTemporary(w) ==
    /\ writer[w].pc = "write"
    /\ disk' = [f \in Paths |-> IF f = writer[w].fd THEN writer[w].doc ELSE disk[f]]
    /\ synced' = synced \ {writer[w].fd}
    /\ writer' = [writer EXCEPT ![w].pc = "sync"]
    /\ UNCHANGED <<up, wallet, budget, history>>

(* Mutant: the temporary file is closed without a sync.                    *)
CloseTemporary(w) ==
    /\ writer[w].pc = "sync"
    /\ writer' = [writer EXCEPT ![w].pc = "rename", ![w].fd = "none"]
    /\ UNCHANGED <<up, wallet, files, budget, history>>

(* temporary.Sync and temporary.Close.                                     *)
SyncTemporary(w) ==
    /\ writer[w].pc = "sync"
    /\ synced' = synced \union (Paths \cap {writer[w].fd})
    /\ writer' = [writer EXCEPT ![w].pc = "rename", ![w].fd = "none"]
    /\ UNCHANGED <<up, wallet, disk, budget, history>>

(* Open descriptors follow their file when it is renamed or unlinked.      *)
Moved(fd, renamed) ==
    CASE fd = "file" -> "unlinked"
      [] fd = "tmp" /\ renamed -> "file"
      [] OTHER -> fd

(* The save took effect (the chmod that follows only restores the mode).   *)
Renamed(w) ==
    /\ disk' = [file |-> disk.tmp, tmp |-> Missing]
    /\ synced' = IF "tmp" \in synced THEN Paths ELSE {"tmp"}
    /\ writer' = [o \in Writers |->
          IF o = w THEN [writer[w] EXCEPT !.pc = "run", !.doc = Missing]
          ELSE [writer[o] EXCEPT !.fd = Moved(@, TRUE)]]
    /\ dirty' = (dirty /\ ~writer[w].fresh)

Rename(w) ==
    /\ writer[w].pc = "rename"
    /\ disk.tmp # Missing
    /\ Renamed(w)
    /\ UNCHANGED <<up, wallet, budget, compromised, lapsed, foreign, asked, withdrawn>>

(* The rename failed: removeWalletFile unlinks the wallet and the rename   *)
(* is tried once more.  It fails because the file system refused it, or    *)
(* because another save renamed the temporary file away.                   *)
RenameFails(w) ==
    /\ writer[w].pc = "rename"
    /\ IF disk.tmp = Missing THEN faults' = faults
       ELSE MayFault /\ faults' = faults + 1
    /\ compromised' = TRUE
    /\ IF disk.file = Missing
       THEN /\ GiveUp(w)
            /\ UNCHANGED disk
       ELSE /\ disk' = [disk EXCEPT !.file = Missing]
            /\ writer' = [o \in Writers |->
                  IF o = w THEN [writer[w] EXCEPT !.pc = "again"]
                  ELSE [writer[o] EXCEPT !.fd = Moved(@, FALSE)]]
            /\ UNCHANGED up
    /\ UNCHANGED <<wallet, synced, requests, dirty, lapsed, foreign, asked, withdrawn>>

RenameAgain(w) ==
    /\ writer[w].pc = "again"
    /\ disk.tmp # Missing
    /\ Renamed(w)
    /\ UNCHANGED <<up, wallet, budget, compromised, lapsed, foreign, asked, withdrawn>>

(* Any other file operation of Write fails: the handler answers with the   *)
(* error, and the temporary file stays.                                    *)
SaveFails(w) ==
    /\ Saving(w)
    /\ IF writer[w].pc = "again" /\ disk.tmp = Missing THEN faults' = faults
       ELSE MayFault /\ faults' = faults + 1
    /\ GiveUp(w)
    /\ UNCHANGED <<wallet, files, requests, history>>

-------------------------------------------------------------------------------
(* Requests.  Each one holds walletMutationMu from here to its return.     *)

Serve(todo) ==
    /\ up = "up"
    /\ writer["rpc"].pc = "idle"
    /\ requests + faults < MaxEvents
    /\ requests' = requests + 1
    /\ writer' = [writer EXCEPT !["rpc"] = [IdleWriter EXCEPT !.pc = "run", !.todo = todo],
                                !["startup"].fresh = FALSE]
    /\ UNCHANGED <<up, files, faults, compromised>>

SaveOnly == <<[kind |-> "save"]>>

MigrateAll(ids) == [i \in DOMAIN ids |-> [kind |-> "migrate", id |-> ids[i], nth |-> 1]]

(* preference_set encrypt-on-disk.  Turned off while a locked wallet holds *)
(* an account that was added in the clear, it saves that account as it is. *)
PreferenceSet(v) ==
    /\ Serve(SaveOnly)
    /\ mem' = SetEncryptOnDisk(mem, v)
    /\ dirty' = TRUE
    /\ lapsed' = (lapsed \/ (~v /\ Locked(mem) /\ Exposed(mem)))
    /\ asked' = v
    /\ UNCHANGED <<pw, foreign, withdrawn>>

(* preference_set of any other key.                                        *)
PreferenceSetNote(v) ==
    /\ Serve(SaveOnly)
    /\ mem' = SetNote(mem, v)
    /\ dirty' = TRUE
    /\ UNCHANGED <<pw, lapsed, foreign, asked, withdrawn>>

WalletEncrypt(p) ==
    /\ p # Blank
    /\ ~Locked(mem)
    /\ Serve(SaveOnly)
    /\ pw' = p
    /\ mem' = SetEncryptOnDisk(mem, TRUE)
    /\ dirty' = TRUE
    /\ asked' = TRUE
    /\ UNCHANGED <<lapsed, foreign, withdrawn>>

WalletDecrypt ==
    /\ ~Locked(mem)
    /\ Serve(SaveOnly)
    /\ mem' = SetEncryptOnDisk(mem, FALSE)
    /\ dirty' = TRUE
    /\ asked' = FALSE
    /\ UNCHANGED <<pw, lapsed, foreign, withdrawn>>

(* Wallet.Lock encrypts in memory only; nothing is saved.                  *)
WalletLock ==
    /\ pw # NoPassword
    /\ Serve(<<>>)
    /\ mem' = OnAccounts(mem, LAMBDA a : EncryptAccount(pw, a))
    /\ UNCHANGED <<pw, dirty, lapsed, foreign, asked, withdrawn>>

(* Wallet.Unlock decrypts in order and stops at the first failure: a wrong *)
(* password, or (after the account was decrypted) its channel key cache.   *)
Opens(p, n) == \A i \in 1..n : mem.accounts[i].lock = Clear \/ Decrypts(p, mem.accounts[i])

OpenFirst(p, n) ==
    [mem EXCEPT !.accounts = [i \in DOMAIN @ |-> IF i <= n THEN [@[i] EXCEPT !.lock = Clear] ELSE @[i]]]

WalletUnlock(p) ==
    /\ Serve(<<>>)
    /\ \E n \in 0..Len(mem.accounts) :
         /\ Opens(p, n)
         /\ n < Len(mem.accounts) => ~Opens(p, n + 1)
         /\ mem' = OpenFirst(p, n)
         /\ pw' = IF n = Len(mem.accounts) THEN p ELSE pw
         /\ lapsed' = (lapsed \/ pw' = Blank \/ n \in 1..(Len(mem.accounts) - 1))
    /\ UNCHANGED <<dirty, foreign, asked, withdrawn>>

(* Unlock fails on the ledger database after decrypting account n.         *)
UnlockBreaks(p) ==
    /\ up = "up"
    /\ writer["rpc"].pc = "idle"
    /\ requests + faults + 2 <= MaxEvents /\ faults < MaxFaults
    /\ requests' = requests + 1
    /\ faults' = faults + 1
    /\ \E n \in 1..Len(mem.accounts) :
         /\ Opens(p, n)
         /\ mem.accounts[n].lock # Clear
         /\ mem' = OpenFirst(p, n)
    /\ lapsed' = TRUE
    /\ UNCHANGED <<up, pw, writer, files, dirty, compromised, foreign, asked, withdrawn>>

(* account_add and account_create: installAccount, then Save.  An account  *)
(* the wallet has already is added a second time.                          *)
AccountAdd(a) ==
    /\ Serve(SaveOnly)
    /\ mem' = [mem EXCEPT !.accounts = Append(@, NewAccount(a))]
    /\ dirty' = TRUE
    /\ lapsed' = (lapsed \/ (Locked(mem) /\ ~(EncryptOnDisk(mem) /\ pw # NoPassword)))
    /\ UNCHANGED <<pw, foreign, asked, withdrawn>>

(* Wallet.Account: the first account with the identifier.                  *)
Position(m, a) ==
    CHOOSE i \in DOMAIN m.accounts :
        m.accounts[i].id = a /\ \A j \in 1..(i - 1) : m.accounts[j].id # a

AccountRemove(a) ==
    /\ a \in Ids(mem)
    /\ Serve(SaveOnly)
    /\ mem' = [mem EXCEPT !.accounts = RemoveAt(@, Position(mem, a))]
    /\ dirty' = TRUE
    /\ UNCHANGED <<pw, lapsed, foreign, asked, withdrawn>>

(* account_set: new settings, stamped Now; the gap is the user's choice.   *)
AccountSet(a, v) ==
    /\ a \in Ids(mem)
    /\ Serve(SaveOnly)
    /\ mem' = OnNth(mem, a, 1, LAMBDA r : [r EXCEPT !.val = v, !.gap = FALSE, !.mod = Now])
    /\ dirty' = TRUE
    /\ UNCHANGED <<pw, lapsed, foreign, asked, withdrawn>>

(* account_set --default: the account moves to the front.                  *)
AccountSetDefault(a) ==
    /\ a \in Ids(mem) /\ mem.accounts[1].id # a
    /\ Serve(SaveOnly)
    /\ LET i == Position(mem, a)
       IN mem' = [mem EXCEPT !.accounts = <<[@[i] EXCEPT !.mod = Now]>> \o RemoveAt(@, i)]
    /\ dirty' = TRUE
    /\ UNCHANGED <<pw, lapsed, foreign, asked, withdrawn>>

(* The migrations of wallet_import and sync_apply: the accounts a merge    *)
(* adds before the ones it merges.                                         *)
Migrations(m, d) ==
    LET ids == [i \in DOMAIN d.accounts |-> d.accounts[i].id]
    IN MigrateAll(SelectSeq(ids, LAMBDA a : a \notin Ids(m)) \o SelectSeq(ids, LAMBDA a : a \in Ids(m)))

(* wallet_import of a document that decrypts and merges completely.        *)
WalletImport(d) ==
    /\ ~Locked(mem)
    /\ Serve(Migrations(mem, d) \o SaveOnly)
    /\ mem' = Merge(mem, d)
    /\ dirty' = TRUE
    /\ asked' = EncryptOnDisk(mem')
    /\ UNCHANGED <<pw, lapsed, foreign, withdrawn>>

(* wallet_import or sync_apply of a document with a bad record: the merge  *)
(* keeps what it did before that record and nothing is saved.              *)
MergeFails(d) ==
    /\ ~Locked(mem)
    /\ Serve(<<>>)
    /\ \E n \in 0..(Len(d.accounts) - 1) : mem' = MergeUpTo(mem, d, n)
    /\ dirty' = TRUE
    /\ asked' = EncryptOnDisk(mem')
    /\ UNCHANGED <<pw, lapsed, foreign, withdrawn>>

(* sync_apply of a document: the migrations save with the password the     *)
(* wallet had; the one that came with the document is adopted after them.  *)
SyncApply(p, d) ==
    /\ ~Locked(mem)
    /\ Serve(Migrations(mem, d) \o <<[kind |-> "adopt", password |-> p]>> \o SaveOnly)
    /\ mem' = Merge(mem, d)
    /\ dirty' = TRUE
    /\ asked' = EncryptOnDisk(mem')
    /\ UNCHANGED <<pw, lapsed, foreign, withdrawn>>

(* sync_apply without a document adopts a password also for a locked       *)
(* wallet, and saves only if it did; Pack then refuses a locked wallet.    *)
SyncHeartbeat(p) ==
    /\ Serve(IF Adopts(p) THEN SaveOnly ELSE <<>>)
    /\ pw' = IF Adopts(p) THEN p ELSE pw
    /\ foreign' = (foreign \/ (Adopts(p) /\ Locked(mem)))
    /\ lapsed' = (lapsed \/ pw' = Blank)
    /\ UNCHANGED <<mem, dirty, asked, withdrawn>>

-------------------------------------------------------------------------------
(* Starting and dying.                                                     *)

(* Load the wallet and save it if it had to be completed, before anything  *)
(* else runs.                                                              *)
Start ==
    /\ up = "down"
    /\ Readable(Stored)
    /\ LET loaded == Load(Stored)
           completed == Completed(loaded)
       IN /\ mem' = completed
          /\ writer' = [rpc |-> [IdleWriter EXCEPT !.pc = "run",
                                    !.todo = IF completed # loaded THEN SaveOnly ELSE <<>>],
                        startup |-> [IdleWriter EXCEPT !.pc = "waiting"]]
          /\ dirty' = (completed # loaded)
          /\ asked' = EncryptOnDisk(completed)
    /\ up' = "loading"
    /\ pw' = NoPassword
    /\ disk' = [disk EXCEPT !.tmp = Missing]
    /\ UNCHANGED <<synced, budget, compromised, lapsed, foreign, withdrawn>>

(* The document is not JSON: the daemon does not start.                    *)
StartRefused ==
    /\ up = "down"
    /\ ~Readable(Stored)
    /\ up' = "refused"
    /\ UNCHANGED <<wallet, writer, files, budget, history>>

(* The ledger is ready: CompleteStartup walks the accounts.                *)
StartupSteps(m) ==
    FlattenSeq([i \in DOMAIN m.accounts |->
        LET a == m.accounts[i].id
            nth == Cardinality({j \in 1..i : m.accounts[j].id = a})
        IN <<[kind |-> "migrate", id |-> a, nth |-> nth], [kind |-> "gap", id |-> a, nth |-> nth]>>])

CompleteStartup ==
    /\ up = "up"
    /\ writer["startup"].pc = "waiting"
    /\ writer' = [writer EXCEPT !["startup"].pc = "run", !["startup"].todo = StartupSteps(mem)]
    /\ UNCHANGED <<up, wallet, files, budget, history>>

(* The process dies.  Contents that were not synced may be lost with it;   *)
(* the next process uses another temporary name.                           *)
Crash ==
    /\ up \in {"loading", "up"}
    /\ MayFault
    /\ faults' = faults + 1
    /\ up' = "down"
    /\ mem' = EmptyWallet
    /\ pw' = NoPassword
    /\ writer' = [w \in Writers |-> IdleWriter]
    /\ \E content \in {disk.file} \union (IF "file" \in synced THEN {} ELSE {Torn}) :
         disk' = [file |-> content, tmp |-> Missing]
    /\ synced' = Paths
    /\ dirty' = FALSE
    /\ asked' = FALSE
    /\ UNCHANGED <<requests, compromised, lapsed, foreign, withdrawn>>

Next ==
    \/ \E w \in Writers :
         \/ SaveStep(w) \/ MigrateChannelKeys(w) \/ SaveMaxGap(w) \/ AdoptPassword(w)
         \/ Return(w) \/ Fail(w)
         \/ OpenTemporary(w) \/ WriteTemporary(w) \/ SyncTemporary(w)
         \/ Rename(w) \/ RenameFails(w) \/ RenameAgain(w) \/ SaveFails(w)
    \/ \E v \in BOOLEAN : PreferenceSet(v) \/ PreferenceSetNote(v)
    \/ \E p \in Passwords : WalletEncrypt(p)
    \/ WalletDecrypt
    \/ WalletLock
    \/ \E p \in Typed : WalletUnlock(p) \/ UnlockBreaks(p) \/ SyncHeartbeat(p)
    \/ \E a \in Accounts : AccountAdd(a) \/ AccountRemove(a) \/ AccountSetDefault(a)
    \/ \E a \in Accounts, v \in Values : AccountSet(a, v)
    \/ \E d \in Delivered : WalletImport(d) \/ MergeFails(d) \/ \E p \in Typed : SyncApply(p, d)
    \/ Start
    \/ StartRefused
    \/ CompleteStartup
    \/ Crash

Spec == Init /\ [][Next]_vars

-------------------------------------------------------------------------------
(* Properties.                                                             *)

Quiet ==
    /\ up = "up"
    /\ writer["rpc"].pc = "idle"
    /\ ~Saving("startup")

Content(m) == OnAccounts(m, LAMBDA a : [a EXCEPT !.lock = Clear])

(* Once every request has answered and no save failed or shared the        *)
(* temporary file, the document on disk has every account, setting,        *)
(* channel key and preference that is in memory.                           *)
SavedMatchesMemory ==
    Quiet /\ ~dirty /\ ~compromised => Stored \notin {Missing, Torn} /\ Content(Stored) = Content(mem)

IsDocument(d) == d \notin {Missing, Torn}

(* A document that asks for encryption on disk holds no secret in the      *)
(* clear, unless one of five things happened first: an account was added   *)
(* to a locked wallet whose saves do not encrypt, the preference was       *)
(* turned off over such an account, an unlock stopped half-way, or the     *)
(* empty password was adopted by an unlock or a sync.                      *)
ClearSecretsNeedLapse ==
    IsDocument(Stored) /\ EncryptOnDisk(Stored) /\ ~lapsed =>
        \A i \in DOMAIN Stored.accounts : Stored.accounts[i].lock # Clear

(* One password opens the whole wallet, in memory and after a restart,     *)
(* unless sync_apply gave a locked wallet another password.                *)
OnePassword ==
    ~foreign => /\ Cardinality(LocksOf(mem)) <= 1
                /\ IsDocument(Stored) => Cardinality(LocksOf(Stored)) <= 1

(* The sixth lapse: a save that finds no password turns the preference off *)
(* and writes the secrets in the clear (withdrawn).  It happens to         *)
(* preference_set on its own, and to sync_apply when it is asked to        *)
(* encrypt and a migration, or the startup, saves before the password is   *)
(* adopted.  Without it, encryption that was asked for is on disk once     *)
(* every request has answered.                                             *)
EncryptionKept ==
    Quiet /\ asked /\ ~dirty /\ ~compromised /\ ~withdrawn =>
        IsDocument(Stored) /\ EncryptOnDisk(Stored)

(* Two devices changed the same account in the same second, differently.   *)
Tied(m, d) ==
    \E i \in DOMAIN m.accounts, j \in DOMAIN d.accounts :
        LET a == m.accounts[i]  b == d.accounts[j]
        IN a.id = b.id /\ a.mod = b.mod /\ <<a.val, a.gap>> # <<b.val, b.gap>>

(* No account is there twice.                                              *)
Distinct(m) == Cardinality(Ids(m)) = Len(m.accounts)

(* The preferences of one wallet were inserted in the order of the other's.*)
SameOrder(m, d) ==
    \/ m.noteFirst = d.noteFirst
    \/ \E x \in {m, d} : x.eod = NoEntry /\ x.note = NoEntry

(* A round of synchronisation, in which this wallet merges the other       *)
(* device's document and that device merges the answer, ends with the same *)
(* preferences and accounts, unless an account was changed on both in the  *)
(* same second or is in this wallet twice.  The hashes sync_hash compares  *)
(* agree only if the preferences were inserted in the same order as well.  *)
(* Applying the same document again changes nothing.                       *)
SyncConverges ==
    Quiet /\ ~Locked(mem) =>
        \A d \in Remotes :
            LET answer == Merge(mem, d)
                back == Merge(d, answer)
            IN /\ ~Tied(mem, d) /\ Distinct(mem) =>
                    /\ [Hash(back) EXCEPT !.noteFirst = FALSE] = [Hash(answer) EXCEPT !.noteFirst = FALSE]
                    /\ Hash(back) = Hash(answer) <=> SameOrder(mem, d)
               /\ Hash(Merge(answer, d)) = Hash(answer)

Store == INSTANCE WalletStore
            WITH stored <- Stored,
                 offered <- {writer[w].doc : w \in {o \in Writers : Saving(o)}}

(* The file operations implement the atomic store: what a restart reads    *)
(* changes only to the whole document of a running save, at one instant.   *)
AtomicStore == Store!StoreSpec

(* The wallet's secrets stay behind its one password, outside six lapses.  *)
SecretsGuarded == ClearSecretsNeedLapse /\ OnePassword /\ EncryptionKept
===============================================================================
