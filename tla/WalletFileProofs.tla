-------------------------- MODULE WalletFileProofs --------------------------
(***************************************************************************)
(* Three results about WalletFile, for any accounts, passwords, documents  *)
(* and bounds.  The file operations of two concurrent saves, with failures *)
(* and crashes between any two of them, implement WalletStore: they        *)
(* replace the wallet document at one instant, unless the store is         *)
(* compromised.  Here documents are not looked into; what matters is which *)
(* goroutine owns the temporary file and whether it is synced.             *)
(*                                                                         *)
(* The secrets stay behind the wallet's one password, and what no save has *)
(* still to write is on disk.  Here every request is classified by what it *)
(* does to the locks of the accounts, to the content of the wallet, and to *)
(* the saves that run.                                                     *)
(***************************************************************************)
EXTENDS WalletFile, FiniteSetTheorems, WellFoundedInduction, TLAPS

Phase == {"idle", "waiting", "run", "open", "write", "sync", "rename", "again"}
Descriptor == {"none", "file", "tmp", "unlinked"}

\* A goroutine's record, whatever its document and its steps.
WriterRecord(doc, todo) ==
    [pc : Phase, fd : Descriptor, doc : {doc}, fresh : BOOLEAN, todo : {todo}]

WritersTyped ==
    /\ writer = [w \in Writers |-> writer[w]]
    /\ \A w \in Writers : writer[w] \in WriterRecord(writer[w].doc, writer[w].todo)

FilesTyped == disk \in [file : {disk.file}, tmp : {disk.tmp}] /\ synced \subseteq Paths

TypeOK == WritersTyped /\ FilesTyped

\* The save has the temporary file and has not renamed it yet.
Owns(w) == writer[w].pc \in {"write", "sync", "rename"}

\* What the owner of the temporary file has done with it.
TemporaryOf(w) ==
    /\ writer[w].pc \in {"write", "sync"} => writer[w].fd = "tmp"
    /\ writer[w].pc \in {"sync", "rename"} => disk.tmp = writer[w].doc
    /\ writer[w].pc = "rename" => "tmp" \in synced

\* As long as the store is not compromised, the wallet file is on stable storage and one
\* save at a time owns the temporary file.
OwnerInv ==
    ~compromised =>
        /\ "file" \in synced
        /\ \A w \in Writers : writer[w].pc # "again" /\ TemporaryOf(w)
        /\ \A w, o \in Writers : Owns(w) /\ Owns(o) => w = o

IndInv == TypeOK /\ OwnerInv

\* The phase, the open file and the document of a goroutine stay as they are.
Same(w) ==
    writer'[w].pc = writer[w].pc /\ writer'[w].fd = writer[w].fd /\ writer'[w].doc = writer[w].doc

\* A step that touches no file: goroutines go on or end, or a save begins.
Calm == UNCHANGED <<disk, synced, compromised>> /\ WritersTyped'
Ends == Calm /\ \A w \in Writers : Same(w) \/ writer'[w].pc \in {"idle", "waiting", "run"}
Begins(w) ==
    /\ Calm
    /\ writer[w].pc = "run" /\ writer'[w].pc = "open"
    /\ \A o \in Writers \ {w} : Same(o)

\* Wallet.Save begins a save of its goroutine and touches no other's phase, file or document.
LEMMA BeginSaveEffect ==
  ASSUME WritersTyped, NEW w \in Writers, NEW m, BeginSave(w, m), writer[w].pc = "run",
         UNCHANGED <<disk, synced, compromised>>
  PROVE  Begins(w)
<1>1. /\ writer' = [o \in Writers |-> writer'[o]]
      /\ writer'[w] = [writer[w] EXCEPT !.pc = "open", !.todo = Tail(writer[w].todo),
                                        !.fresh = TRUE, !.doc = SavedDocument(m, pw)]
      /\ \A o \in Writers \ {w} : writer'[o] = [writer[o] EXCEPT !.fresh = FALSE]
  BY DEF BeginSave
<1>2. \A o \in Writers : writer[o] \in WriterRecord(writer[o].doc, writer[o].todo)
  BY DEF WritersTyped
<1>3. writer'[w].pc = "open" /\ writer'[w] \in WriterRecord(writer'[w].doc, writer'[w].todo)
  BY <1>1, <1>2 DEF WriterRecord, Phase
<1>4. ASSUME NEW o \in Writers \ {w}
      PROVE  Same(o) /\ writer'[o] \in WriterRecord(writer'[o].doc, writer'[o].todo)
  <2>1. writer'[o] = [writer[o] EXCEPT !.fresh = FALSE]
    BY <1>1
  <2>2. writer[o] \in WriterRecord(writer[o].doc, writer[o].todo)
    BY <1>2
  <2> QED
    BY <2>1, <2>2 DEF WriterRecord, Same
<1> QED
  BY <1>1, <1>3, <1>4 DEF Begins, Calm, WritersTyped

\* A writer that is idle, begins or waits has the type of a writer.
LEMMA IdleTyped ==
  /\ IdleWriter.pc = "idle" /\ IdleWriter \in WriterRecord(IdleWriter.doc, IdleWriter.todo)
  /\ \A todo : LET r == [IdleWriter EXCEPT !.pc = "run", !.todo = todo]
               IN r.pc = "run" /\ r \in WriterRecord(r.doc, r.todo)
  /\ LET r == [IdleWriter EXCEPT !.pc = "waiting"]
     IN r.pc = "waiting" /\ r \in WriterRecord(r.doc, r.todo)
  BY DEF IdleWriter, WriterRecord, Phase, Descriptor

\* A writer that gives up, or returns, leaves the files alone.
LEMMA GiveUpEffect ==
  ASSUME WritersTyped, NEW w \in Writers, UNCHANGED <<disk, synced, compromised>>,
         GiveUp(w) \/ writer' = [writer EXCEPT ![w] = IdleWriter]
  PROVE  Ends
<1>1. CASE writer' = [o \in Writers |-> IdleWriter]
  BY <1>1, IdleTyped DEF Ends, Calm, WritersTyped
<1>2. CASE writer' = [writer EXCEPT ![w] = IdleWriter]
  BY <1>2, IdleTyped DEF Ends, Calm, WritersTyped, Same
<1> QED
  BY <1>1, <1>2 DEF GiveUp

\* So does a step that saves nothing and goes on to the next.
LEMMA AdvanceEffect ==
  ASSUME WritersTyped, NEW w \in Writers, writer' = [writer EXCEPT ![w].todo = Tail(@)],
         UNCHANGED <<disk, synced, compromised>>
  PROVE  Ends
<1>1. writer' = [writer EXCEPT ![w] = [writer[w] EXCEPT !.todo = Tail(writer[w].todo)]]
  BY DEF WritersTyped
<1>2. /\ writer' = [o \in Writers |-> writer'[o]]
      /\ \A o \in Writers \ {w} : writer'[o] = writer[o]
      /\ writer'[w] = [writer[w] EXCEPT !.todo = Tail(writer[w].todo)]
      /\ writer[w] \in WriterRecord(writer[w].doc, writer[w].todo)
  BY <1>1 DEF WritersTyped
<1>3. Same(w) /\ writer'[w] \in WriterRecord(writer'[w].doc, writer'[w].todo)
  BY <1>2 DEF WriterRecord, Same
<1> QED
  BY <1>2, <1>3 DEF Ends, Calm, WritersTyped, Same

\* A request starts the goroutine of the wallet RPCs and leaves the files alone.
LEMMA ServeEffect ==
  ASSUME WritersTyped, NEW todo, Serve(todo)
  PROVE  Ends
<1> DEFINE r == [IdleWriter EXCEPT !.pc = "run", !.todo = todo]
           s == [writer["startup"] EXCEPT !.fresh = FALSE]
<1>1. "rpc" \in Writers /\ "startup" \in Writers /\ \A w \in Writers : w = "rpc" \/ w = "startup"
  BY DEF Writers
<1>2. /\ writer' = [w \in Writers |-> IF w = "rpc" THEN r ELSE s]
      /\ UNCHANGED <<disk, synced, compromised>>
  BY <1>1 DEF Serve, files, WritersTyped
<1>3. r.pc = "run" /\ r \in WriterRecord(r.doc, r.todo)
  BY IdleTyped
<1>4. writer["startup"] \in WriterRecord(writer["startup"].doc, writer["startup"].todo)
  BY <1>1 DEF WritersTyped
<1>5. /\ s.pc = writer["startup"].pc /\ s.fd = writer["startup"].fd /\ s.doc = writer["startup"].doc
      /\ s \in WriterRecord(s.doc, s.todo)
  BY <1>4 DEF WriterRecord
<1> HIDE DEF r, s
<1> QED
  BY <1>1, <1>2, <1>3, <1>5 DEF Ends, Calm, WritersTyped, Same

\* The steps of the wallet, by what they do to its files.
LEMMA StepKinds ==
  ASSUME TypeOK, [Next]_vars
  PROVE  \/ Ends
         \/ \E w \in Writers : \/ Begins(w) \/ OpenTemporary(w) \/ WriteTemporary(w) \/ SyncTemporary(w)
                               \/ Rename(w) \/ RenameFails(w) \/ RenameAgain(w)
         \/ Start \/ Crash
<1> USE DEF TypeOK
<1>1. ASSUME NEW w \in Writers, SaveStep(w) PROVE Ends \/ \E x \in Writers : Begins(x)
  BY <1>1, BeginSaveEffect DEF SaveStep, Running, files
<1>2. ASSUME NEW w \in Writers, MigrateChannelKeys(w) PROVE Ends \/ \E x \in Writers : Begins(x)
  BY <1>2, BeginSaveEffect, AdvanceEffect DEF SkipStep, MigrateChannelKeys, Running, files
<1>3. ASSUME NEW w \in Writers, SaveMaxGap(w) PROVE Ends \/ \E x \in Writers : Begins(x)
  BY <1>3, BeginSaveEffect, AdvanceEffect DEF SkipStep, SaveMaxGap, Running, files
<1>4. ASSUME NEW w \in Writers, Return(w) PROVE Ends \/ \E x \in Writers : Begins(x)
  BY <1>4, GiveUpEffect DEF Return, files, history
<1>5. ASSUME NEW w \in Writers, Fail(w) PROVE Ends \/ \E x \in Writers : Begins(x)
  BY <1>5, GiveUpEffect DEF Fail, files, history
<1>6. ASSUME NEW w \in Writers, SaveFails(w) PROVE Ends \/ \E x \in Writers : Begins(x)
  BY <1>6, GiveUpEffect DEF SaveFails, files, history
<1>7. ASSUME NEW v \in BOOLEAN, PreferenceSet(v) PROVE Ends \/ \E x \in Writers : Begins(x)
  BY <1>7, ServeEffect DEF PreferenceSet
<1>24. ASSUME NEW v \in BOOLEAN, PreferenceSetNote(v) PROVE Ends \/ \E x \in Writers : Begins(x)
  BY <1>24, ServeEffect DEF PreferenceSetNote
<1>25. ASSUME NEW w \in Writers, AdoptPassword(w) PROVE Ends \/ \E x \in Writers : Begins(x)
  BY <1>25, AdvanceEffect DEF AdoptPassword, files
<1>8. ASSUME NEW p \in Passwords, WalletEncrypt(p) PROVE Ends \/ \E x \in Writers : Begins(x)
  BY <1>8, ServeEffect DEF WalletEncrypt
<1>9. CASE WalletDecrypt
  BY <1>9, ServeEffect DEF WalletDecrypt
<1>10. CASE WalletLock
  BY <1>10, ServeEffect DEF WalletLock
<1>11. ASSUME NEW p \in Typed, WalletUnlock(p) PROVE Ends \/ \E x \in Writers : Begins(x)
  BY <1>11, ServeEffect DEF WalletUnlock
<1>12. ASSUME NEW p \in Typed, SyncHeartbeat(p) PROVE Ends \/ \E x \in Writers : Begins(x)
  BY <1>12, ServeEffect DEF SyncHeartbeat
<1>13. ASSUME NEW a \in Accounts, AccountAdd(a) PROVE Ends \/ \E x \in Writers : Begins(x)
  BY <1>13, ServeEffect DEF AccountAdd
<1>14. ASSUME NEW a \in Accounts, AccountRemove(a) PROVE Ends \/ \E x \in Writers : Begins(x)
  BY <1>14, ServeEffect DEF AccountRemove
<1>15. ASSUME NEW a \in Accounts, AccountSetDefault(a) PROVE Ends \/ \E x \in Writers : Begins(x)
  BY <1>15, ServeEffect DEF AccountSetDefault
<1>16. ASSUME NEW a \in Accounts, NEW v \in Values, AccountSet(a, v) PROVE Ends \/ \E x \in Writers : Begins(x)
  BY <1>16, ServeEffect DEF AccountSet
<1>17. ASSUME NEW d \in Delivered, WalletImport(d) PROVE Ends \/ \E x \in Writers : Begins(x)
  BY <1>17, ServeEffect DEF WalletImport
<1>18. ASSUME NEW d \in Delivered, MergeFails(d) PROVE Ends \/ \E x \in Writers : Begins(x)
  BY <1>18, ServeEffect DEF MergeFails
<1>19. ASSUME NEW p \in Typed, NEW d \in Delivered, SyncApply(p, d) PROVE Ends \/ \E x \in Writers : Begins(x)
  BY <1>19, ServeEffect DEF SyncApply
<1>20. ASSUME NEW p \in Typed, UnlockBreaks(p) PROVE Ends \/ \E x \in Writers : Begins(x)
  BY <1>20 DEF UnlockBreaks, files, Ends, Calm, WritersTyped, Same
<1>21. CASE StartRefused
  BY <1>21 DEF StartRefused, files, history, Ends, Calm, WritersTyped, Same
<1>22. CASE CompleteStartup
  <2> DEFINE s == [writer["startup"] EXCEPT !.pc = "run", !.todo = StartupSteps(mem)]
  <2>1. "startup" \in Writers
    BY DEF Writers
  <2>2. writer' = [writer EXCEPT !["startup"] = s] /\ UNCHANGED <<disk, synced, compromised>>
    BY <1>22, <2>1 DEF CompleteStartup, files, history, WritersTyped
  <2>3. writer["startup"] \in WriterRecord(writer["startup"].doc, writer["startup"].todo)
    BY <2>1 DEF WritersTyped
  <2>4. s.pc = "run" /\ s \in WriterRecord(s.doc, s.todo)
    BY <2>3 DEF WriterRecord, Phase
  <2> HIDE DEF s
  <2> QED
    BY <2>1, <2>2, <2>4 DEF Ends, Calm, WritersTyped, Same
<1>23. CASE UNCHANGED vars
  BY <1>23 DEF vars, Ends, Calm, WritersTyped, Same
<1> QED
  BY <1>1, <1>2, <1>3, <1>4, <1>5, <1>6, <1>7, <1>8, <1>9, <1>10, <1>11, <1>12, <1>13, <1>14,
     <1>15, <1>16, <1>17, <1>18, <1>19, <1>20, <1>21, <1>22, <1>23, <1>24,
     <1>25 DEF Next

\* Calm steps keep the owner of the temporary file, and are offers to the store.
LEMMA CalmStep ==
  ASSUME IndInv, Ends \/ \E w \in Writers : Begins(w)
  PROVE  IndInv' /\ (compromised' \/ Store!Offer)
<1>1. TypeOK' /\ Calm
  BY DEF IndInv, TypeOK, FilesTyped, Ends, Begins, Calm
<1>2. \A w \in Writers : \/ Same(w)
                         \/ writer'[w].pc \in {"idle", "waiting", "run"}
                         \/ writer'[w].pc = "open"
  BY DEF Ends, Begins
<1>3. OwnerInv'
  BY <1>1, <1>2 DEF IndInv, OwnerInv, Owns, TemporaryOf, Calm, Same
<1>4. ASSUME Ends PROVE Store!Offer
  <2>1. \A w \in Writers : Saving(w)' => Saving(w) /\ writer'[w].doc = writer[w].doc
    BY <1>4 DEF Ends, Same, Saving
  <2>2. UNCHANGED disk
    BY <1>1 DEF Calm
  <2> QED
    BY <2>1, <2>2 DEF Store!Offer, Stored, Saving
<1>5. ASSUME NEW v \in Writers, Begins(v) PROVE Store!Offer
  <2>1. \A w \in Writers : Saving(w) => Saving(w)' /\ writer'[w].doc = writer[w].doc
    BY <1>5 DEF Begins, Same, Saving
  <2>2. UNCHANGED disk
    BY <1>1 DEF Calm
  <2> QED
    BY <2>1, <2>2 DEF Store!Offer, Stored, Saving
<1> QED
  BY <1>1, <1>3, <1>4, <1>5 DEF IndInv

\* OpenFile truncates the temporary file, and finds no other save when nothing is wrong.
LEMMA OpenStep ==
  ASSUME IndInv, NEW w \in Writers, OpenTemporary(w)
  PROVE  IndInv' /\ (compromised' \/ Store!Offer)
<1>1. /\ writer' = [writer EXCEPT ![w] = [writer[w] EXCEPT !.pc = "write", !.fd = "tmp"]]
      /\ writer[w].pc = "open"
  BY DEF OpenTemporary, IndInv, TypeOK, WritersTyped
<1>2. /\ writer' = [o \in Writers |-> writer'[o]]
      /\ \A o \in Writers \ {w} : writer'[o] = writer[o]
      /\ writer'[w] = [writer[w] EXCEPT !.pc = "write", !.fd = "tmp"]
      /\ writer[w] \in WriterRecord(writer[w].doc, writer[w].todo)
  BY <1>1 DEF IndInv, TypeOK, WritersTyped
<1>3. /\ writer'[w].pc = "write" /\ writer'[w].fd = "tmp" /\ writer'[w].doc = writer[w].doc
      /\ writer'[w] \in WriterRecord(writer'[w].doc, writer'[w].todo)
  BY <1>2 DEF WriterRecord, Phase, Descriptor
<1>4. disk' = [disk EXCEPT !.tmp = Torn] /\ synced' = synced \ {"tmp"}
  BY DEF OpenTemporary
<1>5. TypeOK'
  BY <1>2, <1>3, <1>4 DEF IndInv, TypeOK, WritersTyped, FilesTyped
<1>6. disk'.file = disk.file
  BY <1>4 DEF IndInv, TypeOK, FilesTyped
<1>7. ~compromised' => ~compromised /\ \A o \in Writers \ {w} : ~Saving(o)
  BY DEF OpenTemporary
<1>8. OwnerInv'
  <2>1. ~compromised' => \A o \in Writers \ {w} : writer'[o].pc \in {"idle", "waiting", "run"}
    <3>1. \A o \in Writers : writer[o].pc \in Phase
      BY DEF IndInv, TypeOK, WritersTyped, WriterRecord
    <3> QED
      BY <1>2, <1>7, <3>1 DEF Saving, Phase
  <2>2. ~compromised' => "file" \in synced'
    BY <1>4, <1>7 DEF IndInv, OwnerInv
  <2> QED
    BY <1>3, <2>1, <2>2 DEF OwnerInv, Owns, TemporaryOf
<1>9. Store!Offer
  BY <1>1, <1>2, <1>3, <1>6 DEF Store!Offer, Stored, Saving
<1> QED
  BY <1>5, <1>8, <1>9 DEF IndInv

\* The write goes to the temporary file, which is the writer's own.
LEMMA WriteStep ==
  ASSUME IndInv, NEW w \in Writers, WriteTemporary(w)
  PROVE  IndInv' /\ (compromised' \/ Store!Offer)
<1>1. /\ writer' = [writer EXCEPT ![w] = [writer[w] EXCEPT !.pc = "sync"]]
      /\ writer[w].pc = "write" /\ UNCHANGED compromised
  BY DEF WriteTemporary, IndInv, TypeOK, WritersTyped, history
<1>2. /\ writer' = [o \in Writers |-> writer'[o]]
      /\ \A o \in Writers \ {w} : writer'[o] = writer[o]
      /\ writer'[w] = [writer[w] EXCEPT !.pc = "sync"]
      /\ writer[w] \in WriterRecord(writer[w].doc, writer[w].todo)
  BY <1>1 DEF IndInv, TypeOK, WritersTyped
<1>3. /\ writer'[w].pc = "sync" /\ writer'[w].fd = writer[w].fd /\ writer'[w].doc = writer[w].doc
      /\ writer'[w] \in WriterRecord(writer'[w].doc, writer'[w].todo)
  BY <1>2 DEF WriterRecord, Phase, Descriptor
<1>4. /\ disk' = [f \in Paths |-> IF f = writer[w].fd THEN writer[w].doc ELSE disk[f]]
      /\ synced' = synced \ {writer[w].fd}
  BY DEF WriteTemporary
<1>5. TypeOK'
  <2>1. disk' \in [file : {disk'.file}, tmp : {disk'.tmp}]
    BY <1>4 DEF Paths
  <2> QED
    BY <1>2, <1>3, <1>4, <2>1 DEF IndInv, TypeOK, WritersTyped, FilesTyped
<1>6. ~compromised => writer[w].fd = "tmp" /\ disk'.file = disk.file /\ disk'.tmp = writer[w].doc
  BY <1>1, <1>4 DEF IndInv, OwnerInv, TemporaryOf, TypeOK, FilesTyped, Paths
<1>7. OwnerInv'
  BY <1>1, <1>2, <1>3, <1>4, <1>6 DEF IndInv, OwnerInv, Owns, TemporaryOf
<1>8. compromised \/ Store!Offer
  BY <1>1, <1>2, <1>3, <1>6 DEF Store!Offer, Stored, Saving
<1> QED
  BY <1>1, <1>5, <1>7, <1>8 DEF IndInv

\* Sync and Close: the document is on stable storage before the rename.
LEMMA SyncStep ==
  ASSUME IndInv, NEW w \in Writers, SyncTemporary(w)
  PROVE  IndInv' /\ (compromised' \/ Store!Offer)
<1>1. /\ writer' = [writer EXCEPT ![w] = [writer[w] EXCEPT !.pc = "rename", !.fd = "none"]]
      /\ writer[w].pc = "sync" /\ UNCHANGED <<disk, compromised>>
  BY DEF SyncTemporary, IndInv, TypeOK, WritersTyped, history
<1>2. /\ writer' = [o \in Writers |-> writer'[o]]
      /\ \A o \in Writers \ {w} : writer'[o] = writer[o]
      /\ writer'[w] = [writer[w] EXCEPT !.pc = "rename", !.fd = "none"]
      /\ writer[w] \in WriterRecord(writer[w].doc, writer[w].todo)
  BY <1>1 DEF IndInv, TypeOK, WritersTyped
<1>3. /\ writer'[w].pc = "rename" /\ writer'[w].doc = writer[w].doc
      /\ writer'[w] \in WriterRecord(writer'[w].doc, writer'[w].todo)
  BY <1>2 DEF WriterRecord, Phase, Descriptor
<1>4. synced' = synced \cup (Paths \cap {writer[w].fd})
  BY DEF SyncTemporary
<1>5. TypeOK'
  BY <1>1, <1>2, <1>3, <1>4 DEF IndInv, TypeOK, WritersTyped, FilesTyped
<1>6. ~compromised => "tmp" \in synced' /\ disk.tmp = writer[w].doc
  BY <1>1, <1>4 DEF IndInv, OwnerInv, TemporaryOf, Paths
<1>7. OwnerInv'
  BY <1>1, <1>2, <1>3, <1>4, <1>6 DEF IndInv, OwnerInv, Owns, TemporaryOf
<1>8. Store!Offer
  BY <1>1, <1>2, <1>3 DEF Store!Offer, Stored, Saving
<1> QED
  BY <1>1, <1>5, <1>7, <1>8 DEF IndInv

\* What a successful rename does to the goroutines and to the files.
LEMMA RenamedEffect ==
  ASSUME TypeOK, NEW w \in Writers, Renamed(w)
  PROVE  /\ TypeOK' /\ disk'.file = disk.tmp
         /\ "tmp" \in synced => "file" \in synced'
         /\ writer'[w].pc = "run"
         /\ \A o \in Writers \ {w} : writer'[o].pc = writer[o].pc /\ writer'[o].doc = writer[o].doc
<1>1. /\ writer' = [o \in Writers |-> writer'[o]]
      /\ writer'[w] = [writer[w] EXCEPT !.pc = "run", !.doc = Missing]
      /\ \A o \in Writers \ {w} : writer'[o] = [writer[o] EXCEPT !.fd = Moved(writer[o].fd, TRUE)]
  BY DEF Renamed
<1>2. \A o \in Writers : writer[o] \in WriterRecord(writer[o].doc, writer[o].todo)
  BY DEF TypeOK, WritersTyped
<1>3. writer'[w].pc = "run" /\ writer'[w] \in WriterRecord(writer'[w].doc, writer'[w].todo)
  BY <1>1, <1>2 DEF WriterRecord, Phase
<1>4. ASSUME NEW o \in Writers \ {w}
      PROVE  /\ writer'[o].pc = writer[o].pc /\ writer'[o].doc = writer[o].doc
             /\ writer'[o] \in WriterRecord(writer'[o].doc, writer'[o].todo)
  <2> DEFINE fd == Moved(writer[o].fd, TRUE)
  <2>1. writer[o] \in WriterRecord(writer[o].doc, writer[o].todo) /\ writer'[o] = [writer[o] EXCEPT !.fd = fd]
    BY <1>1, <1>2
  <2>2. fd \in Descriptor
    BY <2>1 DEF WriterRecord, Moved, Descriptor
  <2> HIDE DEF fd
  <2> QED
    BY <2>1, <2>2 DEF WriterRecord
<1>5. /\ disk' = [file |-> disk.tmp, tmp |-> Missing]
      /\ synced' = IF "tmp" \in synced THEN Paths ELSE {"tmp"}
  BY DEF Renamed
<1> QED
  BY <1>1, <1>3, <1>4, <1>5 DEF TypeOK, WritersTyped, FilesTyped, Paths

\* The rename is the instant at which the store changes, to the document of the save.
LEMMA RenameStep ==
  ASSUME IndInv, NEW w \in Writers, Rename(w)
  PROVE  IndInv' /\ (compromised' \/ Store!Replace)
<1>1. writer[w].pc = "rename" /\ Renamed(w) /\ UNCHANGED compromised
  BY DEF Rename
<1>2. /\ TypeOK' /\ disk'.file = disk.tmp
      /\ "tmp" \in synced => "file" \in synced'
      /\ writer'[w].pc = "run"
      /\ \A o \in Writers \ {w} : writer'[o].pc = writer[o].pc /\ writer'[o].doc = writer[o].doc
  BY <1>1, RenamedEffect DEF IndInv
<1>3. ~compromised => "tmp" \in synced /\ disk.tmp = writer[w].doc
  BY <1>1 DEF IndInv, OwnerInv, TemporaryOf
<1>4. ~compromised => \A o \in Writers \ {w} : ~Owns(o) /\ writer[o].pc # "again"
  BY <1>1 DEF IndInv, OwnerInv, Owns
<1>5. OwnerInv'
  BY <1>1, <1>2, <1>3, <1>4 DEF OwnerInv, Owns, TemporaryOf
<1>6. compromised \/ Store!Replace
  BY <1>1, <1>2, <1>3 DEF Store!Replace, Stored, Saving
<1> QED
  BY <1>1, <1>2, <1>5, <1>6 DEF IndInv

\* The fallback of a failed rename voids the promise.
LEMMA FallbackStep ==
  ASSUME IndInv, NEW w \in Writers, RenameFails(w) \/ RenameAgain(w)
  PROVE  IndInv' /\ compromised'
<1>1. CASE RenameAgain(w)
  <2>1. writer[w].pc = "again" /\ Renamed(w) /\ UNCHANGED compromised
    BY <1>1 DEF RenameAgain
  <2>2. compromised
    BY <2>1 DEF IndInv, OwnerInv
  <2> QED
    BY <2>1, <2>2, RenamedEffect DEF IndInv, OwnerInv
<1>2. CASE RenameFails(w)
  <2>1. compromised' /\ UNCHANGED synced
    BY <1>2 DEF RenameFails
  <2>2. CASE GiveUp(w) /\ UNCHANGED disk
    <3>1. WritersTyped'
      <4>1. CASE writer' = [o \in Writers |-> IdleWriter]
        BY <4>1, IdleTyped DEF WritersTyped
      <4>2. CASE writer' = [writer EXCEPT ![w] = IdleWriter]
        BY <4>2, IdleTyped DEF IndInv, TypeOK, WritersTyped
      <4> QED
        BY <2>2, <4>1, <4>2 DEF GiveUp
    <3> QED
      BY <2>1, <2>2, <3>1 DEF IndInv, TypeOK, FilesTyped, OwnerInv
  <2>3. CASE /\ disk' = [disk EXCEPT !.file = Missing]
             /\ writer' = [o \in Writers |->
                   IF o = w THEN [writer[w] EXCEPT !.pc = "again"]
                   ELSE [writer[o] EXCEPT !.fd = Moved(writer[o].fd, FALSE)]]
    <3>1. ASSUME NEW o \in Writers
          PROVE  writer'[o] \in WriterRecord(writer'[o].doc, writer'[o].todo)
      <4> DEFINE fd == Moved(writer[o].fd, FALSE)
      <4>1. writer[o] \in WriterRecord(writer[o].doc, writer[o].todo)
        BY DEF IndInv, TypeOK, WritersTyped
      <4>2. CASE writer'[o] = [writer[o] EXCEPT !.pc = "again"]
        BY <4>1, <4>2 DEF WriterRecord, Phase
      <4>3. CASE writer'[o] = [writer[o] EXCEPT !.fd = fd]
        <5>1. fd \in Descriptor
          BY <4>1 DEF WriterRecord, Moved, Descriptor
        <5> HIDE DEF fd
        <5> QED
          BY <4>1, <4>3, <5>1 DEF WriterRecord
      <4> QED
        BY <2>3, <4>2, <4>3
    <3> QED
      BY <2>1, <2>3, <3>1 DEF IndInv, TypeOK, WritersTyped, FilesTyped, OwnerInv
  <2> QED
    BY <1>2, <2>2, <2>3 DEF RenameFails
<1> QED
  BY <1>1, <1>2

\* Starting and dying leave no save behind, and the document where it was.
LEMMA RestartStep ==
  ASSUME IndInv, Start \/ Crash
  PROVE  IndInv' /\ (compromised' \/ Store!Offer)
<1>1. CASE Start
  <2>1. PICK todo : writer' = [rpc |-> [IdleWriter EXCEPT !.pc = "run", !.todo = todo],
                               startup |-> [IdleWriter EXCEPT !.pc = "waiting"]]
    BY <1>1 DEF Start
  <2>2. /\ writer' = [w \in Writers |-> writer'[w]]
        /\ \A w \in Writers : /\ writer'[w].pc \in {"run", "waiting"}
                              /\ writer'[w] \in WriterRecord(writer'[w].doc, writer'[w].todo)
    <3> DEFINE a == [IdleWriter EXCEPT !.pc = "run", !.todo = todo]
               b == [IdleWriter EXCEPT !.pc = "waiting"]
    <3>1. /\ a.pc = "run" /\ a \in WriterRecord(a.doc, a.todo)
          /\ b.pc = "waiting" /\ b \in WriterRecord(b.doc, b.todo)
      BY IdleTyped
    <3>2. writer' = [rpc |-> a, startup |-> b]
      BY <2>1
    <3> HIDE DEF a, b
    <3> QED
      BY <3>1, <3>2 DEF Writers
  <2>3. disk' = [disk EXCEPT !.tmp = Missing] /\ UNCHANGED <<synced, compromised>>
    BY <1>1 DEF Start
  <2>4. TypeOK' /\ disk'.file = disk.file
    BY <2>2, <2>3 DEF IndInv, TypeOK, WritersTyped, FilesTyped
  <2>5. OwnerInv'
    BY <2>2, <2>3 DEF IndInv, OwnerInv, Owns, TemporaryOf
  <2>6. Store!Offer
    BY <2>2, <2>4 DEF Store!Offer, Stored, Saving
  <2> QED
    BY <2>4, <2>5, <2>6 DEF IndInv
<1>2. CASE Crash
  <2>1. /\ writer' = [w \in Writers |-> IdleWriter]
        /\ synced' = Paths /\ UNCHANGED compromised
    BY <1>2 DEF Crash
  <2>2. PICK content \in {disk.file} \cup (IF "file" \in synced THEN {} ELSE {Torn}) :
           disk' = [file |-> content, tmp |-> Missing]
    BY <1>2 DEF Crash
  <2>3. TypeOK' /\ \A w \in Writers : writer'[w].pc = "idle"
    BY <2>1, <2>2, IdleTyped DEF TypeOK, WritersTyped, FilesTyped
  <2>4. OwnerInv'
    BY <2>1, <2>3 DEF OwnerInv, Owns, TemporaryOf, Paths
  <2>5. ~compromised => disk'.file = disk.file
    BY <2>2 DEF IndInv, OwnerInv
  <2>6. compromised \/ Store!Offer
    BY <2>3, <2>5 DEF Store!Offer, Stored, Saving
  <2> QED
    BY <2>1, <2>3, <2>4, <2>6 DEF IndInv
<1> QED
  BY <1>1, <1>2

\* Every step keeps the invariant and is a step of the store.
LEMMA StoreStep ==
  ASSUME IndInv, [Next]_vars
  PROVE  IndInv' /\ Store!StoreNext
<1>1. IndInv' /\ (compromised' \/ Store!Offer \/ Store!Replace)
  BY StepKinds, CalmStep, OpenStep, WriteStep, SyncStep, RenameStep, FallbackStep, RestartStep
     DEF IndInv
<1> QED
  BY <1>1 DEF Store!StoreNext, Store!Sound, Store!Void

\* No save has begun.
LEMMA InitInv == ASSUME Init PROVE IndInv /\ Store!StoreInit
<1>1. PICK d \in OnDisk : disk = [file |-> d, tmp |-> Missing]
  BY DEF Init
<1>2. WritersTyped /\ \A w \in Writers : writer[w].pc = "idle"
  BY IdleTyped DEF Init, WritersTyped
<1>3. IndInv
  BY <1>1, <1>2 DEF Init, IndInv, TypeOK, FilesTyped, OwnerInv, Owns, TemporaryOf, Paths
<1>4. Store!StoreInit
  BY <1>2 DEF Init, Store!StoreInit, Saving
<1> QED
  BY <1>3, <1>4

\* Of two saves that may run at once, one owns the temporary file, or the store knows that
\* it is compromised; the wallet file itself is always synced (WalletStorage.Write).
THEOREM Invariance == Spec => []IndInv
<1>1. IndInv /\ [Next]_vars => IndInv'
  BY StoreStep
<1> QED
  BY <1>1, InitInv, PTL DEF Spec

\* The file operations implement the atomic store: what a restart reads changes only to the
\* whole document of a running save, at one instant, whatever fails or dies in between.
THEOREM AtomicStoreHolds == Spec => AtomicStore
<1>1. Init => Store!StoreInit
  BY InitInv
<1>2. IndInv /\ [Next]_vars => [Store!StoreNext]_(Store!storeVars)
  BY StoreStep
<1> QED
  BY <1>1, <1>2, Invariance, PTL DEF Spec, AtomicStore, Store!StoreSpec

-----------------------------------------------------------------------------
(* What is written and what is kept in memory *)

\* The locks of a document's accounts, the accounts in the clear included.
Locks(m) == {m.accounts[i].lock : i \in DOMAIN m.accounts}

Uniform(m) == Clear \notin Locks(m) \/ Locks(m) \subseteq {Clear}

\* No two accounts are under different passwords.
OneLock(m) == \A l, k \in Locks(m) \ {Clear} : l = k

\* A document as it may be on disk or on its way there, before and after a lapse (l) and
\* a foreign password (f).
Guarded(d, l, f) ==
    IsDocument(d) => /\ d \in Documents
                     /\ ~l => Uniform(d) /\ (EncryptOnDisk(d) => Clear \notin Locks(d))
                     /\ ~f => OneLock(d)

\* A wallet in memory under its password: a save of it is a guarded document.
Keeps(m, p, l, f) ==
    /\ m \in Documents /\ p \in Typed \cup {NoPassword}
    /\ ~l => p # Blank /\ (Uniform(m) \/ (EncryptOnDisk(m) /\ p # NoPassword))
    /\ ~f => OneLock(m) /\ (p # NoPassword => Locks(m) \subseteq {Clear, p})

SecretsInv ==
    /\ Keeps(mem, pw, lapsed, foreign)
    /\ Guarded(disk.file, lapsed, foreign) /\ Guarded(disk.tmp, lapsed, foreign)
    /\ \A w \in Writers : Guarded(writer[w].doc, lapsed, foreign)

\* Unless the store is compromised, a save that nothing overtook carries what is in memory,
\* has no other save beside it, and without a save the wallet file holds it.
SavedInv ==
    ~compromised =>
        /\ \A w \in Writers : Saving(w) => dirty
        /\ \A w \in Writers : Saving(w) /\ writer[w].fresh =>
              writer[w].doc \in Documents /\ Content(writer[w].doc) = Content(mem)
        /\ \A w, o \in Writers : Owns(w) /\ writer[w].fresh /\ Saving(o) => w = o
        /\ up \in {"loading", "up"} /\ ~dirty =>
              disk.file \in Documents /\ Content(disk.file) = Content(mem)

\* Encryption that was asked for and not withdrawn is asked for in memory.
AskedInv == asked /\ ~withdrawn => EncryptOnDisk(mem)

-----------------------------------------------------------------------------
(* Documents *)

\* A typed account keeps its type under a new lock that is a password or none.
LEMMA Relocked ==
  ASSUME NEW a \in AccountRecords, NEW l \in Typed \cup {Clear}
  PROVE  [a EXCEPT !.lock = l] \in AccountRecords /\ [a EXCEPT !.lock = l].lock = l
  BY DEF AccountRecords

\* Accounts of a document that are changed one by one.
LEMMA MappedAccounts ==
  ASSUME NEW m \in Documents, NEW f \in [DOMAIN m.accounts -> AccountRecords]
  PROVE  /\ [m EXCEPT !.accounts = f] \in Documents
         /\ [m EXCEPT !.accounts = f].accounts = f
         /\ [m EXCEPT !.accounts = f].eod = m.eod
         /\ DOMAIN f = DOMAIN m.accounts
         /\ \A i \in DOMAIN m.accounts : m.accounts[i] \in AccountRecords
<1>1. m.accounts \in Seq(AccountRecords)
  BY DEF Documents
<1>2. f \in Seq(AccountRecords)
  <2>1. DOMAIN m.accounts = 1..Len(m.accounts) /\ Len(m.accounts) \in Nat
    BY <1>1
  <2> QED
    BY <2>1
<1>3. \A i \in DOMAIN m.accounts : m.accounts[i] \in AccountRecords
  BY <1>1
<1> QED
  BY <1>2, <1>3 DEF Documents

\* Setting the preference touches no account.
LEMMA PreferenceEffect ==
  ASSUME NEW m \in Documents, NEW v \in BOOLEAN
  PROVE  /\ SetNote(m, v) \in Documents /\ Locks(SetNote(m, v)) = Locks(m)
         /\ SetNote(m, v).eod = m.eod
         /\ SetEncryptOnDisk(m, v) \in Documents
         /\ SetEncryptOnDisk(m, v).accounts = m.accounts
         /\ EncryptOnDisk(SetEncryptOnDisk(m, v)) <=> v
         /\ Locks(SetEncryptOnDisk(m, v)) = Locks(m)
<1>0. [value |-> v, ts |-> Now] \in [value : BOOLEAN, ts : Times]
  BY DEF Now, Times
<1>1. [value |-> v, ts |-> Now] \in Entries
  BY <1>0 DEF Entries
<1>2. /\ SetEncryptOnDisk(m, v) \in Documents
      /\ SetEncryptOnDisk(m, v).accounts = m.accounts
      /\ SetEncryptOnDisk(m, v).eod = [value |-> v, ts |-> Now]
  BY <1>1 DEF SetEncryptOnDisk, Documents
<1>3. [value |-> v, ts |-> Now] # NoEntry
  BY <1>0, ConstantsAssumption
<1>4. EncryptOnDisk(SetEncryptOnDisk(m, v)) <=> v
  BY <1>2, <1>3 DEF EncryptOnDisk
<1>5. SetNote(m, v) \in Documents /\ SetNote(m, v).accounts = m.accounts /\ SetNote(m, v).eod = m.eod
  <2>1. (m.noteFirst \/ m.eod = NoEntry) \in BOOLEAN
    OBVIOUS
  <2> QED
    BY <1>1, <2>1 DEF SetNote, Documents
<1> QED
  BY <1>2, <1>4, <1>5 DEF Locks

\* A wallet is locked when one of its locks is a password, and exposed when one is none.
LEMMA LockedExposed ==
  ASSUME NEW m
  PROVE  (Locked(m) <=> Locks(m) \ {Clear} # {}) /\ (Exposed(m) <=> Clear \in Locks(m))
  BY DEF Locked, Exposed, Locks

\* The two ways of saying that one password opens everything.
LEMMA OneLockCard ==
  ASSUME NEW m
  PROVE  /\ OneLock(m) => Cardinality(LocksOf(m)) <= 1
         /\ m \in Documents /\ Cardinality(LocksOf(m)) <= 1 => OneLock(m)
<1>1. LocksOf(m) = Locks(m) \ {Clear}
  BY DEF LocksOf, Locks
<1>2. ASSUME OneLock(m) PROVE Cardinality(LocksOf(m)) <= 1
  <2>1. CASE LocksOf(m) = {}
    BY <2>1, FS_EmptySet
  <2>2. CASE LocksOf(m) # {}
    <3>1. PICK l : l \in LocksOf(m)
      BY <2>2
    <3>2. LocksOf(m) = {l}
      BY <1>1, <1>2, <3>1 DEF OneLock
    <3> QED
      BY <3>2, FS_Singleton
  <2> QED
    BY <2>1, <2>2
<1>3. ASSUME m \in Documents, Cardinality(LocksOf(m)) <= 1 PROVE OneLock(m)
  <2>1. IsFiniteSet(LocksOf(m))
    <3>1. m.accounts \in Seq(AccountRecords)
      BY <1>3 DEF Documents
    <3>2. DOMAIN m.accounts = 1..Len(m.accounts) /\ Len(m.accounts) \in Nat
      BY <3>1
    <3>3. IsFiniteSet(DOMAIN m.accounts)
      BY <3>2, FS_Interval
    <3> DEFINE f == [i \in DOMAIN m.accounts |-> m.accounts[i].lock]
    <3>4. f \in Surjection(DOMAIN m.accounts, Locks(m))
      BY DEF Surjection, Locks
    <3>5. IsFiniteSet(Locks(m))
      BY <3>3, <3>4, FS_Surjection
    <3> QED
      BY <1>1, <3>5, FS_Subset
  <2>2. SUFFICES ASSUME NEW l \in LocksOf(m), NEW k \in LocksOf(m), l # k PROVE FALSE
    BY <1>1 DEF OneLock
  <2>3. IsFiniteSet({l, k}) /\ Cardinality({l, k}) = 2
    <3>1. IsFiniteSet({l}) /\ Cardinality({l}) = 1
      BY FS_Singleton
    <3>2. IsFiniteSet({l} \cup {k}) /\ Cardinality({l} \cup {k}) = Cardinality({l}) + 1
      BY <2>2, <3>1, FS_AddElement
    <3>3. {l} \cup {k} = {l, k}
      OBVIOUS
    <3> QED
      BY <3>1, <3>2, <3>3
  <2>4. Cardinality({l, k}) <= Cardinality(LocksOf(m))
    BY <2>1, FS_Subset
  <2>5. Cardinality(LocksOf(m)) \in Nat
    BY <2>1, FS_CardinalityType
  <2> QED
    BY <1>3, <2>3, <2>4, <2>5
<1> QED
  BY <1>2, <1>3

\* The account made for an empty wallet is in the clear, and that wallet has no locks.
LEMMA NewAccountTyped ==
  ASSUME NEW a \in Accounts
  PROVE  NewAccount(a) \in AccountRecords /\ NewAccount(a).lock = Clear
<1>1. (CHOOSE v \in Values : TRUE) \in Values
  BY ConstantsAssumption
<1> QED
  BY <1>1 DEF NewAccount, AccountRecords, Now, Times

LEMMA EmptyTyped == EmptyWallet \in Documents /\ Locks(EmptyWallet) = {}
<1>1. <<>> \in Seq(AccountRecords) /\ NoEntry \in Entries /\ DOMAIN <<>> = {}
  BY DEF Entries
<1>2. EmptyWallet \in Documents /\ EmptyWallet.accounts = <<>>
  BY <1>1 DEF EmptyWallet, Documents
<1> QED
  BY <1>1, <1>2 DEF Locks

\* Changes of the accounts that leave every lock as it is.
LEMMA SameLocks ==
  ASSUME NEW m \in Documents, NEW f \in [DOMAIN m.accounts -> AccountRecords],
         \A i \in DOMAIN m.accounts : f[i].lock = m.accounts[i].lock
  PROVE  /\ [m EXCEPT !.accounts = f] \in Documents
         /\ Locks([m EXCEPT !.accounts = f]) = Locks(m)
         /\ [m EXCEPT !.accounts = f].eod = m.eod
  BY MappedAccounts DEF Locks

\* MigrateChannelKeys and SaveMaxGap change keys and gaps only.
LEMMA DropLegacyEffect ==
  ASSUME NEW m \in Documents, NEW t
  PROVE  DropLegacy(m, t) \in Documents /\ Locks(DropLegacy(m, t)) = Locks(m) /\ DropLegacy(m, t).eod = m.eod
<1> DEFINE F(r) == [r EXCEPT !.keys = @ \ {Legacy}]
           f == [i \in DOMAIN m.accounts |-> IF i \in Nth(m, t.id, t.nth) THEN F(m.accounts[i]) ELSE m.accounts[i]]
<1>1. ASSUME NEW r \in AccountRecords PROVE F(r) \in AccountRecords /\ F(r).lock = r.lock
  BY DEF AccountRecords
<1>2. \A i \in DOMAIN m.accounts : m.accounts[i] \in AccountRecords
  BY DEF Documents
<1>3. DropLegacy(m, t) = [m EXCEPT !.accounts = f]
  BY DEF DropLegacy, OnNth
<1> HIDE DEF F
<1>4. f \in [DOMAIN m.accounts -> AccountRecords] /\ \A i \in DOMAIN m.accounts : f[i].lock = m.accounts[i].lock
  BY <1>1, <1>2
<1> HIDE DEF f
<1> QED
  BY <1>3, <1>4, SameLocks

LEMMA RaiseGapEffect ==
  ASSUME NEW m \in Documents, NEW t
  PROVE  RaiseGap(m, t) \in Documents /\ Locks(RaiseGap(m, t)) = Locks(m) /\ RaiseGap(m, t).eod = m.eod
<1> DEFINE F(r) == [r EXCEPT !.gap = TRUE]
           f == [i \in DOMAIN m.accounts |-> IF i \in Nth(m, t.id, t.nth) THEN F(m.accounts[i]) ELSE m.accounts[i]]
<1>1. ASSUME NEW r \in AccountRecords PROVE F(r) \in AccountRecords /\ F(r).lock = r.lock
  BY DEF AccountRecords
<1>2. \A i \in DOMAIN m.accounts : m.accounts[i] \in AccountRecords
  BY DEF Documents
<1>3. RaiseGap(m, t) = [m EXCEPT !.accounts = f]
  BY DEF RaiseGap, OnNth
<1> HIDE DEF F
<1>4. f \in [DOMAIN m.accounts -> AccountRecords] /\ \A i \in DOMAIN m.accounts : f[i].lock = m.accounts[i].lock
  BY <1>1, <1>2
<1> HIDE DEF f
<1> QED
  BY <1>3, <1>4, SameLocks

\* Changes of the locks alone do not show in the content.
LEMMA LocksOnly ==
  ASSUME NEW m \in Documents, NEW f \in [DOMAIN m.accounts -> AccountRecords],
         \A i \in DOMAIN m.accounts : [f[i] EXCEPT !.lock = Clear] = [m.accounts[i] EXCEPT !.lock = Clear]
  PROVE  Content([m EXCEPT !.accounts = f]) = Content(m)
<1> DEFINE n == [m EXCEPT !.accounts = f]
<1>1. n.accounts = f /\ DOMAIN f = DOMAIN m.accounts
  BY MappedAccounts
<1>2. Content(n) = [n EXCEPT !.accounts = [i \in DOMAIN n.accounts |-> [n.accounts[i] EXCEPT !.lock = Clear]]]
  BY DEF Content, OnAccounts
<1>3. Content(m) = [m EXCEPT !.accounts = [i \in DOMAIN m.accounts |-> [m.accounts[i] EXCEPT !.lock = Clear]]]
  BY DEF Content, OnAccounts
<1>4. [i \in DOMAIN n.accounts |-> [n.accounts[i] EXCEPT !.lock = Clear]]
        = [i \in DOMAIN m.accounts |-> [m.accounts[i] EXCEPT !.lock = Clear]]
  BY <1>1
<1>5. \A g : [n EXCEPT !.accounts = g] = [m EXCEPT !.accounts = g]
  BY DEF Documents
<1> HIDE DEF n
<1>6. Content(n) = Content(m)
  BY <1>2, <1>3, <1>4, <1>5
<1> QED
  BY <1>6 DEF n

\* Account.Encrypt of the accounts in the clear: none is left so.
LEMMA EncryptEffect ==
  ASSUME NEW m \in Documents, NEW p \in Typed
  PROVE  LET n == OnAccounts(m, LAMBDA a : EncryptAccount(p, a))
         IN  /\ n \in Documents /\ n.eod = m.eod
             /\ Clear \notin Locks(n) /\ Locks(n) \subseteq (Locks(m) \ {Clear}) \cup {p}
             /\ Content(n) = Content(m)
<1> DEFINE f == [i \in DOMAIN m.accounts |-> EncryptAccount(p, m.accounts[i])]
           n == [m EXCEPT !.accounts = f]
<1>1. ASSUME NEW r \in AccountRecords
      PROVE  /\ EncryptAccount(p, r) \in AccountRecords
             /\ EncryptAccount(p, r).lock = IF r.lock = Clear THEN p ELSE r.lock
             /\ [EncryptAccount(p, r) EXCEPT !.lock = Clear] = [r EXCEPT !.lock = Clear]
  BY DEF AccountRecords, EncryptAccount, EncryptSecrets
<1>2. \A i \in DOMAIN m.accounts : m.accounts[i] \in AccountRecords
  BY DEF Documents
<1>3. f \in [DOMAIN m.accounts -> AccountRecords]
  BY <1>1, <1>2
<1>4. OnAccounts(m, LAMBDA a : EncryptAccount(p, a)) = n
  BY DEF OnAccounts
<1>5. n \in Documents /\ n.eod = m.eod /\ n.accounts = f /\ DOMAIN f = DOMAIN m.accounts
  BY <1>3, MappedAccounts
<1>6. \A i \in DOMAIN m.accounts : f[i].lock = IF m.accounts[i].lock = Clear THEN p ELSE m.accounts[i].lock
  BY <1>1, <1>2
<1>7. \A i \in DOMAIN m.accounts : [f[i] EXCEPT !.lock = Clear] = [m.accounts[i] EXCEPT !.lock = Clear]
  BY <1>1, <1>2
<1>8. p # Clear
  BY ConstantsAssumption DEF Typed, Blank, Clear
<1>9. Content(n) = Content(m)
  BY <1>3, <1>7, LocksOnly
<1> HIDE DEF f, n
<1>10. Clear \notin Locks(n) /\ Locks(n) \subseteq (Locks(m) \ {Clear}) \cup {p}
  BY <1>5, <1>6, <1>8 DEF Locks
<1> QED
  BY <1>4, <1>5, <1>9, <1>10

\* Wallet.ToObject encrypts what is in the clear, with a password that is not empty.
LEMMA ToObjectEffect ==
  ASSUME NEW m \in Documents, NEW p \in Typed \cup {NoPassword}
  PROVE  /\ ToObject(m, p) \in Documents /\ ToObject(m, p).eod = m.eod
         /\ Content(ToObject(m, p)) = Content(m)
         /\ p \in {NoPassword, Blank} => Locks(ToObject(m, p)) = Locks(m)
         /\ p \notin {NoPassword, Blank} => /\ Clear \notin Locks(ToObject(m, p))
                                            /\ Locks(ToObject(m, p)) \subseteq (Locks(m) \ {Clear}) \cup {p}
<1> DEFINE f == [i \in DOMAIN m.accounts |-> ToDict(p, m.accounts[i])]
           n == [m EXCEPT !.accounts = f]
<1>1. ASSUME NEW r \in AccountRecords
      PROVE  /\ ToDict(p, r) \in AccountRecords
             /\ ToDict(p, r).lock = IF r.lock = Clear /\ p \notin {NoPassword, Blank} THEN p ELSE r.lock
             /\ [ToDict(p, r) EXCEPT !.lock = Clear] = [r EXCEPT !.lock = Clear]
  BY DEF AccountRecords, ToDict, EncryptSecrets, Typed
<1>2. \A i \in DOMAIN m.accounts : m.accounts[i] \in AccountRecords
  BY DEF Documents
<1>3. f \in [DOMAIN m.accounts -> AccountRecords]
  BY <1>1, <1>2
<1>4. ToObject(m, p) = n
  BY DEF ToObject, OnAccounts
<1>5. n \in Documents /\ n.eod = m.eod /\ n.accounts = f /\ DOMAIN f = DOMAIN m.accounts
  BY <1>3, MappedAccounts
<1>6. \A i \in DOMAIN m.accounts : f[i].lock = IF m.accounts[i].lock = Clear /\ p \notin {NoPassword, Blank} THEN p ELSE m.accounts[i].lock
  BY <1>1, <1>2
<1>7. \A i \in DOMAIN m.accounts : [f[i] EXCEPT !.lock = Clear] = [m.accounts[i] EXCEPT !.lock = Clear]
  BY <1>1, <1>2
<1>8. p # Clear
  BY ConstantsAssumption DEF Typed, Blank, Clear, NoPassword
<1>9. Content(n) = Content(m)
  BY <1>3, <1>7, LocksOnly
<1> HIDE DEF f, n
<1>10. /\ p \in {NoPassword, Blank} => Locks(n) = Locks(m)
       /\ p \notin {NoPassword, Blank} => /\ Clear \notin Locks(n)
                                          /\ Locks(n) \subseteq (Locks(m) \ {Clear}) \cup {p}
  BY <1>5, <1>6, <1>8 DEF Locks
<1> QED
  BY <1>4, <1>5, <1>9, <1>10

\* What Wallet.Save keeps in memory and writes: the same content; a guarded document when
\* the wallet in memory keeps its secrets.
LEMMA SaveEffect ==
  ASSUME NEW m, NEW p, NEW l, NEW f, Keeps(m, p, l, f)
  PROVE  /\ Keeps(Saved(m, p), p, l, f)
         /\ SavedDocument(m, p) \in Documents /\ Guarded(SavedDocument(m, p), l, f)
         /\ Content(SavedDocument(m, p)) = Content(Saved(m, p))
<1> DEFINE s == Saved(m, p)
           q == IF EncryptOnDisk(m) THEN p ELSE NoPassword
<1>1. m \in Documents /\ q \in Typed \cup {NoPassword}
  BY DEF Keeps
<1>2. s \in Documents /\ Locks(s) = Locks(m)
  BY <1>1, PreferenceEffect DEF Saved
<1>3. SaveResets(m, p) => ~EncryptOnDisk(s)
  BY <1>1, PreferenceEffect DEF Saved
<1>4. ~SaveResets(m, p) => s = m
  BY DEF Saved
<1>5. SaveResets(m, p) => Locks(m) \subseteq {Clear}
  BY LockedExposed DEF SaveResets
<1>6. SavedDocument(m, p) = ToObject(s, q)
  BY DEF SavedDocument
<1> HIDE DEF s, q
<1>7. /\ ToObject(s, q) \in Documents /\ ToObject(s, q).eod = s.eod
      /\ Content(ToObject(s, q)) = Content(s)
      /\ q \in {NoPassword, Blank} => Locks(ToObject(s, q)) = Locks(s)
      /\ q \notin {NoPassword, Blank} => /\ Clear \notin Locks(ToObject(s, q))
                                         /\ Locks(ToObject(s, q)) \subseteq (Locks(s) \ {Clear}) \cup {q}
  BY <1>1, <1>2, ToObjectEffect
<1>8. Keeps(s, p, l, f)
  <2>1. CASE SaveResets(m, p)
    BY <1>2, <1>5, <2>1 DEF Keeps, Uniform, OneLock
  <2>2. CASE ~SaveResets(m, p)
    BY <1>4, <2>2
  <2> QED
    BY <2>1, <2>2
<1>9. EncryptOnDisk(ToObject(s, q)) <=> EncryptOnDisk(s)
  BY <1>7 DEF EncryptOnDisk
<1>10. ASSUME ~l
       PROVE  /\ Uniform(ToObject(s, q))
              /\ EncryptOnDisk(ToObject(s, q)) => Clear \notin Locks(ToObject(s, q))
  <2>1. CASE q \notin {NoPassword, Blank}
    BY <1>7, <2>1 DEF Uniform
  <2>2. CASE q \in {NoPassword, Blank}
    <3>1. p # Blank /\ (Uniform(m) \/ (EncryptOnDisk(m) /\ p # NoPassword))
      BY <1>10 DEF Keeps
    <3>2. ~EncryptOnDisk(m) \/ p = NoPassword
      BY <2>2, <3>1 DEF q
    <3>3. Uniform(m) /\ Locks(ToObject(s, q)) = Locks(m)
      BY <1>2, <1>7, <2>2, <3>1, <3>2
    <3>4. ASSUME EncryptOnDisk(s) PROVE Clear \notin Locks(m)
      <4>1. ~SaveResets(m, p) /\ EncryptOnDisk(m)
        BY <1>3, <1>4, <3>4
      <4>2. Locked(m)
        BY <3>2, <4>1 DEF SaveResets
      <4> QED
        BY <3>3, <4>2, LockedExposed DEF Uniform
    <3> QED
      BY <1>9, <3>3, <3>4 DEF Uniform
  <2> QED
    BY <2>1, <2>2
<1>11. ASSUME ~f PROVE OneLock(ToObject(s, q))
  <2>1. OneLock(s) /\ (p # NoPassword => Locks(s) \subseteq {Clear, p})
    BY <1>8, <1>11 DEF Keeps
  <2>2. CASE q \in {NoPassword, Blank}
    BY <1>7, <2>1, <2>2 DEF OneLock
  <2>3. CASE q \notin {NoPassword, Blank}
    <3>1. q = p
      BY <2>3 DEF q
    <3> QED
      BY <1>7, <2>1, <2>3, <3>1 DEF OneLock
  <2> QED
    BY <2>2, <2>3
<1> QED
  BY <1>6, <1>7, <1>8, <1>10, <1>11 DEF s, Guarded

\* A typed document is neither a missing nor a torn file.
LEMMA DocumentKinds ==
  /\ \A d \in Documents : IsDocument(d)
  /\ ~IsDocument(Missing) /\ ~IsDocument(Torn)
  BY ConstantsAssumption DEF IsDocument

\* Wallet.Unlock, of the first n accounts.
LEMMA OpenEffect ==
  ASSUME mem \in Documents, NEW p, NEW n \in 0..Len(mem.accounts)
  PROVE  /\ OpenFirst(p, n) \in Documents /\ OpenFirst(p, n).eod = mem.eod
         /\ Content(OpenFirst(p, n)) = Content(mem)
         /\ Locks(OpenFirst(p, n)) \subseteq Locks(mem) \cup {Clear}
         /\ n = Len(mem.accounts) => Locks(OpenFirst(p, n)) \subseteq {Clear}
         /\ n = 0 => OpenFirst(p, n).accounts = mem.accounts
<1> DEFINE f == [i \in DOMAIN mem.accounts |->
                   IF i <= n THEN [mem.accounts[i] EXCEPT !.lock = Clear] ELSE mem.accounts[i]]
           o == [mem EXCEPT !.accounts = f]
<1>1. mem.accounts \in Seq(AccountRecords)
  BY DEF Documents
<1>2. DOMAIN mem.accounts = 1..Len(mem.accounts) /\ Len(mem.accounts) \in Nat
  BY <1>1
<1>3. ASSUME NEW r \in AccountRecords
      PROVE  /\ [r EXCEPT !.lock = Clear] \in AccountRecords /\ [r EXCEPT !.lock = Clear].lock = Clear
             /\ [[r EXCEPT !.lock = Clear] EXCEPT !.lock = Clear] = [r EXCEPT !.lock = Clear]
  BY DEF AccountRecords
<1>4. \A i \in DOMAIN mem.accounts : mem.accounts[i] \in AccountRecords
  BY <1>1
<1>5. ASSUME NEW i \in DOMAIN mem.accounts
      PROVE  /\ f[i] \in AccountRecords
             /\ f[i].lock = IF i <= n THEN Clear ELSE mem.accounts[i].lock
             /\ [f[i] EXCEPT !.lock = Clear] = [mem.accounts[i] EXCEPT !.lock = Clear]
  <2>1. CASE i <= n
    BY <1>3, <1>4, <2>1
  <2>2. CASE ~(i <= n)
    BY <1>3, <1>4, <2>2
  <2> QED
    BY <2>1, <2>2
<1>6. f \in [DOMAIN mem.accounts -> AccountRecords]
  BY <1>5
<1>7. OpenFirst(p, n) = o
  BY DEF OpenFirst
<1>8. o \in Documents /\ o.eod = mem.eod /\ o.accounts = f /\ DOMAIN f = DOMAIN mem.accounts
  BY <1>6, MappedAccounts
<1>9. Content(o) = Content(mem)
  BY <1>5, <1>6, LocksOnly
<1>10. n = 0 => f = mem.accounts
  BY <1>1, <1>2
<1> HIDE DEF f, o
<1>11. Locks(o) = {f[i].lock : i \in DOMAIN mem.accounts}
  BY <1>8 DEF Locks
<1>12. \A i \in DOMAIN mem.accounts : f[i].lock \in Locks(mem) \cup {Clear}
  BY <1>5 DEF Locks
<1>13. ASSUME n = Len(mem.accounts), NEW i \in DOMAIN mem.accounts PROVE f[i].lock = Clear
  <2>1. i <= n
    BY <1>2, <1>13
  <2> QED
    BY <1>5, <2>1
<1> QED
  BY <1>7, <1>8, <1>9, <1>10, <1>11, <1>12, <1>13

\* installAccount appends an account in the clear.
LEMMA AppendEffect ==
  ASSUME NEW m \in Documents, NEW r \in AccountRecords
  PROVE  LET n == [m EXCEPT !.accounts = Append(m.accounts, r)]
         IN  n \in Documents /\ n.eod = m.eod /\ Locks(n) = Locks(m) \cup {r.lock}
<1> DEFINE t == Append(m.accounts, r)
           n == [m EXCEPT !.accounts = t]
<1>1. m.accounts \in Seq(AccountRecords)
  BY DEF Documents
<1>2. /\ t \in Seq(AccountRecords) /\ Len(m.accounts) \in Nat /\ DOMAIN m.accounts = 1..Len(m.accounts)
      /\ DOMAIN t = 1..(Len(m.accounts) + 1)
      /\ t[Len(m.accounts) + 1] = r
      /\ \A i \in 1..Len(m.accounts) : t[i] = m.accounts[i]
  BY <1>1
<1> HIDE DEF t
<1>3. n \in Documents /\ n.eod = m.eod /\ n.accounts = t
  BY <1>2 DEF Documents
<1> HIDE DEF n
<1>4. Locks(n) \subseteq Locks(m) \cup {r.lock}
  BY <1>2, <1>3 DEF Locks
<1>5. Locks(m) \subseteq Locks(n)
  BY <1>2, <1>3 DEF Locks
<1>6. r.lock \in Locks(n)
  <2>1. Len(m.accounts) + 1 \in DOMAIN n.accounts /\ n.accounts[Len(m.accounts) + 1] = r
    BY <1>2, <1>3
  <2> QED
    BY <2>1 DEF Locks
<1> QED
  BY <1>3, <1>4, <1>5, <1>6 DEF n, t

\* Wallet.Account finds the account it is asked for.
LEMMA PositionFound ==
  ASSUME NEW m \in Documents, NEW a \in Ids(m)
  PROVE  Position(m, a) \in DOMAIN m.accounts /\ m.accounts[Position(m, a)].id = a
<1> DEFINE S == {i \in DOMAIN m.accounts : m.accounts[i].id = a}
<1>1. m.accounts \in Seq(AccountRecords) /\ DOMAIN m.accounts = 1..Len(m.accounts) /\ Len(m.accounts) \in Nat
  BY DEF Documents
<1>2. S # {} /\ S \subseteq Nat
  BY <1>1 DEF Ids
<1>3. PICK i \in S : \A j \in S : ~(<<j, i>> \in OpToRel(<, Nat))
  BY <1>2, NatLessThanWellFounded, WFMin
<1>4. \A j \in 1..(i - 1) : m.accounts[j].id # a
  <2>1. ASSUME NEW j \in 1..(i - 1), m.accounts[j].id = a PROVE FALSE
    <3>1. j \in S /\ j < i /\ i \in Nat /\ j \in Nat
      BY <1>1, <2>1
    <3>2. <<j, i>> \in OpToRel(<, Nat)
      BY <3>1 DEF OpToRel
    <3> QED
      BY <1>3, <3>1, <3>2
  <2> QED
    BY <2>1
<1>5. i \in DOMAIN m.accounts /\ m.accounts[i].id = a
  BY <1>3
<1> QED
  BY <1>4, <1>5 DEF Position

\* A sequence without one of its elements.
LEMMA RemovedAt ==
  ASSUME NEW S, NEW a \in Seq(S), NEW i \in 1..Len(a)
  PROVE  RemoveAt(a, i) \in Seq(S) /\ \A k \in DOMAIN RemoveAt(a, i) : \E j \in DOMAIN a : RemoveAt(a, i)[k] = a[j]
<1> DEFINE b == SubSeq(a, 1, i - 1)
           c == SubSeq(a, i + 1, Len(a))
<1>1. PICK n \in Nat : n = Len(a)
  OBVIOUS
<1>2. DOMAIN a = 1..n /\ i \in 1..n
  BY <1>1
<1>3. b \in Seq(S) /\ Len(b) = i - 1 /\ \A k \in 1..(i - 1) : b[k] = a[k]
  BY <1>1, <1>2
<1>4. c \in Seq(S) /\ Len(c) = n - i /\ \A k \in 1..(n - i) : c[k] = a[i + k]
  BY <1>1, <1>2
<1>5. RemoveAt(a, i) = b \o c
  BY DEF RemoveAt
<1> HIDE DEF b, c
<1>6. b \o c \in Seq(S) /\ Len(b \o c) = n - 1
  <2>1. b \in Seq(S) /\ c \in Seq(S) /\ Len(b) + Len(c) = n - 1
    BY <1>2, <1>3, <1>4
  <2> QED
    BY <2>1
<1>7. /\ DOMAIN (b \o c) = 1..(n - 1)
      /\ \A k \in 1..(n - 1) : (b \o c)[k] = IF k <= i - 1 THEN b[k] ELSE c[k - (i - 1)]
  BY <1>1, <1>2, <1>3, <1>4
<1>8. ASSUME NEW k \in 1..(n - 1) PROVE \E j \in 1..n : (b \o c)[k] = a[j]
  <2>1. CASE k <= i - 1
    <3>1. k \in 1..(i - 1) /\ k \in 1..n
      BY <1>2, <2>1
    <3> QED
      BY <1>3, <1>7, <3>1
  <2>2. CASE ~(k <= i - 1)
    <3>1. k - (i - 1) \in 1..(n - i) /\ i + (k - (i - 1)) = k + 1 /\ k + 1 \in 1..n
      BY <1>2, <2>2
    <3>2. (b \o c)[k] = a[k + 1]
      BY <1>4, <1>7, <2>2, <3>1
    <3> QED
      BY <3>1, <3>2
  <2> QED
    BY <2>1, <2>2
<1> QED
  BY <1>2, <1>5, <1>6, <1>7, <1>8

\* account_remove and account_set --default keep the other accounts.
LEMMA RemoveEffect ==
  ASSUME NEW m \in Documents, NEW i \in DOMAIN m.accounts
  PROVE  LET s == RemoveAt(m.accounts, i)
         IN  s \in Seq(AccountRecords) /\ \A k \in DOMAIN s : \E j \in DOMAIN m.accounts : s[k] = m.accounts[j]
<1>1. m.accounts \in Seq(AccountRecords) /\ DOMAIN m.accounts = 1..Len(m.accounts)
  BY DEF Documents
<1>2. i \in 1..Len(m.accounts)
  BY <1>1
<1>3. /\ RemoveAt(m.accounts, i) \in Seq(AccountRecords)
      /\ \A k \in DOMAIN RemoveAt(m.accounts, i) :
            \E j \in DOMAIN m.accounts : RemoveAt(m.accounts, i)[k] = m.accounts[j]
  BY <1>1, <1>2, RemovedAt, Zenon
<1> QED
  BY <1>3

\* A nonempty set of numbers has a lowest one.
LEMMA Lowest ==
  ASSUME NEW T \in SUBSET Nat, T # {}
  PROVE  \E x \in T : \A y \in T : x <= y
<1>1. PICK x \in T : \A y \in T : ~(<<y, x>> \in OpToRel(<, Nat))
  BY NatLessThanWellFounded, WFMin
<1>2. \A y \in T : ~(y < x)
  BY <1>1 DEF OpToRel
<1> QED
  BY <1>2

\* A recursion over the numbers up to N, and that it has a solution.
Recursion(S, N, base, step, g) ==
    g \in [0..N -> S] /\ g[0] = base /\ \A k \in 1..N : g[k] = step[k][g[k - 1]]

LEMMA Iterated ==
  ASSUME NEW S, NEW N \in Nat, NEW base \in S, NEW step \in [1..N -> [S -> S]]
  PROVE  \E g : Recursion(S, N, base, step, g)
<1> DEFINE G(n, g) == g \in [0..n -> S] /\ g[0] = base /\ \A k \in 1..n : g[k] = step[k][g[k - 1]]
           Bad == {n \in 0..N : ~\E g : G(n, g)}
<1>0. Bad \in SUBSET Nat /\ Bad \subseteq 0..N /\ \A n \in 0..N : n \notin Bad => \E g : G(n, g)
  OBVIOUS
<1>1. ASSUME Bad # {} PROVE FALSE
  <2>1. PICK n \in Bad : \A y \in Bad : n <= y
    <3> HIDE DEF Bad
    <3> QED
      BY <1>0, <1>1, Lowest, Zenon
  <2>2. CASE n = 0
    <3>1. G(0, [k \in 0..0 |-> base])
      OBVIOUS
    <3> QED
      BY <2>1, <2>2, <3>1
  <2>3. CASE n # 0
    <3>1. n \in 1..N /\ n - 1 \in 0..N /\ n - 1 \notin Bad
      <4> HIDE DEF Bad
      <4>1. n \in 0..N
        BY <1>0
      <4>2. n - 1 \in Nat /\ ~(n <= n - 1) /\ n \in 1..N /\ n - 1 \in 0..N
        BY <2>3, <4>1
      <4> QED
        BY <2>1, <4>2
    <3>2. PICK g : G(n - 1, g)
      BY <1>0, <3>1, Zenon
    <3> DEFINE h == [k \in 0..n |-> IF k = n THEN step[n][g[n - 1]] ELSE g[k]]
    <3>3. g[n - 1] \in S /\ step[n][g[n - 1]] \in S
      BY <3>1, <3>2
    <3>4. h \in [0..n -> S] /\ h[0] = base
      BY <3>1, <3>2, <3>3
    <3>5. ASSUME NEW k \in 1..n PROVE h[k] = step[k][h[k - 1]]
      BY <3>1, <3>2
    <3>6. G(n, h)
      BY <3>4, <3>5
    <3> QED
      BY <2>1, <3>6
  <2> QED
    BY <2>2, <2>3
<1>2. N \in 0..N
  OBVIOUS
<1>3. \E g : G(N, g)
  BY <1>0, <1>1, <1>2, Zenon
<1> QED
  BY <1>3 DEF Recursion

\* Wallets whose accounts are in the clear.
ClearDocuments == {m \in Documents : Locks(m) \subseteq {Clear}}

\* One record of a merge, and the preferences.
LEMMA MergeRecordEffect ==
  ASSUME NEW m \in ClearDocuments, NEW r \in AccountRecords, r.lock = Clear
  PROVE  MergeRecord(m, r) \in ClearDocuments
<1>1. m \in Documents /\ Locks(m) \subseteq {Clear}
  BY DEF ClearDocuments
<1>2. CASE r.id \in Ids(m)
  <2> DEFINE F(a) == MergeAccount(a, r)
             f == [i \in DOMAIN m.accounts |-> IF i \in Nth(m, r.id, 1) THEN F(m.accounts[i]) ELSE m.accounts[i]]
  <2>1. ASSUME NEW a \in AccountRecords PROVE F(a) \in AccountRecords /\ F(a).lock = a.lock
    BY DEF AccountRecords, MergeAccount
  <2>2. \A i \in DOMAIN m.accounts : m.accounts[i] \in AccountRecords
    BY <1>1 DEF Documents
  <2>3. MergeRecord(m, r) = [m EXCEPT !.accounts = f]
    BY <1>2 DEF MergeRecord, OnNth
  <2> HIDE DEF F
  <2>4. f \in [DOMAIN m.accounts -> AccountRecords] /\ \A i \in DOMAIN m.accounts : f[i].lock = m.accounts[i].lock
    BY <2>1, <2>2
  <2>5. [m EXCEPT !.accounts = f] \in Documents /\ Locks([m EXCEPT !.accounts = f]) = Locks(m)
    BY <1>1, <2>4, SameLocks
  <2> QED
    BY <1>1, <2>3, <2>5 DEF ClearDocuments
<1>3. CASE r.id \notin Ids(m)
  <2>1. MergeRecord(m, r) = [m EXCEPT !.accounts = Append(m.accounts, r)]
    BY <1>3 DEF MergeRecord
  <2> QED
    BY <1>1, <2>1, AppendEffect DEF ClearDocuments
<1> QED
  BY <1>2, <1>3

LEMMA MergePreferencesEffect ==
  ASSUME NEW m \in ClearDocuments, NEW d \in Documents
  PROVE  MergePreferences(m, d) \in ClearDocuments
<1> DEFINE e == MergeEntry(m.eod, d.eod)
           n == MergeEntry(m.note, d.note)
           b == IF m.eod = NoEntry /\ m.note = NoEntry THEN d.noteFirst ELSE m.noteFirst
           p == [m EXCEPT !.eod = e, !.note = n, !.noteFirst = b]
<1>1. m \in Documents /\ Locks(m) \subseteq {Clear}
  BY DEF ClearDocuments
<1>2. e \in Entries /\ n \in Entries /\ b \in BOOLEAN
  BY <1>1 DEF Documents, MergeEntry
<1>3. MergePreferences(m, d) = p
  BY DEF MergePreferences
<1> HIDE DEF e, n, b
<1>4. p \in Documents /\ p.accounts = m.accounts
  BY <1>1, <1>2 DEF Documents
<1> HIDE DEF p
<1> QED
  BY <1>1, <1>3, <1>4 DEF ClearDocuments, Locks

\* A merge, complete or not, of wallets in the clear is in the clear.
LEMMA MergeEffect ==
  ASSUME NEW m \in ClearDocuments, NEW d \in ClearDocuments, NEW n \in 0..Len(d.accounts)
  PROVE  MergeUpTo(m, d, n) \in ClearDocuments
<1> DEFINE N == Len(d.accounts)
           E(g) == g = [k \in 0..N |-> IF k = 0 THEN MergePreferences(m, d)
                                       ELSE MergeRecord(g[k - 1], d.accounts[k])]
           merged == CHOOSE g : E(g)
<1>1. d.accounts \in Seq(AccountRecords) /\ N \in Nat /\ DOMAIN d.accounts = 1..N
  BY DEF ClearDocuments, Documents
<1>2. \A k \in 1..N : d.accounts[k] \in AccountRecords /\ d.accounts[k].lock = Clear
  <2>1. Locks(d) \subseteq {Clear}
    BY DEF ClearDocuments
  <2>2. \A k \in 1..N : d.accounts[k] \in AccountRecords /\ d.accounts[k].lock \in Locks(d)
    BY <1>1 DEF Locks
  <2> QED
    BY <2>1, <2>2
<1>3. MergePreferences(m, d) \in ClearDocuments
  BY MergePreferencesEffect DEF ClearDocuments
<1>4. \A k \in 1..N, x \in ClearDocuments : MergeRecord(x, d.accounts[k]) \in ClearDocuments
  BY <1>2, MergeRecordEffect
<1>5. MergeUpTo(m, d, n) = merged[n]
  BY DEF MergeUpTo
<1> HIDE DEF N
<1>6. \E g : E(g)
  <2> DEFINE step == [k \in 1..N |-> [x \in ClearDocuments |-> MergeRecord(x, d.accounts[k])]]
  <2>1. step \in [1..N -> [ClearDocuments -> ClearDocuments]]
    BY <1>4
  <2>2. \A k \in 1..N, x \in ClearDocuments : step[k][x] = MergeRecord(x, d.accounts[k])
    OBVIOUS
  <2> HIDE DEF step
  <2>3. PICK g \in [0..N -> ClearDocuments] : /\ g[0] = MergePreferences(m, d)
                                              /\ \A k \in 1..N : g[k] = step[k][g[k - 1]]
    <3>1. \E g : Recursion(ClearDocuments, N, MergePreferences(m, d), step, g)
      BY <1>1, <1>3, <2>1, Iterated
    <3> QED
      BY <3>1 DEF Recursion
  <2>4. \A k \in 1..N : k - 1 \in 0..N /\ g[k - 1] \in ClearDocuments
    BY <1>1, <2>3
  <2>5. \A k \in 0..N : g[k] = IF k = 0 THEN MergePreferences(m, d) ELSE MergeRecord(g[k - 1], d.accounts[k])
    BY <1>1, <2>2, <2>3, <2>4
  <2>6. E(g)
    BY <2>3, <2>5
  <2> QED
    BY <2>6
<1>7. E(merged)
  BY <1>6
<1> HIDE DEF merged
<1>8. /\ merged[0] = MergePreferences(m, d)
      /\ \A k \in 1..N : merged[k] = MergeRecord(merged[k - 1], d.accounts[k])
  BY <1>1, <1>7
<1> DEFINE Bad == {k \in 0..N : merged[k] \notin ClearDocuments}
<1>9. ASSUME Bad # {} PROVE FALSE
  <2>0. Bad \in SUBSET Nat
    BY <1>1
  <2>1. PICK k \in Bad : \A y \in Bad : k <= y
    <3> HIDE DEF Bad
    <3> QED
      BY <1>9, <2>0, Lowest, Zenon
  <2>2. k # 0
    BY <1>3, <1>8, <2>1
  <2>3. k \in 1..N /\ k - 1 \in 0..N /\ k - 1 \notin Bad
    BY <1>1, <2>1, <2>2
  <2>4. merged[k] \in ClearDocuments
    BY <1>4, <1>8, <2>3
  <2> QED
    BY <2>1, <2>4
<1> QED
  BY <1>5, <1>9 DEF N
-----------------------------------------------------------------------------
(* Steps *)

\* No step takes a lapse or a foreign password back.
FlagsGrow == (lapsed => lapsed') /\ (foreign => foreign')

\* A goroutine's document stays or is gone.
Drops == \A w \in Writers : writer'[w].doc = writer[w].doc \/ writer'[w].doc = Missing

\* Saves go on as they were, if at all, and none becomes fresh.
Stale ==
    \A w \in Writers : Saving(w)' => Saving(w) /\ Same(w) /\ (writer'[w].fresh => writer[w].fresh)

\* A step that saves nothing: what it changes in memory marks the wallet dirty and makes
\* the saves that run out of date.
Rests ==
    /\ Ends /\ Drops /\ Stale /\ FlagsGrow
    /\ Keeps(mem', pw', lapsed', foreign')
    /\ \/ UNCHANGED dirty /\ Content(mem') = Content(mem)
       \/ dirty' /\ \A w \in Writers : Saving(w)' => ~writer'[w].fresh
    /\ up' \in {"loading", "up"} => up \in {"loading", "up"}

\* Wallet.Save begins, with a document of what is in memory.
Saves(w) ==
    /\ Begins(w) /\ dirty' /\ UNCHANGED <<up, pw, lapsed, foreign>>
    /\ Keeps(mem', pw, lapsed, foreign)
    /\ writer'[w].doc \in Documents /\ Guarded(writer'[w].doc, lapsed, foreign)
    /\ Content(writer'[w].doc) = Content(mem')
    /\ \A o \in Writers \ {w} : ~writer'[o].fresh

\* Wallet.Save of a wallet that keeps its secrets.
LEMMA BeginSaves ==
  ASSUME WritersTyped, NEW w \in Writers, NEW m, Keeps(m, pw, lapsed, foreign), BeginSave(w, m),
         writer[w].pc = "run", UNCHANGED <<up, pw, disk, synced, compromised, lapsed, foreign>>
  PROVE  Saves(w)
<1>1. Begins(w)
  BY BeginSaveEffect
<1>2. /\ writer'[w] = [writer[w] EXCEPT !.pc = "open", !.todo = Tail(writer[w].todo),
                                        !.fresh = TRUE, !.doc = SavedDocument(m, pw)]
      /\ \A o \in Writers \ {w} : writer'[o] = [writer[o] EXCEPT !.fresh = FALSE]
      /\ mem' = Saved(m, pw) /\ dirty' = TRUE
  BY DEF BeginSave
<1>3. \A o \in Writers : writer[o] \in WriterRecord(writer[o].doc, writer[o].todo)
  BY DEF WritersTyped
<1>4. writer'[w].doc = SavedDocument(m, pw)
  <2>1. writer[w] \in WriterRecord(writer[w].doc, writer[w].todo)
    BY <1>3
  <2> QED
    BY <1>2, <2>1 DEF WriterRecord
<1>5. ASSUME NEW o \in Writers \ {w} PROVE writer'[o].fresh = FALSE
  <2>1. writer[o] \in WriterRecord(writer[o].doc, writer[o].todo)
    BY <1>3
  <2> QED
    BY <1>2, <2>1 DEF WriterRecord
<1>6. /\ Keeps(Saved(m, pw), pw, lapsed, foreign)
      /\ SavedDocument(m, pw) \in Documents /\ Guarded(SavedDocument(m, pw), lapsed, foreign)
      /\ Content(SavedDocument(m, pw)) = Content(Saved(m, pw))
  BY SaveEffect
<1> QED
  BY <1>1, <1>2, <1>4, <1>5, <1>6 DEF Saves

\* A handler goes on to its next step.
LEMMA AdvanceRests ==
  ASSUME WritersTyped, NEW w \in Writers, writer' = [writer EXCEPT ![w].todo = Tail(@)],
         UNCHANGED <<disk, synced, compromised>>
  PROVE  Ends /\ Drops /\ Stale
<1>1. Ends
  BY AdvanceEffect
<1>2. /\ \A o \in Writers \ {w} : writer'[o] = writer[o]
      /\ writer'[w] = [writer[w] EXCEPT !.todo = Tail(writer[w].todo)]
      /\ writer[w] \in WriterRecord(writer[w].doc, writer[w].todo)
  BY DEF WritersTyped
<1>3. /\ writer'[w].pc = writer[w].pc /\ writer'[w].fd = writer[w].fd
      /\ writer'[w].doc = writer[w].doc /\ writer'[w].fresh = writer[w].fresh
  BY <1>2 DEF WriterRecord
<1>4. \A o \in Writers : Same(o) /\ writer'[o].fresh = writer[o].fresh
  BY <1>2, <1>3 DEF Same
<1> QED
  BY <1>1, <1>4 DEF Drops, Stale, Same, Saving

\* A step of a handler that has nothing to save.
LEMMA SkipRests ==
  ASSUME WritersTyped, Keeps(mem, pw, lapsed, foreign), NEW w \in Writers, SkipStep(w),
         UNCHANGED <<up, pw, disk, synced, compromised, lapsed, foreign>>
  PROVE  Rests
<1>1. Ends /\ Drops /\ Stale /\ UNCHANGED <<mem, dirty>>
  BY AdvanceRests DEF SkipStep
<1> QED
  BY <1>1 DEF Rests, FlagsGrow

\* A goroutine that gives up or returns.
LEMMA GiveUpRests ==
  ASSUME WritersTyped, Keeps(mem, pw, lapsed, foreign), NEW w \in Writers,
         GiveUp(w) \/ (writer' = [writer EXCEPT ![w] = IdleWriter] /\ (up' = up \/ up = "loading")),
         UNCHANGED <<mem, pw, disk, synced, dirty, compromised, lapsed, foreign>>
  PROVE  Rests
<1>1. Ends
  BY GiveUpEffect
<1>2. \A o \in Writers : writer'[o] = writer[o] \/ writer'[o] = IdleWriter
  <2>1. CASE writer' = [o \in Writers |-> IdleWriter]
    BY <2>1
  <2>2. CASE writer' = [writer EXCEPT ![w] = IdleWriter]
    BY <2>2 DEF WritersTyped
  <2> QED
    BY <2>1, <2>2 DEF GiveUp
<1>3. IdleWriter.doc = Missing /\ IdleWriter.pc = "idle"
  BY DEF IdleWriter
<1>4. Drops /\ Stale
  BY <1>2, <1>3 DEF Drops, Stale, Saving, Same
<1>5. up' \in {"loading", "up"} => up \in {"loading", "up"}
  BY DEF GiveUp
<1> QED
  BY <1>1, <1>4, <1>5 DEF Rests, FlagsGrow

\* A request: the saves that run are out of date from now on.
LEMMA ServeRests ==
  ASSUME WritersTyped, NEW todo, Serve(todo)
  PROVE  /\ Ends /\ Drops /\ Stale /\ up' = up
         /\ \A w \in Writers : Saving(w)' => ~writer'[w].fresh
<1> DEFINE r == [IdleWriter EXCEPT !.pc = "run", !.todo = todo]
           s == [writer["startup"] EXCEPT !.fresh = FALSE]
<1>1. "rpc" \in Writers /\ "startup" \in Writers /\ \A w \in Writers : w = "rpc" \/ w = "startup"
  BY DEF Writers
<1>2. writer' = [w \in Writers |-> IF w = "rpc" THEN r ELSE s] /\ up' = up
  BY <1>1 DEF Serve, WritersTyped
<1>3. r.pc = "run" /\ r.doc = Missing
  BY DEF IdleWriter
<1>4. writer["startup"] \in WriterRecord(writer["startup"].doc, writer["startup"].todo)
  BY <1>1 DEF WritersTyped
<1>5. /\ s.pc = writer["startup"].pc /\ s.fd = writer["startup"].fd /\ s.doc = writer["startup"].doc
      /\ s.fresh = FALSE
  BY <1>4 DEF WriterRecord
<1> HIDE DEF r, s
<1>6. writer'["rpc"] = r /\ writer'["startup"] = s
  BY <1>1, <1>2
<1>7. Drops /\ Stale
  BY <1>1, <1>3, <1>5, <1>6 DEF Drops, Stale, Saving, Same
<1>8. \A w \in Writers : Saving(w)' => ~writer'[w].fresh
  BY <1>1, <1>3, <1>5, <1>6 DEF Saving
<1> QED
  BY <1>2, <1>7, <1>8, ServeEffect

\* A request rests when it keeps the secrets and marks what it changes.
LEMMA RequestRests ==
  ASSUME WritersTyped, NEW todo, Serve(todo), FlagsGrow, Keeps(mem', pw', lapsed', foreign'),
         dirty' \/ (UNCHANGED dirty /\ Content(mem') = Content(mem))
  PROVE  Rests
  BY ServeRests DEF Rests

\* The same locks and the same preference, or one that is turned on.
LEMMA KeepsSame ==
  ASSUME NEW m, NEW n \in Documents, NEW p, NEW l, NEW f, Keeps(m, p, l, f),
         Locks(n) \subseteq Locks(m), EncryptOnDisk(m) => EncryptOnDisk(n)
  PROVE  Keeps(n, p, l, f)
  BY DEF Keeps, Uniform, OneLock

\* Wallets in the clear keep their secrets under any password but the empty one.
LEMMA KeepsClear ==
  ASSUME NEW m \in Documents, NEW p \in Typed \cup {NoPassword}, NEW l, NEW f,
         Locks(m) \subseteq {Clear}, ~l => p # Blank
  PROVE  Keeps(m, p, l, f)
  BY DEF Keeps, Uniform, OneLock

\* The requests that set the preference or change accounts.
LEMMA SettingRequests ==
  ASSUME WritersTyped, Keeps(mem, pw, lapsed, foreign),
         \/ \E v \in BOOLEAN : PreferenceSet(v) \/ PreferenceSetNote(v)
         \/ \E p \in Passwords : WalletEncrypt(p)
         \/ WalletDecrypt
         \/ \E a \in Accounts, v \in Values : AccountSet(a, v)
  PROVE  Rests
<1> USE DEF FlagsGrow
<1>0. mem \in Documents
  BY DEF Keeps
<1>1. ASSUME NEW v \in BOOLEAN, PreferenceSet(v) PROVE Rests
  <2>1. /\ Serve(SaveOnly) /\ mem' = SetEncryptOnDisk(mem, v) /\ dirty' = TRUE
        /\ lapsed' = (lapsed \/ (~v /\ Locked(mem) /\ Exposed(mem))) /\ UNCHANGED <<pw, foreign>>
    BY <1>1 DEF PreferenceSet
  <2>2. mem' \in Documents /\ Locks(mem') = Locks(mem) /\ (v => EncryptOnDisk(mem'))
    BY <1>0, <2>1, PreferenceEffect
  <2>3. Keeps(mem', pw', lapsed', foreign')
    <3>1. ASSUME ~lapsed' PROVE pw # Blank /\ (Uniform(mem') \/ (EncryptOnDisk(mem') /\ pw # NoPassword))
      <4>1. ~lapsed /\ (v \/ ~Locked(mem) \/ ~Exposed(mem))
        BY <2>1, <3>1
      <4>2. pw # Blank /\ (Uniform(mem) \/ pw # NoPassword)
        BY <4>1 DEF Keeps
      <4>3. ~Locked(mem) \/ ~Exposed(mem) => Uniform(mem)
        BY LockedExposed DEF Uniform
      <4> QED
        BY <2>2, <4>1, <4>2, <4>3 DEF Uniform
    <3> QED
      BY <2>1, <2>2, <3>1 DEF Keeps, OneLock
  <2> QED
    BY <2>1, <2>3, RequestRests
<1>2. ASSUME NEW p \in Passwords, WalletEncrypt(p) PROVE Rests
  <2>1. /\ Serve(SaveOnly) /\ mem' = SetEncryptOnDisk(mem, TRUE) /\ dirty' = TRUE /\ pw' = p
        /\ UNCHANGED <<lapsed, foreign>> /\ ~Locked(mem) /\ p # Blank
    BY <1>2 DEF WalletEncrypt
  <2>2. mem' \in Documents /\ Locks(mem') \subseteq {Clear}
    BY <1>0, <2>1, PreferenceEffect, LockedExposed
  <2>3. Keeps(mem', pw', lapsed', foreign')
    BY <2>1, <2>2, KeepsClear DEF Typed
  <2> QED
    BY <2>1, <2>3, RequestRests
<1>3. CASE WalletDecrypt
  <2>1. /\ Serve(SaveOnly) /\ mem' = SetEncryptOnDisk(mem, FALSE) /\ dirty' = TRUE /\ pw' = pw
        /\ UNCHANGED <<lapsed, foreign>> /\ ~Locked(mem)
    BY <1>3 DEF WalletDecrypt
  <2>2. mem' \in Documents /\ Locks(mem') \subseteq {Clear}
    BY <1>0, <2>1, PreferenceEffect, LockedExposed
  <2>3. Keeps(mem', pw', lapsed', foreign')
    BY <2>1, <2>2, KeepsClear DEF Keeps
  <2> QED
    BY <2>1, <2>3, RequestRests
<1>4. ASSUME NEW a \in Accounts, NEW v \in Values, AccountSet(a, v) PROVE Rests
  <2> DEFINE F(r) == [r EXCEPT !.val = v, !.gap = FALSE, !.mod = Now]
             f == [i \in DOMAIN mem.accounts |->
                     IF i \in Nth(mem, a, 1) THEN F(mem.accounts[i]) ELSE mem.accounts[i]]
  <2>1. /\ Serve(SaveOnly) /\ dirty' = TRUE /\ UNCHANGED <<pw, lapsed, foreign>>
        /\ mem' = [mem EXCEPT !.accounts = f]
    BY <1>4 DEF AccountSet, OnNth
  <2>2. mem' \in Documents /\ Locks(mem') = Locks(mem) /\ mem'.eod = mem.eod
    <3>1. ASSUME NEW r \in AccountRecords PROVE F(r) \in AccountRecords /\ F(r).lock = r.lock
      BY DEF AccountRecords, Now, Times
    <3>2. \A i \in DOMAIN mem.accounts : mem.accounts[i] \in AccountRecords
      BY <1>0 DEF Documents
    <3> HIDE DEF F
    <3>3. /\ f \in [DOMAIN mem.accounts -> AccountRecords]
          /\ \A i \in DOMAIN mem.accounts : f[i].lock = mem.accounts[i].lock
      BY <3>1, <3>2
    <3> HIDE DEF f
    <3> QED
      BY <1>0, <2>1, <3>3, SameLocks
  <2>3. Keeps(mem', pw', lapsed', foreign')
    BY <2>1, <2>2, KeepsSame DEF EncryptOnDisk
  <2> QED
    BY <2>1, <2>3, RequestRests
<1>5. ASSUME NEW v \in BOOLEAN, PreferenceSetNote(v) PROVE Rests
  <2>1. /\ Serve(SaveOnly) /\ dirty' = TRUE /\ UNCHANGED <<pw, lapsed, foreign>> /\ mem' = SetNote(mem, v)
    BY <1>5 DEF PreferenceSetNote
  <2>2. mem' \in Documents /\ Locks(mem') = Locks(mem) /\ mem'.eod = mem.eod
    BY <1>0, <2>1, PreferenceEffect
  <2>3. Keeps(mem', pw', lapsed', foreign')
    BY <2>1, <2>2, KeepsSame DEF EncryptOnDisk
  <2> QED
    BY <2>1, <2>3, RequestRests
<1> QED
  BY <1>1, <1>2, <1>3, <1>4, <1>5

\* sync_apply adopts a password: saves go on to encrypt, and the lapses are noted.
Adopted(p) ==
    /\ pw' = IF Adopts(p) THEN p ELSE pw
    /\ foreign' = (foreign \/ (Adopts(p) /\ Locked(mem)))
    /\ lapsed' = (lapsed \/ pw' = Blank)

LEMMA AdoptedKeeps ==
  ASSUME Keeps(mem, pw, lapsed, foreign), UNCHANGED mem, NEW p \in Typed, Adopted(p)
  PROVE  Keeps(mem', pw', lapsed', foreign') /\ FlagsGrow
<1>0. mem \in Documents
  BY DEF Keeps
<1>1. /\ pw' = IF Adopts(p) THEN p ELSE pw
      /\ foreign' = (foreign \/ (Adopts(p) /\ Locked(mem)))
      /\ lapsed' = (lapsed \/ pw' = Blank)
  BY DEF Adopted
<1>2. FlagsGrow
  BY <1>1 DEF FlagsGrow
<1>3. CASE ~Adopts(p)
  <2>1. pw' = pw /\ (~foreign' => ~foreign) /\ (~lapsed' => ~lapsed)
    BY <1>1, <1>3
  <2> QED
    BY <1>2, <2>1 DEF Keeps
<1>4. CASE Adopts(p)
  <2>1. EncryptOnDisk(mem) /\ pw' = p
    BY <1>1, <1>4 DEF Adopts
  <2>2. NoPassword \notin Typed
    BY ConstantsAssumption DEF Typed, NoPassword, Blank
  <2>3. ~foreign' => Locks(mem) \subseteq {Clear}
    BY <1>1, <1>4, LockedExposed
  <2>4. ~lapsed' => p # Blank
    BY <1>1, <2>1
  <2>5. Keeps(mem', pw', lapsed', foreign')
    BY <1>0, <2>1, <2>2, <2>3, <2>4 DEF Keeps, OneLock
  <2> QED
    BY <1>2, <2>5
<1> QED
  BY <1>3, <1>4

\* Locking, unlocking and the ways an unlock stops.
LEMMA LockRequests ==
  ASSUME WritersTyped, Keeps(mem, pw, lapsed, foreign),
         WalletLock \/ \E p \in Typed : WalletUnlock(p) \/ UnlockBreaks(p) \/ SyncHeartbeat(p)
  PROVE  Rests
<1> USE DEF FlagsGrow
<1>0. mem \in Documents /\ pw \in Typed \cup {NoPassword}
  BY DEF Keeps
<1>1. CASE WalletLock
  <2>1. /\ Serve(<<>>) /\ pw # NoPassword /\ mem' = OnAccounts(mem, LAMBDA a : EncryptAccount(pw, a))
        /\ UNCHANGED <<pw, dirty, lapsed, foreign>>
    BY <1>1 DEF WalletLock
  <2>2. /\ mem' \in Documents /\ mem'.eod = mem.eod
        /\ Clear \notin Locks(mem') /\ Locks(mem') \subseteq (Locks(mem) \ {Clear}) \cup {pw}
        /\ Content(mem') = Content(mem)
    <3>1. pw \in Typed
      BY <1>0, <2>1
    <3> QED
      BY <1>0, <2>1, <3>1, EncryptEffect, Zenon
  <2>3. Keeps(mem', pw', lapsed', foreign')
    BY <2>1, <2>2 DEF Keeps, Uniform, OneLock
  <2> QED
    BY <2>1, <2>2, <2>3, RequestRests
<1>2. ASSUME NEW p \in Typed, WalletUnlock(p) PROVE Rests
  <2>1. Serve(<<>>) /\ UNCHANGED <<dirty, foreign>>
    BY <1>2 DEF WalletUnlock
  <2>2. PICK n \in 0..Len(mem.accounts) :
           /\ mem' = OpenFirst(p, n) /\ pw' = IF n = Len(mem.accounts) THEN p ELSE pw
           /\ lapsed' = (lapsed \/ pw' = Blank \/ n \in 1..(Len(mem.accounts) - 1))
    BY <1>2 DEF WalletUnlock
  <2>3. /\ mem' \in Documents /\ mem'.eod = mem.eod /\ Content(mem') = Content(mem)
        /\ Locks(mem') \subseteq Locks(mem) \cup {Clear}
        /\ n = Len(mem.accounts) => Locks(mem') \subseteq {Clear}
        /\ n = 0 => mem'.accounts = mem.accounts
    BY <1>0, <2>2, OpenEffect, Zenon
  <2>4. CASE n = Len(mem.accounts)
    <3>1. pw' = p /\ (~lapsed' => pw' # Blank) /\ Locks(mem') \subseteq {Clear}
      BY <2>2, <2>3, <2>4
    <3>2. Keeps(mem', pw', lapsed', foreign')
      BY <2>3, <3>1, KeepsClear
    <3> QED
      BY <2>1, <2>2, <2>3, <3>2, RequestRests
  <2>5. CASE n # Len(mem.accounts)
    <3>1. pw' = pw /\ (~lapsed' => ~lapsed /\ n = 0)
      <4>1. Len(mem.accounts) \in Nat
        BY <1>0 DEF Documents
      <4>2. n \in 1..(Len(mem.accounts) - 1) \/ n = 0
        BY <2>5, <4>1
      <4>3. pw' = pw
        BY <2>2, <2>5
      <4>4. ~lapsed' => ~lapsed /\ n \notin 1..(Len(mem.accounts) - 1)
        BY <2>2, Zenon
      <4> QED
        BY <4>2, <4>3, <4>4
    <3>2. ~lapsed' => Locks(mem') = Locks(mem)
      BY <2>3, <3>1 DEF Locks
    <3>3. ASSUME ~lapsed' PROVE pw' # Blank /\ (Uniform(mem') \/ (EncryptOnDisk(mem') /\ pw' # NoPassword))
      BY <2>3, <3>1, <3>2, <3>3 DEF Keeps, Uniform, EncryptOnDisk
    <3>4. ASSUME ~foreign' PROVE OneLock(mem') /\ (pw' # NoPassword => Locks(mem') \subseteq {Clear, pw'})
      BY <2>1, <2>3, <3>1, <3>4 DEF Keeps, OneLock
    <3>5. Keeps(mem', pw', lapsed', foreign')
      BY <1>0, <2>3, <3>1, <3>3, <3>4 DEF Keeps
    <3> QED
      BY <2>1, <2>2, <2>3, <3>5, RequestRests
  <2> QED
    BY <2>4, <2>5
<1>3. ASSUME NEW p \in Typed, UnlockBreaks(p) PROVE Rests
  <2>1. /\ lapsed' = TRUE /\ UNCHANGED <<up, pw, writer, disk, synced, dirty, compromised, foreign>>
    BY <1>3 DEF UnlockBreaks, files
  <2>2. PICK n \in 1..Len(mem.accounts) : mem' = OpenFirst(p, n)
    BY <1>3 DEF UnlockBreaks
  <2>3. n \in 0..Len(mem.accounts)
    <3>1. Len(mem.accounts) \in Nat
      BY <1>0 DEF Documents
    <3> QED
      BY <3>1
  <2>4. /\ mem' \in Documents /\ Content(mem') = Content(mem)
        /\ Locks(mem') \subseteq Locks(mem) \cup {Clear}
    BY <1>0, <2>2, <2>3, OpenEffect, Zenon
  <2>5. Keeps(mem', pw', lapsed', foreign')
    BY <1>0, <2>1, <2>4 DEF Keeps, OneLock
  <2>6. Ends /\ Drops /\ Stale
    BY <2>1 DEF Ends, Calm, WritersTyped, Same, Drops, Stale, Saving
  <2> QED
    BY <2>1, <2>4, <2>5, <2>6 DEF Rests
<1>4. ASSUME NEW p \in Typed, SyncHeartbeat(p) PROVE Rests
  <2>1. /\ \E todo : Serve(todo)
        /\ Adopted(p)
        /\ UNCHANGED <<mem, dirty>>
    BY <1>4 DEF SyncHeartbeat, Adopted
  <2> QED
    BY <2>1, AdoptedKeeps, RequestRests
<1> QED
  BY <1>1, <1>2, <1>3, <1>4

\* A sequence behind one more element.
LEMMA Prepended ==
  ASSUME NEW S, NEW r \in S, NEW s \in Seq(S)
  PROVE  /\ <<r>> \o s \in Seq(S)
         /\ \A k \in DOMAIN (<<r>> \o s) : (<<r>> \o s)[k] = r \/ \E j \in DOMAIN s : (<<r>> \o s)[k] = s[j]
<1>1. PICK n \in Nat : n = Len(s)
  OBVIOUS
<1>2. DOMAIN s = 1..n /\ <<r>> \in Seq(S) /\ Len(<<r>>) = 1 /\ <<r>>[1] = r
  BY <1>1
<1>3. /\ <<r>> \o s \in Seq(S) /\ DOMAIN (<<r>> \o s) = 1..(n + 1)
      /\ \A k \in 1..(n + 1) : (<<r>> \o s)[k] = IF k <= 1 THEN <<r>>[k] ELSE s[k - 1]
  BY <1>1, <1>2
<1>4. ASSUME NEW k \in 1..(n + 1) PROVE (<<r>> \o s)[k] = r \/ \E j \in DOMAIN s : (<<r>> \o s)[k] = s[j]
  <2>1. CASE k = 1
    BY <1>2, <1>3, <2>1
  <2>2. CASE k # 1
    <3>1. k - 1 \in DOMAIN s /\ ~(k <= 1)
      BY <1>2, <2>2
    <3> QED
      BY <1>3, <3>1
  <2> QED
    BY <2>1, <2>2
<1> QED
  BY <1>3, <1>4

\* Accounts of a document, in another order or fewer, with the locks they had.
LEMMA FewerLocks ==
  ASSUME NEW m \in Documents, NEW s \in Seq(AccountRecords),
         \A k \in DOMAIN s : \E j \in DOMAIN m.accounts : s[k].lock = m.accounts[j].lock
  PROVE  /\ [m EXCEPT !.accounts = s] \in Documents
         /\ Locks([m EXCEPT !.accounts = s]) \subseteq Locks(m)
         /\ [m EXCEPT !.accounts = s].eod = m.eod
<1>1. /\ [m EXCEPT !.accounts = s] \in Documents /\ [m EXCEPT !.accounts = s].eod = m.eod
      /\ [m EXCEPT !.accounts = s].accounts = s
  BY DEF Documents
<1> QED
  BY <1>1 DEF Locks

\* The requests that add, remove and move an account.
LEMMA AccountRequests ==
  ASSUME WritersTyped, Keeps(mem, pw, lapsed, foreign), NEW a \in Accounts,
         AccountAdd(a) \/ AccountRemove(a) \/ AccountSetDefault(a)
  PROVE  Rests
<1> USE DEF FlagsGrow
<1>0. mem \in Documents /\ pw \in Typed \cup {NoPassword}
  BY DEF Keeps
<1>1. CASE AccountAdd(a)
  <2>1. /\ Serve(SaveOnly) /\ dirty' = TRUE /\ UNCHANGED <<pw, foreign>>
        /\ mem' = [mem EXCEPT !.accounts = Append(mem.accounts, NewAccount(a))]
        /\ lapsed' = (lapsed \/ (Locked(mem) /\ ~(EncryptOnDisk(mem) /\ pw # NoPassword)))
    BY <1>1 DEF AccountAdd
  <2>2. mem' \in Documents /\ mem'.eod = mem.eod /\ Locks(mem') = Locks(mem) \cup {Clear}
    <3>1. NewAccount(a) \in AccountRecords /\ NewAccount(a).lock = Clear
      BY NewAccountTyped
    <3> HIDE DEF NewAccount
    <3> QED
      BY <1>0, <2>1, <3>1, AppendEffect
  <2>3. EncryptOnDisk(mem') <=> EncryptOnDisk(mem)
    BY <2>2 DEF EncryptOnDisk
  <2>4. ASSUME ~lapsed' PROVE pw # Blank /\ (Uniform(mem') \/ (EncryptOnDisk(mem') /\ pw # NoPassword))
    <3>1. ~lapsed /\ (~Locked(mem) \/ (EncryptOnDisk(mem) /\ pw # NoPassword))
      BY <2>1, <2>4
    <3>2. ~Locked(mem) => Locks(mem') \subseteq {Clear}
      BY <2>2, LockedExposed
    <3> QED
      BY <2>3, <3>1, <3>2 DEF Keeps, Uniform
  <2>5. Keeps(mem', pw', lapsed', foreign')
    BY <2>1, <2>2, <2>4 DEF Keeps, OneLock
  <2> QED
    BY <2>1, <2>5, RequestRests
<1>2. CASE AccountRemove(a)
  <2> DEFINE s == RemoveAt(mem.accounts, Position(mem, a))
  <2>1. /\ Serve(SaveOnly) /\ dirty' = TRUE /\ UNCHANGED <<pw, lapsed, foreign>>
        /\ mem' = [mem EXCEPT !.accounts = s] /\ a \in Ids(mem)
    BY <1>2 DEF AccountRemove
  <2>2. s \in Seq(AccountRecords) /\ \A k \in DOMAIN s : \E j \in DOMAIN mem.accounts : s[k] = mem.accounts[j]
    BY <1>0, <2>1, PositionFound, RemoveEffect
  <2> HIDE DEF s
  <2>3. mem' \in Documents /\ Locks(mem') \subseteq Locks(mem) /\ mem'.eod = mem.eod
    BY <1>0, <2>1, <2>2, FewerLocks
  <2>4. Keeps(mem', pw', lapsed', foreign')
    BY <2>1, <2>3, KeepsSame DEF EncryptOnDisk
  <2> QED
    BY <2>1, <2>4, RequestRests
<1>3. CASE AccountSetDefault(a)
  <2> DEFINE i == Position(mem, a)
             s == RemoveAt(mem.accounts, i)
             r == [mem.accounts[i] EXCEPT !.mod = Now]
  <2>1. /\ Serve(SaveOnly) /\ dirty' = TRUE /\ UNCHANGED <<pw, lapsed, foreign>>
        /\ mem' = [mem EXCEPT !.accounts = <<r>> \o s] /\ a \in Ids(mem)
    BY <1>3 DEF AccountSetDefault
  <2>2. i \in DOMAIN mem.accounts
    BY <1>0, <2>1, PositionFound
  <2> HIDE DEF i
  <2>3. s \in Seq(AccountRecords) /\ \A k \in DOMAIN s : \E j \in DOMAIN mem.accounts : s[k] = mem.accounts[j]
    BY <1>0, <2>2, RemoveEffect
  <2>4. r \in AccountRecords /\ r.lock = mem.accounts[i].lock
    <3>1. mem.accounts[i] \in AccountRecords
      BY <1>0, <2>2 DEF Documents
    <3> QED
      BY <3>1 DEF AccountRecords, Now, Times
  <2> HIDE DEF s, r
  <2>5. /\ <<r>> \o s \in Seq(AccountRecords)
        /\ \A k \in DOMAIN (<<r>> \o s) : (<<r>> \o s)[k] = r \/ \E j \in DOMAIN s : (<<r>> \o s)[k] = s[j]
    BY <2>3, <2>4, Prepended
  <2> DEFINE t == <<r>> \o s
  <2> HIDE DEF t
  <2>6. t \in Seq(AccountRecords) /\ \A k \in DOMAIN t : \E j \in DOMAIN mem.accounts : t[k].lock = mem.accounts[j].lock
    BY <2>2, <2>3, <2>4, <2>5, Zenon DEF t
  <2>7. mem' \in Documents /\ Locks(mem') \subseteq Locks(mem) /\ mem'.eod = mem.eod
    <3>1. mem' = [mem EXCEPT !.accounts = t]
      BY <2>1 DEF t
    <3> QED
      BY <1>0, <2>6, <3>1, FewerLocks
  <2>8. Keeps(mem', pw', lapsed', foreign')
    BY <2>1, <2>7, KeepsSame DEF EncryptOnDisk
  <2> QED
    BY <2>1, <2>8, RequestRests
<1> QED
  BY <1>1, <1>2, <1>3

\* The requests that merge another device's document.
LEMMA MergeRequests ==
  ASSUME WritersTyped, Keeps(mem, pw, lapsed, foreign), NEW d \in Delivered,
         WalletImport(d) \/ MergeFails(d) \/ \E p \in Typed : SyncApply(p, d)
  PROVE  Rests
<1> USE DEF FlagsGrow
<1>0. pw \in Typed \cup {NoPassword} /\ (~lapsed => pw # Blank)
  BY DEF Keeps
<1>1. d \in ClearDocuments
  <2>1. d \in Documents /\ ~Locked(d)
    BY ConstantsAssumption, SecretsAssumption
  <2> QED
    BY <2>1, LockedExposed DEF ClearDocuments
<1>2. mem \in ClearDocuments
  <2>1. mem \in Documents /\ ~Locked(mem)
    BY DEF Keeps, WalletImport, MergeFails, SyncApply
  <2> QED
    BY <2>1, LockedExposed DEF ClearDocuments
<1>3. \A n \in 0..Len(d.accounts) : MergeUpTo(mem, d, n) \in ClearDocuments
  BY <1>1, <1>2, MergeEffect
<1>4. Len(d.accounts) \in Nat
  BY <1>1 DEF ClearDocuments, Documents
<1>5. Merge(mem, d) \in ClearDocuments
  BY <1>3, <1>4 DEF Merge
<1>6. mem' \in ClearDocuments
  <2>1. CASE MergeFails(d)
    <3>1. PICK n \in 0..(Len(d.accounts) - 1) : mem' = MergeUpTo(mem, d, n)
      BY <2>1 DEF MergeFails
    <3>2. n \in 0..Len(d.accounts)
      BY <1>4
    <3> QED
      BY <1>3, <3>1, <3>2
  <2> QED
    BY <1>5, <2>1 DEF WalletImport, SyncApply
<1>7. \E todo : Serve(todo)
  BY DEF WalletImport, MergeFails, SyncApply
<1>8. dirty' = TRUE /\ UNCHANGED <<pw, lapsed, foreign>>
  BY DEF WalletImport, MergeFails, SyncApply
<1>9. pw' \in Typed \cup {NoPassword} /\ (~lapsed' => pw' # Blank)
  BY <1>0, <1>8
<1>10. Keeps(mem', pw', lapsed', foreign')
  BY <1>6, <1>9, KeepsClear DEF ClearDocuments
<1> QED
  BY <1>7, <1>8, <1>10, RequestRests

\* The steps of a handler that save, or that end it.
LEMMA HandlerSteps ==
  ASSUME WritersTyped, Keeps(mem, pw, lapsed, foreign), NEW w \in Writers,
         \/ SaveStep(w) \/ MigrateChannelKeys(w) \/ SaveMaxGap(w) \/ AdoptPassword(w)
         \/ Return(w) \/ Fail(w) \/ SaveFails(w)
  PROVE  Rests \/ Saves(w)
<1>0. mem \in Documents
  BY DEF Keeps
<1>1. CASE SaveStep(w)
  BY <1>1, BeginSaves DEF SaveStep, Running, files
<1>2. CASE MigrateChannelKeys(w)
  <2> DEFINE t == Head(writer[w].todo)
  <2>1. /\ IF HasLegacy(mem, t) THEN BeginSave(w, DropLegacy(mem, t)) ELSE SkipStep(w)
        /\ UNCHANGED <<up, pw, disk, synced, compromised, lapsed, foreign>> /\ writer[w].pc = "run"
    BY <1>2 DEF MigrateChannelKeys, Running, files
  <2> HIDE DEF t
  <2>2. Keeps(DropLegacy(mem, t), pw, lapsed, foreign)
    BY <1>0, DropLegacyEffect, KeepsSame DEF EncryptOnDisk
  <2> QED
    BY <2>1, <2>2, BeginSaves, SkipRests
<1>3. CASE SaveMaxGap(w)
  <2> DEFINE t == Head(writer[w].todo)
  <2>1. /\ IF GapStale(mem, t) THEN BeginSave(w, RaiseGap(mem, t)) ELSE SkipStep(w)
        /\ UNCHANGED <<up, pw, disk, synced, compromised, lapsed, foreign>> /\ writer[w].pc = "run"
    BY <1>3 DEF SaveMaxGap, Running, files
  <2> HIDE DEF t
  <2>2. Keeps(RaiseGap(mem, t), pw, lapsed, foreign)
    BY <1>0, RaiseGapEffect, KeepsSame DEF EncryptOnDisk
  <2> QED
    BY <2>1, <2>2, BeginSaves, SkipRests
<1>4. CASE Return(w)
  <2>1. /\ writer' = [writer EXCEPT ![w] = IdleWriter] /\ (up' = up \/ up = "loading")
        /\ UNCHANGED <<mem, pw, disk, synced, dirty, compromised, lapsed, foreign>>
    BY <1>4 DEF Return, files, history
  <2> QED
    BY <2>1, GiveUpRests
<1>5. CASE Fail(w) \/ SaveFails(w)
  <2>1. GiveUp(w) /\ UNCHANGED <<mem, pw, disk, synced, dirty, compromised, lapsed, foreign>>
    BY <1>5 DEF Fail, SaveFails, wallet, files, history
  <2> QED
    BY <2>1, GiveUpRests
<1>6. CASE AdoptPassword(w)
  <2>1. /\ \E p \in Typed : Adopted(p)
        /\ writer' = [writer EXCEPT ![w].todo = Tail(@)]
        /\ UNCHANGED <<up, mem, disk, synced, dirty, compromised>>
    BY <1>6 DEF AdoptPassword, Adopted, files
  <2>2. Keeps(mem', pw', lapsed', foreign') /\ FlagsGrow
    BY <2>1, AdoptedKeeps
  <2> QED
    BY <2>1, <2>2, AdvanceRests DEF Rests
<1> QED
  BY <1>1, <1>2, <1>3, <1>4, <1>5, <1>6

\* The startup goroutine begins its walk, or the daemon refuses the document.
LEMMA IdleSteps ==
  ASSUME WritersTyped, Keeps(mem, pw, lapsed, foreign), CompleteStartup \/ StartRefused \/ UNCHANGED vars
  PROVE  Rests
<1>1. CASE StartRefused \/ UNCHANGED vars
  <2>1. UNCHANGED <<mem, pw, writer, disk, synced, dirty, compromised, lapsed, foreign>>
    BY <1>1 DEF StartRefused, wallet, files, history, vars
  <2>2. up' \in {"loading", "up"} => up \in {"loading", "up"}
    BY <1>1 DEF StartRefused, vars
  <2>3. Ends /\ Drops /\ Stale /\ FlagsGrow
    BY <2>1 DEF Ends, Calm, WritersTyped, Same, Drops, Stale, Saving, FlagsGrow
  <2> QED
    BY <2>1, <2>2, <2>3 DEF Rests
<1>2. CASE CompleteStartup
  <2> DEFINE s == [writer["startup"] EXCEPT !.pc = "run", !.todo = StartupSteps(mem)]
  <2>1. "startup" \in Writers
    BY DEF Writers
  <2>2. /\ writer' = [writer EXCEPT !["startup"] = s]
        /\ UNCHANGED <<up, mem, pw, disk, synced, dirty, compromised, lapsed, foreign>>
    BY <1>2, <2>1 DEF CompleteStartup, wallet, files, history, WritersTyped
  <2>3. writer["startup"] \in WriterRecord(writer["startup"].doc, writer["startup"].todo)
    BY <2>1 DEF WritersTyped
  <2>4. s.pc = "run" /\ s.doc = writer["startup"].doc /\ s \in WriterRecord(s.doc, s.todo)
    BY <2>3 DEF WriterRecord, Phase
  <2> HIDE DEF s
  <2>5. \A w \in Writers : writer'[w] = IF w = "startup" THEN s ELSE writer[w]
    BY <2>1, <2>2 DEF WritersTyped
  <2>6. writer' = [w \in Writers |-> writer'[w]]
    BY <2>1, <2>2 DEF WritersTyped
  <2>7. Ends
    BY <2>2, <2>4, <2>5, <2>6 DEF Ends, Calm, WritersTyped, Same
  <2>8. Drops /\ Stale /\ FlagsGrow
    BY <2>2, <2>4, <2>5 DEF Drops, Stale, Same, Saving, FlagsGrow
  <2> QED
    BY <2>2, <2>7, <2>8 DEF Rests
<1> QED
  BY <1>1, <1>2

\* The steps of the wallet, by what they do to its memory, its saves and its files.
LEMMA SecretKinds ==
  ASSUME WritersTyped, Keeps(mem, pw, lapsed, foreign), [Next]_vars
  PROVE  \/ Rests
         \/ \E w \in Writers : \/ Saves(w) \/ OpenTemporary(w) \/ WriteTemporary(w) \/ SyncTemporary(w)
                               \/ Rename(w) \/ RenameFails(w) \/ RenameAgain(w)
         \/ Start \/ Crash
<1>1. ASSUME NEW w \in Writers,
             \/ SaveStep(w) \/ MigrateChannelKeys(w) \/ SaveMaxGap(w) \/ AdoptPassword(w)
             \/ Return(w) \/ Fail(w) \/ SaveFails(w)
      PROVE  Rests \/ Saves(w)
  BY <1>1, HandlerSteps
<1>2. CASE \/ \E v \in BOOLEAN : PreferenceSet(v) \/ PreferenceSetNote(v)
           \/ \E p \in Passwords : WalletEncrypt(p)
           \/ WalletDecrypt
           \/ \E a \in Accounts, v \in Values : AccountSet(a, v)
  BY <1>2, SettingRequests
<1>3. CASE WalletLock \/ \E p \in Typed : WalletUnlock(p) \/ UnlockBreaks(p) \/ SyncHeartbeat(p)
  BY <1>3, LockRequests
<1>4. CASE \E a \in Accounts : AccountAdd(a) \/ AccountRemove(a) \/ AccountSetDefault(a)
  BY <1>4, AccountRequests
<1>5. CASE \E d \in Delivered : WalletImport(d) \/ MergeFails(d) \/ \E p \in Typed : SyncApply(p, d)
  BY <1>5, MergeRequests
<1>6. CASE CompleteStartup \/ StartRefused \/ UNCHANGED vars
  BY <1>6, IdleSteps
<1> QED
  BY <1>1, <1>2, <1>3, <1>4, <1>5, <1>6 DEF Next

-----------------------------------------------------------------------------
(* The two invariants *)

\* What is guarded stays guarded when a lapse or a foreign password is added.
LEMMA GuardedGrows ==
  ASSUME NEW d, Guarded(d, lapsed, foreign), FlagsGrow
  PROVE  Guarded(d, lapsed', foreign')
  BY DEF Guarded, FlagsGrow

LEMMA GuardedBlank ==
  ASSUME NEW l, NEW f
  PROVE  Guarded(Missing, l, f) /\ Guarded(Torn, l, f)
  BY DocumentKinds DEF Guarded

\* A save goes on: it opens, writes or syncs the temporary file.
Works(w) ==
    /\ UNCHANGED <<up, mem, pw, dirty, lapsed, foreign>>
    /\ Saving(w) /\ Saving(w)' /\ (~compromised' => ~compromised)
    /\ \A o \in Writers : writer'[o].doc = writer[o].doc /\ writer'[o].fresh = writer[o].fresh
    /\ \A o \in Writers \ {w} : writer'[o].pc = writer[o].pc
    /\ disk'.file \in {disk.file, writer[w].doc} /\ disk'.tmp \in {Torn, disk.tmp, writer[w].doc}
    /\ ~compromised' => Owns(w) \/ \A o \in Writers \ {w} : ~Saving(o)

LEMMA FileWorks ==
  ASSUME TypeOK, NEW w \in Writers, OpenTemporary(w) \/ WriteTemporary(w) \/ SyncTemporary(w)
  PROVE  Works(w)
<1>0. writer[w] \in WriterRecord(writer[w].doc, writer[w].todo)
  BY DEF TypeOK, WritersTyped
<1>1. CASE OpenTemporary(w)
  <2>1. writer' = [writer EXCEPT ![w] = [writer[w] EXCEPT !.pc = "write", !.fd = "tmp"]] /\ writer[w].pc = "open"
    BY <1>1 DEF OpenTemporary, TypeOK, WritersTyped
  <2>2. /\ \A o \in Writers \ {w} : writer'[o] = writer[o]
        /\ writer'[w] = [writer[w] EXCEPT !.pc = "write", !.fd = "tmp"]
    BY <2>1 DEF TypeOK, WritersTyped
  <2>3. writer'[w].pc = "write" /\ writer'[w].doc = writer[w].doc /\ writer'[w].fresh = writer[w].fresh
    BY <1>0, <2>2 DEF WriterRecord
  <2>4. disk'.file = disk.file /\ disk'.tmp = Torn
    BY <1>1 DEF OpenTemporary, TypeOK, FilesTyped
  <2>5. ~compromised' => ~compromised /\ \A o \in Writers \ {w} : ~Saving(o)
    BY <1>1 DEF OpenTemporary
  <2>6. UNCHANGED <<up, mem, pw, dirty, lapsed, foreign>>
    BY <1>1 DEF OpenTemporary, wallet
  <2> QED
    BY <2>1, <2>2, <2>3, <2>4, <2>5, <2>6 DEF Works, Saving
<1>2. CASE WriteTemporary(w)
  <2>1. writer' = [writer EXCEPT ![w] = [writer[w] EXCEPT !.pc = "sync"]] /\ writer[w].pc = "write"
    BY <1>2 DEF WriteTemporary, TypeOK, WritersTyped
  <2>2. /\ \A o \in Writers \ {w} : writer'[o] = writer[o]
        /\ writer'[w] = [writer[w] EXCEPT !.pc = "sync"]
    BY <2>1 DEF TypeOK, WritersTyped
  <2>3. writer'[w].pc = "sync" /\ writer'[w].doc = writer[w].doc /\ writer'[w].fresh = writer[w].fresh
    BY <1>0, <2>2 DEF WriterRecord
  <2>4. disk'.file \in {disk.file, writer[w].doc} /\ disk'.tmp \in {disk.tmp, writer[w].doc}
    BY <1>2 DEF WriteTemporary, Paths
  <2>5. UNCHANGED <<up, mem, pw, dirty, lapsed, foreign, compromised>>
    BY <1>2 DEF WriteTemporary, wallet, history
  <2> QED
    BY <2>1, <2>2, <2>3, <2>4, <2>5 DEF Works, Saving, Owns
<1>3. CASE SyncTemporary(w)
  <2>1. writer' = [writer EXCEPT ![w] = [writer[w] EXCEPT !.pc = "rename", !.fd = "none"]] /\ writer[w].pc = "sync"
    BY <1>3 DEF SyncTemporary, TypeOK, WritersTyped
  <2>2. /\ \A o \in Writers \ {w} : writer'[o] = writer[o]
        /\ writer'[w] = [writer[w] EXCEPT !.pc = "rename", !.fd = "none"]
    BY <2>1 DEF TypeOK, WritersTyped
  <2>3. writer'[w].pc = "rename" /\ writer'[w].doc = writer[w].doc /\ writer'[w].fresh = writer[w].fresh
    BY <1>0, <2>2 DEF WriterRecord
  <2>4. UNCHANGED <<up, mem, pw, disk, dirty, lapsed, foreign, compromised>>
    BY <1>3 DEF SyncTemporary, wallet, history
  <2> QED
    BY <2>1, <2>2, <2>3, <2>4 DEF Works, Saving, Owns
<1> QED
  BY <1>1, <1>2, <1>3

\* What a rename does to the documents and to the other goroutine.
LEMMA RenamedDocuments ==
  ASSUME TypeOK, NEW w \in Writers, Renamed(w)
  PROVE  /\ disk'.file = disk.tmp /\ disk'.tmp = Missing
         /\ writer'[w].pc = "run" /\ writer'[w].doc = Missing
         /\ \A o \in Writers \ {w} : /\ writer'[o].pc = writer[o].pc /\ writer'[o].doc = writer[o].doc
                                     /\ writer'[o].fresh = writer[o].fresh
         /\ dirty' = (dirty /\ ~writer[w].fresh)
<1>1. /\ writer'[w] = [writer[w] EXCEPT !.pc = "run", !.doc = Missing]
      /\ \A o \in Writers \ {w} : writer'[o] = [writer[o] EXCEPT !.fd = Moved(writer[o].fd, TRUE)]
      /\ disk' = [file |-> disk.tmp, tmp |-> Missing] /\ dirty' = (dirty /\ ~writer[w].fresh)
  BY DEF Renamed
<1>2. \A o \in Writers : writer[o] \in WriterRecord(writer[o].doc, writer[o].todo)
  BY DEF TypeOK, WritersTyped
<1>3. writer'[w].pc = "run" /\ writer'[w].doc = Missing
  BY <1>1, <1>2 DEF WriterRecord
<1>4. ASSUME NEW o \in Writers \ {w}
      PROVE  /\ writer'[o].pc = writer[o].pc /\ writer'[o].doc = writer[o].doc
             /\ writer'[o].fresh = writer[o].fresh
  <2> DEFINE fd == Moved(writer[o].fd, TRUE)
  <2>1. writer[o] \in WriterRecord(writer[o].doc, writer[o].todo) /\ writer'[o] = [writer[o] EXCEPT !.fd = fd]
    BY <1>1, <1>2
  <2> HIDE DEF fd
  <2> QED
    BY <2>1 DEF WriterRecord
<1> QED
  BY <1>1, <1>3, <1>4

\* Wallets that are loaded: completed, they keep their secrets; what needs no completion is
\* on disk already.
LEMMA StartEffect ==
  ASSUME NEW d, d # Torn, NEW l, NEW f, Guarded(d, l, f)
  PROVE  /\ Keeps(Completed(Load(d)), NoPassword, l, f)
         /\ Completed(Load(d)) = Load(d) => d \in Documents /\ Load(d) = d
<1> DEFINE m == Load(d)
           filled == IF m.accounts = <<>> THEN [m EXCEPT !.accounts = <<NewAccount(FreshAccount)>>] ELSE m
<1>1. /\ m \in Documents
      /\ ~l => Uniform(m)
      /\ ~f => OneLock(m)
  <2>1. CASE d = Missing
    BY <2>1, EmptyTyped DEF Load, Uniform, OneLock
  <2>2. CASE d # Missing
    BY <2>2 DEF Load, Guarded, IsDocument
  <2> QED
    BY <2>1, <2>2
<1>2. d = Missing => m.accounts = <<>>
  BY DEF Load, EmptyWallet
<1>3. d # Missing => d \in Documents /\ Load(d) = d
  BY DEF Load, Guarded, IsDocument
<1> HIDE DEF m
<1>4. /\ filled \in Documents /\ (~l => Uniform(filled)) /\ (~f => OneLock(filled))
      /\ m.accounts = <<>> => filled.accounts # <<>>
  <2>1. CASE m.accounts = <<>>
    <3>1. NewAccount(FreshAccount) \in AccountRecords /\ NewAccount(FreshAccount).lock = Clear
      BY NewAccountTyped, ConstantsAssumption
    <3> DEFINE r == NewAccount(FreshAccount)
    <3> HIDE DEF r
    <3>2. filled = [m EXCEPT !.accounts = <<r>>]
      BY <2>1 DEF r
    <3>3. <<r>> \in Seq(AccountRecords) /\ <<r>> # <<>> /\ DOMAIN <<r>> = {1} /\ <<r>>[1] = r
      BY <3>1 DEF r
    <3>4. filled \in Documents /\ filled.accounts = <<r>>
      BY <1>1, <3>2, <3>3 DEF Documents
    <3>5. Locks(filled) = {Clear}
      BY <3>1, <3>3, <3>4 DEF Locks, r
    <3> QED
      BY <3>3, <3>4, <3>5 DEF Uniform, OneLock
  <2>2. CASE m.accounts # <<>>
    BY <1>1, <2>2
  <2> QED
    BY <2>1, <2>2
<1>5. Completed(m) = IF Locked(filled) /\ filled.eod = NoEntry THEN SetEncryptOnDisk(filled, TRUE) ELSE filled
  BY DEF Completed
<1> HIDE DEF filled
<1>6. Completed(m) \in Documents /\ Locks(Completed(m)) = Locks(filled) /\ Completed(m).accounts = filled.accounts
  BY <1>4, <1>5, PreferenceEffect
<1>7. NoPassword # Blank
  BY DEF NoPassword, Blank
<1>8. Keeps(Completed(m), NoPassword, l, f)
  BY <1>4, <1>6, <1>7 DEF Keeps, Uniform, OneLock
<1>9. Completed(m) = m => m.accounts # <<>>
  BY <1>4, <1>6
<1> QED
  BY <1>2, <1>3, <1>8, <1>9 DEF m

\* Starting: the two goroutines have no document, and memory is what was loaded.
LEMMA StartSteps ==
  ASSUME TypeOK, SecretsInv, Start
  PROVE  /\ Keeps(mem', pw', lapsed, foreign) /\ UNCHANGED <<compromised, lapsed, foreign>>
         /\ disk'.file = disk.file /\ disk'.tmp = Missing
         /\ \A w \in Writers : writer'[w].doc = Missing /\ ~Saving(w)'
         /\ ~dirty' => disk.file \in Documents /\ mem' = disk.file
<1>1. /\ mem' = Completed(Load(disk.file)) /\ dirty' = (Completed(Load(disk.file)) # Load(disk.file))
      /\ pw' = NoPassword /\ UNCHANGED <<compromised, lapsed, foreign>> /\ disk.file # Torn
      /\ disk' = [disk EXCEPT !.tmp = Missing]
  BY DEF Start, Stored, Readable
<1>2. PICK todo : writer' = [rpc |-> [IdleWriter EXCEPT !.pc = "run", !.todo = todo],
                             startup |-> [IdleWriter EXCEPT !.pc = "waiting"]]
  BY DEF Start
<1>3. \A w \in Writers : writer'[w].doc = Missing /\ ~Saving(w)'
  <2> DEFINE a == [IdleWriter EXCEPT !.pc = "run", !.todo = todo]
             b == [IdleWriter EXCEPT !.pc = "waiting"]
  <2>1. a.pc = "run" /\ a.doc = Missing /\ b.pc = "waiting" /\ b.doc = Missing
    BY DEF IdleWriter
  <2>2. writer' = [rpc |-> a, startup |-> b]
    BY <1>2
  <2> HIDE DEF a, b
  <2> QED
    BY <2>1, <2>2 DEF Writers, Saving
<1>4. disk'.file = disk.file /\ disk'.tmp = Missing
  BY <1>1 DEF TypeOK, FilesTyped
<1>5. Guarded(disk.file, lapsed, foreign)
  BY DEF SecretsInv
<1>6. /\ Keeps(mem', pw', lapsed, foreign)
      /\ Completed(Load(disk.file)) = Load(disk.file) => disk.file \in Documents /\ Load(disk.file) = disk.file
  BY <1>1, <1>5, StartEffect
<1> QED
  BY <1>1, <1>3, <1>4, <1>6

\* Dying: nothing of the process is left, and the wallet file holds what it held or is torn.
LEMMA CrashSteps ==
  ASSUME Crash
  PROVE  /\ Keeps(mem', pw', lapsed, foreign) /\ UNCHANGED <<compromised, lapsed, foreign>>
         /\ disk'.file \in {disk.file, Torn} /\ disk'.tmp = Missing
         /\ \A w \in Writers : writer'[w].doc = Missing /\ ~Saving(w)'
         /\ up' = "down"
<1>1. /\ mem' = EmptyWallet /\ pw' = NoPassword /\ up' = "down"
      /\ UNCHANGED <<compromised, lapsed, foreign>>
      /\ writer' = [w \in Writers |-> IdleWriter]
  BY DEF Crash
<1>2. PICK content \in {disk.file} \cup (IF "file" \in synced THEN {} ELSE {Torn}) :
         disk' = [file |-> content, tmp |-> Missing]
  BY DEF Crash
<1>3. EmptyWallet \in Documents /\ Locks(EmptyWallet) = {}
  BY EmptyTyped
<1>4. NoPassword # Blank
  BY DEF NoPassword, Blank
<1>5. IdleWriter.doc = Missing /\ IdleWriter.pc = "idle"
  BY DEF IdleWriter
<1>6. \A w \in Writers : writer'[w].doc = Missing /\ ~Saving(w)'
  BY <1>1, <1>5 DEF Saving
<1>7. Keeps(mem', pw', lapsed, foreign)
  BY <1>1, <1>3, <1>4 DEF Keeps, Uniform, OneLock
<1>8. disk'.file \in {disk.file, Torn} /\ disk'.tmp = Missing
  BY <1>2
<1> QED
  BY <1>1, <1>6, <1>7, <1>8

\* A rename that fails: a document is dropped, or the wallet file is unlinked.
LEMMA FailedRename ==
  ASSUME TypeOK, NEW w \in Writers, RenameFails(w)
  PROVE  /\ UNCHANGED <<mem, pw, lapsed, foreign>> /\ compromised'
         /\ disk'.file \in {disk.file, Missing} /\ disk'.tmp = disk.tmp
         /\ Drops
<1>1. UNCHANGED <<mem, pw, lapsed, foreign>> /\ compromised'
  BY DEF RenameFails, wallet
<1>2. IdleWriter.doc = Missing
  BY DEF IdleWriter
<1>3. CASE GiveUp(w) /\ UNCHANGED disk
  <2>1. \A o \in Writers : writer'[o] = writer[o] \/ writer'[o] = IdleWriter
    <3>1. CASE writer' = [o \in Writers |-> IdleWriter]
      BY <3>1
    <3>2. CASE writer' = [writer EXCEPT ![w] = IdleWriter]
      BY <3>2 DEF TypeOK, WritersTyped
    <3> QED
      BY <1>3, <3>1, <3>2 DEF GiveUp
  <2> QED
    BY <1>1, <1>2, <1>3, <2>1 DEF Drops
<1>4. CASE /\ disk' = [disk EXCEPT !.file = Missing]
           /\ writer' = [o \in Writers |->
                 IF o = w THEN [writer[w] EXCEPT !.pc = "again"]
                 ELSE [writer[o] EXCEPT !.fd = Moved(writer[o].fd, FALSE)]]
  <2>1. disk'.file = Missing /\ disk'.tmp = disk.tmp
    BY <1>4 DEF TypeOK, FilesTyped
  <2>2. ASSUME NEW o \in Writers PROVE writer'[o].doc = writer[o].doc
    <3> DEFINE fd == Moved(writer[o].fd, FALSE)
    <3>1. writer[o] \in WriterRecord(writer[o].doc, writer[o].todo)
      BY DEF TypeOK, WritersTyped
    <3>2. writer'[o] = [writer[o] EXCEPT !.pc = "again"] \/ writer'[o] = [writer[o] EXCEPT !.fd = fd]
      BY <1>4
    <3> HIDE DEF fd
    <3> QED
      BY <3>1, <3>2 DEF WriterRecord
  <2> QED
    BY <1>1, <2>1, <2>2 DEF Drops
<1> QED
  BY <1>3, <1>4 DEF RenameFails

\* Every step keeps the secrets of the wallet in memory, in the files and in between.
LEMMA SecretsStep ==
  ASSUME TypeOK, SecretsInv, [Next]_vars
  PROVE  SecretsInv'
<1>0. /\ Keeps(mem, pw, lapsed, foreign)
      /\ Guarded(disk.file, lapsed, foreign) /\ Guarded(disk.tmp, lapsed, foreign)
      /\ \A w \in Writers : Guarded(writer[w].doc, lapsed, foreign)
      /\ Guarded(Missing, lapsed, foreign) /\ Guarded(Torn, lapsed, foreign)
  BY GuardedBlank DEF SecretsInv
<1>1. CASE Rests
  <2>1. Keeps(mem', pw', lapsed', foreign') /\ FlagsGrow /\ Drops /\ UNCHANGED disk
    BY <1>1 DEF Rests, Ends, Calm
  <2>2. \A d : Guarded(d, lapsed, foreign) => Guarded(d, lapsed', foreign')
    BY <2>1, GuardedGrows
  <2> QED
    BY <1>0, <2>1, <2>2 DEF SecretsInv, Drops
<1>2. ASSUME NEW w \in Writers, Saves(w) PROVE SecretsInv'
  <2>1. /\ Keeps(mem', pw, lapsed, foreign) /\ UNCHANGED <<pw, disk, lapsed, foreign>>
        /\ Guarded(writer'[w].doc, lapsed, foreign)
        /\ \A o \in Writers \ {w} : writer'[o].doc = writer[o].doc
    BY <1>2 DEF Saves, Begins, Calm, Same
  <2> QED
    BY <1>0, <2>1 DEF SecretsInv
<1>3. ASSUME NEW w \in Writers, Works(w) PROVE SecretsInv'
  BY <1>0, <1>3 DEF SecretsInv, Works
<1>4. ASSUME NEW w \in Writers, Rename(w) \/ RenameAgain(w) PROVE SecretsInv'
  <2>1. Renamed(w) /\ UNCHANGED <<mem, pw, lapsed, foreign>>
    BY <1>4 DEF Rename, RenameAgain, wallet
  <2>2. /\ disk'.file = disk.tmp /\ disk'.tmp = Missing
        /\ writer'[w].doc = Missing
        /\ \A o \in Writers \ {w} : writer'[o].doc = writer[o].doc
    BY <2>1, RenamedDocuments
  <2> QED
    BY <1>0, <2>1, <2>2 DEF SecretsInv
<1>5. ASSUME NEW w \in Writers, RenameFails(w) PROVE SecretsInv'
  BY <1>0, <1>5, FailedRename DEF SecretsInv, Drops
<1>6. CASE Start
  BY <1>0, <1>6, StartSteps DEF SecretsInv
<1>7. CASE Crash
  BY <1>0, <1>7, CrashSteps DEF SecretsInv
<1> QED
  BY <1>0, <1>1, <1>2, <1>3, <1>4, <1>5, <1>6, <1>7, SecretKinds, FileWorks DEF TypeOK

\* Every step keeps the relation between memory, the saves and the wallet file.
LEMMA SavedStep ==
  ASSUME IndInv, SecretsInv, SavedInv, [Next]_vars
  PROVE  SavedInv'
<1>0. TypeOK /\ Keeps(mem, pw, lapsed, foreign)
  BY DEF IndInv, SecretsInv
<1>1. CASE Rests
  <2>1. Stale /\ UNCHANGED <<disk, compromised>>
    BY <1>1 DEF Rests, Ends, Calm
  <2>2. \/ UNCHANGED dirty /\ Content(mem') = Content(mem)
        \/ dirty' /\ \A w \in Writers : Saving(w)' => ~writer'[w].fresh
    BY <1>1 DEF Rests
  <2>3. up' \in {"loading", "up"} => up \in {"loading", "up"}
    BY <1>1 DEF Rests
  <2>4. \A w \in Writers : /\ Saving(w)' => /\ Saving(w) /\ writer'[w].doc = writer[w].doc
                                            /\ (writer'[w].fresh => writer[w].fresh)
                           /\ Owns(w)' => Saving(w)' /\ Owns(w)
    BY <2>1 DEF Stale, Same, Saving, Owns
  <2>5. CASE UNCHANGED dirty /\ Content(mem') = Content(mem)
    BY <2>1, <2>3, <2>4, <2>5 DEF SavedInv
  <2>6. CASE dirty' /\ \A w \in Writers : Saving(w)' => ~writer'[w].fresh
    BY <2>1, <2>4, <2>6 DEF SavedInv
  <2> QED
    BY <2>2, <2>5, <2>6
<1>2. ASSUME NEW w \in Writers, Saves(w) PROVE SavedInv'
  <2>1. /\ dirty' /\ UNCHANGED <<up, compromised>>
        /\ writer'[w].doc \in Documents /\ Content(writer'[w].doc) = Content(mem')
        /\ \A o \in Writers \ {w} : ~writer'[o].fresh
        /\ writer'[w].pc = "open"
    BY <1>2 DEF Saves, Begins, Calm
  <2>2. ~Owns(w)'
    BY <2>1 DEF Owns
  <2> QED
    BY <2>1, <2>2 DEF SavedInv
<1>3. ASSUME NEW w \in Writers, Works(w) PROVE SavedInv'
  <2>1. /\ UNCHANGED <<up, mem, dirty>> /\ Saving(w) /\ (~compromised' => ~compromised)
        /\ \A o \in Writers : writer'[o].doc = writer[o].doc /\ writer'[o].fresh = writer[o].fresh
        /\ ~compromised' => Owns(w) \/ \A o \in Writers \ {w} : ~Saving(o)
    BY <1>3 DEF Works
  <2>2. \A o \in Writers : Saving(o)' <=> Saving(o)
    BY <1>3 DEF Works, Saving
  <2>3. \A o \in Writers \ {w} : Owns(o)' <=> Owns(o)
    BY <1>3 DEF Works, Owns
  <2>4. \A o \in Writers : (Owns(o) => Saving(o)) /\ (Owns(o)' => Saving(o)')
    BY DEF Owns, Saving
  <2>5. SUFFICES ASSUME ~compromised' PROVE SavedInv!2'
    BY DEF SavedInv
  <2>6. SavedInv!2
    BY <2>1, <2>5 DEF SavedInv
  <2>7. \A x, o \in Writers : Owns(x)' /\ writer'[x].fresh /\ Saving(o)' => x = o
    BY <2>1, <2>2, <2>3, <2>4, <2>5, <2>6
  <2> QED
    BY <2>1, <2>2, <2>6, <2>7
<1>4. ASSUME NEW w \in Writers, Rename(w) PROVE SavedInv'
  <2>1. Renamed(w) /\ UNCHANGED <<up, mem, compromised>> /\ writer[w].pc = "rename"
    BY <1>4 DEF Rename, wallet
  <2>2. /\ disk'.file = disk.tmp /\ writer'[w].pc = "run"
        /\ \A o \in Writers \ {w} : /\ writer'[o].pc = writer[o].pc /\ writer'[o].doc = writer[o].doc
                                    /\ writer'[o].fresh = writer[o].fresh
        /\ dirty' = (dirty /\ ~writer[w].fresh)
    BY <1>0, <2>1, RenamedDocuments
  <2>3. ~compromised => disk.tmp = writer[w].doc
    BY <2>1 DEF IndInv, OwnerInv, TemporaryOf
  <2>4. Saving(w) /\ Owns(w) /\ ~Saving(w)' /\ ~Owns(w)'
    BY <2>1, <2>2 DEF Saving, Owns
  <2>5. \A o \in Writers \ {w} : (Saving(o)' <=> Saving(o)) /\ (Owns(o)' <=> Owns(o))
    BY <2>2 DEF Saving, Owns
  <2>6. CASE writer[w].fresh
    BY <2>1, <2>2, <2>3, <2>4, <2>5, <2>6 DEF SavedInv
  <2>7. CASE ~writer[w].fresh
    BY <2>1, <2>2, <2>4, <2>5, <2>7 DEF SavedInv
  <2> QED
    BY <2>6, <2>7
<1>5. ASSUME NEW w \in Writers, RenameFails(w) \/ RenameAgain(w) PROVE SavedInv'
  BY <1>5, FallbackStep DEF SavedInv
<1>6. CASE Start
  <2>1. \A w \in Writers : ~Owns(w)'
    <3>1. \A w \in Writers : ~Saving(w)'
      BY <1>0, <1>6, StartSteps
    <3> QED
      BY <3>1 DEF Saving, Owns
  <2> QED
    BY <1>0, <1>6, <2>1, StartSteps DEF SavedInv
<1>7. CASE Crash
  <2>1. /\ up' = "down" /\ \A w \in Writers : ~Saving(w)'
    BY <1>7, CrashSteps
  <2>2. \A w \in Writers : ~Owns(w)'
    BY <2>1 DEF Saving, Owns
  <2> QED
    BY <2>1, <2>2 DEF SavedInv
<1> QED
  BY <1>0, <1>1, <1>2, <1>3, <1>4, <1>5, <1>6, <1>7, SecretKinds, FileWorks DEF TypeOK

\* A step that leaves the preference as it is, or says again what is asked for.
Heeds ==
    \/ (asked' => asked) /\ (withdrawn => withdrawn') /\ (EncryptOnDisk(mem) => EncryptOnDisk(mem'))
    \/ asked' => EncryptOnDisk(mem')
    \/ withdrawn'

\* A save withdraws what was asked for, or keeps it.
LEMMA SaveHeeds ==
  ASSUME NEW w \in Writers, NEW m, m.eod = mem.eod, BeginSave(w, m), UNCHANGED asked
  PROVE  Heeds
<1>1. mem' = Saved(m, pw) /\ withdrawn' = (withdrawn \/ SaveResets(m, pw))
  BY DEF BeginSave
<1>2. CASE SaveResets(m, pw)
  BY <1>1, <1>2 DEF Heeds
<1>3. CASE ~SaveResets(m, pw)
  <2>1. mem' = m
    BY <1>1, <1>3 DEF Saved
  <2>2. EncryptOnDisk(mem) => EncryptOnDisk(mem')
    BY <2>1 DEF EncryptOnDisk
  <2>3. withdrawn => withdrawn'
    BY <1>1, Zenon
  <2> QED
    BY <2>2, <2>3 DEF Heeds
<1> QED
  BY <1>2, <1>3

\* Every step keeps what was asked for, withdraws it, or asks for something else.
LEMMA AskedStep ==
  ASSUME TypeOK, Keeps(mem, pw, lapsed, foreign), AskedInv, [Next]_vars
  PROVE  AskedInv'
<1>0. mem \in Documents
  BY DEF Keeps
<1>1. ASSUME NEW w \in Writers,
             SaveStep(w) \/ MigrateChannelKeys(w) \/ SaveMaxGap(w)
      PROVE  Heeds
  <2> DEFINE t == Head(writer[w].todo)
  <2>1. /\ UNCHANGED asked
        /\ \/ BeginSave(w, mem) \/ BeginSave(w, DropLegacy(mem, t)) \/ BeginSave(w, RaiseGap(mem, t))
           \/ SkipStep(w)
    BY <1>1 DEF SaveStep, MigrateChannelKeys, SaveMaxGap
  <2> HIDE DEF t
  <2>2. DropLegacy(mem, t).eod = mem.eod /\ RaiseGap(mem, t).eod = mem.eod
    BY <1>0, DropLegacyEffect, RaiseGapEffect
  <2>3. CASE SkipStep(w)
    BY <2>1, <2>3 DEF SkipStep, Heeds
  <2> QED
    BY <2>1, <2>2, <2>3, SaveHeeds
<1>2. ASSUME NEW w \in Writers,
             \/ AdoptPassword(w) \/ Return(w) \/ Fail(w) \/ SaveFails(w)
             \/ OpenTemporary(w) \/ WriteTemporary(w) \/ SyncTemporary(w)
             \/ Rename(w) \/ RenameFails(w) \/ RenameAgain(w)
      PROVE  Heeds
  <2>1. UNCHANGED <<mem, asked, withdrawn>>
    BY <1>2 DEF AdoptPassword, Return, Fail, SaveFails, OpenTemporary, WriteTemporary, SyncTemporary,
                Rename, RenameFails, RenameAgain, wallet, history
  <2> QED
    BY <2>1 DEF Heeds
<1>3. ASSUME NEW v \in BOOLEAN, PreferenceSet(v) \/ PreferenceSetNote(v) PROVE Heeds
  <2>1. CASE PreferenceSet(v)
    <3>1. asked' = v /\ mem' = SetEncryptOnDisk(mem, v)
      BY <2>1 DEF PreferenceSet
    <3> QED
      BY <1>0, <3>1, PreferenceEffect DEF Heeds
  <2>2. CASE PreferenceSetNote(v)
    <3>1. UNCHANGED <<asked, withdrawn>> /\ mem' = SetNote(mem, v)
      BY <2>2 DEF PreferenceSetNote
    <3>2. mem'.eod = mem.eod
      BY <1>0, <3>1, PreferenceEffect
    <3> QED
      BY <3>1, <3>2 DEF Heeds, EncryptOnDisk
  <2> QED
    BY <1>3, <2>1, <2>2
<1>4. ASSUME NEW p \in Passwords, WalletEncrypt(p) PROVE Heeds
  <2>1. mem' = SetEncryptOnDisk(mem, TRUE)
    BY <1>4 DEF WalletEncrypt
  <2> QED
    BY <1>0, <2>1, PreferenceEffect DEF Heeds
<1>5. ASSUME WalletDecrypt \/ Crash PROVE Heeds
  <2>1. asked' = FALSE
    BY <1>5 DEF WalletDecrypt, Crash
  <2> QED
    BY <2>1 DEF Heeds
<1>6. ASSUME WalletLock PROVE Heeds
  <2>1. UNCHANGED <<asked, withdrawn>> /\ pw # NoPassword /\ mem' = OnAccounts(mem, LAMBDA a : EncryptAccount(pw, a))
    BY <1>6 DEF WalletLock
  <2>2. pw \in Typed
    BY <2>1 DEF Keeps
  <2>3. mem'.eod = mem.eod
    BY <1>0, <2>1, <2>2, EncryptEffect, Zenon
  <2> QED
    BY <2>1, <2>3 DEF Heeds, EncryptOnDisk
<1>7. ASSUME NEW p \in Typed, WalletUnlock(p) \/ UnlockBreaks(p) PROVE Heeds
  <2>1. UNCHANGED <<asked, withdrawn>>
    BY <1>7 DEF WalletUnlock, UnlockBreaks
  <2>2. PICK n \in 0..Len(mem.accounts) \cup 1..Len(mem.accounts) : mem' = OpenFirst(p, n)
    BY <1>7 DEF WalletUnlock, UnlockBreaks
  <2>3. n \in 0..Len(mem.accounts)
    <3>1. Len(mem.accounts) \in Nat
      BY <1>0 DEF Documents
    <3> QED
      BY <3>1
  <2>4. mem'.eod = mem.eod
    BY <1>0, <2>2, <2>3, OpenEffect, Zenon
  <2> QED
    BY <2>1, <2>4 DEF Heeds, EncryptOnDisk
<1>8. ASSUME NEW p \in Typed, SyncHeartbeat(p) PROVE Heeds
  BY <1>8 DEF SyncHeartbeat, Heeds
<1>9. ASSUME NEW a \in Accounts, AccountAdd(a) \/ AccountRemove(a) \/ AccountSetDefault(a) PROVE Heeds
  <2>1. UNCHANGED <<asked, withdrawn>> /\ \E t : mem' = [mem EXCEPT !.accounts = t]
    BY <1>9 DEF AccountAdd, AccountRemove, AccountSetDefault
  <2>2. mem'.eod = mem.eod
    BY <1>0, <2>1 DEF Documents
  <2> QED
    BY <2>1, <2>2 DEF Heeds, EncryptOnDisk
<1>10. ASSUME NEW a \in Accounts, NEW v \in Values, AccountSet(a, v) PROVE Heeds
  <2>1. UNCHANGED <<asked, withdrawn>> /\ \E t : mem' = [mem EXCEPT !.accounts = t]
    BY <1>10 DEF AccountSet, OnNth
  <2>2. mem'.eod = mem.eod
    BY <1>0, <2>1 DEF Documents
  <2> QED
    BY <2>1, <2>2 DEF Heeds, EncryptOnDisk
<1>11. ASSUME NEW d \in Delivered, WalletImport(d) \/ MergeFails(d) \/ \E p \in Typed : SyncApply(p, d)
       PROVE  Heeds
  BY <1>11 DEF WalletImport, MergeFails, SyncApply, Heeds
<1>12. ASSUME Start PROVE Heeds
  <2>1. asked' = EncryptOnDisk(mem')
    BY <1>12 DEF Start
  <2> QED
    BY <2>1, Zenon DEF Heeds
<1>13. ASSUME StartRefused \/ CompleteStartup \/ UNCHANGED vars PROVE Heeds
  <2>1. UNCHANGED <<mem, asked, withdrawn>>
    BY <1>13 DEF StartRefused, CompleteStartup, wallet, history, vars
  <2> QED
    BY <2>1 DEF Heeds
<1>14. Heeds
  BY <1>1, <1>2, <1>3, <1>4, <1>5, <1>6, <1>7, <1>8, <1>9, <1>10, <1>11, <1>12, <1>13 DEF Next
<1> QED
  BY <1>14 DEF Heeds, AskedInv

\* The daemon's first start: the wallets it may find are guarded.
LEMMA InitSecrets == ASSUME Init PROVE SecretsInv /\ SavedInv /\ AskedInv
<1>1. PICK d \in OnDisk : disk = [file |-> d, tmp |-> Missing]
  BY DEF Init
<1>2. /\ up = "down" /\ mem = EmptyWallet /\ pw = NoPassword
      /\ writer = [w \in Writers |-> IdleWriter]
  BY DEF Init
<1>3. EmptyWallet \in Documents /\ Locks(EmptyWallet) = {}
  BY EmptyTyped
<1>4. Keeps(mem, pw, lapsed, foreign)
  BY <1>2, <1>3 DEF Keeps, Uniform, OneLock, NoPassword, Blank
<1>5. IdleWriter.doc = Missing /\ IdleWriter.pc = "idle"
  BY DEF IdleWriter
<1>6. Guarded(d, lapsed, foreign)
  <2>1. CASE d = Missing
    BY <2>1, GuardedBlank
  <2>2. CASE d # Missing
    <3>1. /\ d \in Documents /\ ~(Locked(d) /\ Exposed(d)) /\ ~(EncryptOnDisk(d) /\ Exposed(d))
          /\ Cardinality(LocksOf(d)) <= 1
      BY <2>2, ConstantsAssumption, SecretsAssumption
    <3>2. OneLock(d)
      BY <3>1, OneLockCard
    <3> QED
      BY <3>1, <3>2, LockedExposed DEF Guarded, Uniform
  <2> QED
    BY <2>1, <2>2
<1>7. SecretsInv
  BY <1>1, <1>2, <1>4, <1>5, <1>6, GuardedBlank DEF SecretsInv
<1>8. SavedInv
  BY <1>2, <1>5 DEF SavedInv, Saving, Owns
<1>9. AskedInv
  BY DEF Init, AskedInv
<1> QED
  BY <1>7, <1>8, <1>9

\* What Wallet.Save writes, what the files hold and what memory keeps, together with what a
\* save that nothing overtook has done, and the encryption that was asked for.
THEOREM SecretsInvariance == Spec => [](SecretsInv /\ SavedInv /\ AskedInv)
<1>1. IndInv /\ SecretsInv /\ SavedInv /\ AskedInv /\ [Next]_vars => SecretsInv' /\ SavedInv' /\ AskedInv'
  <2> SUFFICES ASSUME IndInv, SecretsInv, SavedInv, AskedInv, [Next]_vars
               PROVE  SecretsInv' /\ SavedInv' /\ AskedInv'
    OBVIOUS
  <2>1. TypeOK /\ Keeps(mem, pw, lapsed, foreign)
    BY DEF IndInv, SecretsInv
  <2> QED
    BY <2>1, SecretsStep, SavedStep, AskedStep
<1>2. Init => SecretsInv /\ SavedInv /\ AskedInv
  BY InitSecrets
<1> QED
  BY <1>1, <1>2, Invariance, PTL DEF Spec

\* A document that asks for encryption holds no secret in the clear, one password opens the
\* wallet, and encryption that was asked for is on disk once the requests have answered,
\* unless one of the named events came first (Wallet.Save, Lock, Unlock, sync_apply).
THEOREM SecretsGuardedHolds == Spec => []SecretsGuarded
<1>1. SecretsInv /\ SavedInv /\ AskedInv => SecretsGuarded
  <2> SUFFICES ASSUME SecretsInv, SavedInv, AskedInv PROVE SecretsGuarded
    OBVIOUS
  <2>1. Keeps(mem, pw, lapsed, foreign) /\ Guarded(Stored, lapsed, foreign)
    BY DEF SecretsInv, Stored
  <2>2. ClearSecretsNeedLapse
    BY <2>1 DEF ClearSecretsNeedLapse, Guarded, Locks
  <2>3. OnePassword
    BY <2>1, OneLockCard DEF OnePassword, Keeps, Guarded
  <2>4. ASSUME Quiet, asked, ~dirty, ~compromised, ~withdrawn
        PROVE  IsDocument(Stored) /\ EncryptOnDisk(Stored)
    <3>1. Stored \in Documents /\ Content(Stored) = Content(mem)
      BY <2>4 DEF SavedInv, Quiet, Stored
    <3>2. EncryptOnDisk(mem) /\ mem \in Documents
      BY <2>1, <2>4 DEF AskedInv, Keeps
    <3>3. \A m \in Documents : Content(m).eod = m.eod
      BY DEF Content, OnAccounts, Documents
    <3>4. Stored.eod = mem.eod
      BY <3>1, <3>2, <3>3
    <3> QED
      BY <3>1, <3>2, <3>4, DocumentKinds DEF EncryptOnDisk
  <2> QED
    BY <2>2, <2>3, <2>4 DEF SecretsGuarded, EncryptionKept
<1> QED
  BY <1>1, SecretsInvariance, PTL

\* Once every request has answered, and no save failed or shared the temporary file, the
\* wallet file holds what memory holds (Wallet.Save, WalletStorage.Write).
THEOREM SavedMatchesMemoryHolds == Spec => []SavedMatchesMemory
<1>1. SavedInv => SavedMatchesMemory
  BY DocumentKinds DEF SavedInv, SavedMatchesMemory, Quiet, Stored, IsDocument
<1> QED
  BY <1>1, SecretsInvariance, PTL

=============================================================================
