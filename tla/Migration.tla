------------------------------ MODULE Migration ------------------------------
(***************************************************************************)
(* The daemon database's revision file and its migration chain             *)
(* (src/database/revision.go, migrations.go and migrations_late.go).       *)
(*                                                                         *)
(* The chain runs from the revision in the file to CurrentRevision and the *)
(* file is rewritten once, at the end; every start therefore begins the    *)
(* whole chain again, on a database some of whose steps may already be     *)
(* committed.  A step is one action where it runs in one transaction or is *)
(* one statement, and several where it is not.  SQLite is external: a      *)
(* transaction commits whole or not at all, a statement outside one        *)
(* commits by itself, and a statement that does not fit the schema fails.  *)
(***************************************************************************)
EXTENDS Naturals, Sequences, FiniteSets, SequencesExt

CONSTANTS
    Stream,         \* streams of the database
    Sound,          \* those whose stored descriptor hashes to their sd hash
    Recoverable,    \* those whose descriptor has a blob row or can be read from disk
    Saved,          \* those whose output file exists
    Entry,          \* rows of name_metadata
    CurrentRevision

ASSUME StreamAssumption == Sound \subseteq Stream /\ Recoverable \subseteq Stream /\ Saved \subseteq Stream
ASSUME RevisionAssumption == CurrentRevision = 15

VARIABLES
    revision,       \* what db_revision holds
    names,          \* name_metadata of blockchainname.db and its temporary copy
    legacy,         \* what steps 3 and 4 have added to blobs.db and lbryfile_info.db
    main,           \* lbrynet.sqlite
    backups,        \* copies of lbrynet.sqlite, oldest first
    chain           \* the running EnsureRevision

migrationVars == <<revision, names, legacy, main, backups, chain>>

Missing == CurrentRevision + 2  \* no db_revision at all
Truncated == 0                  \* a db_revision of no bytes
Gone == {"gone"}                \* a table that is not there

\* lbrynet.sqlite: its schema, its streams and those of them only its write-ahead log holds.
NoDatabase == [tables |-> {}, blob |-> {}, fileTable |-> 0, streams |-> {}, log |-> {}, announced |-> {}, saved |-> {}]
Schema6 == {"blob"}
Extras == {"torrent_extras", "blob_data"}

\* The database a daemon of revision r left behind.
DatabaseAt(r, streams, log) ==
    [tables |-> Schema6 \cup (IF r >= 8 THEN {"reflected_stream"} ELSE {})
                        \cup (IF r >= 13 THEN {"torrent"} ELSE {})
                        \cup (IF r >= 14 THEN {"peer"} ELSE {})
                        \cup (IF r >= 15 THEN Extras ELSE {}),
     blob |-> (IF r >= 7 THEN {"single_announce"} ELSE {}) \cup (IF r >= 15 THEN {"is_mine"} ELSE {}),
     fileTable |-> IF r < 11 THEN 6 ELSE IF r < 13 THEN r ELSE 13,
     streams |-> streams, log |-> log,
     announced |-> IF r >= 10 THEN streams ELSE {},
     saved |-> IF r >= 11 THEN streams \cap Saved ELSE {}]

NotRunning == [phase |-> "idle", from |-> 0, at |-> 0, sub |-> 0, todo |-> {}]

\* A data directory as a daemon of an older or of this revision left it, or a new one.
MigrationInit(revisions) ==
    \E r \in revisions :
        /\ revision = r
        /\ names = [rows |-> Entry, copy |-> Gone, level |-> IF r < 3 THEN r ELSE 3]
        /\ legacy = [column |-> r >= 4, metadata |-> r >= 5]
        /\ IF r < 6 \/ r = Missing THEN main = NoDatabase
           ELSE \E log \in SUBSET Stream :
                    main = DatabaseAt(r, IF r < 9 THEN Stream ELSE Sound, log \cap (IF r < 9 THEN Stream ELSE Sound))
        /\ backups = <<>>
        /\ chain = NotRunning

Exists == main # NoDatabase

\* EnsureRevision returns.
Return(outcome) == chain' = [NotRunning EXCEPT !.phase = outcome]
Fail == Return("failed") /\ UNCHANGED <<revision, names, legacy, main, backups>>

\* EnsureRevision reads the file: a missing one is written, an empty one is not a number.
ReadRevision ==
    /\ chain.phase = "read"
    /\ CASE revision = CurrentRevision -> Return("open")
         [] revision = Truncated \/ revision = CurrentRevision + 1 -> Return("failed")
         [] revision = Missing -> chain' = [chain EXCEPT !.phase = "stamp"]
         [] OTHER -> chain' = [chain EXCEPT !.phase = "backup", !.from = revision, !.at = revision]
    /\ UNCHANGED <<revision, names, legacy, main, backups>>

\* prepareFailureBackup: nothing to copy.
NoBackup ==
    /\ chain.phase = "backup" /\ ~Exists
    /\ chain' = [chain EXCEPT !.phase = "step"]
    /\ UNCHANGED <<revision, names, legacy, main, backups>>

\* Mutant: every attempt uses the same name.
CreateBackupSameName ==
    /\ chain.phase = "backup" /\ Exists
    /\ backups' = <<[complete |-> FALSE, streams |-> {}, blob |-> {}, fileTable |-> 0]>>
    /\ chain' = [chain EXCEPT !.phase = "copy"]
    /\ UNCHANGED <<revision, names, legacy, main>>

\* prepareFailureBackup: a file under a new name is created ...
CreateBackup ==
    /\ chain.phase = "backup" /\ Exists
    /\ backups' = Append(backups, [complete |-> FALSE, streams |-> {}, blob |-> {}, fileTable |-> 0])
    /\ chain' = [chain EXCEPT !.phase = "copy"]
    /\ UNCHANGED <<revision, names, legacy, main>>

\* ... and the database file copied into it, without its write-ahead log.
Snapshot == [complete |-> TRUE, streams |-> main.streams \ main.log, blob |-> main.blob, fileTable |-> main.fileTable]
CopyBackup ==
    /\ chain.phase = "copy"
    /\ backups' = [backups EXCEPT ![Len(backups)] = Snapshot]
    /\ chain' = [chain EXCEPT !.phase = "step"]
    /\ UNCHANGED <<revision, names, legacy, main>>

\* The step at r is done; the next one begins.
Stepped == chain' = [chain EXCEPT !.at = @ + 1, !.sub = 0, !.todo = {}]

\* Whether SQLite accepts the statements of the running step: tables they read must be
\* there, tables and columns they add must not, and rows of the width of revision 6 fit
\* neither the wider table blob nor, from revision 11 on, the table file.
Fits ==
    CASE chain.at = 1 \/ (chain.at = 2 /\ chain.sub = 1) -> names.rows # Gone
      [] chain.at = 4 -> names.rows # Gone /\ names.level >= 2
      [] chain.at = 5 /\ chain.sub = 0 -> legacy.metadata /\ names.rows # Gone
      [] chain.at = 5 /\ chain.sub # 0 -> main.blob = {} /\ main.fileTable = 6
      [] chain.at = 6 -> "single_announce" \notin main.blob
      [] chain.at = 7 -> "reflected_stream" \notin main.tables
      [] chain.at = 12 -> main.fileTable = 13 => "is_mine" \in main.blob
      [] chain.at = 14 /\ chain.sub = 0 -> "is_mine" \notin main.blob
      [] OTHER -> TRUE

At(r, sub) == chain.phase = "step" /\ chain.at = r /\ chain.sub = sub /\ Fits

\* migrateStep fails and MigrationFunc returns its error; the backup stays.
StepRefused == chain.phase = "step" /\ chain.at < CurrentRevision /\ ~Fits /\ Fail

NextSub == chain' = [chain EXCEPT !.sub = @ + 1]

\* A connection that closes leaves nothing in the log.
Commit(db) == main' = [db EXCEPT !.log = {}]

(***************************************************************************)
(* Revisions 1 to 6: three old databases become one                        *)
(***************************************************************************)

\* name_metadata and claim_ids get the column n, in one transaction.
Migrate1To2 ==
    /\ At(1, 0)
    /\ names' = [names EXCEPT !.level = 2]
    /\ Stepped
    /\ UNCHANGED <<revision, legacy, main, backups>>

\* One script, every statement of which commits by itself: the copy is made anew ...
Migrate2Drop ==
    /\ At(2, 0)
    /\ names' = [names EXCEPT !.copy = {}]
    /\ NextSub
    /\ UNCHANGED <<revision, legacy, main, backups>>

\* ... filled ...
Migrate2Copy ==
    /\ At(2, 1)
    /\ names' = [names EXCEPT !.copy = names.rows]
    /\ NextSub
    /\ UNCHANGED <<revision, legacy, main, backups>>

\* ... the table dropped ...
Migrate2DropTable ==
    /\ At(2, 2)
    /\ names' = [names EXCEPT !.rows = Gone]
    /\ NextSub
    /\ UNCHANGED <<revision, legacy, main, backups>>

\* ... and the copy renamed.
Migrate2Rename ==
    /\ At(2, 3)
    /\ names' = [rows |-> names.copy, copy |-> Gone, level |-> 3]
    /\ Stepped
    /\ UNCHANGED <<revision, legacy, main, backups>>

\* should_announce, unless the column is there; its rows are updated one by one.
Migrate3To4 ==
    /\ At(3, 0)
    /\ legacy' = [legacy EXCEPT !.column = TRUE]
    /\ Stepped
    /\ UNCHANGED <<revision, names, main, backups>>

\* lbry_file_metadata from name_metadata; rows are replaced one by one.
Migrate4To5 ==
    /\ At(4, 0)
    /\ legacy' = [legacy EXCEPT !.metadata = TRUE]
    /\ Stepped
    /\ UNCHANGED <<revision, names, main, backups>>

\* The schema of revision 6, with CREATE TABLE IF NOT EXISTS.
Migrate5Schema ==
    /\ At(5, 0)
    /\ Commit(IF Exists THEN main ELSE DatabaseAt(6, {}, {}))
    /\ NextSub
    /\ UNCHANGED <<revision, names, legacy, backups>>

\* One transaction imports the streams whose descriptor is known.
Migrate5Import ==
    /\ At(5, 1)
    /\ Commit([main EXCEPT !.streams = Recoverable])
    /\ Stepped
    /\ UNCHANGED <<revision, names, legacy, backups>>

(***************************************************************************)
(* Revisions 6 to 15                                                       *)
(***************************************************************************)

Keep == UNCHANGED <<revision, names, legacy, backups>>

Migrate6To7 ==
    /\ At(6, 0)
    /\ Commit([main EXCEPT !.blob = @ \cup {"single_announce"}])
    /\ Stepped /\ Keep

Migrate7To8 ==
    /\ At(7, 0)
    /\ Commit([main EXCEPT !.tables = @ \cup {"reflected_stream"}])
    /\ Stepped /\ Keep

\* The streams are read once ...
Migrate8Load ==
    /\ At(8, 0)
    /\ chain' = [chain EXCEPT !.sub = 1, !.todo = main.streams]
    /\ UNCHANGED main /\ Keep

\* ... and each one whose descriptor does not hash to its sd hash is deleted in a
\* transaction of its own, the blob files before it commits.
Migrate8Delete ==
    /\ At(8, 1) /\ chain.todo # {}
    /\ \E s \in chain.todo :
        /\ chain' = [chain EXCEPT !.todo = @ \ {s}]
        /\ main' = IF s \in Sound THEN main ELSE [main EXCEPT !.streams = @ \ {s}, !.log = @ \ {s}]
    /\ Keep

Migrate8Done ==
    /\ At(8, 1) /\ chain.todo = {}
    /\ Commit(main)
    /\ Stepped /\ Keep

\* should_announce for the descriptor and the first blob of every stream.
Migrate9To10 ==
    /\ At(9, 0)
    /\ Commit([main EXCEPT !.announced = main.streams])
    /\ Stepped /\ Keep

\* saved_file is set where the file is on disk, unless the column is there.
Migrate10To11 ==
    /\ At(10, 0)
    /\ Commit(IF main.fileTable >= 11 THEN main
               ELSE [main EXCEPT !.fileTable = 11, !.saved = main.streams \cap Saved])
    /\ Stepped /\ Keep

\* added_on, unless the column is there.
Migrate11To12 ==
    /\ At(11, 0)
    /\ Commit(IF main.fileTable >= 12 THEN main ELSE [main EXCEPT !.fileTable = 12])
    /\ Stepped /\ Keep

\* The torrent tables; with bt_infohash there already, ensureRevision15SchemaExtras.
Migrate12To13 ==
    /\ At(12, 0)
    /\ Commit(IF main.fileTable = 13
               THEN [main EXCEPT !.tables = @ \cup {"peer"} \cup Extras]
               ELSE [main EXCEPT !.fileTable = 13, !.tables = @ \cup {"torrent"}])
    /\ Stepped /\ Keep

Migrate13To14 ==
    /\ At(13, 0)
    /\ Commit([main EXCEPT !.tables = @ \cup {"peer"}])
    /\ Stepped /\ Keep

\* One transaction widens the table blob ...
Migrate14Columns ==
    /\ At(14, 0)
    /\ main' = [main EXCEPT !.blob = @ \cup {"is_mine"}]
    /\ NextSub /\ Keep

\* ... and ensureRevision15SchemaExtras follows outside it.
Migrate14Extras ==
    /\ At(14, 1)
    /\ Commit([main EXCEPT !.tables = @ \cup {"peer"} \cup Extras])
    /\ Stepped /\ Keep

(***************************************************************************)
(* The end of the chain                                                    *)
(***************************************************************************)

\* MigrationFunc returns nil; its deferred call removes this attempt's backup, which is
\* there when the database was when the attempt began.
ChainDone ==
    /\ chain.phase = "step" /\ chain.at = CurrentRevision
    /\ backups' = IF chain.from < 6 /\ backups = <<>> THEN backups ELSE Front(backups)
    /\ chain' = [chain EXCEPT !.phase = "stamp"]
    /\ UNCHANGED <<revision, names, legacy, main>>

\* writeRevision: os.WriteFile truncates ...
TruncateRevision ==
    /\ chain.phase = "stamp"
    /\ revision' = Truncated
    /\ chain' = [chain EXCEPT !.phase = "write"]
    /\ UNCHANGED <<names, legacy, main, backups>>

\* ... and writes.
WriteRevision ==
    /\ chain.phase = "write"
    /\ revision' = CurrentRevision
    /\ Return("open")
    /\ UNCHANGED <<names, legacy, main, backups>>

\* ResolvedClaimStore.Open: the schema of revision 15, with CREATE TABLE IF NOT EXISTS.
OpenDatabase ==
    /\ chain.phase = "open"
    /\ main' = IF Exists THEN main ELSE DatabaseAt(CurrentRevision, {}, {})
    /\ Return("done")
    /\ UNCHANGED <<revision, names, legacy, backups>>

\* The process dies, or a file operation or a statement fails: its transaction rolls back.
MigrationCrash == chain' = NotRunning /\ UNCHANGED <<revision, names, legacy, main, backups>>

\* migrateRevision6To15Step: the step of the revision the database is at.
MigrateRevision6To15Step ==
    \/ Migrate6To7 \/ Migrate7To8 \/ Migrate8Load \/ Migrate8Delete \/ Migrate8Done
    \/ Migrate9To10 \/ Migrate10To11 \/ Migrate11To12 \/ Migrate12To13 \/ Migrate13To14
    \/ Migrate14Columns \/ Migrate14Extras

ChainNext ==
    \/ ReadRevision \/ NoBackup \/ CreateBackup \/ CopyBackup \/ StepRefused
    \/ Migrate1To2 \/ Migrate2Drop \/ Migrate2Copy \/ Migrate2DropTable \/ Migrate2Rename
    \/ Migrate3To4 \/ Migrate4To5 \/ Migrate5Schema \/ Migrate5Import
    \/ MigrateRevision6To15Step
    \/ ChainDone \/ TruncateRevision \/ WriteRevision \/ OpenDatabase
===============================================================================
