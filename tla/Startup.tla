------------------------------- MODULE Startup -------------------------------
(***************************************************************************)
(* The start of the daemon (src/main.go, src/app.go): the command line is  *)
(* parsed, the settings store opened, the settings the daemon needs are    *)
(* read, the database brought to the current revision, the known hubs      *)
(* loaded with the wallet, and the daemon answers settings_set and         *)
(* settings_clear and looks for hubs until it stops or dies.  What a start *)
(* finds on disk is what the ones before it left there.                    *)
(***************************************************************************)
EXTENDS Settings, CommandLine, Migration, HubSelection

CONSTANTS
    Use,            \* what the start does with a setting: see CanRead and Workable
    Requires,       \* components and the ones each depends on
    Line,           \* command lines of starts that are followed to the end
    Typed,          \* command lines that are only parsed
    Environment,    \* environments: a value, or Absent, for every setting
    File,           \* settings files found at the first start
    Revisions,      \* revisions of the data directory found at the first start
    RawValue,       \* values given to settings_set
    Network,        \* what is outside; its wallet says whether the wallet component runs
    HubFile,        \* known hubs files found at the first start
    MaxStarts,      \* starts on an up-to-date data directory
    MaxAttempts,    \* starts on any other, where only the migration varies
    MaxCalls, MaxStartFaults

Uses == {"plain", "later", "optional", "listen", "directory", "skip"}

\* Whether the start can read a value: some settings are read when they are needed, and
\* jurisdiction may be null.
CanRead(n, v) == Use[n] = "later" \/ (Use[n] = "optional" /\ v = Nil) \/ Readable(Kind[n], v)

ASSUME UseAssumption == Use \in [Name -> Uses] /\ \A c \in DOMAIN Requires : Requires[c] \subseteq DOMAIN Requires
ASSUME DefaultAssumption == \A n \in Name : CanRead(n, DefaultValue[n])
ASSUME RevisionsAssumption == Revisions \subseteq 1 .. CurrentRevision + 2

\* What is outside, and the files of known hubs found at the first start.
ASSUME NetworkAssumption ==
    /\ \A n \in Network :
        /\ n.servers \in Seq(Hub)
        /\ \A s \in Hub :
            /\ n.answers[s].country \in Countries
            /\ {n.answers[s].peers, n.answers[s].news} \subseteq Seq(Hub \cup {Faulty, Skipped})
    /\ \A f \in HubFile \ {NoHubFile, BadHubFile} : IsHubTable(f)

\* What is in a settings file and what JSON-RPC delivers.
ASSUME ValuesAssumption ==
    /\ \A f \in File : \A k \in Key : IsNode(f.entries[k])
    /\ \A raw \in RawValue : IsValue(raw)
ASSUME EntryAssumption == Entry # Gone

VARIABLES
    phase,          \* down, parsing, opening, reading, database, wallet, running or failed
    line, arguments, env,   \* of the running process
    budget,         \* starts, settings calls and faults left
    origin,         \* the data directory before the first start
    excuse          \* why a start may fail: see the actions that set it

startupVars == <<settingsVars, migrationVars, hubVars, phase, line, arguments, env, budget, origin, excuse>>

Spend(what) == budget[what] > 0 /\ budget' = [budget EXCEPT ![what] = @ - 1]

\* The value of a setting for config.New: what applyCLIOption stores, by action.
ArgumentOf(given, n) ==
    LET texts == [i \in DOMAIN given |-> Text(given[i])] IN
    IF given = NotGiven THEN Absent
    ELSE IF given = <<"nil">> /\ Action[n] = "many" THEN Nil
    ELSE IF Action[n] \in {"append", "many"} THEN List(texts)
    ELSE IF Action[n] = "toggle" THEN Scalar("bool", given[1])
    ELSE texts[1]

ArgumentsOf(r) == [n \in Name |-> IF n \in Setting THEN ArgumentOf(r.settings[n], n) ELSE Absent]

\* Values from a file, an argument or the environment are converted and not validated.
Usable(values) == \A n \in Name : values[n] = Absent \/ CanRead(n, values[n])

\* stringSliceSetting: the strings of a list; any other value is an empty one.
Strings(v) ==
    IF v.type = "list" THEN {v.items[i].text : i \in {j \in DOMAIN v.items : v.items[j].type = "str"}} ELSE {}

\* LegacyStartStages: no component that runs depends on one that is skipped.
Resolves(skipped) == \A c \in DOMAIN Requires \ skipped : Requires[c] \cap skipped = {}

\* What the start does with values it could read: the components are put in order, the
\* directories made, and each address is listened on, which fails for what is not host:port
\* and for an address that the daemon is listening on already.
Workable(values) ==
    LET listened == {n \in Name : Use[n] = "listen"} IN
    /\ \A n \in Name : Use[n] = "skip" => Resolves(Strings(values[n]))
    /\ \A n \in Name : Use[n] = "directory" => values[n].text # ""
    /\ \A n \in listened : values[n].text \in ServerText \ BigText
    /\ \A n, o \in listened : values[n] = values[o] => n = o

InEffect == [n \in Name |-> Effective(n)]

StartupInit ==
    /\ SettingsInit(File) /\ MigrationInit(Revisions)
    /\ IF revision = CurrentRevision THEN main.log = {} ELSE file = EmptyFile
    /\ HubsInit(Network, HubFile)
    /\ IF net.wallet THEN revision = CurrentRevision /\ file = EmptyFile ELSE hubFile = NoHubFile
    /\ phase = "down" /\ line = <<>> /\ arguments = NoValues /\ env = NoValues
    /\ budget = IF revision = CurrentRevision
                THEN [starts |-> MaxStarts, calls |-> IF net.wallet THEN 0 ELSE MaxCalls,
                      faults |-> IF net.wallet THEN 1 ELSE MaxStartFaults]
                ELSE [starts |-> MaxAttempts, calls |-> 0, faults |-> MaxStartFaults]
    /\ origin = [revision |-> revision, main |-> main, names |-> names]
    /\ excuse = [settings |-> ~Loads(file) \/ ~Usable(LoadPersisted(file)), database |-> FALSE,
                 names |-> FALSE, hubs |-> hubFile = BadHubFile]

\* A process begins, with its arguments and its environment.
Launch ==
    /\ phase = "down" /\ Spend("starts")
    /\ \/ line' = <<Start>> /\ env' = NoValues
       \/ origin.revision = CurrentRevision /\ ~net.wallet /\ line' = <<Start>> /\ env' \in Environment
       \/ origin.revision = CurrentRevision /\ ~net.wallet /\ line' \in Line /\ env' = NoValues
       \/ /\ origin.revision = CurrentRevision /\ ~net.wallet /\ budget.starts = MaxStarts /\ file = EmptyFile
          /\ line' \in Typed /\ env' = NoValues
    /\ phase' = "parsing"
    /\ UNCHANGED <<settingsVars, migrationVars, hubVars, arguments, origin, excuse>>

\* runCLI: only start reaches the daemon; a line that asks for help or for a command, or
\* does not parse, ends here.
Parse ==
    /\ phase = "parsing"
    /\ LET r == ParseCommandLine(line) IN
       IF r.mode = "start" /\ ~r.help THEN phase' = "opening" /\ arguments' = ArgumentsOf(r)
       ELSE phase' = "down" /\ UNCHANGED arguments
    /\ UNCHANGED <<settingsVars, migrationVars, hubVars, line, env, budget, origin, excuse>>

\* config.New.
Open ==
    /\ phase = "opening" /\ line \in Line
    /\ \/ OpenStore(arguments, env) /\ phase' = "reading"
       \/ OpenRefused(arguments, env) /\ phase' = "failed"
    /\ UNCHANGED <<migrationVars, hubVars, line, arguments, env, budget, origin, excuse>>

\* newProductionApp puts the components in order, makes the directories, reads every setting
\* it needs and listens; the database component starts after. (What only the wallet needs is
\* read when the wallet starts.)
ReadSettings ==
    /\ phase = "reading" /\ saving.phase = "none"
    /\ IF (\A n \in Name : CanRead(n, Effective(n))) /\ Workable(InEffect)
       THEN phase' = "database" /\ chain' = [NotRunning EXCEPT !.phase = "read"]
       ELSE phase' = "failed" /\ UNCHANGED chain
    /\ UNCHANGED <<settingsVars, hubVars, revision, names, legacy, main, backups, line, arguments, env, budget, origin, excuse>>

Migrate ==
    /\ phase = "database"
    /\ ChainNext
    /\ UNCHANGED <<settingsVars, hubVars, phase, line, arguments, env, budget, origin, excuse>>

DatabaseStarted ==
    /\ phase = "database" /\ chain.phase \in {"done", "failed"}
    /\ phase' = IF chain.phase # "done" THEN "failed" ELSE IF net.wallet THEN "wallet" ELSE "running"
    /\ chain' = NotRunning
    /\ UNCHANGED <<settingsVars, hubVars, revision, names, legacy, main, backups, line, arguments, env, budget, origin, excuse>>

\* walletManagerFromSettings opens the known hubs; the network starts.
WalletStarted ==
    /\ phase = "wallet"
    /\ \/ OpenKnownHubs /\ phase' = "running"
       \/ hubFile = BadHubFile /\ phase' = "failed" /\ UNCHANGED hubVars
    /\ UNCHANGED <<settingsVars, migrationVars, line, arguments, env, budget, origin, excuse>>

\* The network looks for hubs and learns of others.
FindHubs ==
    /\ phase = "running" /\ HubStep
    /\ UNCHANGED <<settingsVars, migrationVars, phase, line, arguments, env, budget, origin, excuse>>

\* A lookup, a socket, a call of the handshake or a save of the hubs fails.
FindHubsFails ==
    /\ phase = "running" /\ Spend("faults") /\ HubFault
    /\ excuse' = [excuse EXCEPT !.hubs = @ \/ hubFile' = BadHubFile]
    /\ UNCHANGED <<settingsVars, migrationVars, phase, line, arguments, env, origin>>

\* settings_set; an integer outside the machine's range is accepted.
SettingsSet ==
    /\ phase = "running" /\ Spend("calls")
    /\ \E n \in Name, raw \in RawValue :
        /\ Set(n, raw)
        /\ excuse' = [excuse EXCEPT !.settings = @ \/ Beyond(layer'["runtime"][n])]
    /\ UNCHANGED <<migrationVars, hubVars, phase, line, arguments, env, origin>>

SettingsClear ==
    /\ phase = "running" /\ Spend("calls")
    /\ \E n \in Name : Clear(n)
    /\ UNCHANGED <<migrationVars, hubVars, phase, line, arguments, env, origin, excuse>>

Save ==
    /\ SaveTruncate \/ SaveWrite
    /\ UNCHANGED <<migrationVars, hubVars, phase, line, arguments, env, budget, origin, excuse>>

\* The write fails: the call returns its error, or New does and the process ends.
SaveError ==
    /\ Spend("faults") /\ SaveFails
    /\ phase' = IF phase = "running" THEN phase ELSE "down"
    /\ excuse' = [excuse EXCEPT !.settings = @ \/ saving.phase = "write"]
    /\ UNCHANGED <<migrationVars, hubVars, line, arguments, env, origin>>

\* A fault now leaves a data directory that differs from the one before the first start.
Unfinished ==
    /\ chain.phase \in {"step", "stamp", "write"}
    /\ \/ main # NoDatabase /\ [main EXCEPT !.log = {}] # [origin.main EXCEPT !.log = {}]
       \/ names # origin.names
       \/ revision = Truncated

\* The one statement of 2 to 3 after which the rows are in the copy only.
InWindow == chain.at = 2 /\ chain.sub = 3

Excused ==
    [excuse EXCEPT !.database = @ \/ Unfinished, !.names = @ \/ InWindow,
                   !.settings = @ \/ saving.phase = "write", !.hubs = @ \/ SavingHubs]

\* The process dies; or the start meets an error of the machine and ends with it: a port that
\* another process has, a full disk, or, while the database starts, a file operation or a
\* statement that fails, when the transaction it belongs to rolls back.
Crash ==
    /\ phase \in {"reading", "database", "wallet", "running"} /\ Spend("faults")
    /\ SettingsCrash /\ MigrationCrash /\ HubsCrash
    /\ phase' = "down"
    /\ excuse' = Excused
    /\ UNCHANGED <<line, arguments, env, origin>>

\* daemon stop, or the end of a start that failed. Stop of the network waits for the
\* reconnect loop and not for a client's notification handler.
Exit ==
    /\ phase = "failed" \/ (phase = "running" /\ saving.phase = "none" /\ lister["handshake"].pc = "idle")
    /\ SettingsCrash /\ MigrationCrash /\ HubsCrash
    /\ phase' = "down"
    /\ excuse' = [excuse EXCEPT !.hubs = @ \/ SavingHubs]
    /\ UNCHANGED <<line, arguments, env, budget, origin>>

StartupNext ==
    \/ Launch \/ Parse \/ Open \/ ReadSettings \/ Migrate \/ DatabaseStarted
    \/ WalletStarted \/ FindHubs \/ FindHubsFails
    \/ SettingsSet \/ SettingsClear \/ Save \/ SaveError
    \/ Crash \/ Exit

StartupSpec == StartupInit /\ [][StartupNext]_startupVars

(***************************************************************************)
(* Properties                                                              *)
(***************************************************************************)

\* A setting whose settings_set was answered is what the next start loads, whatever the
\* text of its value looks like to a YAML reader, and a settings_set that failed leaves no
\* trace in memory or on disk, unless the in-place write of the file was cut short.
SettingsSurvive ==
    /\ ~lapse /\ saving.phase # "write" => Loads(file) /\ LoadPersisted(file) = acknowledged
    /\ phase = "running" /\ saving.phase = "none" => layer["persisted"] = acknowledged

\* A daemon that fails to start has one of these reasons: a setting that was unusable before
\* the first start or on the command line or in the environment, an integer beyond the
\* machine's range, a settings file or a file of known hubs cut short, a migration
\* interrupted after it had changed something, or values in effect that the daemon can read
\* and not start with.  settings_set checks the type of a value and not that: an address that
\* cannot be listened on or is listened on already, a directory that cannot be made and a
\* component that others depend on are accepted, and prevent the next start.  No other call
\* that was accepted does, whatever its value looks like in the file, nor a migration that ran
\* undisturbed, nor a crash that came before anything was changed.
StartFailureExplained ==
    phase = "failed" =>
        \/ excuse.settings \/ excuse.database \/ excuse.hubs
        \/ ~Converts(arguments) \/ ~Converts(env)
        \/ ~Usable(Converted(arguments)) \/ ~Usable(Converted(env))
        \/ origin.revision = CurrentRevision + 1
        \/ ~Workable(InEffect)

\* The streams a migrated database must have.
ExpectedStreams ==
    CASE origin.revision < 6 -> Recoverable \cap Sound
      [] origin.revision = Missing -> {}
      [] OTHER -> origin.main.streams \cap Sound

Content(db) == [db EXCEPT !.log = {}]
Migrated == Content(main) = DatabaseAt(CurrentRevision, ExpectedStreams, {})

\* db_revision says 15 only when every step of the chain has taken effect, however many
\* attempts it took: the schema is complete and the streams, their announcements and saved
\* flags are the ones the steps compute from the original database.
StampedMeansMigrated == revision = CurrentRevision /\ (Exists \/ phase = "running") => Migrated

\* Once the chain has changed lbrynet.sqlite and until all its steps have taken effect,
\* whether it is running or was interrupted, some complete backup holds the original schema
\* and every original stream that was not in the write-ahead log only.
BackupHoldsOriginal ==
    origin.main # NoDatabase /\ Content(main) # Content(origin.main) /\ ~Migrated =>
        \E i \in DOMAIN backups :
            /\ backups[i].complete
            /\ backups[i].blob = origin.main.blob /\ backups[i].fileTable = origin.main.fileTable
            /\ origin.main.streams \ origin.main.log \subseteq backups[i].streams

\* The rows of name_metadata are always in the table or in its copy, unless a fault between
\* the last two statements of 2 to 3 was followed by another attempt.
NamesKept == Entry \in {names.rows, names.copy} \/ excuse.names

\* The settings of the process are what its command line says when it is read as a whole:
\* of the options that name a setting the last one counts, or all of them for a list,
\* nothing after -- does, the words an option consumes are not taken for options or
\* commands, and no option before start survives it.
CommandLineMatchesReference ==
    phase = "opening" =>
        LET start == CHOOSE i \in DOMAIN line : line[i] = Start /\ \A j \in 1 .. i - 1 : line[j] # Start
            rest == SubSeq(line, start + 1, Len(line)) IN
        \A n \in Setting : arguments[n] = ArgumentOf(StartSettings(rest, n), n)

\* Every hub that a peer list added is in the file when nobody is saving, although two
\* goroutines add hubs and save them at the same time: only a hub that was added by a
\* probe, by a list with an unreadable entry or around a failed save is in memory alone.
KnownHubsSaved ==
    (\A w \in Lister : lister[w].pc = "idle") =>
        Known \subseteq unsaved \cup (IF hubFile \in {NoHubFile, BadHubFile} THEN {} ELSE DOMAIN hubFile)

\* Unless the user has set the servers or no probed one is available, the session is with
\* a hub that said in this search that it is available, in the jurisdiction asked for.
DialledFits ==
    search.pc \in {"handshake", "peers", "up"} /\ ~net.explicit /\ ~search.guess =>
        LET answer == net.answers[Address[Head(search.candidates)]] IN
        answer.pong = "available" /\ net.jurisdiction \in {NoCountry, answer.country}

\* Hubs are found by the rules, and the ones that others told of are not lost.
HubsSound == KnownHubsSaved /\ DialledFits

\* Settings are safe: none is lost or changed, and of the ones that were accepted only those
\* that StartFailureExplained names keep the daemon from starting.
SettingsSafe == SettingsSurvive /\ StartFailureExplained

\* Migrations are safe: the revision is true, and what is not migrated can be restored.
MigrationSafe == StampedMeansMigrated /\ BackupHoldsOriginal /\ NamesKept
===============================================================================
