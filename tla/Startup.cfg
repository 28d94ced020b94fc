SPECIFICATION StartupSpec
CONSTANTS
    Name <- MCName
    Kind <- MCKind
    DefaultValue <- MCDefaultValue
    Alias <- MCAlias
    Use <- MCUse
    Requires <- MCRequires
    Setting <- MCSetting
    RootSetting <- MCRootSetting
    Action <- MCAction
    Line <- MCLine
    Typed <- MCTyped
    Environment <- MCEnvironment
    File <- MCFile
    Revisions <- MCRevisions
    RawValue <- MCRawValue
    Network <- MCNetwork
    HubFile <- MCHubFile
    Hub <- MCHub
    Countries = {"US", "FR", NoCountry}
    Address <- MCAddress
    Faulty = Faulty
    Skipped = Skipped
    NoCountry = NoCountry
    NoHubFile = NoHubFile
    BadHubFile = BadHubFile
    Stream = {s1, s2, s3}
    Sound = {s1, s2}
    Recoverable = {s1, s3}
    Saved = {s1, s3}
    Entry = {e1, e2}
    CurrentRevision = 15
    MaxStarts = 2
    MaxAttempts = 3
    MaxCalls = 2
    MaxStartFaults = 2
CHECK_DEADLOCK FALSE
INVARIANTS  MigrationSafe HubsSound CommandLineMatchesReference
