SPECIFICATION DHTSpec
CONSTANTS
    NoAnswer = NoAnswer
    Absent = Absent
    Torn = Torn
    Nodes = {1, 2, 3}
    Self = 1
    Width = 4
    K = 2
    Alpha = 2
    MaxRounds = 10
    Enough = 1
    SeedGoal = 3
    MaxEvents = 2
    MaxActive = 2
    FirstId <- MCFirstId
    SpareId <- MCSpareId
    Seeds <- MCSeeds
    Known <- MCKnown
    Published <- MCPublished
    Blob <- MCBlob
    Refreshed <- MCRefreshed
CHECK_DEADLOCK FALSE
INVARIANTS IdentitiesSound ReportsTrue
