SPECIFICATION Spec
CONSTANTS
    Parts = {"config", "alert", "repo"}
    Syncs = {1, 2}
    Dest = {"d1"}
    File = {"a"}
    Content <- MCContent
    MaxOutages = 1
    MaxNotes = 1
    SyncFaults = {"damaged"}
    Runs = {1, 2}
    MaxPushes = 1
    MaxFailures = 1
    Branches = {"main", "dev"}
    RepoSyncs = {1, 2}
    MaxPushed = 2
    MaxGitFailures = 1
    RepoFaults = {}
INVARIANTS MountsKept
PROPERTIES ConfigFollows AlertsEnd TreeAsReported
CHECK_DEADLOCK FALSE
