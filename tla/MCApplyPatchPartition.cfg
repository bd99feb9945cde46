\* One partition, one restart.
CONSTANTS
    NumJobs = 1
    Kind <- MCOnePart
    CacheSize = 2
    Clutter = 0
    ScriptChecks = FALSE
    Baks = FALSE
    MaxRestarts = 1
    MaxErrors = 0
SPECIFICATION Spec
INVARIANTS PartitionRecoverable
