\* Files and a partition behind a script that checks first, files kept by the backup tool.
CONSTANTS
    NumJobs = 3
    Kind <- MCMixed
    CacheSize = 3
    Clutter = 3
    ScriptChecks = TRUE
    Baks = TRUE
    MaxRestarts = 3
    MaxErrors = 1
SPECIFICATION Spec
INVARIANTS SuccessMeansPatched
