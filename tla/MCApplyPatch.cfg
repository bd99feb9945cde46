\* Files only, without pre-checks: crashes and write errors.
CONSTANTS
    NumJobs = 3
    Kind <- MCFiles
    CacheSize = 2
    Clutter = 2
    ScriptChecks = FALSE
    Baks = FALSE
    MaxRestarts = 3
    MaxErrors = 2
SPECIFICATION FairSpec
INVARIANTS Recoverable RestartSafe
PROPERTIES Completes ImplementsAtomicUpdate
