\* Every interleaving of edits, failures, crashes, restarts and refreshes, and
\* what must come of them under the fairness of the scheduler.
SPECIFICATION Spec
CONSTANTS
    Workers = {w1, w2}
    FileCount = 3
    MaxEdits = 3
    MaxFaults = 2
INVARIANTS
    FilesDescend
    StraysOnlyFromCrashes
    StoppedIsQuiet
PROPERTIES
    FilesNeverOlder
    OutputsCatchUp
    InterruptReturns
