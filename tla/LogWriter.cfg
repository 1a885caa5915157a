CONSTANTS
    app = app
    updater = updater
    Caller = {app, updater}
    Script <- Scripts
    MaxFaults = 1

SPECIFICATION FairSpec

INVARIANT SupervisorTypeOK
INVARIANT TickOwnsFile
INVARIANT StoppedIsQuiet
INVARIANT IdleMeansStopped
PROPERTY LatestRequestWins
PROPERTY FailedSessionCloses
PROPERTY StatusSettles

CHECK_DEADLOCK FALSE
