CONSTANTS
    app = app
    updater = updater
    Caller = {app, updater}
    Script <- Scripts
    MaxFaults = 0

SPECIFICATION Spec

INVARIANT StopTakesItsReason

CHECK_DEADLOCK FALSE
