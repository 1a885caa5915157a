CONSTANTS
    Uid <- MCUid
    Backoffs <- MCBackoffs
    Scenario <- MCCalm
    Unit = {1, 2, 3}
    MaxBackoffResets = 10
    ClaimTimeout = 1
    MaxClaimAttempts = 10
    MaxPending = 2
    HeartbeatInterval = 6
    HeartbeatTimeout = 18
    ValidationInterval = 10
    StopOvertakes = FALSE
SPECIFICATION Spec
INVARIANT UniqueDeviceIds
