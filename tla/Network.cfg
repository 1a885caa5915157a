CONSTANTS
    Uid <- MCUid
    Backoffs <- MCBackoffs
    Scenario <- MCNetwork
    Unit = {1, 2, 3}
    MaxBackoffResets = 10
    ClaimTimeout = 1
    MaxClaimAttempts = 10
    MaxPending = 2
    HeartbeatInterval = 2
    HeartbeatTimeout = 6
    ValidationInterval = 4
    StopOvertakes = FALSE
SPECIFICATION FairSpec
INVARIANT TypeOK
INVARIANT UniqueDeviceIds
INVARIANT NoMixedVersions
PROPERTY RestartReported
PROPERTY NetworkSettles
ACTION_CONSTRAINT JoinInTurn
