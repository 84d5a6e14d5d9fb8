SPECIFICATION FairSpec
CONSTANTS
    StandbyTime = 2
    PowerdownTime = 4
    MaxIdle = 6
    MaxRef = 2
    Wrap = 16
    Windows = {}
INVARIANTS
    SuspendedExactlyInStandby
    WaitsForWakeUp
PROPERTIES
    PowerdownOnlyIdle
    PowerdownHappens
    FullLockWakes
    EventuallySleeps
