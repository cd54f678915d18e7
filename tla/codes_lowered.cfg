\* The minimum length is lowered between two starts.
CONSTANTS
    Base = 3
    MaxLen = 2
    Reserved <- OneCharRoute
    Mac <- MCMac
    Settings <- MCSettings
    Changes <- Lowered
    MaxRestarts = 1
SPECIFICATION Spec
INVARIANTS
    CodesNeverCollide
CHECK_DEADLOCK FALSE
