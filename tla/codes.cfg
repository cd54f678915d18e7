\* Three secrets and a minimum length that a restart may raise.
CONSTANTS
    Base = 3
    MaxLen = 2
    Reserved <- OneCharRoute
    Mac <- MCMac
    Settings <- MCSettings
    Changes <- Raised
    MaxRestarts = 1
SPECIFICATION Spec
INVARIANTS
    CodesNeverCollide
    NoCodeIsWasted
    LengthGrowsOnlyWhenFull
CHECK_DEADLOCK FALSE
