SPECIFICATION SiteFairSpec
CONSTANTS
    Watched <- MCWatched
    Hooks <- MCHooks
    StatsPublic = TRUE
    Grammars = {"go"}
    Languages = {"text", "go"}
    PLAIN = "text"
    Second = 2
    Minute = 2
    Hour = 4
    Day = 8
    Coarse = 2
    Horizon = 26
    Lifetimes = {5, 9, 19}
    Choices = {"light", "dark"}
    Automatic = "system"
    Storable = TRUE
INVARIANTS
    SiteTypeOK
    FallbackIsTemporary
    AppliedIsWanted
    ColouredOrAwaited
    BadgeKeepsUp
    TryItSingleFlight
PROPERTY
    ColourArrives
