SPECIFICATION EditorFairSpec
CONSTANTS
    SampleUnits = 4
    MinSample = 2
    Texts <- MCTexts
    EmptyText <- MCEmpty
    LanguageChoices = {"auto", "go"}
    Files <- MCFiles
    Picks = {0, 2}
    Titles <- MCTitles
    Fallback <- MCFallback
    Server <- MCServer
    MaxPosts = 2
INVARIANTS
    SavingMeansOnePost
    DialogStaysWhileSaving
    SentIsShown
    SentIsWithinLimits
PROPERTY
    SavingEnds
