SPECIFICATION PasteFairSpec
CONSTANTS
    Codes = {"a", "b"}
    Lines <- MCLines
    Hashes <- MCHashes
    Locales = {"en", "ja"}
INVARIANTS
    ShownIsAsked
    LoadingIsBacked
    KeysAreCurrent
    LabelsAreTranslated
PROPERTIES
    MarksFollow
    LoadingEnds
