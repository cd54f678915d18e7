SPECIFICATION PasteSpec
CONSTANTS
    Codes = {"a", "b"}
    Lines <- MCLines
    Hashes <- MCHashes
    Locales = {"en", "ja"}
INVARIANT
    TabDescribesThePage
