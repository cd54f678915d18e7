\* Two callers arriving together, two slots, one place in line.
CONSTANTS
    Callers = {c1, c2}
    WriteConcurrency = 2
    WriteQueue = 1
SPECIFICATION FairSpec
PROPERTIES
    RefusedOnlyWhenSlotsAreTaken
