SPECIFICATION FairSpec
CONSTANTS
    Handles = {h1}
    GuardCap = 2
    MaxGeneration = 3
INVARIANT
    StoppedIsQuiet
PROPERTIES
    BarriersHold
    StopsEnd
CHECK_DEADLOCK FALSE
