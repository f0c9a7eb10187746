SPECIFICATION FairLoopSpec
CONSTANTS
    Packets = {p1}
    Nobody = Nobody
    MaxPieces = 2
    MaxErrors = 1
    PrunePeriod = 1
    MaxNow = 0
CHECK_DEADLOCK FALSE
PROPERTIES
    StopsPromptly
