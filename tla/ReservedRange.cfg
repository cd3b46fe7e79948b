SPECIFICATION Spec
CONSTANTS
    PageCount = 19
    BootPages = 1
    PAGE_SIZE = 2
    Fan = 2
    BlockAlign <- MCBlockAlign
    VaPages = 7
    Segments <- MCSegments
    FilePages = 1
    Sizes = {1, 2}
    IdBits = 2
    MaxRegions = 2
    MaxOps = 5
INVARIANT ReservedStays
CHECK_DEADLOCK FALSE
