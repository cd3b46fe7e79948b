SPECIFICATION MCSpec
CONSTANTS
    Null = Null
    Nodes = {n1, n2, n3}
    Keys = {k1, k2, k3}
    Regimes = {{"task"}, {"handler"}}
    MaxPushes = 5
    Futures = {f1, f2}
    Threads = {t1}
    MaxWakers = 2
    PageCount = 19
    BootPages = 1
    PAGE_SIZE = 2
    Fan = 2
    BlockAlign <- MCBlockAlign
    VaPages = 7
    Segments <- MCSegments
    FilePages = 1
    Sizes = {1, 2}
    IdBits = 2
    MaxRegions = 2
    MaxOps = 5
SYMMETRY MCSymmetry
INVARIANTS
    ListTypeOK
    TraversalsAreLive
    ListIsExact
    PoolDrains
    RwTypeOK
    WriterAlone
    CountIsExact
    TypeOK
    OnePageOneHolder
    NoPageLost
    QueuesAreShared
    AddressesDisjoint
    CopyIsExact
