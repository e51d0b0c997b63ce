CONSTANTS
    p1 = p1
    p2 = p2
    q1 = q1
    q2 = q2
    short = short
    long = long
    k1 = k1
    k2 = k2
    k3 = k3
    Lowest <- MCLowest
    Highest <- MCHighest
    Texts <- MCTexts
    Writers = {p1, p2}
    Contents = {short, long}
    BodySize <- MCBodySize
    HeaderSize = 2
    SocketRoom = 3
    MaxMessages = 2
    SemProducers = {p1, p2}
    SemConsumers = {q1, q2}
    SemItems = {1, 2}
    SlotCount = 2
    CondProducers = {p1, p2}
    CondConsumers = {q1, q2}
    RingSize = 3
    MqProducers = {p1, p2}
    MqConsumers = {q1}
    LastProducer = p2
    LastConsumer = q1
    QueueSize = 2
    Requests = 3
    MaxClients = 3
    Descriptors = {1, 2}
    TableSize = 1
    None = None
    JobCount = 4
    BurstTimes = {0, 1, 2, 5}
    TimeSlice = 2
    Null = Null
    Doubles = {1, 2}
    InitialCapacity = 1
    GrowthNumber = 2
    GrowthOver = 1
    MaxSize = 3
    Junk = Junk
    Keys = {k1, k2, k3}
    HashValues = {1, 2}
    Hash <- MCHash
    TableBuckets = 5
    SearchThreads = 2
    Searched = 1
    ChildNumber = 3
    LineLength = 2
SPECIFICATION AllSpec
CHECK_DEADLOCK FALSE
INVARIANTS
    StaysInRange
    ArriveInOrder
    SomebodyAwake
    NeverUnderruns
    ResultsMatch
    NoStaleRows
    SearchComplete
    LinesAreWhole
PROPERTIES
    TripArrives
    Delivered
    IsSemaphoreBuffer
    RemovalsGoOn
    IsConditionBuffer
    EnterStops
    WorkGetsDone
    ThreadsEnd
    IsRoundRobin
    IsSequence
