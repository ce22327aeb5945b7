SPECIFICATION AnySpec
CONSTANTS
    STRING_LIMIT = 3
    Char = {a, b}
    NUL = NUL
    Client = {c1}
    None = None
    mq_maxmsg = 1
    StatusSize = 2
    Connection = {s1, s2}
    Plate = {p, q, r}
    Time = {1, 4}
    parkingCapacity = 2
    HOUR = 2
    MaxHours = 3
    Thread = {t1, t2, t3}
    LIST_LEN = 4
    NULL = NULL
    Sizes = {1, 3, 4, 11}
    SIZE_T = 2
    POINTER = 2
    PAGE = 12
    MaxPages = 2
INVARIANTS
    AllTypesOK
    ZerosBehindText
    ParkingIsSafe
    BlocksTile
    ListIsMerged
    HolesHoldLinks
PROPERTIES
    ClientsAnswered
    ImplementsEditing
    
    ThreadsReturn
    ImplementsQueue
