\* Every other requester of one hart: fetch, page walk, device, malformed.
SPECIFICATION Spec
CONSTANTS
    h1 = h1  h2 = h2
    a = a  b = b  c = c  dev = dev
    Harts = {h1}
    Lines = {a, b, dev}
    DeviceLines = {dev}
    BadLines = {}
    Values = {0}
    InitValue = 0
    Absent = Absent
    NoLine = NoLine
    Sets = {0}
    WAYS = 1
    SetOf <- OneSet
    ProbeIds = 1
    LoadLines = {a}
    StoreLines = {}
    AtomicLines = {}
    FetchLines = {b}
    PtwLines = {a}
    STORE_BUFFER_LINES = 1
    OverlayFills = FALSE
    L2Sets = {0}
    L2_WAYS = 2
    L2SetOf <- OneSet
    MSHR_ENTRIES = 2
    WAITERS_PER_MSHR = 2
    COMMAND_ENTRIES = 1
    RESPONSE_ENTRIES = 1
    Generations = 2
    MaxInService = 2
    Malformed = TRUE
INVARIANTS TypeOK ArrayCoherent
VIEW LiveState
