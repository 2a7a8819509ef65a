\* Loads and stores of two harts; fetches, walks and malformed commands of one.  A
\* malformed write to a line with other sharers stops the L2 for good, so deadlock
\* is not checked.
SPECIFICATION FrontEndSpec
CONSTANTS
    h1 = h1  h2 = h2
    a = a  b = b  c = c  dev = dev
    Harts = {h1, h2}
    Lines = {a, b}
    DeviceLines = {}
    BadLines = {}
    Values = {0}
    InitValue = 0
    Absent = Absent
    NoLine = NoLine
    Sets = {0}
    WAYS = 1
    SetOf <- OneSet
    ProbeIds = 1
    LoadLines = {a}
    StoreLines = {a}
    AtomicLines = {}
    FetchLines = {b}
    PtwLines = {b}
    STORE_BUFFER_LINES = 1
    OverlayFills = FALSE
    L2Sets = {0}
    L2_WAYS = 1
    L2SetOf <- OneSet
    MSHR_ENTRIES = 2
    WAITERS_PER_MSHR = 1
    COMMAND_ENTRIES = 1
    RESPONSE_ENTRIES = 1
    Generations = 1
    MaxInService = 2
    Malformed = TRUE
VIEW LiveState
PROPERTY LookupProgress
CHECK_DEADLOCK FALSE
