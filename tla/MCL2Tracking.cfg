\* A private read joins the MSHR of a page-walk read in a locked set.
SPECIFICATION Spec
CONSTANTS
    h1 = h1  h2 = h2
    a = a  b = b  c = c  dev = dev
    Harts = {h1, h2}
    Lines = {a, b}
    DeviceLines = {}
    BadLines = {}
    Values = {0}
    InitValue = 0
    Absent = Absent
    NoLine = NoLine
    Sets = {0}
    WAYS = 1
    SetOf <- OneSet
    ProbeIds = 1
    LoadLines = {a, b}
    StoreLines = {}
    AtomicLines = {}
    FetchLines = {}
    PtwLines = {a}
    STORE_BUFFER_LINES = 1
    OverlayFills = FALSE
    L2Sets = {0}
    L2_WAYS = 2
    L2SetOf <- OneSet
    MSHR_ENTRIES = 2
    WAITERS_PER_MSHR = 2
    COMMAND_ENTRIES = 1
    RESPONSE_ENTRIES = 1
    Generations = 2
    MaxInService = 3
    Malformed = FALSE
INVARIANT CopiesTracked
VIEW LiveState
SYMMETRY HartSymmetry
