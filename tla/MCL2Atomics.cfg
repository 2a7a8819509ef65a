\* One line under LR, SC, fences and stores of two harts.
SPECIFICATION Spec
CONSTANTS
    h1 = h1  h2 = h2
    a = a  b = b  c = c  dev = dev
    Harts = {h1, h2}
    Lines = {a, b}
    DeviceLines = {}
    BadLines = {}
    Values = {0, 1}
    InitValue = 0
    Absent = Absent
    NoLine = NoLine
    Sets = {0}
    WAYS = 1
    SetOf <- OneSet
    ProbeIds = 1
    LoadLines = {}
    StoreLines = {a}
    AtomicLines = {a}
    FetchLines = {}
    PtwLines = {}
    STORE_BUFFER_LINES = 1
    OverlayFills = FALSE
    L2Sets = {0}
    L2_WAYS = 1
    L2SetOf <- OneSet
    MSHR_ENTRIES = 2
    WAITERS_PER_MSHR = 2
    COMMAND_ENTRIES = 1
    RESPONSE_ENTRIES = 1
    Generations = 1
    MaxInService = 3
    Malformed = FALSE
INVARIANTS CopiesTracked ScAtomic
VIEW LiveState
SYMMETRY HartSymmetry
