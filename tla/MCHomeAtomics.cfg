\* LR, SC and fences against loads and stores of one line.
SPECIFICATION Spec
CONSTANTS
    h1 = h1  h2 = h2
    a = a  b = b  c = c  dev = dev
    Harts = {h1, h2}
    Lines = {a}
    DeviceLines = {}
    BadLines = {}
    Values = {0, 1}
    InitValue = 0
    Absent = Absent
    NoLine = NoLine
    Sets = {0}
    WAYS = 1
    SetOf <- OneSet
    ProbeIds = 2
    LoadLines = {a}
    StoreLines = {a}
    AtomicLines = {a}
    FetchLines = {}
    PtwLines = {}
    STORE_BUFFER_LINES = 1
    OverlayFills = FALSE
    Malformed = FALSE
INVARIANTS CleanCopies ScAtomic
PROPERTIES ImplementsContract
SYMMETRY HartSymmetry
VIEW LiveState
