\* The store overlay of a demand miss against a store of the other hart.
SPECIFICATION Spec
CONSTANTS
    h1 = h1  h2 = h2
    a = a  b = b  c = c  dev = dev
    Harts = {h1, h2}
    Lines = {a}
    DeviceLines = {}
    BadLines = {}
    Values = {0, 1}
    InitValue = 0
    Absent = Absent
    NoLine = NoLine
    Sets = {0}
    WAYS = 1
    SetOf <- OneSet
    ProbeIds = 2
    LoadLines = {a}
    StoreLines = {a}
    AtomicLines = {}
    FetchLines = {}
    PtwLines = {}
    STORE_BUFFER_LINES = 1
    OverlayFills = TRUE
    Malformed = FALSE
INVARIANTS CleanCopies
SYMMETRY HartSymmetry
VIEW LiveState
