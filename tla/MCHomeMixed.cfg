\* Every requester class: fetches, page walks, device accesses, errors, bad commands.
SPECIFICATION Spec
CONSTANTS
    h1 = h1  h2 = h2
    a = a  b = b  c = c  dev = dev
    Harts = {h1, h2}
    Lines = {a, b, dev}
    DeviceLines = {dev}
    BadLines = {b}
    Values = {0}
    InitValue = 0
    Absent = Absent
    NoLine = NoLine
    Sets = {0}
    WAYS = 1
    SetOf <- OneSet
    ProbeIds = 2
    LoadLines = {a, b}
    StoreLines = {a}
    AtomicLines = {}
    FetchLines = {a}
    PtwLines = {a}
    STORE_BUFFER_LINES = 1
    OverlayFills = FALSE
    Malformed = TRUE
INVARIANTS TypeOK HomeInv
SYMMETRY HartSymmetry
VIEW LiveState
