\* The home tracks every copy while its directory replaces lines, and answers
\* every command it accepts.
SPECIFICATION FairSpec
CONSTANTS
    h1 = h1  h2 = h2
    a = a  b = b  c = c  dev = dev
    Harts = {h1, h2}
    Lines = {a, b}
    DeviceLines = {}
    BadLines = {}
    Values = {0}
    InitValue = 0
    Absent = Absent
    NoLine = NoLine
    Sets = {0}
    WAYS = 1
    SetOf <- OneSet
    ProbeIds = 2
    LoadLines = {a, b}
    StoreLines = {a}
    AtomicLines = {}
    FetchLines = {}
    PtwLines = {}
    STORE_BUFFER_LINES = 1
    OverlayFills = TRUE
    Malformed = FALSE
INVARIANTS CopiesTracked NoProtocolError WriteExclusive
PROPERTIES RequestAnswered
