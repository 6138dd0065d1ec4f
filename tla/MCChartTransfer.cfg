\* Two participants, two charts, two locks, two archives, one choice, one fault.
SPECIFICATION Spec
CONSTANTS
    A = A
    B = B
    p = p
    q = q
    Peer = {p, q}
    Chart = {A, B}
    Executable <- MCExecutable
    Zipped <- MCZipped
    Owned <- MCOwned
    Troubled = {p}
    AutoRequest = TRUE
    MaxBuilds = 1
    NoChart = NoChart
    MaxLocks = 2
    MaxRequest = 2
    MaxManual = 1
    MaxFaults = 1
CHECK_DEADLOCK FALSE
INVARIANTS
    TypeOK
    ArchivesAccounted
    OfferIsAnswerable
    ConsentBeforeBytes
