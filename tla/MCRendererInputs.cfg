SPECIFICATION InputsSpec
CONSTANTS
    Slot = {A, B}
    Participant = {p, q}
    Nobody = Nobody
    Taps <- MCTaps
    FirstNote = 1
    Delay = 1
    Jitter = 0
    Tolerance = 1
    MaxNow = 3
    MaxRuns = 1
    MaxControls = 2
INVARIANTS InputsTypeOK InputIsCurrent
SYMMETRY Symmetric
CHECK_DEADLOCK FALSE
