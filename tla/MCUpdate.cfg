\* Two launchers, three versions (the first a preview), two updates, one failure.
SPECIFICATION FairSpec
CONSTANTS
    L1 = L1
    L2 = L2
    Launcher = {L1, L2}
    UpdateId = {u1, u2}
    LauncherAt <- MCLauncherAt
    Preview <- MCPreview
    Complete <- MCComplete
    MaxVersion = 3
    MaxFaults = 1
CHECK_DEADLOCK FALSE
INVARIANTS
    TypeOK
    InstallerKept
PROPERTIES
    FailureRestores
    UpdateEnds
