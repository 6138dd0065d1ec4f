SPECIFICATION Spec
CONSTANTS
    g1 = g1
    g2 = g2
    b1 = b1
    b2 = b2
    Game = {g1, g2}
    Anywhere = anywhere
    Build = {b1, b2}
    NoFile = noFile
    UserDll = userDll
    UserLovely = userLovely
    UserAppId = userAppId
    OurAppId = ourAppId
    Alpha = alpha
    None = none
    InitFiles <- MCInitFiles
    MaxJobs = 3
    MaxMishaps = 1
SYMMETRY MCSymmetry
CHECK_DEADLOCK FALSE
INVARIANTS
    TypeOK
    FailedInstallChangesNothing
    FilesSafe
