\* Two peers who share a display name, and room for one of them in each role.
SPECIFICATION Spec
CONSTANTS
    h = h
    p = p
    q = q
    Session = {h, p, q}
    Host = h
    NameOf <- MCSameName
    Chart = {c}
    NoChart = noChart
    Run = {}
    NoRun = noRun
    Setting = {std}
    MaxPlayers = 2
    MaxSpectators = 1
    MaxHits = 1
    RetireLimit = 32
    InitChecks = {TRUE}
    InitMode = {"host_approval"}
    Features = {"roster", "drops"}
    MaxSeq = 0
    MaxSetlist = 0
    MaxRaces = 2
CHECK_DEADLOCK FALSE
INVARIANT
    RosterKept
