\* The host alone: attempts retried over two races, and a setlist of three.
SPECIFICATION Spec
CONSTANTS
    h = h
    p = p
    q = q
    Session = {h}
    Host = h
    NameOf <- MCNameOf
    Chart = {c1, c2}
    NoChart = noChart
    Run = {r1, r2, r3}
    NoRun = noRun
    Setting = {std}
    MaxPlayers = 16
    MaxSpectators = 32
    MaxHits = 1
    RetireLimit = 1
    InitChecks = {TRUE}
    InitMode = {"password_only"}
    Features = {"policy", "setlist", "close"}
    MaxSeq = 0
    MaxSetlist = 3
    MaxRaces = 2
CHECK_DEADLOCK FALSE
INVARIANTS
    ScoresHonest
    SetlistKept
PROPERTIES
    BadVerdictSticks
