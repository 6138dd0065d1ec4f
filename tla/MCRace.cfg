\* One racer and the host, one attempt each, score events in every order.
SPECIFICATION FairSpec
CONSTANTS
    h = h
    p = p
    q = q
    Session = {h, p}
    Host = h
    NameOf <- MCNameOf
    Chart = {c}
    NoChart = noChart
    Run = {r}
    NoRun = noRun
    Setting = {std}
    MaxPlayers = 16
    MaxSpectators = 32
    MaxHits = 1
    RetireLimit = 32
    InitChecks = {TRUE}
    InitMode = {"password_only"}
    Features = {"drops"}
    MaxSeq = 1
    MaxSetlist = 0
    MaxRaces = 1
CHECK_DEADLOCK FALSE
INVARIANTS
    TypeOK
    RaceHasOpenRun
    AttemptsSettled
    ScoresHonest
PROPERTIES
    KeepsContract
    RaceHeldOnlyByLiveRun
