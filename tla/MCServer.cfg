SPECIFICATION ServerSpec
CONSTANTS
    n1 = n1
    n2 = n2
    n3 = n3
    k1 = k1
    k2 = k2
    k3 = k3
    u1 = u1
    u2 = u2
    r1 = r1
    r2 = r2
    t1 = t1
    t2 = t2
    p1 = p1
    p2 = p2
    Network <- MCNetwork
    Workers = {w1, w2}
    Operators = {w2}
    Ripostes = {w2}
    Nobody = nobody
    AutoMax = 1
    AutoTime = 1
    RiposteTime = 2
    ManualTimes = {}
    Kept <- MCKept
    MaxClock = 3
    MaxWrites = 2
    MaxListFaults = 1
    Upstream <- MCUpstream
    Request <- MCRequest
    NoUpstream = none
    Limit <- MCLimit
    UnhealthyAfter = 2
    HealthyAfter = 1
    MaxIdle = 1
    MaxProbes = 1
    MaxByHand = 1
    Worker = {w1, w2}
    Task <- MCTask
    Resource = {a}
    Variant = {x, y}
    NoTask = notask
    Sizes = {1, 2}
    MaxSize = 2
    MaxArrivals = 3
    MaxCacheFaults = 1
    RateKey <- MCKey
    NoKey = nokey
    RateSlots = 3
    RateProbes = 2
    FirstRateSlot <- MCFirstSlot
    Requests = 2
    RateWindow = 2
    RateLife = 2
    LastTick = 8
    Address <- MCKey
    NoAddress = nokey
    HitSlots = 3
    HitProbes = 2
    FirstHitSlot <- MCFirstSlot
    RingSize = 2
    HitWindow = 1
    HitLife = 2
    LastTime = 5
    MaxHits = 5
    WorkerIndex = {1, 2}
    MaxRestartsInWindow = 1
    MaxDeaths = 3
    Member = {1}
    MaxRestarts = 1
    MaxEdits = 2
    MaxReloads = 2
    MaxNativeFaults = 2
    Server <- MCServers
    NoServer = noserver
    Subject = {s}
    NoSubject = nosubject
    Flush = flush
    Ttl = 1
    LastInstant = 3
    MaxObservations = 2
    MaxJobs = 2
    MaxSweeps = 1
    MaxBaseFaults = 1
    Gap = 1
    Within = 2
    Returns = 2
    Recidive = 2
    Retention = 4
    BanTimes <- MCBanTimes
    LureTime = 1
    MaxEpisodes = 2
    MaxPast = 1
    MaxOfSource = 1
    Lateness = 1
    LastMoment = 6
    MaxActs = 2
    Restorer <- MCServers
    NumBases = 1
    MaxMade = 4
    MaxStarts = 2
    MaxRestoreFaults = 1
    Connection <- MCServers
    MaxQueued = 1
    MaxNumber = 2
    MaxChannelFaults = 1
    Security = {w1}
    Source <- MCUpstream
    MaxEntries = 1
    StateLife = 1
    DecoyLife = 2
    LastSecond = 3
    MaxUnread = 2
    MaxDecoys = 1
    MaxWatchFaults = 2
SYMMETRY Symmetry
INVARIANTS
    ServerTypeOK
    ListsAreCurrent
    AutoBansBounded
    ActiveIsInFlight
    LimitHolds
    EffectsOnce
    FetchesAreNeeded
    DirectoryIsSound
    SharedCountersAreExact
    StopReachesEveryWorker
    MixedHasACause
    OneIncidentAtATime
    MemoryAnswersAsHistory
    NoForeignWal
    VerdictsAreMatched
    FollowedGoToPython
PROPERTIES
    ManualBanStands
    ClosedWhenQuiet
CHECK_DEADLOCK FALSE
