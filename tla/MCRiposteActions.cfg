SPECIFICATION Spec
CONSTANTS
    ip1 = ip1
    ip2 = ip2
    browser = browser
    script = script
    Ip <- MCIp
    Agent <- MCNoAgent
    Kinds <- MCBans
    Tiers <- MCTiers
    DecoyTime = 1
    MaxActiveBans = 1
    MaxPerSource = 1
    MaxTime = 1
    MaxActions = 2
    MaxCommands = 1
    MaxCrashes = 1
    MaxOutside = 1
SYMMETRY Symmetry
INVARIANTS
    TypeOK
    OverIsOver
    ActiveBansCapped
    RunningBansAreRemembered
PROPERTIES
    OthersUntouched
    FinishedIsFinal
    ExemptedStaysFree
