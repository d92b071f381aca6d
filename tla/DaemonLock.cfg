SPECIFICATION LockSpec
CONSTANTS
    root = root alice = alice service = service serviceConn = none
    MaxSessionId = 1
    MaxRequestId = 0
    MaxInhibitorId = 0
    MaxAttemptCount = 2
    MaxAttempts = 2
    MaxPending = 2
    MaxIdle = 2
    Conn = {c1, c2, c3}
    NoConn = NoConn
    Uid = {alice}
    Root = root
    ConnUid <- AllAlice
    Passwordless = {}
    SeatId = {seat0}
    NoSession = NoSession
    Settings <- TwoSettings
    Backends = {"Direct"}
    DirsAtStart = {"own"}
INVARIANTS
    TypeOK
    LockedStateIsBacked
    LockedStateShowsLockScreen
    RestartsBounded
    ProcessesRunAsTheirUser
PROPERTIES
    OnlyAPasswordUnlocks
    ActivationMeansUnlocked
SYMMETRY ConnSymmetry
