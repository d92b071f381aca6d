SPECIFICATION PowerSpec
CONSTANTS
    root = root alice = alice service = service serviceConn = sv
    MaxSessionId = 1
    MaxRequestId = 1
    MaxInhibitorId = 1
    MaxAttemptCount = 2
    MaxAttempts = 2
    MaxPending = 2
    MaxIdle = 1
    Conn = {sv, c1}
    NoConn = NoConn
    Uid = {alice}
    Root = root
    ConnUid <- WithRoot
    Passwordless = {}
    SeatId = {seat0}
    NoSession = NoSession
    Settings <- PowerSettings
    Backends = {"MitosPower", "Supervised"}
    DirsAtStart = {"own"}
PROPERTIES
    EveryRequestCloses
CHECK_DEADLOCK FALSE
