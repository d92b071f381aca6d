SPECIFICATION Spec
CONSTANTS
    root = root alice = alice service = service serviceConn = sv
    MaxSessionId = 1
    MaxRequestId = 1
    MaxInhibitorId = 1
    MaxAttemptCount = 3
    MaxAttempts = 2
    MaxPending = 2
    MaxIdle = 2
    Conn = {sv, c1}
    NoConn = NoConn
    Uid = {alice}
    Root = root
    ConnUid <- WithService
    Passwordless = {}
    SeatId = {seat0}
    NoSession = NoSession
    Settings <- OneSetting
    Backends = {"Supervised"}
    DirsAtStart = {"own"}
INVARIANTS
    ExitEndsEverySession
CHECK_DEADLOCK FALSE
