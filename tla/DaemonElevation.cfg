SPECIFICATION ElevationSpec
CONSTANTS
    root = root alice = alice service = service serviceConn = sv
    MaxSessionId = 1
    MaxRequestId = 2
    MaxInhibitorId = 0
    MaxAttemptCount = 3
    MaxAttempts = 2
    MaxPending = 2
    MaxIdle = 2
    Conn = {sv, c1, c2}
    NoConn = NoConn
    Uid = {alice}
    Root = root
    ConnUid <- WithService
    Passwordless = {}
    SeatId = {seat0}
    NoSession = NoSession
    Settings <- TwoSettings
    Backends = {"Direct"}
    DirsAtStart = {"own"}
INVARIANTS
    NoDanglingConnection
    PromptsMatchPending
    NoDanglingSession
PROPERTIES
    KeepsElevationContract
SYMMETRY AliceSymmetry
