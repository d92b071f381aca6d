SPECIFICATION IdleSpec
CONSTANTS
    root = root alice = alice service = service serviceConn = none
    MaxSessionId = 2
    MaxRequestId = 0
    MaxInhibitorId = 1
    MaxAttemptCount = 1
    MaxAttempts = 2
    MaxPending = 2
    MaxIdle = 2
    Conn = {c1}
    NoConn = NoConn
    Uid = {alice}
    Root = root
    ConnUid <- AllAlice
    Passwordless = {}
    SeatId = {seat0, seat1}
    NoSession = NoSession
    Settings <- IdleSettings
    Backends = {"Direct"}
    DirsAtStart = {"missing", "foreign", "own"}
INVARIANTS
    SessionsKeepTheirDirectories
    LiveSessionsAreSeated
PROPERTIES
    UnaskedLockNeedsIdleness
    OnlyWrongPasswordsOverrideBlock
    SleepsLocked
SYMMETRY SeatSymmetry
