SPECIFICATION Spec
CONSTANTS
    Conn = {c1, c2}
    Caller = {c1}
    MaxRequests = 2
    MaxEvents = 1
INVARIANTS
    RepliesInOrder
    CallsGetTheirReply
PROPERTIES
    KeepsConnectionOrder
    RequestsAreAnswered
CHECK_DEADLOCK FALSE
