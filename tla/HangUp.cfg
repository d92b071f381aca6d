SPECIFICATION Spec
CONSTANTS
    Conn = {c1}
    Caller = {}
    MaxRequests = 1
    MaxEvents = 1
PROPERTIES
    HangUpsAreNoticed
CHECK_DEADLOCK FALSE
