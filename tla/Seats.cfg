SPECIFICATION SeatsSpec
CONSTANTS
    Session = {s1, s2, s3, s4}
    SeatId = {seat0, seat1}
    Seat = {seat0, seat1}
    NoSession = NoSession
    Policy <- ThreePolicies
    MaxIdle = 4
INVARIANTS
    TypeOK
    EverySessionHasOnePlace
    NoQueueForAFreeSeat
    StagesAreEarned
PROPERTIES
    NobodyOvertakes
    OnlyDetachRemoves
    QuietSeatsAskForTheLock
