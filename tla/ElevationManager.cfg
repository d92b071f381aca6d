SPECIFICATION FairSpec
CONSTANTS
    Session = {s1, s2}
    Conn = {c1, c2}
    Policy <- TwoPolicies
    MaxAttempts = 2
    MaxPending = 2
    MaxRequestId = 3
INVARIANTS TypeOK EveryPromptIsTimed EveryLockoutIsTimed GuessBudget
PROPERTIES OnlyTheTimerLiftsALockout EveryPromptResolves EveryLockoutEnds
