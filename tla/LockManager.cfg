SPECIFICATION FairSpec
CONSTANTS
    Session = {s1, s2}
    Policy <- ThreePolicies
    MaxInhibitorId = 2
    MaxAttemptCount = 4
INVARIANTS
    TypeOK
    EveryLockoutIsTimed
PROPERTIES
    OnlyAPasswordUnlocks
    GuessesAreNotForgotten
    EveryLockoutEnds
