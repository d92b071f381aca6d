SPECIFICATION Spec
CONSTANTS
    Session = {s1}
    Policy <- OnePolicy
    MaxInhibitorId = 1
    MaxAttemptCount = 4
PROPERTIES
    LockoutIsServed
