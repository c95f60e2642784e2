SPECIFICATION CallSpec
CONSTANTS
    MaxTime = 3
    Skew = 1
    MaxBack = 1
INVARIANTS
    EffectWasAllowed
    ResultTellsTheEffect
CHECK_DEADLOCK FALSE
