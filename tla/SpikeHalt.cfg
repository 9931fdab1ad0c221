CONSTANTS
    HaltCount = 3
    HaltWindow = 4
    SkipStepsOnSpike = 2
    StartStep = 2
    LastStep = 13
SPECIFICATION Spec
INVARIANTS
    HaltsExactlyOnAFullWindow
    CooldownIsServed
    EndlessSkippingHalts
CHECK_DEADLOCK FALSE
