SPECIFICATION FairSpec
CONSTANTS
    N = 2
    P = 3
    Limits <- FirstThenCap
    Scenarios <- SomeScenarios
    Uses <- SomeUses
    None = None
INVARIANTS SameCollectives GradientsAveraged RaisesOnlyOnMisuse
PROPERTY TrainingFinishes
CHECK_DEADLOCK FALSE
