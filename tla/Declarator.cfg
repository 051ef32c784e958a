SPECIFICATION Spec
CONSTANTS
    MaxTemplate = 3
    MaxTip = 0
    MaxDeclared = 1
    MaxPoolJobs = 1
INVARIANTS
    FutureJobOnItsPrevHash
    CounterCountsTasks
    OneStage
    GateHasOwner
