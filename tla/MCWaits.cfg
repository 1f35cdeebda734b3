SPECIFICATION FairSpec
CONSTANTS
    Plans <- MCPlans
    Waiters = {w1, w2, w3}
    CanRefuse = TRUE
    CanIgnore = TRUE
    Kinds <- MCKinds
    MaxChanges = 2
    MaxSamples = 3
    MaxCalls = 2
    GivenNames = {"app", "test-instance"}
    PollTimeout = 3
    RebootWaiters = {"containerz", "chassis", "dut"}
    Components = 3
    MaxPolls = 4
    DelayPolls = 2
    Rpcs <- MCRpcs
    MaxMessages = 3
    Window = 2
    Pluggables <- MCPluggables
    TransponderPlans <- MCTransponderPlans
INVARIANTS
    RotationEndsWell
    
    NothingLeft
    TranspondersJudged
PROPERTIES
    WaitsEnd
CHECK_DEADLOCK FALSE
