SPECIFICATION FairSpec
CONSTANTS
    SessionPlans <- MCSessionPlans
    BuilderPlans <- MCBuilderPlans
    BandwidthPlans <- MCBandwidthPlans
    FilterPlans <- MCFilterPlans
    FilterRoutes <- MCFilterRoutes
    IsisDuts <- MCIsisDuts
    IsisChanges <- MCIsisChanges
    MaxDrops = 1
    BulkCount = 2
    MaxChanges = 2
    MaxCases = 2
    MaxFailures = 1
INVARIANTS
    EndsAgree
    AsAsked
    
PROPERTIES
    StepsAreSound
    HealthyPasses
CHECK_DEADLOCK FALSE
