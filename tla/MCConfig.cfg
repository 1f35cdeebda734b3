SPECIFICATION Spec
CONSTANT NoValue = NoValue
INVARIANTS
    
    
    DeviceAsAsked
PROPERTIES
    StepsKeepTheRest
CHECK_DEADLOCK FALSE
