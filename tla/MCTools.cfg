SPECIFICATION MCSpec
CONSTANTS
    DUTs = {d1, d2}
    Supported = {d1, d2}
    Cores = {f1, f2}
    Clients = {a, b}
    WordValues = 2
    RibEntries = {nhg, ipv4}
    MaxModifies = 2
    NewPasswords = {"p1", "p2"}
    NewPrincipals = {"u1"}
    AuthTypes <- MCAuthTypes
    CheckTools = {"hiba"}
    KeyDirs <- MCKeyDirs
    MaxRotations = 5
    TestTrees <- MCTestTrees
    MaxRundataRuns = 3
    MaxFaults = 1
    Packets <- MCPackets
    Checks = {"vlan", "ip4", "inner", "bgp", "macsec"}
    MaxPackets = 3
    MaxChecks = 3
    Starts <- MCStarts
    Accessors <- MCAccessors
    AcctzPlans <- MCAcctzPlans
    Error = Error
INVARIANTS
    CrashesFailTheRun
    OldCoresAreForgiven
    
    RundataRepaired
    
    DeviationsTold
    GeneratedRight
    RecordsAsExpected
PROPERTIES
    NothingLost
    ListingStable
CHECK_DEADLOCK FALSE
