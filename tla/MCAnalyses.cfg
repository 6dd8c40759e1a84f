SPECIFICATION Spec
CONSTANTS
    Programs <- MCPrograms
    Queries <- MCQueries
    WorkflowRequests <- MCWorkflowRequests
    DeepBudgets <- MCDeepBudgets
    MaxResumes = 1
    Graphs <- MCGraphs
    Thresholds <- MCThresholds
    RegionOptions <- MCRegionOptions
    RegionLimits <- MCRegionLimits
    Outcomes = {"Ok", "Timeout"}
    BlockLists <- MCBlockLists
    DiffThresholds = {4, 8}
    Binaries <- MCBinaries
    Observations <- MCObservations
    Slots <- MCSlots
    Images <- MCImages
    Immediates <- MCImmediates
    Obfuscated <- MCObfuscated
    References <- MCReferences
    WasmModules <- MCWasmModules
    WasmBodies <- MCWasmBodies
    Half = 4
    Hosts <- MCHosts
    Requirements <- MCRequirements
    Lengths = {1, 9}
    Threshold = 4
    ResultTTL = 2
    MaxEntries = 2
    MaxResults = 4
    MaxTime = 3
INVARIANTS
    QueryIsLogical
    WalksAreComplete
    TraceIsComplete
    DeepLosesNothing
    RegionsAreSound
    DiffAccountsForBlocks
    SelfIsRecognised
    RecoveryIsOrderFree
    
    
    WasmBranchesResolve
    WasmConstantsAreRight
    
    StoreKeepsResults
