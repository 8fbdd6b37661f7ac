SPECIFICATION FairSpec
CONSTANTS
    Thread = {t1, t2}
    File = {preload, main, a, b, c}
    Main = main
    Preload = preload
    a = a
    b = b
    c = c
    MaxImports = 6
    Programs <- MCPrograms
INVARIANTS
    TypeOK OneToken NoLostWakeup CountIsWorkers QuitIsFinal ImportKnown OneTaskPerImport
    PendingDeps NoLostFixup StuckMeansError ScopesComplete AcceptedIsComplete
PROPERTIES
    Termination PoolSteps PoolServes
