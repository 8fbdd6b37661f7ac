SPECIFICATION FairSpec
CONSTANTS
    Thread = {t1}
    File = {preload, main, a, b, c}
    Main = main
    Preload = preload
    a = a
    b = b
    c = c
    MaxImports = 6
    Programs <- SequentialPrograms
INVARIANTS AcceptedIsGenerated NoDuplicateImport
