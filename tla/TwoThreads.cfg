SPECIFICATION Spec
CONSTANTS
    Thread = {t1, t2}
    File = {preload, main, a, b, c}
    Main = main
    Preload = preload
    a = a
    b = b
    c = c
    MaxImports = 6
    Programs <- RacingPrograms
INVARIANT IndependentOfThreads
