SPECIFICATION FullSpec
CONSTANTS
    ByteBase = 8
    StackMax = 384
    Heap = {1024, 1280}
    Garbage = {0, 5}
    Sources <- Accepted
    Compiled <- Compile
    Meant <- Meaning
    Program <- MCProgram
    Image <- MCImage
    Output <- MCOutput
INVARIANTS
    TypeOK
    FetchesInstructions
    LinksIntact
    DepthIsStatic
    PointersSpareLinks
    CodeIsWellFormed
PROPERTIES
    StoresAreLive
    Finishes
    KeepsPromise
