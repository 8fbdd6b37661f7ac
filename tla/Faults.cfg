SPECIFICATION FullSpec
CONSTANTS
    ByteBase = 8
    StackMax = 128
    Heap = {0, 1024}
    Garbage = {0, 5}
    Sources <- Faults
    Compiled <- Compile
    Meant <- Meaning
    Program <- MCProgram
    Image <- MCImage
    Output <- MCOutput
INVARIANTS
    StaysInStack
    EndsAsExpected
