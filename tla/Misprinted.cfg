SPECIFICATION FullSpec
CONSTANTS
    ByteBase = 8
    StackMax = 384
    Heap = {}
    Garbage = {5}
    Sources <- Misprinted
    Compiled <- Compile
    Meant <- Meaning
    Program <- MCProgram
    Image <- MCImage
    Output <- MCOutput
INVARIANT PrintsMeaning
