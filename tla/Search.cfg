CONSTANTS
    Scope <- MCScope
    Parent <- MCParent
    Import <- MCImport
    Start = {4}
    MaxShares = 3
    MaxDeclares = 2
    NotFound = NotFound
SPECIFICATION FairSpec
INVARIANTS FindsNearest
PROPERTIES SearchEnds
CHECK_DEADLOCK FALSE
