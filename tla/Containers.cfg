SPECIFICATION FairSpec
CONSTANTS
    Thread = {t1, t2, t3}
    t1 = t1
    t2 = t2
    t3 = t3
    MainThread = main
    Null = null
    Lock = {general_lock, scopes_lock}
    Ready = {scopes_lock}
    general_lock = general_lock
    scopes_lock = scopes_lock
    Function = {fn1, fn2}
    fn1 = fn1
    fn2 = fn2
    Str = {hello}
    hello = hello
    Length <- MCLength
    GlobalSize = 3
    scopes_max1 = 2
    scopes_max2 = 2
    Works <- MCWorks
INVARIANTS
    Exclusion
    StringsHold
    LinksResolve
    ScopesKept
PROPERTIES
    GivesBytesOnce
    GetsLinked
