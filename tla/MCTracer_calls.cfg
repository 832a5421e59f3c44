SPECIFICATION MCSpec
CONSTANTS
    t1 = t1
    t2 = t2
    Threads <- TwoThreads
    Main = t1
    FDs <- ThreeFDs
    Std <- MCStd
    Metas <- AllSockets
    Wanted <- MixedAddresses
    Opts <- MixedOptions
    MaxCalls = 4
    Nothing = Nothing
CHECK_DEADLOCK FALSE
INVARIANTS
    TypeOK
    OwnSocketsTracked
    ArgsOfThisCall
    NamesWanted
    NoDirectTCP
    DNSHijacked
