SPECIFICATION Spec
CONSTANTS
    t1 = t1
    t2 = t2
    Threads <- TwoThreads
    Main = t1
    FDs <- TwoFDs
    Std <- MCStd
    Metas <- TCPOnly
    Wanted <- OneAddress
    Opts <- Defaults
    MaxCalls = 2
    Nothing = Nothing
CHECK_DEADLOCK FALSE
INVARIANT TrafficRedirected
