SPECIFICATION Spec
CONSTANTS
    r1 = r1
    r2 = r2
    n1 = n1
    n2 = n2
    s1 = s1
    s2 = s2
    Runs <- MCRuns
    Nodes <- MCNodes
    Subs <- MCOneSub
    NodesOf <- MCNodesOf
    None = None
CHECK_DEADLOCK FALSE
INVARIANT NoCacheSavesNothing
