SPECIFICATION Spec
CONSTANTS
    t1 = t1
    t2 = t2
    t3 = t3
    t4 = t4
    t5 = t5
    Targets <- MCTargets
    NoTarget = NoTarget
    NoAddr = NoAddr
    Last = 2
    Start <- MCStart
INVARIANTS
    TypeOK
    ForwardInverse
PROPERTY StickyProjection
