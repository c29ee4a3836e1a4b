CONSTANTS
    t1 = t1
    t2 = t2
    d1 = d1
    d2 = d2
    d3 = d3
    Threads <- MCThreads
    Detectors <- MCDetectors
    UsizeModulus = 4
SPECIFICATION Spec
INVARIANT CountIsPerThreadLive
