\* The concurrent Group: fan-outs see a stable membership and every call returns.
CONSTANTS
    p1 = p1
    p2 = p2
    p3 = p3
    s1 = s1
    s2 = s2
    NoProc = NoProc
    Procs <- MCProcs
    Sessions <- MCSessions

SPECIFICATION Spec

PROPERTY FanoutMatchesMembership
PROPERTY EveryCallReturns
