CONSTANTS
    p1 = p1
    p2 = p2
    p3 = p3
    s1 = s1
    s2 = s2
    NoProc = NoProc
    Procs <- MCProcs
    Sessions <- MCSessions

SPECIFICATION Spec
SYMMETRY MCSymmetry

PROPERTY ImplementsGroupSpec
