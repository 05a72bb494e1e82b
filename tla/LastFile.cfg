SPECIFICATION Spec
SYMMETRY Symmetry
CONSTANTS
    root = root
    left = left
    right = right
    f1 = f1
    f2 = f2
    f3 = f3
    f4 = f4
    g1 = g1
    g2 = g2
    p1 = p1
    p2 = p2
    w1 = w1
    w2 = w2
    Dir <- Dirs
    Above <- Tree
    File <- Files
    In <- Homes
    Root <- Roots
    Group <- Groups
    Copies <- Members
    Plan <- Plans
    Worker <- Workers
    Others <- OneDir
    None = None
    MaxTroubles = 1
INVARIANT SelectionIsExecutable
PROPERTIES LeavesOne TrustedDirectories
CHECK_DEADLOCK FALSE
