CONSTANTS
    p1 = p1
    p2 = p2
    Proc = {p1, p2}
    Null = Null
    Name = {"a", "b"}
    NInode = 3
    NINODE = 3
    NFILE = 1
    NOFILE = 2
    NLINK_MAX = 2
    Mixes <- MCMixes
SPECIFICATION Spec
SYMMETRY Symmetry
INVARIANTS LinksExact RefsExact OrphansHeld NoLockCycle
