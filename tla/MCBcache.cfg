\* Two threads, fewer buffers than blocks; with four descriptors there is one
\* request at a time, with six there are two.
CONSTANTS
    p1 = p1
    p2 = p2
    Proc = {p1, p2}
    b1 = b1
    b2 = b2
    Buf = {b1, b2}
    k1 = k1
    k2 = k2
    k3 = k3
    Block = {k1, k2, k3}
    Null = Null
    Nums = {4, 6}
    Laps = 1
    MaxPins = 1
SPECIFICATION Spec
SYMMETRY Symmetry
INVARIANTS ReadsLatest NoLostWakeup DescriptorsAccounted
