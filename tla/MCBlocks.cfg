CONSTANTS
    p1 = p1
    p2 = p2
    f1 = f1
    f2 = f2
    i1 = i1
    i2 = i2
    Proc = {p1, p2}
    Inode = {i1, i2}
    File = {f1, f2}
    Null = Null
    IpOf <- MCIpOf
    NBlocks = 5
    BSIZE = 2
    NDIRECT = 2
    BPB = 1
    MAXOPBLOCKS = 10
    Sizes = {1, 5}
    Counts = {7}
    Offs = {0, 1}
SPECIFICATION Spec
SYMMETRY Symmetry
INVARIANTS BitmapExact ReadsBack OpFits
