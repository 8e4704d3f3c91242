\* Three requests: two that leave bytes behind and a current one.  Buffers of
\* two and four cells are filled, overrun by one, and partly overwritten.
CONSTANTS
    p1 = p1
    p2 = p2
    p3 = p3
    Posts <- MCPosts
    Nul = Nul
    LedSize = 2
    JwtSize = 4
    Prefix = 1
    Suffix = 1
    TempSize = 3
    MaxBeyond = 1
SPECIFICATION Spec
SYMMETRY MCSymmetry
INVARIANTS AssembledBody TokenEndsUnlessLongerBefore PostInv
