\* As post_assembly: a token longer than its request was posted before.
CONSTANTS
    p1 = p1
    p2 = p2
    p3 = p3
    Posts <- MCPosts
    Nul = Nul
    LedSize = 2
    JwtSize = 4
    Prefix = 1
    Suffix = 1
    TempSize = 3
    MaxBeyond = 1
SPECIFICATION Spec
SYMMETRY MCSymmetry
INVARIANT TokenIsThePosted
