SPECIFICATION Spec
CONSTANTS
    Workers = {w1, w2}
    Home = home
    NoNode = null
    Directory = directory
    Nodes = {n1, n2, n3}
    d = d
    f = f
    a = a
    b = b
    Zeros = zeros
    Blocks = {a, b, zeros}
    Paths <- MCPaths
    Parent <- MCParent
    Streams <- MCStreams
    MaxFaults = 1
SYMMETRY Symmetry
INVARIANTS
    TypeOK
    AnsweredPutsStay
    ReadsAreWhole
    ReadsFit
