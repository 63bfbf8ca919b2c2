CONSTANTS
    Block = {b1, b2}
    MaxBlocks = 2
    Conn = {c1}
SPECIFICATION FairSpec
INVARIANTS ShownIsDurable EndsTruthfully
PROPERTIES RespectsStore ConnectionEnds
