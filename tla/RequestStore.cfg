CONSTANTS
    Request = {r1}
    Subject = {s1, s2}
    Hash = {h1, h2}
    Worker = {w1, w2}
    Block = {b1, b2}
    MaxBlocks = 2
    LeaseTime = 2
    ResultTime = 3
    ClaimTime = 4
    MaxLag = 1
    MaxClock = 7
    NoRow = NoRow
    NoLease = NoLease
SPECIFICATION Spec
INVARIANTS LeaseCoversProcessing AnswerKeepsConfirmed
PROPERTIES ObservationStands 
