CONSTANTS
    a = a
    b = b
    a1 = a1
    a2 = a2
    b1 = b1
    Character = {a, b}
    Rendezvous = {a1, a2, b1}
    With <- MCWith
    Request = {q1, q2, q3}
    Call = {c1, c2}
    DayLimit = 2
    NoAttempt = NoAttempt
    Idle = Idle
SPECIFICATION Spec
SYMMETRY MCSymmetry
CHECK_DEADLOCK FALSE
INVARIANTS PaidOnce AllowanceAccounted OneActivePromise AnswersAreHonest
