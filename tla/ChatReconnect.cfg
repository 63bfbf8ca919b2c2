CONSTANTS
    a1 = a1
    a2 = a2
    a3 = a3
    r1 = r1
    r2 = r2
    s1 = s1
    s2 = s2
    Nothing = Nothing
    Slots = 1
    Attempt = {a1, a2, a3}
    Request = {r1, r2}
    Subject = {s1, s2}
    RequestOf <- ReconnectRequest
    SubjectOf <- Apart
    Modes <- ReconnectModes
SPECIFICATION Spec
INVARIANTS PaidOnce SlotsConserved RenewedWhileWorking
PROPERTIES RespectsStore
