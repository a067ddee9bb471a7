SPECIFICATION Spec
CONSTANTS
    Calls = {c1, c2}
    Writes = {a, b}
    Facts = {f}
    MaxRows = 2
    MaxDocs = 3
    MaxMishaps = 1
INVARIANTS ConfirmedOnce WrittenOnce DeletedIsNotRecalled RejectedIsNotRecalled
PROPERTIES ImplementsConsent
SYMMETRY Symmetry
CHECK_DEADLOCK FALSE
