CONSTANTS
    a = a
    b = b
    X = X
    Y = Y
    unreadable = unreadable
    missing = missing
    notrace = notrace
    Names = {a, b}
    Contents = {X, Y}
    Unreadable = unreadable
    Missing = missing
    NoTrace = notrace
    MaxEdits = 2
SPECIFICATION Spec
INVARIANT ValidatedTreeUnchanged
CHECK_DEADLOCK FALSE
