\* Backspace at the left edge, on a line that wrapped early.
SPECIFICATION Spec
CONSTANTS
    MaxTerminals = 1
    BufferSize = 3
    TabSize = 2
    NumCols = 3
    EdgeMargin = 1
    Chars = {"a"}
    Keys = {"a", "enter", "backspace"}
    Requests = {3}
    Habits = {"edge"}
    MaxCount = 3
INVARIANTS
    LineHasNoGap
CHECK_DEADLOCK FALSE
