\* Two terminals and good habits: the line discipline.
SPECIFICATION Spec
CONSTANTS
    MaxTerminals = 2
    BufferSize = 3
    TabSize = 2
    NumCols = 1
    EdgeMargin = 4
    Chars = {"a"}
    Keys = {"a", "enter", "tab", "backspace", "ctrl_l"}
    Requests = {3}
    Habits = {"preempt"}
    MaxCount = 3
INVARIANTS
    LineInv
PROPERTIES
    LinesSpec
