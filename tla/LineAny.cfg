\* One terminal, every key at any time, reads of any size.
SPECIFICATION Spec
CONSTANTS
    MaxTerminals = 1
    BufferSize = 3
    TabSize = 2
    NumCols = 2
    EdgeMargin = 1
    Chars = {"a"}
    Keys = {"a", "enter", "tab", "backspace", "shift_backspace", "escape", "ctrl_l"}
    Requests = {2, 5}
    Habits = {"ahead", "edge"}
    MaxCount = 3
INVARIANTS
    TypeInv
