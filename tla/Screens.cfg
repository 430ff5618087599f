SPECIFICATION Spec
CONSTANTS
    Terminal = {1, 2}
    First = 1
    Rows = 2
    Cols = 2
    Blank = 0
    Newline = 10
    Message = 20
    Video = 100
    MaxPuts = 3
    MaxKeys = 3
INVARIANTS TypeInv PagesApart ScreenIsText CursorIsShown
PROPERTY SwitchLosesNothing
CHECK_DEADLOCK FALSE
