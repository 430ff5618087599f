\* Two terminals and good habits: reads return.
SPECIFICATION FairSpec
CONSTANTS
    MaxTerminals = 2
    BufferSize = 3
    TabSize = 2
    NumCols = 1
    EdgeMargin = 4
    Chars = {"a"}
    Keys = {"a", "enter"}
    Requests = {3}
    Habits = {}
    MaxCount = 3
PROPERTIES
    LinesFairSpec
    EnterIsAnswered
