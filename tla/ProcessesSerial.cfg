\* The kernel's sizes; launches, exits and Alt-Fn one at a time.
SPECIFICATION Spec
CONSTANTS
    MaxTerminals = 3
    MaxProcesses = 6
    Statuses = {15}
    Overlap = {}
    MaxSwitches = 0
INVARIANTS
    SerialInv
    ProcessChains
    SlotsExact
    RunningIsMapped
    StacksApart
    HaltReturnsToParent
PROPERTIES
    LaunchTakesFreePid
    RestartKeepsBasePid
    ExitTakesOnlyTop
    ResumesOwnProgram
